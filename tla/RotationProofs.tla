------------------------------ MODULE RotationProofs ------------------------------
(***************************************************************************)
(* Theorems about the rotation of an environment: that it implements        *)
(* Revocation, that an honest server is accused only by a command that was  *)
(* overtaken between two readings, that a re-encryption keeps the text, and *)
(* that the journal of intents and the floor tell the truth.                *)
(*                                                                         *)
(* The first part is about chains as such: where epochs start and who left  *)
(* last, before and after one more entry.  Three inductive invariants       *)
(* follow: the shapes of the server's data and of runs, what a run may rely *)
(* on (the promise), and the life of a data key, from the composite it is   *)
(* made for to the intents that name it (the journal).                      *)
(***************************************************************************)
EXTENDS EnvRotation, FiniteSetTheorems, WellFoundedInduction, TLAPS

(***************************************************************************)
(* Chains.                                                                 *)
(***************************************************************************)

Deks == [maker : Machines \cup {"none"}, number : Nat]

\* The entries that start no epoch.
Neutral == {"remove_member", "delete_environment", "checkpoint", "other"}

Entries ==
    {e \in [op : Neutral \cup {"create_environment", "rotate_epoch"}, epoch : Nat, dek : Deks,
            attests : Nat] : e.op = "rotate_epoch" => e.attests = 0}

Begins(e) == e.op \in {"create_environment", "rotate_epoch"}

\* The entries that start an epoch, the last of which names the epoch in force, and
\* where the n-th starts.
StartsIn(c, v) == {i \in 1..v : c[i].op \in {"create_environment", "rotate_epoch"}}

EpochsOf(c, v) == Cardinality(StartsIn(c, v))

StartIn(c, n) == CHOOSE i \in StartsIn(c, Len(c)) : c[i].epoch = n

\* The departures, and the last of them (0 if there is none).
LeavesOf(c, v) == {i \in 1..v : c[i].op = "remove_member"}

LastIn(S) == IF S = {} THEN 0 ELSE CHOOSE i \in S : \A j \in S : j <= i

LastLeave(c, v) == LastIn(LeavesOf(c, v))

\* The environment has not been deleted.
Lives(c, v) == \A i \in 1..v : c[i].op # "delete_environment"

\* One creation, first; then epochs numbered in the order in which they start.
Chained(c) ==
    /\ c \in Seq(Entries) /\ Len(c) \in Nat \ {0}
    /\ \A i \in 1..Len(c) : c[i].op = "create_environment" <=> i = 1
    /\ \A i \in 1..Len(c) : ~Begins(c[i]) \/ i = 1 => c[i].dek = NoDek
    /\ \A i \in StartsIn(c, Len(c)) : c[i].epoch = EpochsOf(c, i)
    /\ \A n \in 1..EpochsOf(c, Len(c)) : \E i \in StartsIn(c, Len(c)) : c[i].epoch = n

(***************************************************************************)
(* Shapes.                                                                 *)
(***************************************************************************)

Modes == {"force", "verify", "rotate"}

\* The composite is being made, sent or asked after.
Composing == {"journal", "send", "wait", "probe"}

\* A new epoch is in force, and the values are being sealed under it.
Sealing == {"push", "notarize"}

\* The wire is to be fetched, or waits for a second look at the chain.
Pulling == {"pull", "ahead"}

\* So it is while a run rescans.
Seals(r) == r.phase \in Sealing \/ (r.phase \in Pulling /\ r.pass # 0)

Outcomes == {"open"} \cup SETTLED_IN \cup SETTLED_OUT

Answers == {"none", "ok", "head-conflict", "refused", "manifest-conflict", "values-conflict"}

Texts == [epoch : Nat, text : Nat, same : BOOLEAN, head : Nat]

Runs == [phase : {"idle", "abort"} \cup Pulling \cup Composing \cup Sealing,
         mode : Modes \cup {"none"},
         baseline : Nat, opened : Nat, view : Nat, seen : [Variables -> Nat], manifest : Nat,
         snapshot : Nat, epoch : Nat, dek : Deks, todo : SUBSET Variables, claimed : SUBSET Variables,
         pass : Nat, attempt : Nat, round : Nat, answer : Answers]

Requests == [from : Machines, declaredHead : Nat, epoch : Nat, dek : Deks, manifest : Nat,
             values : [Variables -> Nat]]

Pushes == [var : Variables, version : Nat, value : Texts]

Intents == [declaredHead : Nat, epoch : Nat, dek : Deks, manifest : Nat, outcome : Outcomes]

Ids == [declaredHead : Nat, dek : Deks]

\* Data the code can hold.
Typed ==
    /\ Chained(chain)
    /\ values \in [Variables -> Seq(Texts)]
    /\ deleted \subseteq Variables
    /\ manifests \in Seq(Ids) /\ Len(manifests) \in Nat \ {0}
    /\ requests \subseteq Requests
    /\ pushes \subseteq Pushes
    /\ deks \in Nat
    /\ run \in [Machines -> Runs]
    /\ intents \in [Machines -> SUBSET Intents]
    /\ reported \in [Machines -> [epoch : Nat, baseline : Nat]]

\* A text that was re-encrypted follows the one it repeats, and every value is
\* sealed under an epoch that has begun, over a head the chain has reached.
ValuesKept ==
    \A v \in Variables : \A n \in 1..Len(values[v]) :
        /\ values[v][n].epoch \in 1..EpochsOf(chain, Len(chain))
        /\ values[v][n].head <= Len(chain)
        /\ values[v][n].same => n > 1 /\ values[v][n].text = values[v][n - 1].text

\* A push on its way repeats the version before it.
PushesRepeat ==
    \A p \in pushes :
        /\ p.version - 1 \in 1..Len(values[p.var])
        /\ p.value.text = values[p.var][p.version - 1].text
        /\ p.value.head <= Len(chain)

\* A manifest declares a head the chain has reached; that of a rotation declares the
\* head before it.
Stands(id) ==
    /\ id.declaredHead <= Len(chain)
    /\ id.dek # NoDek => /\ id.declaredHead < Len(chain)
                         /\ chain[id.declaredHead + 1].op = "rotate_epoch"

ManifestsKept == \A n \in 1..Len(manifests) : Stands(manifests[n])

\* A composite was made on a view of the chain and for the epoch after it.
RequestsGrounded ==
    \A q \in requests : q.declaredHead \in 1..Len(chain)

\* What was fetched is there.
Wire(r) ==
    /\ r.manifest \in 1..Len(manifests) /\ r.snapshot \in 1..Len(chain)
    /\ \A v \in Variables : r.seen[v] <= Len(values[v])

\* After snapshot s, view v of the chain shows neither a new epoch nor a checkpoint, and
\* the environment lives.
Settled(s, v) ==
    /\ \A i \in s + 1..v : chain[i].op \notin {"rotate_epoch", "checkpoint"}
    /\ Lives(chain, v)

\* A rotation, a checkpoint or the end of the environment came after view v.
Overtaken(v) ==
    \E i \in v + 1..Len(chain) :
        chain[i].op \in {"rotate_epoch", "checkpoint", "delete_environment"}

\* What a run in progress has read.
Grounded(r) ==
    /\ r.phase \notin {"idle", "abort"} =>
          /\ r.mode \in Modes
          /\ 1 <= r.opened /\ r.opened <= r.view /\ r.view <= Len(chain)
    /\ \A v \in r.todo : r.seen[v] \in 1..Len(values[v])
    /\ r.phase \in Composing => r.epoch = EpochsOf(chain, r.view) + 1
    /\ Seals(r) => r.epoch \in 1..EpochsOf(chain, Len(chain))
    /\ r.phase = "push" => r.pass # 0
    /\ r.phase \in Pulling => r.todo = {}
    /\ r.claimed # {} =>
          /\ r.phase \in {"push"} \cup Pulling /\ r.pass # 0
          /\ r.epoch < EpochsOf(chain, Len(chain))
          /\ r.phase \in Pulling => r.epoch < EpochsOf(chain, r.view)
    /\ r.phase = "ahead" => Wire(r) /\ Settled(r.snapshot, r.view)
    /\ r.phase = "abort" => Overtaken(r.view)

\* The shapes together.
Shapes ==
    /\ Typed
    /\ ValuesKept
    /\ PushesRepeat
    /\ ManifestsKept
    /\ RequestsGrounded
    /\ \A m \in Machines : Grounded(run[m])

(***************************************************************************)
(* What a run may rely on.                                                 *)
(***************************************************************************)

\* The composite for epoch n with key d has landed after the head h.
LandedAt(h, n, d) == h < Len(chain) /\ chain[h + 1] = Entry("rotate_epoch", n, d)

\* The last departure.
Leave == LastLeave(chain, Len(chain))

\* The epoch in force began after position i.
FencedFrom(i) == StartIn(chain, EpochsOf(chain, Len(chain))) > i

\* No value is sealed under an epoch that began before position i.
SealedFrom(i) == \A v \in Active : StartIn(chain, Latest(v).epoch) > i

\* Either the environment is gone, or whoever left up to position i reads no value.
Safe(i) == Lives(chain, Len(chain)) => FencedFrom(i) /\ SealedFrom(i)

\* What was fetched stands for what is there now, but for values sealed under the epoch
\* of the fetch or a later one.
Fresh(r) ==
    \A v \in Active :
        \/ Latest(v).epoch >= EpochsOf(chain, r.snapshot)
        \/ r.seen[v] # 0 /\ Latest(v).epoch = Seen(r, v).epoch

\* A run that sweeps covers the departures up to its baseline, of which its machine
\* has not reported before (b is the baseline of its last report).
Covers(r, b) ==
    /\ r.phase \notin {"idle", "abort"} /\ r.mode # "rotate" =>
          /\ b < r.baseline
          /\ r.baseline <= r.opened /\ r.baseline <= Leave
    /\ r.phase \notin {"idle", "abort"} /\ r.mode = "verify" =>
          StartIn(chain, EpochsOf(chain, r.opened)) > r.baseline
    /\ Seals(r) /\ r.mode # "rotate" => StartIn(chain, r.epoch) > r.baseline
    /\ r.phase = "notarize" /\ r.mode # "rotate" => Safe(r.baseline)
    /\ r.phase = "ahead" => Fresh(r)

\* A composite answered "ok" is on the chain, right after the head it was signed at.
AnsweredTrue(r) ==
    r.phase = "wait" /\ r.answer = "ok" => LandedAt(r.view, r.epoch, r.dek)

PromiseOf(m) ==
    /\ AnsweredTrue(run[m])
    /\ Covers(run[m], reported[m].baseline)
    /\ reported[m].baseline <= Leave

\* What every run relies on.
Promise == \A m \in Machines : PromiseOf(m)

(***************************************************************************)
(* The life of a data key.                                                 *)
(***************************************************************************)

\* A data key names who made it and was made before now.
Made(m, d) == d.maker = m /\ d.number \in 1..deks

\* Every key on the chain or on its way has been made.
KeysMade ==
    /\ \A i \in 1..Len(chain) : chain[i].dek = NoDek \/ chain[i].dek.number \in 1..deks
    /\ \A q \in requests : Made(q.from, q.dek)

\* A machine signs and journals keys of its own.
KeysOwn(m) ==
    /\ run[m].phase \in Composing => Made(m, run[m].dek)
    /\ \A i \in intents[m] : Made(m, i.dek) /\ i.declaredHead \in 1..Len(chain)

\* A key is on the chain nowhere but after the head its run has signed at, and not
\* before the server has said so or may have said so.
KeyOnChain(m) ==
    LET r == run[m] IN
    \A p \in 1..Len(chain) :
        chain[p].dek = r.dek =>
            /\ r.phase = "probe" \/ (r.phase = "wait" /\ r.answer = "ok")
            /\ p = r.view + 1

\* Of a key in use no request is on its way but the one in progress.
KeyRequested(m) ==
    LET r == run[m] IN
    \A q \in requests :
        q.dek = r.dek =>
            /\ r.phase = "probe" \/ (r.phase = "wait" /\ r.answer = "none")
            /\ q = RequestOf(m)

\* The attempts made with a key in use were made at earlier heads.
KeyJournalled(m) ==
    LET r == run[m] IN
    \A i \in intents[m] :
        i.dek = r.dek =>
            /\ i.epoch = r.epoch /\ i.manifest = r.manifest + 1
            /\ i.declaredHead <= r.view
            /\ i.outcome # "open" \/ r.phase = "journal" => i.declaredHead < r.view

\* What is sent has been journalled, and refused for its head only if that has moved.
KeyInUse(m) ==
    run[m].phase \in Composing =>
        /\ KeyOnChain(m) /\ KeyRequested(m) /\ KeyJournalled(m)
        /\ run[m].phase # "journal" => IntentOf(run[m]) \in intents[m]
        /\ run[m].phase = "wait" /\ run[m].answer = "head-conflict" => run[m].view < Len(chain)

\* An intent and a request for the same key and head are of the same attempt.
SameAttempt(i, q) ==
    i.dek = q.dek /\ i.declaredHead = q.declaredHead =>
        i.epoch = q.epoch /\ i.manifest = q.manifest

\* What an intent says, and why it stays so.
IntentHolds(i) ==
    /\ i.outcome \in SETTLED_IN => LandedAt(i.declaredHead, i.epoch, i.dek)
    /\ i.outcome \in SETTLED_OUT =>
          /\ ~LandedAt(i.declaredHead, i.epoch, i.dek)
          /\ i.declaredHead < Len(chain)
             \/ \A q \in requests : ~(q.dek = i.dek /\ q.declaredHead = i.declaredHead)
    /\ LandedAt(i.declaredHead, i.epoch, i.dek) =>
          i.manifest \in 1..Len(manifests) /\ manifests[i.manifest] = ManifestId(i)

\* The journal of a machine tells the truth, now and after what is on its way arrives.
IntentsHold(m) ==
    \A i \in intents[m] : IntentHolds(i) /\ \A q \in requests : SameAttempt(i, q)

\* A recorded manifest is the accepted one.
Accepted(f) == f.version \in 1..Len(manifests) /\ f.id = manifests[f.version]

\* The journals, the keys they name and the floors.
Journalled ==
    /\ KeysMade
    /\ floors \in [Machines -> [version : Nat, id : Ids]]
    /\ \A m \in Machines :
          KeysOwn(m) /\ KeyInUse(m) /\ IntentsHold(m) /\ Accepted(floors[m])

(***************************************************************************)
(* One more entry.                                                         *)
(***************************************************************************)

\* What one more entry leaves of a sequence.
LEMMA Appended ==
    ASSUME NEW S, NEW s \in Seq(S), NEW x \in S
    PROVE  /\ Append(s, x) \in Seq(S)
           /\ Len(Append(s, x)) = Len(s) + 1
           /\ Len(s) \in Nat
           /\ \A i \in 1..Len(s) : Append(s, x)[i] = s[i] /\ s[i] \in S
           /\ Append(s, x)[Len(s) + 1] = x
OBVIOUS

\* Epoch starts are finitely many, so they can be counted.
LEMMA StartsFinite ==
    ASSUME NEW c, NEW v \in Nat
    PROVE  /\ IsFiniteSet(StartsIn(c, v))
           /\ EpochsOf(c, v) \in Nat
           /\ StartsIn(c, v) \subseteq 1..v
<1>1. IsFiniteSet(1..v)
  BY FS_Interval
<1>2. StartsIn(c, v) \subseteq 1..v
  BY DEF StartsIn
<1>3. IsFiniteSet(StartsIn(c, v))
  BY <1>1, <1>2, FS_Subset
<1>4. QED
  BY <1>2, <1>3, FS_CardinalityType DEF EpochsOf

\* More of the chain has at least as many epochs, and more if one starts in between.
LEMMA StartsGrow ==
    ASSUME NEW c, NEW v \in Nat, NEW w \in Nat, v <= w
    PROVE  /\ EpochsOf(c, v) <= EpochsOf(c, w)
           /\ \A i \in StartsIn(c, w) : i > v => EpochsOf(c, v) < EpochsOf(c, w)
<1>1. IsFiniteSet(StartsIn(c, w)) /\ IsFiniteSet(StartsIn(c, v))
  BY StartsFinite
<1>2. StartsIn(c, v) \subseteq StartsIn(c, w)
  BY DEF StartsIn
<1>3. EpochsOf(c, v) <= EpochsOf(c, w)
  BY <1>1, <1>2, FS_Subset DEF EpochsOf
<1>4. ASSUME NEW i \in StartsIn(c, w), i > v
      PROVE  EpochsOf(c, v) < EpochsOf(c, w)
  <2>1. i \in StartsIn(c, w) /\ i \notin StartsIn(c, v)
    BY <1>4 DEF StartsIn
  <2>2. EpochsOf(c, v) # EpochsOf(c, w)
    BY <1>1, <1>2, <2>1, FS_Subset DEF EpochsOf
  <2>3. EpochsOf(c, v) \in Nat /\ EpochsOf(c, w) \in Nat
    BY StartsFinite
  <2>4. QED
    BY <1>3, <2>2, <2>3
<1>5. QED
  BY <1>3, <1>4

\* The epoch starts of what was there stay; one more entry starts an epoch or does not.
LEMMA StartsAfter ==
    ASSUME NEW c \in Seq(Entries), NEW e \in Entries
    PROVE  /\ \A v \in 0..Len(c) : /\ StartsIn(Append(c, e), v) = StartsIn(c, v)
                                   /\ EpochsOf(Append(c, e), v) = EpochsOf(c, v)
           /\ Begins(e) =>
                 /\ StartsIn(Append(c, e), Len(c) + 1) = StartsIn(c, Len(c)) \cup {Len(c) + 1}
                 /\ EpochsOf(Append(c, e), Len(c) + 1) = EpochsOf(c, Len(c)) + 1
           /\ ~Begins(e) =>
                 /\ StartsIn(Append(c, e), Len(c) + 1) = StartsIn(c, Len(c))
                 /\ EpochsOf(Append(c, e), Len(c) + 1) = EpochsOf(c, Len(c))
<1> DEFINE d == Append(c, e)
<1>1. /\ Len(c) \in Nat /\ d[Len(c) + 1] = e
      /\ \A i \in 1..Len(c) : d[i] = c[i]
  BY Appended
<1> HIDE DEF d
<1>2. ASSUME NEW v \in 0..Len(c)
      PROVE  /\ StartsIn(d, v) = StartsIn(c, v)
             /\ EpochsOf(d, v) = EpochsOf(c, v)
  <2>1. \A i \in 1..v : d[i] = c[i]
    BY <1>1
  <2>2. StartsIn(d, v) = StartsIn(c, v)
    BY <2>1 DEF StartsIn
  <2>3. QED
    BY <2>2 DEF EpochsOf
<1>3. ASSUME Begins(e)
      PROVE  /\ StartsIn(d, Len(c) + 1) = StartsIn(c, Len(c)) \cup {Len(c) + 1}
             /\ EpochsOf(d, Len(c) + 1) = EpochsOf(c, Len(c)) + 1
  <2>1. StartsIn(d, Len(c) + 1) = StartsIn(c, Len(c)) \cup {Len(c) + 1}
    BY <1>1, <1>3 DEF StartsIn, Begins
  <2>2. IsFiniteSet(StartsIn(c, Len(c))) /\ Len(c) + 1 \notin StartsIn(c, Len(c))
    <3>1. StartsIn(c, Len(c)) \subseteq 1..Len(c)
      BY DEF StartsIn
    <3>2. QED
      BY <1>1, <3>1, StartsFinite
  <2>3. QED
    BY <2>1, <2>2, FS_AddElement DEF EpochsOf
<1>4. ASSUME ~Begins(e)
      PROVE  /\ StartsIn(d, Len(c) + 1) = StartsIn(c, Len(c))
             /\ EpochsOf(d, Len(c) + 1) = EpochsOf(c, Len(c))
  <2>1. StartsIn(d, Len(c) + 1) = StartsIn(c, Len(c))
    BY <1>1, <1>4 DEF StartsIn, Begins
  <2>2. QED
    BY <2>1 DEF EpochsOf
<1>5. QED
  BY <1>2, <1>3, <1>4 DEF d

\* An epoch starts in one place only, and StartIn finds it.
LEMMA StartFound ==
    ASSUME NEW c, Chained(c)
    PROVE  /\ \A i, j \in StartsIn(c, Len(c)) : c[i].epoch = c[j].epoch => i = j
           /\ \A i \in StartsIn(c, Len(c)) : StartIn(c, c[i].epoch) = i
           /\ \A n \in 1..EpochsOf(c, Len(c)) :
                 /\ StartIn(c, n) \in StartsIn(c, Len(c))
                 /\ StartIn(c, n) \in 1..Len(c)
                 /\ c[StartIn(c, n)].epoch = n
                 /\ EpochsOf(c, StartIn(c, n)) = n
<1>1. /\ Len(c) \in Nat
      /\ \A i \in StartsIn(c, Len(c)) : i \in 1..Len(c) /\ i \in Nat /\ c[i].epoch = EpochsOf(c, i)
  BY DEF Chained, StartsIn
<1>2. ASSUME NEW i \in StartsIn(c, Len(c)), NEW j \in StartsIn(c, Len(c)), i < j
      PROVE  c[i].epoch # c[j].epoch
  <2>1. i \in Nat /\ j \in Nat /\ j \in StartsIn(c, j)
    BY <1>1 DEF StartsIn
  <2>2. EpochsOf(c, i) < EpochsOf(c, j)
    BY <1>2, <2>1, StartsGrow
  <2>3. EpochsOf(c, i) \in Nat /\ EpochsOf(c, j) \in Nat
    BY <2>1, StartsFinite
  <2>4. QED
    BY <1>1, <2>2, <2>3
<1>3. ASSUME NEW i \in StartsIn(c, Len(c)), NEW j \in StartsIn(c, Len(c)), c[i].epoch = c[j].epoch
      PROVE  i = j
  BY <1>1, <1>2, <1>3
<1>4. ASSUME NEW i \in StartsIn(c, Len(c))
      PROVE  StartIn(c, c[i].epoch) = i
  <2>1. \A j \in StartsIn(c, Len(c)) : c[j].epoch = c[i].epoch <=> j = i
    BY <1>3
  <2>2. QED
    BY <2>1 DEF StartIn
<1>5. ASSUME NEW n \in 1..EpochsOf(c, Len(c))
      PROVE  /\ StartIn(c, n) \in StartsIn(c, Len(c))
             /\ StartIn(c, n) \in 1..Len(c)
             /\ c[StartIn(c, n)].epoch = n
             /\ EpochsOf(c, StartIn(c, n)) = n
  <2>1. PICK i \in StartsIn(c, Len(c)) : c[i].epoch = n
    BY DEF Chained
  <2>2. StartIn(c, n) = i
    BY <1>4, <2>1
  <2>3. QED
    BY <1>1, <2>1, <2>2
<1>6. QED
  BY <1>3, <1>4, <1>5

\* Later epochs start later; the epoch of a stretch of the chain starts inside it, and
\* whatever starts after it has a higher number.
LEMMA StartsOrdered ==
    ASSUME NEW c, Chained(c)
    PROVE  /\ \A m, n \in 1..EpochsOf(c, Len(c)) : m <= n => StartIn(c, m) <= StartIn(c, n)
           /\ \A v \in 1..Len(c) :
                 /\ EpochsOf(c, v) \in 1..EpochsOf(c, Len(c))
                 /\ StartIn(c, EpochsOf(c, v)) <= v
<1> USE DEF Chained
<1>1. Len(c) \in Nat
  OBVIOUS
<1>2. ASSUME NEW m \in 1..EpochsOf(c, Len(c)), NEW n \in 1..EpochsOf(c, Len(c)), m <= n
      PROVE  StartIn(c, m) <= StartIn(c, n)
  <2>1. /\ StartIn(c, m) \in 1..Len(c) /\ EpochsOf(c, StartIn(c, m)) = m
        /\ StartIn(c, n) \in 1..Len(c) /\ EpochsOf(c, StartIn(c, n)) = n
        /\ StartIn(c, m) \in StartsIn(c, Len(c))
    BY StartFound
  <2>2. PICK i, j : i = StartIn(c, m) /\ j = StartIn(c, n)
    OBVIOUS
  <2>3. SUFFICES ASSUME j < i PROVE FALSE
    BY <2>1, <2>2
  <2>4. i \in StartsIn(c, i) /\ i \in Nat /\ j \in Nat
    BY <2>1, <2>2 DEF StartsIn
  <2>5. n < m
    BY <2>1, <2>2, <2>3, <2>4, StartsGrow
  <2>6. EpochsOf(c, Len(c)) \in Nat
    BY <1>1, StartsFinite
  <2>7. QED
    BY <1>2, <2>5, <2>6
<1>3. ASSUME NEW v \in 1..Len(c)
      PROVE  /\ EpochsOf(c, v) \in 1..EpochsOf(c, Len(c))
             /\ StartIn(c, EpochsOf(c, v)) <= v
  <2>1. v \in Nat /\ v <= Len(c) /\ 1 \in StartsIn(c, v)
    BY <1>1 DEF StartsIn
  <2>2. EpochsOf(c, 0) < EpochsOf(c, v) /\ EpochsOf(c, v) <= EpochsOf(c, Len(c))
    BY <1>1, <2>1, StartsGrow
  <2>3. EpochsOf(c, v) \in Nat /\ EpochsOf(c, Len(c)) \in Nat /\ EpochsOf(c, 0) \in Nat
    BY <1>1, <2>1, StartsFinite
  <2>4. EpochsOf(c, v) \in 1..EpochsOf(c, Len(c))
    BY <2>2, <2>3
  <2>5. PICK i : i = StartIn(c, EpochsOf(c, v))
    OBVIOUS
  <2>6. i \in 1..Len(c) /\ i \in StartsIn(c, Len(c)) /\ EpochsOf(c, i) = EpochsOf(c, v)
    BY <2>4, <2>5, StartFound
  <2>7. SUFFICES ASSUME v < i PROVE FALSE
    BY <2>1, <2>4, <2>5, <2>6
  <2>8. i \in StartsIn(c, i) /\ i \in Nat
    BY <1>1, <2>6 DEF StartsIn
  <2>9. EpochsOf(c, v) < EpochsOf(c, i)
    BY <2>1, <2>7, <2>8, StartsGrow
  <2>10. QED
    BY <2>3, <2>6, <2>9
<1>4. QED
  BY <1>2, <1>3

\* A set of positions that is not empty has a last one.
LEMMA LastOf ==
    ASSUME NEW n \in Nat, NEW S, S \subseteq 0..n, S # {}
    PROVE  \E m \in S : \A k \in S : k <= m
<1>1. PICK order, F : order = StrictSubsetOrdering(Nat) /\ F = FiniteSubsetsOf(Nat)
  OBVIOUS
<1>2. PICK T : T = {k..n : k \in S}
  OBVIOUS
<1>3. T # {} /\ T \subseteq F
  <2>1. \A k \in 0..n : IsFiniteSet(k..n) /\ k..n \subseteq Nat
    BY FS_Interval
  <2>2. QED
    BY <1>1, <1>2, <2>1 DEF FiniteSubsetsOf
<1>4. IsWellFoundedOn(order, F)
  BY <1>1, FS_StrictSubsetOrderingWellFounded
<1>5. PICK x \in T : \A y \in T : ~(<<y, x>> \in order)
  BY <1>3, <1>4, WFMin
<1>6. PICK m \in S : x = m..n
  BY <1>2
<1>7. ASSUME NEW k \in S, ~(k <= m) PROVE FALSE
  <2>1. k..n \in T /\ k..n \subseteq m..n /\ k..n # m..n /\ k..n \subseteq Nat /\ m..n \subseteq Nat
    <3>1. k \in Nat /\ m \in Nat /\ m \in m..n /\ m \notin k..n
      BY <1>7
    <3>2. QED
      BY <1>2, <3>1, <1>7
  <2>2. <<k..n, x>> \in order
    BY <1>1, <1>6, <2>1 DEF StrictSubsetOrdering
  <2>3. QED
    BY <1>5, <2>1, <2>2
<1>8. QED
  BY <1>7

\* The last departure is one, none comes after it, and 0 stands for none.
LEMMA LastLeaveIs ==
    ASSUME NEW c, NEW v \in Nat
    PROVE  /\ LastLeave(c, v) \in 0..v
           /\ LeavesOf(c, v) = {} => LastLeave(c, v) = 0
           /\ LeavesOf(c, v) # {} => LastLeave(c, v) \in LeavesOf(c, v)
           /\ \A j \in LeavesOf(c, v) : j <= LastLeave(c, v)
<1>1. LeavesOf(c, v) \subseteq 1..v
  BY DEF LeavesOf
<1>2. CASE LeavesOf(c, v) = {}
  BY <1>2 DEF LastLeave, LastIn
<1>3. CASE LeavesOf(c, v) # {}
  <2>1. \E m \in LeavesOf(c, v) : \A k \in LeavesOf(c, v) : k <= m
    <3>1. LeavesOf(c, v) \subseteq 0..v
      BY <1>1
    <3>2. QED
      BY <1>3, <3>1, LastOf
  <2>2. /\ LastLeave(c, v) \in LeavesOf(c, v)
        /\ \A j \in LeavesOf(c, v) : j <= LastLeave(c, v)
    BY <1>3, <2>1 DEF LastLeave, LastIn
  <2>3. QED
    BY <1>1, <1>3, <2>2
<1>4. QED
  BY <1>2, <1>3

\* One more entry is the last departure, or changes nothing about it.
LEMMA LeaveAfter ==
    ASSUME NEW c \in Seq(Entries), NEW e \in Entries
    PROVE  /\ e.op = "remove_member" => LastLeave(Append(c, e), Len(c) + 1) = Len(c) + 1
           /\ e.op # "remove_member" => LastLeave(Append(c, e), Len(c) + 1) = LastLeave(c, Len(c))
<1> DEFINE d == Append(c, e)
<1>1. /\ Len(c) \in Nat /\ d[Len(c) + 1] = e
      /\ \A i \in 1..Len(c) : d[i] = c[i]
  BY Appended
<1> HIDE DEF d
<1>2. ASSUME e.op = "remove_member"
      PROVE  LastLeave(d, Len(c) + 1) = Len(c) + 1
  <2>1. Len(c) + 1 \in LeavesOf(d, Len(c) + 1)
    BY <1>1, <1>2 DEF LeavesOf
  <2>2. LastLeave(d, Len(c) + 1) \in 0..Len(c) + 1 /\ Len(c) + 1 <= LastLeave(d, Len(c) + 1)
    BY <1>1, <2>1, LastLeaveIs
  <2>3. QED
    BY <1>1, <2>2
<1>3. ASSUME e.op # "remove_member"
      PROVE  LastLeave(d, Len(c) + 1) = LastLeave(c, Len(c))
  <2>1. LeavesOf(d, Len(c) + 1) = LeavesOf(c, Len(c))
    BY <1>1, <1>3 DEF LeavesOf
  <2>2. QED
    BY <2>1 DEF LastLeave
<1>4. QED
  BY <1>2, <1>3 DEF d

\* The environment lives on unless the entry deletes it.
LEMMA LivesAfter ==
    ASSUME NEW c \in Seq(Entries), NEW e \in Entries
    PROVE  Lives(Append(c, e), Len(c) + 1) <=> Lives(c, Len(c)) /\ e.op # "delete_environment"
<1> DEFINE d == Append(c, e)
<1>1. /\ Len(c) \in Nat /\ d[Len(c) + 1] = e
      /\ \A i \in 1..Len(c) : d[i] = c[i]
  BY Appended
<1> HIDE DEF d
<1>2. 1..Len(c) + 1 = 1..Len(c) \cup {Len(c) + 1}
  BY <1>1
<1>3. QED
  <2>1. Lives(d, Len(c) + 1) <=> Lives(c, Len(c)) /\ e.op # "delete_environment"
    BY <1>1, <1>2 DEF Lives
  <2>2. QED
    BY <2>1 DEF d

\* A chain that is in order stays so, and no epoch start moves, when an entry that
\* starts nothing or the start of the next epoch is added.
LEMMA ChainedAfter ==
    ASSUME NEW c, Chained(c), NEW e \in Entries,
           \/ e.op \in Neutral /\ e.dek = NoDek
           \/ e.op = "rotate_epoch" /\ e.epoch = EpochsOf(c, Len(c)) + 1
    PROVE  /\ Chained(Append(c, e))
           /\ \A n \in 1..EpochsOf(c, Len(c)) : StartIn(Append(c, e), n) = StartIn(c, n)
           /\ Begins(e) => StartIn(Append(c, e), EpochsOf(c, Len(c)) + 1) = Len(c) + 1
<1> DEFINE d == Append(c, e)
           l == Len(c)
<1>1. c \in Seq(Entries) /\ l \in Nat \ {0}
  BY DEF Chained
<1>2. /\ d \in Seq(Entries) /\ Len(d) = l + 1
      /\ d[l + 1] = e
      /\ \A i \in 1..l : d[i] = c[i] /\ c[i] \in Entries
  BY <1>1, Appended
<1>3. /\ \A v \in 0..l : StartsIn(d, v) = StartsIn(c, v) /\ EpochsOf(d, v) = EpochsOf(c, v)
      /\ Begins(e) => /\ StartsIn(d, l + 1) = StartsIn(c, l) \cup {l + 1}
                      /\ EpochsOf(d, l + 1) = EpochsOf(c, l) + 1
      /\ ~Begins(e) => /\ StartsIn(d, l + 1) = StartsIn(c, l)
                       /\ EpochsOf(d, l + 1) = EpochsOf(c, l)
  BY <1>1, StartsAfter
<1>4. EpochsOf(c, l) \in Nat
  BY <1>1, StartsFinite
<1>5. 1..l + 1 = 1..l \cup {l + 1}
  BY <1>1
<1>6. /\ Begins(e) <=> e.op = "rotate_epoch"
      /\ Begins(e) => e.epoch = EpochsOf(c, l) + 1
      /\ ~Begins(e) => e.dek = NoDek
  BY DEF Begins, Neutral
<1>7. StartsIn(c, l) \subseteq 1..l
  BY DEF StartsIn
<1> HIDE DEF d
<1>8. Chained(d)
  <2>1. \A i \in 1..l + 1 : d[i].op = "create_environment" <=> i = 1
    <3>1. \A i \in 1..l : c[i].op = "create_environment" <=> i = 1
      BY DEF Chained
    <3>2. e.op # "create_environment" /\ l + 1 # 1
      BY <1>1 DEF Neutral
    <3>3. QED
      BY <1>1, <1>2, <1>5, <3>1, <3>2
  <2>2. \A i \in 1..l + 1 : ~Begins(d[i]) \/ i = 1 => d[i].dek = NoDek
    <3>1. \A i \in 1..l : ~Begins(c[i]) \/ i = 1 => c[i].dek = NoDek
      BY DEF Chained
    <3>2. ~Begins(e) => e.dek = NoDek
      BY <1>6
    <3>3. QED
      BY <1>1, <1>2, <1>5, <3>1, <3>2
  <2>3. \A i \in StartsIn(d, l + 1) : d[i].epoch = EpochsOf(d, i)
    <3>1. \A i \in StartsIn(c, l) : c[i].epoch = EpochsOf(c, i)
      BY DEF Chained
    <3>2. \A i \in StartsIn(c, l) : d[i].epoch = EpochsOf(d, i)
      BY <1>1, <1>2, <1>3, <1>7, <3>1
    <3>3. Begins(e) => d[l + 1].epoch = EpochsOf(d, l + 1)
      BY <1>2, <1>3, <1>6
    <3>4. QED
      BY <1>3, <3>2, <3>3
  <2>4. \A n \in 1..EpochsOf(d, l + 1) : \E i \in StartsIn(d, l + 1) : d[i].epoch = n
    <3>1. \A n \in 1..EpochsOf(c, l) : \E i \in StartsIn(c, l) : d[i].epoch = n
      BY <1>2, <1>7 DEF Chained
    <3>2. CASE ~Begins(e)
      BY <1>3, <3>1, <3>2
    <3>3. CASE Begins(e)
      <4>1. d[l + 1].epoch = EpochsOf(c, l) + 1 /\ l + 1 \in StartsIn(d, l + 1)
        <5>1. StartsIn(d, l + 1) = StartsIn(c, l) \cup {l + 1}
          BY <1>3, <3>3
        <5>2. QED
          BY <1>2, <1>6, <3>3, <5>1
      <4>2. EpochsOf(d, l + 1) = EpochsOf(c, l) + 1 /\ StartsIn(c, l) \subseteq StartsIn(d, l + 1)
        BY <1>3, <3>3
      <4>3. 1..EpochsOf(c, l) + 1 = 1..EpochsOf(c, l) \cup {EpochsOf(c, l) + 1}
        BY <1>4
      <4>4. QED
        BY <3>1, <4>1, <4>2, <4>3
    <3>4. QED
      BY <3>2, <3>3
  <2>5. QED
    BY <1>1, <1>2, <2>1, <2>2, <2>3, <2>4 DEF Chained
<1>9. ASSUME NEW n \in 1..EpochsOf(c, l)
      PROVE  StartIn(d, n) = StartIn(c, n)
  <2>1. PICK i : i = StartIn(c, n)
    OBVIOUS
  <2>2. i \in StartsIn(c, l) /\ i \in 1..l /\ c[i].epoch = n
    BY <2>1, StartFound
  <2>3. i \in StartsIn(d, l + 1) /\ d[i].epoch = n
    BY <1>2, <1>3, <2>2
  <2>4. StartIn(d, n) = i
    BY <1>2, <1>8, <2>3, StartFound
  <2>5. QED
    BY <2>1, <2>4
<1>10. ASSUME Begins(e)
       PROVE  StartIn(d, EpochsOf(c, l) + 1) = l + 1
  <2>1. l + 1 \in StartsIn(d, l + 1) /\ d[l + 1].epoch = EpochsOf(c, l) + 1
    BY <1>2, <1>3, <1>6, <1>10
  <2>2. QED
    BY <1>2, <1>8, <2>1, StartFound
<1>11. QED
  BY <1>8, <1>9, <1>10 DEF d

(***************************************************************************)
(* The model's operators, read as operators on the chain.                  *)
(***************************************************************************)

\* What the views of EnvRotation are.
LEMMA Reading ==
    /\ HeadSeq = Len(chain)
    /\ \A v : /\ EpochStarts(v) = StartsIn(chain, v)
              /\ EpochAt(v) = EpochsOf(chain, v)
              /\ EpochStart(v) = StartIn(chain, v)
              /\ Baseline(v) = LastLeave(chain, v)
              /\ LiveAt(v) <=> Lives(chain, v)
BY DEF HeadSeq, EpochStarts, StartsIn, EpochAt, EpochsOf, EpochStart, StartIn, Baseline,
       LastLeave, LastIn, LeavesOf, LiveAt, Lives

\* What a chain in order has: a head, and an epoch in force that starts on it.
LEMMA HeadIs ==
    ASSUME Chained(chain)
    PROVE  /\ Len(chain) \in Nat \ {0} /\ chain \in Seq(Entries)
           /\ EpochsOf(chain, Len(chain)) \in Nat \ {0}
           /\ \A v \in 1..Len(chain) : EpochsOf(chain, v) \in 1..EpochsOf(chain, Len(chain))
<1>1. Len(chain) \in Nat \ {0} /\ chain \in Seq(Entries)
  BY DEF Chained
<1>2. EpochsOf(chain, Len(chain)) \in Nat
  BY <1>1, StartsFinite
<1>3. \A v \in 1..Len(chain) : EpochsOf(chain, v) \in 1..EpochsOf(chain, Len(chain))
  BY StartsOrdered
<1>4. QED
  BY <1>1, <1>2, <1>3

\* What a pull reads are the numbers of versions that exist.
LEMMA ServedIs ==
    ASSUME Typed
    PROVE  /\ Served \in [Variables -> Nat]
           /\ \A v \in Active : /\ v \in Variables /\ Served[v] = Len(values[v])
                                /\ Len(values[v]) \in Nat \ {0}
           /\ \A v \in Variables : Served[v] <= Len(values[v])
           /\ Active \subseteq Variables
<1>1. \A v \in Variables : values[v] \in Seq(Texts) /\ Len(values[v]) \in Nat
                           /\ (values[v] # <<>> => Len(values[v]) # 0)
  BY DEF Typed
<1>2. QED
  BY <1>1 DEF Served, Active

\* What is stale, or opens, has been brought, and what was brought is a version.
LEMMA BroughtIs ==
    ASSUME Typed, NEW r \in Runs, Wire(r)
    PROVE  /\ Brought(r) \subseteq Variables
           /\ \A v \in Brought(r) : r.seen[v] \in 1..Len(values[v]) /\ Seen(r, v) \in Texts
           /\ \A n : StaleIn(r, n) \subseteq Brought(r)
           /\ \A m, vs : Openable(m, r, vs) \subseteq vs
<1>1. r.seen \in [Variables -> Nat] /\ \A v \in Variables : r.seen[v] <= Len(values[v])
  BY DEF Runs, Wire
<1>2. \A v \in Variables : values[v] \in Seq(Texts) /\ Len(values[v]) \in Nat
  BY DEF Typed
<1>3. \A v \in Brought(r) : v \in Variables /\ r.seen[v] \in 1..Len(values[v])
  BY <1>1, <1>2 DEF Brought
<1>4. QED
  BY <1>2, <1>3 DEF Brought, Seen, StaleIn, Openable

\* The latest checkpoint of a view: no epoch and no checkpoint came after it, so the
\* epoch in force is its own.
LEMMA LatestCheckpointIs ==
    ASSUME Chained(chain), NEW v \in 1..Len(chain)
    PROVE  /\ LatestCheckpoint(v) \in 1..v
           /\ chain[LatestCheckpoint(v)].op \in {"create_environment", "rotate_epoch", "checkpoint"}
           /\ \A i \in LatestCheckpoint(v) + 1..v : chain[i].op \notin {"rotate_epoch", "checkpoint"}
           /\ EpochsOf(chain, LatestCheckpoint(v)) = EpochsOf(chain, v)
<1>1. /\ Len(chain) \in Nat /\ v \in Nat \ {0}
      /\ chain[1].op = "create_environment"
      /\ \A i \in 1..v : chain[i].op = "create_environment" => i = 1
  BY DEF Chained
<1>2. PICK S : S = {i \in 1..v : chain[i].op \in {"create_environment", "rotate_epoch", "checkpoint"}}
  OBVIOUS
<1>3. S # {} /\ S \subseteq 0..v
  BY <1>1, <1>2
<1>4. PICK k \in S : \A j \in S : j <= k
  BY <1>1, <1>3, LastOf
<1>5. /\ k \in 1..v /\ chain[k].op \in {"create_environment", "rotate_epoch", "checkpoint"}
      /\ \A j \in k + 1..v : chain[j].op \notin {"rotate_epoch", "checkpoint"}
  <2>1. \A j \in k + 1..v : j \in 1..v /\ ~(j <= k)
    BY <1>2, <1>4
  <2>2. QED
    BY <1>2, <1>4, <2>1
<1>6. PICK l : l = LatestCheckpoint(v)
  OBVIOUS
<1>7. /\ l \in 1..v /\ chain[l].op \in {"create_environment", "rotate_epoch", "checkpoint"}
      /\ \A j \in l + 1..v : chain[j].op \notin {"rotate_epoch", "checkpoint"}
  BY <1>5, <1>6 DEF LatestCheckpoint
<1>8. StartsIn(chain, l) = StartsIn(chain, v)
  <2>1. \A i \in 1..v : i \in 1..l \/ i \in l + 1..v
    BY <1>1, <1>7
  <2>2. \A i \in l + 1..v : i # 1 /\ i \in 1..v
    BY <1>1, <1>7
  <2>3. \A i \in l + 1..v : chain[i].op \notin {"create_environment", "rotate_epoch"}
    BY <1>1, <1>7, <2>2
  <2>4. 1..l \subseteq 1..v
    BY <1>1, <1>7
  <2>5. QED
    BY <2>1, <2>3, <2>4 DEF StartsIn
<1>9. QED
  BY <1>6, <1>7, <1>8 DEF EpochsOf

(***************************************************************************)
(* What one step does to the data, for every action.                       *)
(***************************************************************************)

\* An entry the chain takes: one that starts nothing, or the next epoch.
Fits(e) ==
    /\ e \in Entries
    /\ \/ e.op \in Neutral /\ e.dek = NoDek
       \/ e.op = "rotate_epoch" /\ e.epoch = EpochsOf(chain, Len(chain)) + 1

\* A value the server takes under the epoch in force.
Follows(v, x) ==
    /\ x \in Texts /\ x.epoch = EpochsOf(chain, Len(chain))
    /\ x.same => Len(values[v]) > 0 /\ x.text = values[v][Len(values[v])].text
    /\ x.head <= Len(chain)

EntryAdded(e) ==
    /\ Fits(e)
    /\ e.op = "remove_member" => Lives(chain, Len(chain))
    /\ chain' = Append(chain, e) /\ values' = values

TextAdded(v, x) ==
    Follows(v, x) /\ chain' = chain /\ values' = [values EXCEPT ![v] = Append(@, x)]

\* A manifest over a head the chain has reached, or the one a rotation brings.
ManifestFits(id) ==
    /\ id \in Ids /\ id.declaredHead <= Len(chain)
    /\ id.dek # NoDek => /\ id.declaredHead = Len(chain)
                         /\ \E e : EntryAdded(e) /\ e.op = "rotate_epoch"

\* How the data of the server moves.
ServerMoves ==
    /\ \/ UNCHANGED <<chain, values>>
       \/ \E e : EntryAdded(e)
       \/ \E v \in Variables : \E x : TextAdded(v, x)
    /\ deleted' \subseteq Variables /\ deleted \subseteq deleted'
    /\ deleted' = deleted \/ UNCHANGED <<chain, values>>
    /\ manifests' = manifests \/ \E id : ManifestFits(id) /\ manifests' = Append(manifests, id)

PushFits(p) ==
    /\ p \in Pushes
    /\ p.version - 1 \in 1..Len(values[p.var])
    /\ p.value.text = values[p.var][p.version - 1].text
    /\ p.value.head <= Len(chain)

QueuesMove ==
    /\ \A q \in requests' : q \in requests \/ (q \in Requests /\ q.declaredHead \in 1..Len(chain))
    /\ \A p \in pushes' : p \in pushes \/ PushFits(p)
    /\ deks' \in Nat

ClientsMove ==
    /\ run' = run \/ \E m \in Machines : \E r \in Runs :
                        run' = [run EXCEPT ![m] = r] /\ Grounded(r)
    /\ intents' \in [Machines -> SUBSET Intents]
    /\ reported' \in [Machines -> [epoch : Nat, baseline : Nat]]

Moves == ServerMoves /\ QueuesMove /\ ClientsMove

\* An idle run is well formed and has read nothing.
LEMMA IdleGrounded == Idle \in Runs /\ Grounded(Idle)
BY DEF Idle, Runs, NoDek, Deks, Answers, Grounded, Composing, Sealing, Pulling, Seals

\* An intent names what its run is about.
LEMMA IntentTyped ==
    ASSUME NEW r \in Runs
    PROVE  /\ IntentOf(r) \in Intents
           /\ \A o \in Outcomes : [IntentOf(r) EXCEPT !.outcome = o] \in Intents
BY DEF IntentOf, Runs, Intents, Outcomes

\* Settling writes well-formed intents.
LEMMA SettlesTyped ==
    ASSUME Typed, NEW m \in Machines, NEW o \in Outcomes, Settles(m, o)
    PROVE  intents' \in [Machines -> SUBSET Intents]
<1>1. run[m] \in Runs /\ intents \in [Machines -> SUBSET Intents]
  BY DEF Typed
<1>2. [IntentOf(run[m]) EXCEPT !.outcome = o] \in Intents
  BY <1>1, IntentTyped
<1>3. Resolved(m, IntentOf(run[m]), o) \subseteq Intents
  BY <1>1, <1>2 DEF Resolved
<1>4. intents' = intents \/ intents' = [intents EXCEPT ![m] = Resolved(m, IntentOf(run[m]), o)]
  BY DEF Settles
<1>5. QED
  BY <1>1, <1>3, <1>4

\* Reconciling writes well-formed intents.
LEMMA ReconcileTyped ==
    ASSUME Typed, NEW m \in Machines, ReconcileIntents(m)
    PROVE  intents' \in [Machines -> SUBSET Intents]
<1>1. intents \in [Machines -> SUBSET Intents]
  BY DEF Typed
<1>2. ASSUME NEW i \in Intents
      PROVE  Reconciled(i) \in Intents
  <2>1. IntentEntryState(i) \in {"pending", "accepted", "rejected"}
    BY DEF IntentEntryState
  <2>2. \A o \in Outcomes : [i EXCEPT !.outcome = o] \in Intents
    BY DEF Intents
  <2>3. QED
    BY <2>1, <2>2 DEF Reconciled, Outcomes, SETTLED_IN, SETTLED_OUT
<1>3. intents' = [intents EXCEPT ![m] = {Reconciled(i) : i \in intents[m]}]
  BY DEF ReconcileIntents
<1>4. {Reconciled(i) : i \in intents[m]} \subseteq Intents
  BY <1>1, <1>2
<1>5. QED
  BY <1>1, <1>3, <1>4

(***************************************************************************)
(* The shapes are kept.                                                    *)
(***************************************************************************)

\* Whatever is added, what the chain had keeps its place and its meaning.
LEMMA ChainGrows ==
    ASSUME Chained(chain), ServerMoves
    PROVE  /\ Chained(chain')
           /\ Len(chain) \in Nat \ {0} /\ Len(chain') \in Nat \ {0} /\ Len(chain) <= Len(chain')
           /\ \A i \in 1..Len(chain) : chain'[i] = chain[i]
           /\ \A v \in 0..Len(chain) : EpochsOf(chain', v) = EpochsOf(chain, v)
           /\ EpochsOf(chain, Len(chain)) \in Nat \ {0}
           /\ EpochsOf(chain', Len(chain')) \in Nat \ {0}
           /\ EpochsOf(chain, Len(chain)) <= EpochsOf(chain', Len(chain'))
           /\ \A n \in 1..EpochsOf(chain, Len(chain)) : StartIn(chain', n) = StartIn(chain, n)
<1>1. /\ Len(chain) \in Nat \ {0} /\ chain \in Seq(Entries)
      /\ EpochsOf(chain, Len(chain)) \in Nat \ {0}
  BY HeadIs
<1>2. CASE chain' = chain
  BY <1>1, <1>2
<1>3. ASSUME NEW e, EntryAdded(e)
      PROVE  /\ Chained(chain')
             /\ Len(chain') = Len(chain) + 1
             /\ \A i \in 1..Len(chain) : chain'[i] = chain[i]
             /\ \A v \in 0..Len(chain) : EpochsOf(chain', v) = EpochsOf(chain, v)
             /\ EpochsOf(chain', Len(chain')) \in {EpochsOf(chain, Len(chain)),
                                                   EpochsOf(chain, Len(chain)) + 1}
             /\ \A n \in 1..EpochsOf(chain, Len(chain)) : StartIn(chain', n) = StartIn(chain, n)
  <2>1. Fits(e) /\ e \in Entries /\ chain' = Append(chain, e)
    BY <1>3 DEF EntryAdded, Fits
  <2>2. Chained(Append(chain, e))
        /\ \A n \in 1..EpochsOf(chain, Len(chain)) : StartIn(Append(chain, e), n) = StartIn(chain, n)
    BY <2>1, ChainedAfter DEF Fits
  <2>3. /\ Len(Append(chain, e)) = Len(chain) + 1
        /\ \A i \in 1..Len(chain) : Append(chain, e)[i] = chain[i]
    BY <1>1, <2>1, Appended
  <2>4. /\ \A v \in 0..Len(chain) : EpochsOf(Append(chain, e), v) = EpochsOf(chain, v)
        /\ EpochsOf(Append(chain, e), Len(chain) + 1) \in {EpochsOf(chain, Len(chain)),
                                                           EpochsOf(chain, Len(chain)) + 1}
    BY <1>1, <2>1, StartsAfter
  <2>5. QED
    BY <2>1, <2>2, <2>3, <2>4
<1>4. CASE \E e : EntryAdded(e)
  <2>1. PICK e : EntryAdded(e)
    BY <1>4
  <2>2. QED
    BY <1>1, <1>3, <2>1
<1>5. QED
  BY <1>2, <1>4 DEF ServerMoves, TextAdded

\* A value once written stays, in its place.
LEMMA ValuesGrow ==
    ASSUME Typed, ServerMoves
    PROVE  /\ values' \in [Variables -> Seq(Texts)]
           /\ \A v \in Variables : /\ Len(values[v]) \in Nat /\ Len(values'[v]) \in Nat
                                   /\ Len(values[v]) <= Len(values'[v])
                                   /\ \A n \in 1..Len(values[v]) : values'[v][n] = values[v][n]
<1>1. values \in [Variables -> Seq(Texts)]
  BY DEF Typed
<1>2. \A v \in Variables : values[v] \in Seq(Texts) /\ Len(values[v]) \in Nat
  BY <1>1
<1>3. CASE values' = values
  BY <1>1, <1>2, <1>3
<1>4. ASSUME NEW v \in Variables, NEW x, TextAdded(v, x)
      PROVE  /\ values' \in [Variables -> Seq(Texts)]
             /\ \A w \in Variables : /\ Len(values'[w]) \in Nat /\ Len(values[w]) <= Len(values'[w])
                                     /\ \A n \in 1..Len(values[w]) : values'[w][n] = values[w][n]
  <2>1. x \in Texts /\ values' = [values EXCEPT ![v] = Append(@, x)]
    BY <1>4 DEF TextAdded, Follows
  <2>2. /\ Append(values[v], x) \in Seq(Texts)
        /\ Len(Append(values[v], x)) = Len(values[v]) + 1
        /\ \A n \in 1..Len(values[v]) : Append(values[v], x)[n] = values[v][n]
    BY <1>2, <2>1, Appended
  <2>3. values'[v] = Append(values[v], x) /\ \A w \in Variables : w # v => values'[w] = values[w]
    BY <1>1, <2>1
  <2>4. ASSUME NEW w \in Variables
        PROVE  /\ Len(values'[w]) \in Nat /\ Len(values[w]) <= Len(values'[w])
               /\ \A n \in 1..Len(values[w]) : values'[w][n] = values[w][n]
    <3>1. CASE w = v
      BY <1>2, <2>2, <2>3, <3>1
    <3>2. CASE w # v
      BY <1>2, <2>3, <3>2
    <3>3. QED
      BY <3>1, <3>2
  <2>5. QED
    BY <1>1, <2>1, <2>2, <2>4
<1>5. QED
  BY <1>2, <1>3, <1>4 DEF ServerMoves, EntryAdded

\* Manifests are only added to.
LEMMA ManifestsGrow ==
    ASSUME Typed, ServerMoves
    PROVE  /\ manifests' \in Seq(Ids) /\ Len(manifests) \in Nat \ {0} /\ Len(manifests') \in Nat \ {0}
           /\ Len(manifests) <= Len(manifests')
           /\ \A n \in 1..Len(manifests) : manifests'[n] = manifests[n]
<1>1. manifests \in Seq(Ids) /\ Len(manifests) \in Nat \ {0}
  BY DEF Typed
<1>2. \A id \in Ids : /\ Append(manifests, id) \in Seq(Ids)
                      /\ Len(Append(manifests, id)) = Len(manifests) + 1
                      /\ \A n \in 1..Len(manifests) : Append(manifests, id)[n] = manifests[n]
  BY <1>1, Appended
<1>3. QED
  BY <1>1, <1>2 DEF ServerMoves, ManifestFits

\* A manifest goes on to declare a head there is.
LEMMA StandsKept ==
    ASSUME Typed, ServerMoves, NEW id \in Ids, Stands(id)
    PROVE  Stands(id)'
<1>1. /\ Len(chain) \in Nat /\ Len(chain') \in Nat /\ Len(chain) <= Len(chain')
      /\ \A i \in 1..Len(chain) : chain'[i] = chain[i]
  BY ChainGrows DEF Typed
<1>2. id.declaredHead \in Nat
  BY DEF Ids
<1>3. QED
  BY <1>1, <1>2 DEF Stands

\* Every manifest declares a head there is.
LEMMA ManifestsStayKept ==
    ASSUME Typed, ManifestsKept, ServerMoves
    PROVE  ManifestsKept'
<1>1. /\ manifests \in Seq(Ids) /\ Len(manifests) \in Nat
      /\ \A n \in 1..Len(manifests) : manifests[n] \in Ids
  BY DEF Typed
<1>2. \A n \in 1..Len(manifests) : Stands(manifests[n])'
  <2>1. SUFFICES ASSUME NEW n \in 1..Len(manifests) PROVE Stands(manifests[n])'
    OBVIOUS
  <2>2. PICK id \in Ids : id = manifests[n] /\ Stands(id)
    BY <1>1 DEF ManifestsKept
  <2>3. id = manifests'[n]
    BY <2>2, ManifestsGrow
  <2>4. Stands(id)'
    BY <2>2, StandsKept
  <2>5. QED
    BY <2>3, <2>4 DEF Stands
<1>3. ASSUME NEW id, ManifestFits(id)
      PROVE  Stands(id)'
  <2>1. /\ Len(chain) \in Nat /\ Len(chain') \in Nat /\ Len(chain) <= Len(chain')
        /\ id.declaredHead \in Nat /\ id.declaredHead <= Len(chain)
    BY <1>3, ChainGrows DEF Typed, ManifestFits, Ids
  <2>2. CASE id.dek = NoDek
    BY <2>1, <2>2 DEF Stands
  <2>3. CASE id.dek # NoDek
    <3>1. PICK e : EntryAdded(e) /\ e.op = "rotate_epoch"
      BY <1>3, <2>3 DEF ManifestFits
    <3>2. Len(chain') = Len(chain) + 1 /\ chain'[Len(chain) + 1] = e
      BY <3>1, HeadIs, Appended DEF EntryAdded, Fits, Typed
    <3>3. QED
      BY <1>3, <2>1, <2>3, <3>1, <3>2 DEF Stands, ManifestFits
  <2>4. QED
    BY <2>2, <2>3
<1>4. CASE manifests' = manifests
  BY <1>2, <1>4 DEF ManifestsKept, Stands
<1>5. ASSUME NEW id, ManifestFits(id), manifests' = Append(manifests, id)
      PROVE  ManifestsKept'
  <2>1. /\ Len(manifests') = Len(manifests) + 1 /\ manifests'[Len(manifests) + 1] = id
        /\ \A n \in 1..Len(manifests) : manifests'[n] = manifests[n]
    BY <1>1, <1>5, Appended DEF ManifestFits
  <2>2. Stands(id)'
    BY <1>3, <1>5
  <2>3. SUFFICES ASSUME NEW n \in 1..Len(manifests') PROVE Stands(manifests[n])'
    BY DEF ManifestsKept
  <2>4. CASE n \in 1..Len(manifests)
    BY <1>2, <2>4
  <2>5. CASE n = Len(manifests) + 1
    BY <2>1, <2>2, <2>5 DEF Stands
  <2>6. QED
    BY <1>1, <2>1, <2>4, <2>5
<1>6. QED
  BY <1>4, <1>5 DEF ServerMoves

\* What was fetched stays there, what a view shows stays so, and so does what overtook it.
LEMMA WireKept ==
    ASSUME Typed, ServerMoves
    PROVE  /\ \A r \in Runs : Wire(r) => Wire(r)'
           /\ \A s \in Nat, v \in 0..Len(chain) : Settled(s, v) => Settled(s, v)'
           /\ \A v \in Nat : Overtaken(v) => Overtaken(v)'
<1>1. /\ Len(chain) \in Nat /\ Len(chain') \in Nat /\ Len(chain) <= Len(chain')
      /\ \A i \in 1..Len(chain) : chain'[i] = chain[i]
  BY ChainGrows DEF Typed
<1>2. ASSUME NEW r \in Runs, Wire(r) PROVE Wire(r)'
  <2>1. Len(manifests) \in Nat /\ Len(manifests') \in Nat /\ Len(manifests) <= Len(manifests')
    BY ManifestsGrow
  <2>2. r.manifest \in 1..Len(manifests') /\ r.snapshot \in 1..Len(chain')
    BY <1>1, <1>2, <2>1 DEF Wire
  <2>3. \A v \in Variables : r.seen[v] <= Len(values'[v])
    <3>1. \A v \in Variables : /\ r.seen[v] \in Nat /\ r.seen[v] <= Len(values[v])
                               /\ Len(values[v]) \in Nat /\ Len(values'[v]) \in Nat
                               /\ Len(values[v]) <= Len(values'[v])
      BY <1>2, ValuesGrow DEF Runs, Wire
    <3>2. QED
      BY <3>1
  <2>4. QED
    BY <2>2, <2>3 DEF Wire
<1>3. ASSUME NEW s \in Nat, NEW v \in 0..Len(chain), Settled(s, v) PROVE Settled(s, v)'
  BY <1>1, <1>3 DEF Settled, Lives
<1>4. ASSUME NEW v \in Nat, Overtaken(v) PROVE Overtaken(v)'
  BY <1>1, <1>4 DEF Overtaken
<1>5. QED
  BY <1>2, <1>3, <1>4

\* What a run has read stays true of the server.
LEMMA GroundedKept ==
    ASSUME Typed, ServerMoves, NEW r \in Runs, Grounded(r)
    PROVE  Grounded(r)'
<1> DEFINE E == EpochsOf(chain, Len(chain))
           F == EpochsOf(chain', Len(chain'))
<1>1. /\ Len(chain) \in Nat /\ Len(chain') \in Nat /\ Len(chain) <= Len(chain')
      /\ \A v \in 0..Len(chain) : EpochsOf(chain', v) = EpochsOf(chain, v)
      /\ E \in Nat /\ F \in Nat /\ E <= F
  BY ChainGrows DEF Typed
<1>2. \A v \in Variables : /\ Len(values[v]) \in Nat /\ Len(values'[v]) \in Nat
                           /\ Len(values[v]) <= Len(values'[v])
  BY ValuesGrow
<1>3. /\ r.view \in Nat /\ r.opened \in Nat /\ r.epoch \in Nat /\ r.todo \subseteq Variables
      /\ r.seen \in [Variables -> Nat] /\ r.snapshot \in Nat
  BY DEF Runs
<1> HIDE DEF E, F
<1>4. r.phase \notin {"idle", "abort"} =>
          r.mode \in Modes /\ 1 <= r.opened /\ r.opened <= r.view /\ r.view <= Len(chain')
  BY <1>1, <1>3 DEF Grounded
<1>5. \A v \in r.todo : r.seen[v] \in 1..Len(values'[v])
  BY <1>2, <1>3 DEF Grounded
<1>6. r.phase \notin {"idle", "abort"} => r.view \in 0..Len(chain)
                                           /\ EpochsOf(chain', r.view) = EpochsOf(chain, r.view)
  BY <1>1, <1>3 DEF Grounded
<1>7. r.phase \in Composing => r.epoch = EpochsOf(chain', r.view) + 1
  BY <1>6 DEF Grounded, Composing
<1>8. Seals(r) => r.epoch \in 1..F
  BY <1>1, <1>3 DEF Grounded, E
<1>9. r.claimed # {} =>
          /\ r.phase \in {"push"} \cup Pulling /\ r.pass # 0
          /\ r.epoch < F
          /\ r.phase \in Pulling => r.epoch < EpochsOf(chain', r.view)
  <2>1. SUFFICES ASSUME r.claimed # {}
                 PROVE  /\ r.phase \in {"push"} \cup Pulling /\ r.pass # 0
                        /\ r.epoch < F
                        /\ r.phase \in Pulling => r.epoch < EpochsOf(chain', r.view)
    OBVIOUS
  <2>2. /\ r.phase \in {"push"} \cup Pulling /\ r.pass # 0 /\ r.epoch < E
        /\ r.phase \in Pulling => r.epoch < EpochsOf(chain, r.view)
    BY <2>1 DEF Grounded, E
  <2>3. r.phase \notin {"idle", "abort"}
    BY <2>2 DEF Pulling
  <2>4. r.epoch < F
    BY <1>1, <1>3, <2>2
  <2>5. QED
    BY <1>6, <2>2, <2>3, <2>4
<1>10. r.phase = "ahead" => Wire(r)' /\ Settled(r.snapshot, r.view)'
  <2>1. r.phase = "ahead" => r.phase \notin {"idle", "abort"}
    OBVIOUS
  <2>2. r.phase = "ahead" => Wire(r) /\ Settled(r.snapshot, r.view)
    BY DEF Grounded
  <2>3. QED
    BY <1>3, <1>6, <2>1, <2>2, WireKept
<1>11. r.phase = "abort" => Overtaken(r.view)'
  BY <1>3, WireKept DEF Grounded
<1>12. (r.phase = "push" => r.pass # 0) /\ (r.phase \in Pulling => r.todo = {})
  BY DEF Grounded
<1>13. QED
  BY <1>4, <1>5, <1>7, <1>8, <1>9, <1>10, <1>11, <1>12 DEF Grounded, F

\* What is on its way keeps its ground.
LEMMA QueuesKept ==
    ASSUME Shapes, Moves
    PROVE  /\ requests' \subseteq Requests /\ pushes' \subseteq Pushes
           /\ RequestsGrounded' /\ PushesRepeat'
<1>1. /\ Typed /\ ServerMoves /\ QueuesMove
      /\ requests \subseteq Requests /\ pushes \subseteq Pushes
  BY DEF Shapes, Moves, Typed
<1>2. /\ Len(chain) \in Nat /\ Len(chain') \in Nat /\ Len(chain) <= Len(chain')
  BY <1>1, ChainGrows DEF Typed
<1>3. \A v \in Variables : /\ Len(values[v]) \in Nat /\ Len(values'[v]) \in Nat
                           /\ Len(values[v]) <= Len(values'[v])
                           /\ \A n \in 1..Len(values[v]) : values'[v][n] = values[v][n]
  BY <1>1, ValuesGrow
<1>4. requests' \subseteq Requests /\ \A q \in requests' : q.declaredHead \in 1..Len(chain)
  BY <1>1 DEF QueuesMove, Shapes, RequestsGrounded
<1>5. \A p \in pushes' : PushFits(p)
  BY <1>1 DEF QueuesMove, Shapes, PushesRepeat, PushFits
<1>6. ASSUME NEW p \in pushes'
      PROVE  /\ p \in Pushes
             /\ p.version - 1 \in 1..Len(values'[p.var])
             /\ p.value.text = values'[p.var][p.version - 1].text
             /\ p.value.head <= Len(chain')
  <2>1. p \in Pushes /\ p.var \in Variables /\ p.version \in Nat
        /\ p.version - 1 \in 1..Len(values[p.var])
        /\ p.value.text = values[p.var][p.version - 1].text
        /\ p.value.head <= Len(chain) /\ p.value.head \in Nat
    BY <1>5 DEF PushFits, Pushes, Texts
  <2>2. p.value.head <= Len(chain')
    BY <1>2, <2>1
  <2>3. QED
    BY <1>3, <2>1, <2>2
<1>7. RequestsGrounded'
  BY <1>2, <1>4 DEF RequestsGrounded
<1>8. QED
  BY <1>4, <1>6, <1>7 DEF PushesRepeat

\* Values stay under epochs that have begun, and a repeated text repeats.
LEMMA ValuesStayKept ==
    ASSUME Typed, ValuesKept, ServerMoves
    PROVE  ValuesKept'
<1>1. /\ EpochsOf(chain, Len(chain)) \in Nat /\ EpochsOf(chain', Len(chain')) \in Nat
      /\ EpochsOf(chain, Len(chain)) <= EpochsOf(chain', Len(chain'))
      /\ EpochsOf(chain, Len(chain)) # 0
      /\ Len(chain) \in Nat /\ Len(chain') \in Nat /\ Len(chain) <= Len(chain')
  BY ChainGrows DEF Typed
<1>2. values \in [Variables -> Seq(Texts)]
      /\ \A v \in Variables : values[v] \in Seq(Texts) /\ Len(values[v]) \in Nat
  BY DEF Typed
<1>3. ASSUME NEW v \in Variables, NEW n \in 1..Len(values[v])
      PROVE  /\ values[v][n].epoch \in 1..EpochsOf(chain', Len(chain'))
             /\ values[v][n].head <= Len(chain')
             /\ values[v][n].same => n > 1 /\ values[v][n].text = values[v][n - 1].text
  <2>1. values[v][n].epoch \in 1..EpochsOf(chain, Len(chain))
        /\ values[v][n].head <= Len(chain)
        /\ (values[v][n].same => n > 1 /\ values[v][n].text = values[v][n - 1].text)
    BY DEF ValuesKept
  <2>2. values[v][n] \in Texts
    BY <1>2
  <2>3. values[v][n].head \in Nat
    BY <2>2 DEF Texts
  <2>4. QED
    BY <1>1, <2>1, <2>3
<1>4. CASE values' = values
  BY <1>3, <1>4 DEF ValuesKept
<1>5. ASSUME NEW v \in Variables, NEW x, TextAdded(v, x)
      PROVE  ValuesKept'
  <2>1. /\ x \in Texts /\ values' = [values EXCEPT ![v] = Append(@, x)]
        /\ x.epoch = EpochsOf(chain', Len(chain'))
        /\ x.head <= Len(chain')
        /\ x.same => Len(values[v]) > 0 /\ x.text = values[v][Len(values[v])].text
    BY <1>5 DEF TextAdded, Follows
  <2>2. /\ Len(Append(values[v], x)) = Len(values[v]) + 1
        /\ Append(values[v], x)[Len(values[v]) + 1] = x
        /\ \A n \in 1..Len(values[v]) : Append(values[v], x)[n] = values[v][n]
    BY <1>2, <2>1, Appended
  <2>3. values'[v] = Append(values[v], x) /\ \A w \in Variables : w # v => values'[w] = values[w]
    BY <1>2, <2>1
  <2>4. ASSUME NEW w \in Variables, NEW n \in 1..Len(values'[w])
        PROVE  /\ values'[w][n].epoch \in 1..EpochsOf(chain', Len(chain'))
               /\ values'[w][n].head <= Len(chain')
               /\ values'[w][n].same => n > 1 /\ values'[w][n].text = values'[w][n - 1].text
    <3>1. CASE w # v
      BY <1>3, <2>3, <3>1
    <3>2. CASE w = v /\ n \in 1..Len(values[v])
      <4>1. /\ values'[w][n] = values[v][n]
            /\ n > 1 => values'[w][n - 1] = values[v][n - 1]
        BY <1>2, <2>2, <2>3, <3>2
      <4>2. QED
        BY <1>3, <3>2, <4>1
    <3>3. CASE w = v /\ n = Len(values[v]) + 1
      <4>1. /\ values'[w][n] = x
            /\ Len(values[v]) > 0 => values'[w][n - 1] = values[v][Len(values[v])]
        BY <1>2, <2>2, <2>3, <3>3
      <4>2. QED
        BY <1>1, <1>2, <2>1, <3>3, <4>1
    <3>4. QED
      BY <1>2, <2>2, <2>3, <3>1, <3>2, <3>3
  <2>5. QED
    BY <2>4 DEF ValuesKept
<1>6. QED
  BY <1>4, <1>5 DEF ServerMoves, EntryAdded

\* A step that moves the data as described keeps the shapes.
LEMMA ShapesKept ==
    ASSUME Shapes, Moves
    PROVE  Shapes'
<1>1. Typed /\ ValuesKept /\ ServerMoves /\ QueuesMove /\ ClientsMove
  BY DEF Shapes, Moves
<1>2. Chained(chain') /\ values' \in [Variables -> Seq(Texts)]
  BY <1>1, ChainGrows, ValuesGrow DEF Typed
<1>3. manifests' \in Seq(Ids) /\ Len(manifests') \in Nat \ {0} /\ ManifestsKept'
  BY <1>1, ManifestsGrow, ManifestsStayKept DEF Shapes
<1>4. requests' \subseteq Requests /\ pushes' \subseteq Pushes /\ RequestsGrounded' /\ PushesRepeat'
  BY QueuesKept
<1>5. run' \in [Machines -> Runs] /\ \A m \in Machines : Grounded(run'[m])
  <2>1. run \in [Machines -> Runs] /\ \A m \in Machines : Grounded(run[m])
    BY <1>1 DEF Typed, Shapes
  <2>2. QED
    BY <1>1, <2>1 DEF ClientsMove
<1>6. \A m \in Machines : Grounded(run[m])'
  <2>1. SUFFICES ASSUME NEW m \in Machines PROVE Grounded(run[m])'
    OBVIOUS
  <2>2. PICK r \in Runs : r = run'[m] /\ Grounded(r)
    BY <1>5
  <2>3. Grounded(r)'
    BY <1>1, <2>2, GroundedKept
  <2>4. QED
    BY <2>2, <2>3 DEF Grounded, Seals, Wire, Settled, Overtaken
<1>7. ValuesKept'
  BY <1>1, ValuesStayKept
<1>8. Typed'
  BY <1>1, <1>2, <1>3, <1>4, <1>5 DEF Typed, ServerMoves, QueuesMove, ClientsMove
<1>9. QED
  BY <1>3, <1>4, <1>6, <1>7, <1>8 DEF Shapes

(***************************************************************************)
(* Every action moves the data so.                                         *)
(***************************************************************************)

RunMoves == run' = run \/ \E m \in Machines : \E r \in Runs :
                              run' = [run EXCEPT ![m] = r] /\ Grounded(r)

\* Nothing moves where nothing changes.
LEMMA Still ==
    ASSUME Typed
    PROVE  /\ UNCHANGED serverVars => ServerMoves
           /\ UNCHANGED <<requests, pushes, deks>> => QueuesMove
           /\ UNCHANGED run => RunMoves
           /\ \A m \in Machines : Ends(m) => RunMoves
           /\ \A m \in Machines, r \in Runs : Enter(m, r) /\ Grounded(r) => RunMoves
           /\ UNCHANGED intents => intents' \in [Machines -> SUBSET Intents]
           /\ UNCHANGED reported => reported' \in [Machines -> [epoch : Nat, baseline : Nat]]
<1>1. UNCHANGED serverVars => ServerMoves
  BY DEF Typed, serverVars, ServerMoves
<1>2. UNCHANGED <<requests, pushes, deks>> => QueuesMove
  BY DEF Typed, QueuesMove
<1>3. \A m \in Machines : Ends(m) => RunMoves
  BY IdleGrounded DEF Ends, Enter, RunMoves
<1>4. QED
  BY <1>1, <1>2, <1>3 DEF Typed, Enter, RunMoves

\* The parts of a step together.
LEMMA MovesOf ==
    ASSUME ServerMoves, QueuesMove, RunMoves, intents' \in [Machines -> SUBSET Intents],
           reported' \in [Machines -> [epoch : Nat, baseline : Nat]]
    PROVE  Moves
BY DEF Moves, ClientsMove, RunMoves

\* Reports are well formed.
LEMMA ReportsTyped ==
    ASSUME Typed, NEW m \in Machines, NEW r \in Runs, Reports(m, r)
    PROVE  reported' \in [Machines -> [epoch : Nat, baseline : Nat]]
<1>1. /\ reported \in [Machines -> [epoch : Nat, baseline : Nat]]
      /\ r.epoch \in Nat /\ r.baseline \in Nat
  BY DEF Typed, Runs
<1>2. QED
  BY <1>1 DEF Reports

\* What is known of a run in progress.
LEMMA RunIs ==
    ASSUME Shapes, NEW m \in Machines
    PROVE  /\ Typed /\ run[m] \in Runs /\ Grounded(run[m])
           /\ HeadSeq = Len(chain) /\ Len(chain) \in Nat \ {0}
           /\ EpochAt(HeadSeq) = EpochsOf(chain, Len(chain)) /\ EpochAt(HeadSeq) \in Nat \ {0}
           /\ run[m].phase \in Composing \cup Sealing \cup Pulling =>
                 /\ run[m].view \in 1..Len(chain) /\ run[m].opened \in 1..run[m].view
                 /\ run[m].mode \in Modes
<1>1. /\ Typed /\ run[m] \in Runs /\ Grounded(run[m])
      /\ HeadSeq = Len(chain) /\ Len(chain) \in Nat \ {0}
      /\ EpochAt(HeadSeq) = EpochsOf(chain, Len(chain)) /\ EpochAt(HeadSeq) \in Nat \ {0}
  BY HeadIs, Reading DEF Shapes, Typed
<1>2. run[m].phase \in Composing \cup Sealing \cup Pulling => run[m].phase \notin {"idle", "abort"}
  BY DEF Composing, Sealing, Pulling
<1>3. run[m].view \in Nat /\ run[m].opened \in Nat
  BY <1>1 DEF Runs
<1>4. run[m].phase \notin {"idle", "abort"} =>
          /\ run[m].mode \in Modes
          /\ 1 <= run[m].opened /\ run[m].opened <= run[m].view /\ run[m].view <= Len(chain)
  BY <1>1 DEF Grounded
<1>5. QED
  BY <1>1, <1>2, <1>3, <1>4

\* A round starts from where its command opened the project.
LEMMA RoundIs ==
    ASSUME NEW mode \in Modes, NEW b \in Nat, NEW o \in Nat, NEW n \in Nat, NEW r,
           r = Round(mode, b, o, n)
    PROVE  /\ r \in Runs /\ r.phase = "pull" /\ r.mode = mode /\ r.baseline = b
           /\ r.opened = o /\ r.view = o /\ r.todo = {} /\ r.claimed = {} /\ r.pass = 0
           /\ o \in 1..Len(chain) /\ Len(chain) \in Nat => Grounded(r)
<1>1. PICK i : i = Idle /\ i \in Runs /\ i.todo = {} /\ i.claimed = {} /\ i.pass = 0
  BY IdleGrounded DEF Idle
<1>2. r = [i EXCEPT !.phase = "pull", !.mode = mode, !.baseline = b,
                    !.opened = o, !.view = o, !.round = n]
  BY <1>1 DEF Round
<1>3. mode \in Modes \cup {"none"} /\ "pull" \in {"idle", "abort"} \cup Pulling \cup Composing \cup Sealing
  BY DEF Pulling
<1>4. /\ r \in Runs /\ r.phase = "pull" /\ r.mode = mode /\ r.baseline = b
      /\ r.opened = o /\ r.view = o /\ r.todo = {} /\ r.claimed = {} /\ r.pass = 0
  <2>1. PICK s : s = [i EXCEPT !.phase = "pull", !.mode = mode, !.baseline = b]
    OBVIOUS
  <2>2. /\ s \in Runs /\ s.phase = "pull" /\ s.mode = mode /\ s.baseline = b
        /\ s.todo = {} /\ s.claimed = {} /\ s.pass = 0
    BY <1>1, <1>3, <2>1 DEF Runs
  <2>3. r = [s EXCEPT !.opened = o, !.view = o, !.round = n]
    BY <1>1, <1>2, <2>1 DEF Runs
  <2>4. QED
    BY <2>2, <2>3 DEF Runs
<1>5. QED
  BY <1>4 DEF Grounded, Composing, Sealing, Pulling, Seals

\* So does the round that follows a conflict of values.
LEMMA NextRoundIs ==
    ASSUME NEW p \in Runs, p.mode \in Modes,
           NEW s, s = Round(p.mode, p.baseline, p.opened, p.round + 1)
    PROVE  /\ s \in Runs /\ s.phase = "pull" /\ s.mode = p.mode /\ s.baseline = p.baseline
           /\ s.opened = p.opened /\ s.pass = 0
           /\ p.opened \in 1..Len(chain) /\ Len(chain) \in Nat => Grounded(s)
<1>1. PICK mode, b, o, n :
         /\ mode = p.mode /\ b = p.baseline /\ o = p.opened /\ n = p.round + 1
         /\ mode \in Modes /\ b \in Nat /\ o \in Nat /\ n \in Nat
  BY DEF Runs
<1>2. s = Round(mode, b, o, n)
  BY <1>1
<1>3. /\ s \in Runs /\ s.phase = "pull" /\ s.mode = mode /\ s.baseline = b
      /\ s.opened = o /\ s.pass = 0
      /\ o \in 1..Len(chain) /\ Len(chain) \in Nat => Grounded(s)
  <2>1. mode \in Modes /\ b \in Nat /\ o \in Nat /\ n \in Nat
    BY <1>1
  <2>2. QED
    BY ONLY <2>1, <1>2, RoundIs
<1>4. QED
  BY <1>1, <1>3

\* What opening a project makes of a run.
LEMMA OpensMoves ==
    ASSUME Shapes, NEW m \in Machines, NEW mode \in Modes, NEW b \in Nat, Opens(m, mode, b)
    PROVE  Moves
<1>1. Typed /\ Len(chain) \in Nat \ {0} /\ HeadSeq = Len(chain)
  BY HeadIs, Reading DEF Shapes, Typed
<1>2. PICK r : r = Round(mode, b, HeadSeq, 1)
  OBVIOUS
<1>3. r \in Runs /\ Grounded(r)
  BY <1>1, <1>2, RoundIs
<1>4. ReconcileIntents(m) /\ Enter(m, r) /\ UNCHANGED <<serverVars, requests, pushes, deks, reported>>
  BY <1>2 DEF Opens
<1>5. RunMoves /\ ServerMoves /\ QueuesMove
      /\ reported' \in [Machines -> [epoch : Nat, baseline : Nat]]
  BY <1>1, <1>3, <1>4, Still
<1>6. intents' \in [Machines -> SUBSET Intents]
  BY <1>1, <1>4, ReconcileTyped
<1>7. QED
  BY <1>5, <1>6, MovesOf

(***************************************************************************)
(* Pulls.                                                                  *)
(***************************************************************************)

\* A run that is about to judge what was fetched.
Judging(r) ==
    /\ r \in Runs /\ r.phase \in {"push"} \cup Pulling /\ r.mode \in Modes
    /\ 1 <= r.opened /\ r.opened <= r.view /\ r.view <= Len(chain)
    /\ r.todo = {}
    /\ r.pass # 0 => r.epoch \in 1..EpochsOf(chain, Len(chain))
    /\ r.claimed # {} => r.pass # 0 /\ r.epoch < EpochsOf(chain, r.view)
    /\ Wire(r)
    /\ r.snapshot = LatestCheckpoint(Len(chain)) \/ r.view = Len(chain)

\* r is about what run s is about.
SamePurpose(r, s) ==
    /\ r.mode = s.mode /\ r.baseline = s.baseline /\ r.opened = s.opened
    /\ r.epoch = s.epoch /\ r.pass = s.pass

\* What is fetched is there.
LEMMA FetchedIs ==
    ASSUME Shapes, NEW m \in Machines, run[m].phase = "pull" \/ PassOver(run[m]),
           NEW r, r = Fetched(run[m])
    PROVE  /\ Judging(r) /\ SamePurpose(r, run[m])
           /\ r.phase = run[m].phase /\ r.phase # "ahead" /\ r.view = run[m].view
           /\ r.seen = Served /\ r.manifest = Len(manifests)
           /\ r.snapshot = LatestCheckpoint(Len(chain))
           /\ \A i \in r.snapshot + 1..Len(chain) : chain[i].op \notin {"rotate_epoch", "checkpoint"}
<1>1. /\ Typed /\ run[m] \in Runs /\ Grounded(run[m])
      /\ HeadSeq = Len(chain) /\ Len(chain) \in Nat \ {0}
      /\ run[m].phase \in {"push", "pull"}
      /\ run[m].view \in 1..Len(chain) /\ run[m].opened \in 1..run[m].view
      /\ run[m].mode \in Modes
  <2>1. run[m].phase \in {"push", "pull"}
    BY DEF PassOver
  <2>2. run[m].phase \in Composing \cup Sealing \cup Pulling
    BY <2>1 DEF Sealing, Pulling
  <2>3. QED
    BY <2>1, <2>2, RunIs
<1>2. /\ LatestCheckpoint(Len(chain)) \in 1..Len(chain)
      /\ \A i \in LatestCheckpoint(Len(chain)) + 1..Len(chain) :
            chain[i].op \notin {"rotate_epoch", "checkpoint"}
  BY <1>1, LatestCheckpointIs DEF Typed
<1>3. Len(manifests) \in Nat \ {0} /\ Served \in [Variables -> Nat]
      /\ \A v \in Variables : Served[v] <= Len(values[v])
  BY <1>1, ServedIs DEF Typed
<1>4. PICK c : c = LatestCheckpoint(Len(chain))
  OBVIOUS
<1>5. r = [run[m] EXCEPT !.seen = Served, !.manifest = Len(manifests), !.snapshot = c]
  BY <1>1, <1>4 DEF Fetched
<1>6. c \in Nat /\ Len(manifests) \in Nat
  BY <1>2, <1>3, <1>4
<1>7. /\ r \in Runs /\ r.seen = Served /\ r.manifest = Len(manifests) /\ r.snapshot = c
      /\ r.phase = run[m].phase /\ r.mode = run[m].mode /\ r.baseline = run[m].baseline
      /\ r.opened = run[m].opened /\ r.view = run[m].view /\ r.epoch = run[m].epoch
      /\ r.pass = run[m].pass /\ r.todo = run[m].todo /\ r.claimed = run[m].claimed
  BY <1>1, <1>3, <1>5, <1>6 DEF Runs
<1>8. Wire(r)
  BY <1>2, <1>3, <1>4, <1>7 DEF Wire
<1>9. r.todo = {}
  BY <1>1, <1>7 DEF Grounded, PassOver, Pulling
<1>10. r.pass # 0 => r.epoch \in 1..EpochsOf(chain, Len(chain))
  BY <1>1, <1>7 DEF Grounded, Seals, Sealing, Pulling
<1>11. r.claimed # {} => r.pass # 0 /\ r.epoch < EpochsOf(chain, r.view)
  BY <1>1, <1>7 DEF Grounded, PassOver, Pulling
<1>12. Judging(r)
  BY <1>1, <1>4, <1>7, <1>8, <1>9, <1>10, <1>11 DEF Judging, Pulling
<1>13. QED
  BY <1>1, <1>2, <1>4, <1>7, <1>12 DEF SamePurpose

\* What is judged again is there.
LEMMA ResyncedIs ==
    ASSUME Shapes, NEW m \in Machines, run[m].phase = "ahead",
           NEW r, r = [run[m] EXCEPT !.view = HeadSeq]
    PROVE  /\ Judging(r) /\ SamePurpose(r, run[m])
           /\ r.phase = "ahead" /\ r.view = Len(chain)
           /\ r.snapshot = run[m].snapshot /\ r.manifest = run[m].manifest /\ r.seen = run[m].seen
           /\ run[m].view \in 1..Len(chain) /\ Settled(r.snapshot, run[m].view)
<1>1. /\ Typed /\ run[m] \in Runs /\ Grounded(run[m])
      /\ HeadSeq = Len(chain) /\ Len(chain) \in Nat \ {0}
      /\ run[m].view \in 1..Len(chain) /\ run[m].opened \in 1..run[m].view
      /\ run[m].mode \in Modes
  BY RunIs DEF Pulling
<1>2. /\ r \in Runs /\ r.seen = run[m].seen /\ r.manifest = run[m].manifest
      /\ r.snapshot = run[m].snapshot
      /\ r.phase = run[m].phase /\ r.mode = run[m].mode /\ r.baseline = run[m].baseline
      /\ r.opened = run[m].opened /\ r.view = Len(chain) /\ r.epoch = run[m].epoch
      /\ r.pass = run[m].pass /\ r.todo = run[m].todo /\ r.claimed = run[m].claimed
  <2>1. HeadSeq \in Nat
    BY <1>1
  <2>2. QED
    BY <1>1, <2>1 DEF Runs
<1>3. Wire(r) /\ r.todo = {} /\ Settled(r.snapshot, run[m].view)
  BY <1>1, <1>2 DEF Grounded, Wire, Pulling
<1>4. r.pass # 0 => r.epoch \in 1..EpochsOf(chain, Len(chain))
  BY <1>1, <1>2 DEF Grounded, Seals, Pulling
<1>5. r.claimed # {} => r.pass # 0 /\ r.epoch < EpochsOf(chain, r.view)
  BY <1>1, <1>2 DEF Grounded
<1>6. Judging(r)
  BY <1>1, <1>2, <1>3, <1>4, <1>5 DEF Judging, Pulling
<1>7. QED
  BY <1>1, <1>2, <1>3, <1>6 DEF SamePurpose

\* What is served as evidence at the fetch comes of a rotation after the view.
LEMMA AccusedAtFetch ==
    ASSUME Shapes, NEW m \in Machines, run[m].phase = "pull" \/ PassOver(run[m]), LiveAt(HeadSeq),
           NEW r, r = Fetched(run[m]), Verified(r) = "evidence"
    PROVE  Overtaken(run[m].view)
<1>1. /\ r.view = run[m].view /\ r.manifest = Len(manifests)
      /\ r.snapshot = LatestCheckpoint(Len(chain)) /\ r.snapshot \in 1..Len(chain)
      /\ \A i \in r.snapshot + 1..Len(chain) : chain[i].op \notin {"rotate_epoch", "checkpoint"}
      /\ r.view \in 1..Len(chain) /\ Len(chain) \in Nat /\ Typed /\ HeadSeq = Len(chain)
  <2>1. Judging(r) /\ Typed /\ Len(chain) \in Nat /\ HeadSeq = Len(chain)
    BY FetchedIs, RunIs
  <2>2. r.view \in 1..Len(chain) /\ r.snapshot \in 1..Len(chain)
    BY <2>1 DEF Judging, Runs, Wire
  <2>3. QED
    BY <2>1, <2>2, FetchedIs
<1>2. LiveAt(r.view)
  BY <1>1 DEF LiveAt
<1>3. ~Regressed(r)
  <2>1. SUFFICES ASSUME Regressed(r) PROVE FALSE
    OBVIOUS
  <2>2. PICK l : l = LatestCheckpoint(r.view)
    OBVIOUS
  <2>3. /\ l \in 1..r.view /\ l > r.snapshot
        /\ chain[l].op \in {"create_environment", "rotate_epoch", "checkpoint"}
    BY <1>1, <2>1, <2>2, LatestCheckpointIs DEF Regressed, Typed
  <2>4. chain[l].op # "create_environment"
    BY <1>1, <2>3 DEF Typed, Chained
  <2>5. l \in r.snapshot + 1..Len(chain)
    BY <1>1, <2>3
  <2>6. QED
    BY <1>1, <2>3, <2>4, <2>5
<1>4. ~Ahead(r) /\ ~EpochExplained(r)
  BY <1>2, <1>3 DEF Verified
<1>5. PICK id : id = Newest(r)
  OBVIOUS
<1>6. id \in Ids /\ Stands(id)
  BY <1>1, <1>5 DEF Newest, Typed, Shapes, ManifestsKept
<1>7. id.dek # NoDek /\ id.declaredHead = r.view
  <2>1. id.dek # NoDek /\ ~(id.declaredHead < r.view) /\ ~(id.declaredHead > r.view)
    BY <1>4, <1>5 DEF Ahead, EpochExplained
  <2>2. id.declaredHead \in Nat /\ r.view \in Nat
    BY <1>1, <1>6 DEF Ids
  <2>3. QED
    BY <2>1, <2>2
<1>8. r.view + 1 \in r.view + 1..Len(chain) /\ chain[r.view + 1].op = "rotate_epoch"
  BY <1>1, <1>6, <1>7 DEF Stands
<1>9. QED
  BY <1>1, <1>8 DEF Overtaken

\* What is evidence after a second look comes of a rotation, a checkpoint or the end of the
\* environment after the first.
LEMMA AccusedAtResync ==
    ASSUME Shapes, NEW m \in Machines, run[m].phase = "ahead",
           NEW r, r = [run[m] EXCEPT !.view = HeadSeq], Verified(r) \in {"evidence", "future"}
    PROVE  Overtaken(run[m].view)
<1>1. /\ r \in Runs /\ r.view = Len(chain) /\ r.snapshot \in 1..Len(chain) /\ r.manifest \in 1..Len(manifests)
      /\ \A v \in Variables : r.seen[v] <= Len(values[v])
      /\ run[m].view \in 1..Len(chain) /\ Len(chain) \in Nat \ {0} /\ Typed /\ HeadSeq = Len(chain)
      /\ Settled(r.snapshot, run[m].view) /\ Wire(r)
  BY ResyncedIs, RunIs DEF Judging, Wire
<1>2. PICK id : id = Newest(r)
  OBVIOUS
<1>3. id \in Ids /\ Stands(id)
  BY <1>1, <1>2 DEF Newest, Typed, Shapes, ManifestsKept
<1>4. ~Ahead(r)
  <2>1. ~(id.declaredHead > r.view)
    BY <1>1, <1>3 DEF Stands, Ids
  <2>2. ASSUME NEW v \in Brought(r) PROVE ~(Seen(r, v).head > r.view)
    <3>1. v \in Variables /\ r.seen[v] \in 1..Len(values[v]) /\ Seen(r, v) \in Texts
      BY <1>1, BroughtIs
    <3>2. Seen(r, v).head \in Nat /\ Seen(r, v).head <= Len(chain)
      BY <3>1 DEF Shapes, ValuesKept, Seen, Texts
    <3>3. QED
      BY <1>1, <3>2
  <2>3. QED
    BY <1>2, <2>1, <2>2 DEF Ahead
<1>5. EpochExplained(r)
  BY <1>1, <1>2, <1>3 DEF EpochExplained, Stands
<1>6. ~LiveAt(r.view) \/ Regressed(r)
  BY <1>1, <1>4, <1>5 DEF Verified
<1>7. CASE ~LiveAt(r.view)
  <2>1. PICK i \in 1..Len(chain) : chain[i].op = "delete_environment"
    BY <1>1, <1>7 DEF LiveAt
  <2>2. ~(i \in 1..run[m].view)
    BY <1>1, <2>1 DEF Settled, Lives
  <2>3. i \in run[m].view + 1..Len(chain)
    BY <1>1, <2>1, <2>2
  <2>4. QED
    BY <2>1, <2>3 DEF Overtaken
<1>8. CASE Regressed(r)
  <2>1. PICK l : l = LatestCheckpoint(Len(chain))
    OBVIOUS
  <2>2. /\ l \in 1..Len(chain) /\ l > r.snapshot
        /\ chain[l].op \in {"create_environment", "rotate_epoch", "checkpoint"}
    BY <1>1, <1>8, <2>1, LatestCheckpointIs DEF Regressed, Typed
  <2>3. chain[l].op \in {"rotate_epoch", "checkpoint"}
    BY <1>1, <2>2 DEF Typed, Chained
  <2>4. ~(l \in r.snapshot + 1..run[m].view)
    BY <1>1, <2>3 DEF Settled
  <2>5. l \in run[m].view + 1..Len(chain)
    BY <1>1, <2>2, <2>4
  <2>6. QED
    BY <2>3, <2>5 DEF Overtaken
<1>9. QED
  BY <1>6, <1>7, <1>8

\* The run that a pull leads to, and the runs that come of it: one that composes a new
\* epoch, and one on its next pass.
Chosen(p, todo) == [p EXCEPT !.epoch = EpochAt(p.view), !.todo = todo, !.snapshot = 0]

Composed(r, n, d) == [r EXCEPT !.phase = "journal", !.epoch = n, !.attempt = 1, !.dek = d]

NextPass(p, n, todo) == [p EXCEPT !.phase = "push", !.pass = n, !.todo = todo,
                                  !.claimed = {}, !.snapshot = 0]

\* What a pull leads to.
LEMMA DecideReads ==
    ASSUME Shapes, NEW p, Judging(p), NEW todo \in SUBSET Brought(p), NEW r, r = Chosen(p, todo)
    PROVE  /\ r \in Runs
           /\ r.phase = p.phase /\ r.mode = p.mode /\ r.baseline = p.baseline
           /\ r.opened = p.opened /\ r.view = p.view /\ r.claimed = p.claimed /\ r.answer = p.answer
           /\ r.mode \in Modes /\ 1 <= r.opened /\ r.opened <= r.view /\ r.view <= Len(chain)
           /\ r.view \in 1..Len(chain)
           /\ r.epoch = EpochsOf(chain, r.view)
           /\ r.epoch \in 1..EpochsOf(chain, Len(chain))
           /\ \A v \in r.todo : r.seen[v] \in 1..Len(values[v])
<1>1. /\ Typed /\ Len(chain) \in Nat \ {0}
      /\ \A v \in 1..Len(chain) : EpochsOf(chain, v) \in 1..EpochsOf(chain, Len(chain))
      /\ EpochsOf(chain, Len(chain)) \in Nat
  BY HeadIs DEF Shapes, Typed
<1>2. /\ p \in Runs /\ Wire(p) /\ p.view \in 1..Len(chain) /\ p.mode \in Modes
      /\ 1 <= p.opened /\ p.opened <= p.view
  BY <1>1 DEF Judging, Runs
<1>3. EpochAt(p.view) = EpochsOf(chain, p.view) /\ EpochAt(p.view) \in 1..EpochsOf(chain, Len(chain))
      /\ EpochAt(p.view) \in Nat
  BY <1>1, <1>2, Reading
<1>4. todo \subseteq Variables /\ \A v \in todo : p.seen[v] \in 1..Len(values[v])
  BY <1>1, <1>2, BroughtIs
<1>5. /\ r \in Runs
      /\ r.phase = p.phase /\ r.mode = p.mode /\ r.baseline = p.baseline
      /\ r.opened = p.opened /\ r.view = p.view /\ r.claimed = p.claimed /\ r.answer = p.answer
      /\ r.epoch = EpochAt(p.view) /\ r.todo = todo /\ r.seen = p.seen
  BY <1>2, <1>3, <1>4 DEF Runs, Chosen
<1>6. QED
  BY <1>2, <1>3, <1>4, <1>5

\* How a pull that opens a round decides.
LEMMA Decides ==
    ASSUME Shapes, NEW m \in Machines, NEW p, Judging(p), Decide(m, p)
    PROVE  \E todo \in SUBSET Brought(p) : \E r :
              /\ r = Chosen(p, todo)
              /\ \/ /\ p.mode = "verify" /\ StaleIn(p, EpochAt(p.view)) = {}
                    /\ Ends(m) /\ Reports(m, r) /\ UNCHANGED deks
                 \/ p.mode # "force" /\ Resume(m, r) /\ UNCHANGED reported
                 \/ Rotate(m, r) /\ UNCHANGED reported
<1>1. PICK path : path = RotatePath(p.mode, StaleIn(p, EpochAt(p.view)))
  OBVIOUS
<1>2. PICK todo : todo = Openable(m, p, IF path = "resume" THEN StaleIn(p, EpochAt(p.view))
                                        ELSE Brought(p))
  OBVIOUS
<1>3. todo \subseteq Brought(p)
  BY <1>2, BroughtIs DEF Judging, Shapes
<1>4. PICK r : r = Chosen(p, todo)
  OBVIOUS
<1>5. \/ path = "up-to-date" /\ Ends(m) /\ Reports(m, r) /\ UNCHANGED deks
      \/ path = "resume" /\ Resume(m, r) /\ UNCHANGED reported
      \/ path = "rotate" /\ Rotate(m, r) /\ UNCHANGED reported
  BY <1>1, <1>2, <1>4 DEF Decide, Chosen
<1>6. path = "resume" => p.mode # "force"
  BY <1>1 DEF RotatePath
<1>7. path = "up-to-date" => p.mode = "verify" /\ StaleIn(p, EpochAt(p.view)) = {}
  <2>1. p.mode \in Modes
    BY DEF Judging
  <2>2. QED
    BY <1>1, <2>1 DEF RotatePath, Modes
<1>8. QED
  BY <1>3, <1>4, <1>5, <1>6, <1>7

\* The DEK of an epoch that has begun.
LEMMA DekIs ==
    ASSUME Typed, NEW n \in 1..EpochsOf(chain, Len(chain))
    PROVE  DekOf(n) \in Deks
<1>1. StartIn(chain, n) \in 1..Len(chain) /\ chain \in Seq(Entries)
  BY StartFound, HeadIs DEF Typed
<1>2. chain[StartIn(chain, n)] \in Entries
  BY <1>1
<1>3. QED
  BY <1>2, Reading DEF DekOf, Entries

\* The run that seals on under the epoch in force.
LEMMA ResumedIs ==
    ASSUME Typed, NEW r \in Runs, r.epoch \in 1..EpochsOf(chain, Len(chain)),
           NEW s, s = [r EXCEPT !.phase = "push", !.pass = 1, !.dek = DekOf(r.epoch)]
    PROVE  /\ s \in Runs /\ s.phase = "push" /\ s.mode = r.mode /\ s.baseline = r.baseline
           /\ s.opened = r.opened /\ s.view = r.view /\ s.epoch = r.epoch /\ s.pass = 1
           /\ s.todo = r.todo /\ s.seen = r.seen /\ s.claimed = r.claimed
<1>1. DekOf(r.epoch) \in Deks
  BY DekIs
<1>2. "push" \in {"idle", "abort"} \cup Pulling \cup Composing \cup Sealing
  BY DEF Sealing
<1>3. QED
  BY <1>1, <1>2 DEF Runs

\* The run that composes a new epoch.
LEMMA RotatedIs ==
    ASSUME NEW r \in Runs, NEW n \in Nat, NEW d \in Deks, NEW s, s = Composed(r, n, d)
    PROVE  /\ s \in Runs /\ s.phase = "journal" /\ s.mode = r.mode /\ s.baseline = r.baseline
           /\ s.opened = r.opened /\ s.view = r.view /\ s.epoch = n
           /\ s.todo = r.todo /\ s.seen = r.seen /\ s.claimed = r.claimed
           /\ s.manifest = r.manifest /\ s.dek = d
<1>1. "journal" \in {"idle", "abort"} \cup Pulling \cup Composing \cup Sealing
  BY DEF Composing
<1>2. QED
  BY <1>1 DEF Runs, Composed

\* A pull that opens a round decides on a run that has read what is there.
LEMMA DecideMoves ==
    ASSUME Shapes, NEW m \in Machines, NEW p, Judging(p), p.pass = 0, Decide(m, p), UNCHANGED Pulls
    PROVE  Moves
<1>1. Typed /\ deks \in Nat
  BY DEF Shapes, Typed
<1>2. PICK todo \in SUBSET Brought(p) : \E r :
          /\ r = Chosen(p, todo)
          /\ \/ Ends(m) /\ Reports(m, r) /\ UNCHANGED deks
             \/ Resume(m, r) /\ UNCHANGED reported
             \/ Rotate(m, r) /\ UNCHANGED reported
  BY Decides
<1>3. PICK r :
          /\ r = Chosen(p, todo)
          /\ \/ Ends(m) /\ Reports(m, r) /\ UNCHANGED deks
             \/ Resume(m, r) /\ UNCHANGED reported
             \/ Rotate(m, r) /\ UNCHANGED reported
  BY <1>2
<1>4. /\ r \in Runs /\ r.claimed = {}
      /\ r.mode \in Modes /\ 1 <= r.opened /\ r.opened <= r.view /\ r.view <= Len(chain)
      /\ r.epoch = EpochsOf(chain, r.view)
      /\ r.epoch \in 1..EpochsOf(chain, Len(chain))
      /\ \A v \in r.todo : r.seen[v] \in 1..Len(values[v])
  <2>1. p.claimed = {}
    BY DEF Judging
  <2>2. QED
    BY <1>3, <2>1, DecideReads
<1>5. UNCHANGED <<serverVars, requests, pushes, floorVars>>
  BY DEF Pulls
<1>6. intents' \in [Machines -> SUBSET Intents] /\ ServerMoves
      /\ (UNCHANGED deks => QueuesMove)
      /\ (UNCHANGED reported => reported' \in [Machines -> [epoch : Nat, baseline : Nat]])
      /\ (Ends(m) => RunMoves)
  BY <1>1, <1>5, Still DEF floorVars
<1>7. CASE Ends(m) /\ Reports(m, r) /\ UNCHANGED deks
  BY <1>1, <1>4, <1>6, <1>7, ReportsTyped, MovesOf
<1>8. CASE Resume(m, r) /\ UNCHANGED reported
  <2>1. CASE Ends(m)
    BY <1>6, <1>8, <2>1, MovesOf DEF Resume
  <2>2. CASE Enter(m, [r EXCEPT !.phase = "push", !.pass = 1, !.dek = DekOf(r.epoch)])
    <3>1. PICK s : s = [r EXCEPT !.phase = "push", !.pass = 1, !.dek = DekOf(r.epoch)]
      OBVIOUS
    <3>2. /\ s \in Runs /\ s.phase = "push" /\ s.mode = r.mode /\ s.opened = r.opened
          /\ s.view = r.view /\ s.epoch = r.epoch /\ s.pass = 1
          /\ s.todo = r.todo /\ s.seen = r.seen /\ s.claimed = r.claimed
      BY <1>1, <1>4, <3>1, ResumedIs
    <3>3. Grounded(s)
      BY <1>4, <3>2 DEF Grounded, Composing, Pulling
    <3>4. RunMoves
      BY <1>1, <2>2, <3>1, <3>2, <3>3, Still
    <3>5. QED
      BY <1>6, <1>8, <3>4, MovesOf DEF Resume
  <2>3. QED
    BY <1>8, <2>1, <2>2 DEF Resume
<1>9. CASE Rotate(m, r) /\ UNCHANGED reported
  <2>1. CASE Ends(m) /\ UNCHANGED deks
    BY <1>6, <1>9, <2>1, MovesOf
  <2>2. CASE deks' = deks + 1
             /\ Enter(m, Composed(r, r.epoch + 1, [maker |-> m, number |-> deks + 1]))
    <3>0. PICK n, d : n = r.epoch + 1 /\ d = [maker |-> m, number |-> deks + 1]
      OBVIOUS
    <3>7. n \in Nat /\ d \in Deks
      BY <1>1, <1>4, <3>0 DEF Runs, Deks
    <3>1. PICK s : s = Composed(r, n, d)
      OBVIOUS
    <3>2. /\ s \in Runs /\ s.phase = "journal" /\ s.mode = r.mode /\ s.opened = r.opened
          /\ s.view = r.view /\ s.epoch = n
          /\ s.todo = r.todo /\ s.seen = r.seen /\ s.claimed = r.claimed
      <4>1. r \in Runs
        BY <1>4
      <4>2. QED
        BY <3>1, <3>7, <4>1, RotatedIs
    <3>3. Grounded(s)
      BY <1>4, <3>0, <3>2 DEF Grounded, Sealing, Seals, Pulling
    <3>4. RunMoves
      BY <1>1, <2>2, <3>0, <3>1, <3>2, <3>3, Still
    <3>5. QueuesMove
      BY <1>1, <1>5, <2>2 DEF QueuesMove
    <3>6. QED
      BY <1>6, <1>9, <3>4, <3>5, MovesOf
  <2>3. QED
    BY <1>9, <2>1, <2>2 DEF Rotate, Composed
<1>10. QED
  BY <1>3, <1>7, <1>8, <1>9

\* What a pass that is over leads to: never to an accusation for a claimed epoch
\* conflict, since the view the rescan took shows the epoch.
LEMMA Settlings ==
    ASSUME Shapes, NEW m \in Machines, NEW p, Judging(p), SettlePass(m, p)
    PROVE  \/ Ends(m)
           \/ /\ EpochsOf(chain, p.view) = p.epoch /\ StaleIn(p, p.epoch) = {}
              /\ Enter(m, [p EXCEPT !.phase = "notarize", !.claimed = {}, !.snapshot = 0])
           \/ \E todo \in SUBSET Brought(p) : Enter(m, NextPass(p, p.pass + 1, todo))
<1>1. /\ p \in Runs /\ Wire(p) /\ Typed /\ EpochAt(p.view) = EpochsOf(chain, p.view)
      /\ EpochAt(p.view) \in Nat /\ p.epoch \in Nat
  BY StartsFinite, Reading DEF Judging, Shapes, Runs
<1>2. PICK stale : stale = StaleIn(p, p.epoch)
  OBVIOUS
<1>3. PICK targets : targets = Openable(m, p, stale)
  OBVIOUS
<1>4. targets \subseteq Brought(p)
  BY <1>1, <1>2, <1>3, BroughtIs
<1>5. EpochAt(p.view) = p.epoch => p.claimed \cap stale = {}
  BY <1>1 DEF Judging
<1>6. \/ Ends(m)
      \/ /\ EpochAt(p.view) = p.epoch /\ stale = {}
         /\ Enter(m, [p EXCEPT !.phase = "notarize", !.claimed = {}, !.snapshot = 0])
      \/ Enter(m, NextPass(p, p.pass + 1, targets))
  BY <1>2, <1>3, <1>5 DEF SettlePass, NextPass
<1>7. QED
  BY <1>1, <1>2, <1>4, <1>6

\* The run after its last pass.
LEMMA PassedIs ==
    ASSUME NEW p \in Runs,
           NEW s, s = [p EXCEPT !.phase = "notarize", !.claimed = {}, !.snapshot = 0]
    PROVE  /\ s \in Runs /\ s.phase = "notarize" /\ s.mode = p.mode /\ s.baseline = p.baseline
           /\ s.opened = p.opened /\ s.view = p.view /\ s.epoch = p.epoch /\ s.pass = p.pass
           /\ s.todo = p.todo /\ s.seen = p.seen /\ s.claimed = {}
<1>1. "notarize" \in {"idle", "abort"} \cup Pulling \cup Composing \cup Sealing
  BY DEF Sealing
<1>2. QED
  BY <1>1 DEF Runs

\* The run on its next pass.
LEMMA PassAgainIs ==
    ASSUME NEW p \in Runs, NEW n \in Nat, NEW todo \in SUBSET Variables,
           NEW s, s = NextPass(p, n, todo)
    PROVE  /\ s \in Runs /\ s.phase = "push" /\ s.mode = p.mode /\ s.baseline = p.baseline
           /\ s.opened = p.opened /\ s.view = p.view /\ s.epoch = p.epoch /\ s.pass = n
           /\ s.todo = todo /\ s.seen = p.seen /\ s.claimed = {}
<1>1. "push" \in {"idle", "abort"} \cup Pulling \cup Composing \cup Sealing
  BY DEF Sealing
<1>2. QED
  BY <1>1 DEF Runs, NextPass

\* A rescan ends its run, lets it rest, or sends it on another pass.
LEMMA SettlePassMoves ==
    ASSUME Shapes, NEW m \in Machines, NEW p, Judging(p), p.pass # 0, SettlePass(m, p)
    PROVE  RunMoves
<1>1. /\ Typed /\ p \in Runs /\ Wire(p) /\ p.mode \in Modes
      /\ 1 <= p.opened /\ p.opened <= p.view /\ p.view <= Len(chain)
      /\ p.todo = {} /\ p.epoch \in 1..EpochsOf(chain, Len(chain))
  BY DEF Judging, Shapes
<1>2. CASE Ends(m)
  BY <1>1, <1>2, Still
<1>3. CASE Enter(m, [p EXCEPT !.phase = "notarize", !.claimed = {}, !.snapshot = 0])
  <2>1. PICK s : s = [p EXCEPT !.phase = "notarize", !.claimed = {}, !.snapshot = 0]
    OBVIOUS
  <2>2. /\ s \in Runs /\ s.phase = "notarize" /\ s.mode = p.mode
        /\ s.opened = p.opened /\ s.view = p.view /\ s.epoch = p.epoch
        /\ s.todo = p.todo /\ s.claimed = {}
    BY <1>1, <2>1, PassedIs
  <2>3. Grounded(s)
    BY <1>1, <2>2 DEF Grounded, Composing, Pulling
  <2>4. QED
    BY <1>1, <1>3, <2>1, <2>2, <2>3, Still
<1>4. ASSUME NEW todo \in SUBSET Brought(p), Enter(m, NextPass(p, p.pass + 1, todo))
      PROVE  RunMoves
  <2>0. PICK n : n = p.pass + 1 /\ n \in Nat /\ n # 0
    BY <1>1 DEF Runs
  <2>1. PICK s : s = NextPass(p, n, todo)
    OBVIOUS
  <2>2. todo \in SUBSET Variables /\ \A v \in todo : p.seen[v] \in 1..Len(values[v])
    BY <1>1, BroughtIs
  <2>3. /\ s \in Runs /\ s.phase = "push" /\ s.mode = p.mode
        /\ s.opened = p.opened /\ s.view = p.view /\ s.epoch = p.epoch /\ s.pass = n
        /\ s.todo = todo /\ s.seen = p.seen /\ s.claimed = {}
    <3>1. p \in Runs /\ todo \in SUBSET Variables
      BY <1>1, <2>2
    <3>2. QED
      BY <2>0, <2>1, <3>1, PassAgainIs
  <2>4. Grounded(s)
    BY <1>1, <2>0, <2>2, <2>3 DEF Grounded, Composing, Pulling
  <2>5. QED
    BY <1>1, <1>4, <2>0, <2>1, <2>3, <2>4, Still
<1>5. QED
  BY <1>2, <1>3, <1>4, Settlings

\* A command that accuses was overtaken.
LEMMA AccuseMoves ==
    ASSUME Typed, NEW m \in Machines, NEW view \in Nat, Accuse(m, view), Overtaken(view)
    PROVE  RunMoves
<1>1. PICK i : i = Idle /\ i \in Runs /\ i.todo = {} /\ i.claimed = {}
  BY IdleGrounded DEF Idle
<1>2. PICK s : s = [i EXCEPT !.phase = "abort", !.view = view]
  OBVIOUS
<1>3. s \in Runs /\ s.phase = "abort" /\ s.view = view /\ s.todo = {} /\ s.claimed = {}
  BY <1>1, <1>2 DEF Runs
<1>4. Grounded(s)
  BY <1>3 DEF Grounded, Seals, Sealing, Pulling, Composing
<1>5. QED
  BY <1>1, <1>2, <1>3, <1>4, Still DEF Accuse

\* The run that looks at the chain again.
LEMMA AheadIs ==
    ASSUME NEW p \in Runs, NEW s, s = [p EXCEPT !.phase = "ahead"]
    PROVE  /\ s \in Runs /\ s.phase = "ahead" /\ s.mode = p.mode /\ s.baseline = p.baseline
           /\ s.opened = p.opened /\ s.view = p.view /\ s.epoch = p.epoch /\ s.pass = p.pass
           /\ s.todo = p.todo /\ s.seen = p.seen /\ s.claimed = p.claimed
           /\ s.manifest = p.manifest /\ s.snapshot = p.snapshot
BY DEF Runs, Pulling

\* What a judgement can be.
LEMMA Judgements ==
    ASSUME NEW m \in Machines, NEW p, NEW view, Judge(m, p, view)
    PROVE  \/ Verified(p) = "ok" /\ p.pass = 0 /\ Decide(m, p)
           \/ /\ UNCHANGED <<deks, reported>>
              /\ \/ Verified(p) = "ok" /\ p.pass # 0 /\ SettlePass(m, p)
                 \/ p.phase # "ahead" /\ Enter(m, [p EXCEPT !.phase = "ahead"])
                 \/ Ends(m)
                 \/ /\ Verified(p) = "evidence" \/ (Verified(p) = "future" /\ p.phase = "ahead")
                    /\ Accuse(m, view)
<1>1. PICK verdict : verdict = IF Verified(p) = "future" /\ p.phase = "ahead"
                               THEN "evidence" ELSE Verified(p)
  OBVIOUS
<1>2. verdict \in {"ok", "future", "retriable", "evidence"}
  BY <1>1 DEF Verified
<1>3. \/ verdict = "ok" /\ p.pass = 0 /\ Decide(m, p)
      \/ /\ verdict # "ok" \/ p.pass # 0
         /\ UNCHANGED <<deks, reported>>
         /\ \/ verdict = "ok" /\ SettlePass(m, p)
            \/ verdict = "future" /\ Enter(m, [p EXCEPT !.phase = "ahead"])
            \/ verdict = "retriable" /\ Ends(m)
            \/ verdict = "evidence" /\ Accuse(m, view)
  BY <1>1, <1>2 DEF Judge
<1>4. /\ verdict = "ok" => Verified(p) = "ok"
      /\ verdict = "future" => p.phase # "ahead"
      /\ verdict = "evidence" =>
            (Verified(p) = "evidence" \/ (Verified(p) = "future" /\ p.phase = "ahead"))
  BY <1>1
<1>5. QED
  BY <1>3, <1>4

\* Whatever is made of a pull, the run rests on what is there.
LEMMA JudgeMoves ==
    ASSUME Shapes, NEW m \in Machines, NEW p, Judging(p), NEW view \in Nat,
           p.phase # "ahead" => Settled(p.snapshot, p.view),
           (Verified(p) = "evidence" \/ (Verified(p) = "future" /\ p.phase = "ahead")) => Overtaken(view),
           Judge(m, p, view), UNCHANGED Pulls
    PROVE  Moves
<1>1. /\ Typed /\ p \in Runs
      /\ UNCHANGED <<serverVars, requests, pushes, floorVars>>
  BY DEF Judging, Shapes, Pulls
<1>2. intents' \in [Machines -> SUBSET Intents] /\ ServerMoves
      /\ (UNCHANGED deks => QueuesMove)
      /\ (UNCHANGED reported => reported' \in [Machines -> [epoch : Nat, baseline : Nat]])
      /\ (Ends(m) => RunMoves)
  BY <1>1, Still DEF floorVars
<1>3. CASE p.pass = 0 /\ Decide(m, p)
  BY <1>3, DecideMoves
<1>4. CASE UNCHANGED <<deks, reported>> /\ p.pass # 0 /\ SettlePass(m, p)
  BY <1>2, <1>4, SettlePassMoves, MovesOf
<1>5. CASE UNCHANGED <<deks, reported>> /\ p.phase # "ahead" /\ Enter(m, [p EXCEPT !.phase = "ahead"])
  <2>1. PICK s : s = [p EXCEPT !.phase = "ahead"]
    OBVIOUS
  <2>2. /\ s \in Runs /\ s.phase = "ahead" /\ s.mode = p.mode
        /\ s.opened = p.opened /\ s.view = p.view /\ s.epoch = p.epoch /\ s.pass = p.pass
        /\ s.todo = p.todo /\ s.seen = p.seen /\ s.claimed = p.claimed
        /\ s.manifest = p.manifest /\ s.snapshot = p.snapshot
    BY <1>1, <2>1, AheadIs
  <2>3. Wire(s) /\ Settled(s.snapshot, s.view)
    BY <1>5, <2>2 DEF Wire, Judging
  <2>4. s.claimed # {} => s.epoch < EpochsOf(chain, Len(chain))
    <3>1. EpochsOf(chain, s.view) <= EpochsOf(chain, Len(chain))
          /\ EpochsOf(chain, s.view) \in Nat /\ EpochsOf(chain, Len(chain)) \in Nat
      <4>1. s.view \in Nat /\ Len(chain) \in Nat /\ s.view <= Len(chain)
        BY <1>1, <2>2, HeadIs DEF Judging, Runs, Typed
      <4>2. QED
        BY <4>1, StartsGrow, StartsFinite
    <3>2. s.claimed # {} => s.epoch < EpochsOf(chain, s.view)
      BY <2>2 DEF Judging
    <3>3. s.epoch \in Nat
      BY <2>2 DEF Runs
    <3>4. QED
      BY <3>1, <3>2, <3>3
  <2>5. Grounded(s)
    BY <2>2, <2>3, <2>4 DEF Grounded, Judging, Composing, Sealing, Seals, Pulling
  <2>6. RunMoves
    BY <1>1, <1>5, <2>1, <2>2, <2>5, Still
  <2>7. QED
    BY <1>2, <1>5, <2>6, MovesOf
<1>6. CASE UNCHANGED <<deks, reported>> /\ Ends(m)
  BY <1>2, <1>6, MovesOf
<1>7. CASE UNCHANGED <<deks, reported>> /\ Accuse(m, view) /\ Overtaken(view)
  BY <1>1, <1>2, <1>7, AccuseMoves, MovesOf
<1>8. QED
  BY <1>3, <1>4, <1>5, <1>6, <1>7, Judgements

\* The wire is fetched and judged on the chain read before.
LEMMA FetchMoves ==
    ASSUME Shapes, NEW m \in Machines, Fetch(m)
    PROVE  Moves
<1>1. /\ run[m].phase = "pull" \/ PassOver(run[m])
      /\ UNCHANGED Pulls /\ Typed
  BY DEF Fetch, Shapes
<1>2. CASE LiveAt(HeadSeq)
  <2>1. PICK r : r = Fetched(run[m]) /\ Judge(m, r, run[m].view)
    BY <1>2 DEF Fetch
  <2>2. /\ Judging(r) /\ r.phase # "ahead" /\ r.view = run[m].view
        /\ \A i \in r.snapshot + 1..Len(chain) : chain[i].op \notin {"rotate_epoch", "checkpoint"}
    BY <1>1, <2>1, FetchedIs
  <2>3. /\ run[m].view \in Nat /\ r.view <= Len(chain) /\ Len(chain) \in Nat /\ r.snapshot \in Nat
        /\ HeadSeq = Len(chain)
    BY <2>2, RunIs DEF Judging, Runs
  <2>4. Settled(r.snapshot, r.view)
    BY <1>2, <2>2, <2>3 DEF Settled, Lives, LiveAt
  <2>5. Verified(r) = "evidence" => Overtaken(run[m].view)
    BY <1>1, <1>2, <2>1, AccusedAtFetch
  <2>6. QED
    BY <1>1, <2>1, <2>2, <2>3, <2>4, <2>5, JudgeMoves
<1>3. CASE ~LiveAt(HeadSeq)
  <2>1. Ends(m) /\ UNCHANGED <<deks, reported>> /\ UNCHANGED <<serverVars, requests, pushes, floorVars>>
    BY <1>1, <1>3 DEF Fetch, Pulls
  <2>2. QED
    BY <1>1, <2>1, Still, MovesOf DEF floorVars
<1>4. QED
  BY <1>2, <1>3

\* The same wire is judged on the chain of now.
LEMMA ResyncMoves ==
    ASSUME Shapes, NEW m \in Machines, Resync(m)
    PROVE  Moves
<1>1. run[m].phase = "ahead" /\ UNCHANGED Pulls
  BY DEF Resync
<1>2. PICK r : r = [run[m] EXCEPT !.view = HeadSeq] /\ Judge(m, r, run[m].view)
  BY DEF Resync
<1>3. Judging(r) /\ r.phase = "ahead" /\ run[m].view \in Nat
  BY <1>1, <1>2, ResyncedIs
<1>4. (Verified(r) = "evidence" \/ Verified(r) = "future") => Overtaken(run[m].view)
  BY <1>1, <1>2, AccusedAtResync
<1>5. QED
  BY <1>1, <1>2, <1>3, <1>4, JudgeMoves

\* Before a rescan over a claimed conflict the chain is read again, and shows the epoch.
LEMMA ForceResyncMoves ==
    ASSUME Shapes, NEW m \in Machines, ForceResync(m)
    PROVE  Moves
<1>1. /\ Typed /\ run[m] \in Runs /\ Grounded(run[m]) /\ run[m].phase = "push"
      /\ run[m].todo = {} /\ run[m].claimed # {}
      /\ HeadSeq = Len(chain) /\ Len(chain) \in Nat
      /\ run[m].view \in 1..Len(chain) /\ run[m].opened \in 1..run[m].view /\ run[m].mode \in Modes
  BY RunIs DEF ForceResync, Sealing
<1>2. PICK s : s = [run[m] EXCEPT !.phase = "pull", !.view = HeadSeq]
  OBVIOUS
<1>3. /\ s \in Runs /\ s.phase = "pull" /\ s.view = Len(chain) /\ s.mode = run[m].mode
      /\ s.opened = run[m].opened /\ s.epoch = run[m].epoch /\ s.pass = run[m].pass
      /\ s.todo = run[m].todo /\ s.claimed = run[m].claimed
  <2>1. HeadSeq \in Nat /\ "pull" \in {"idle", "abort"} \cup Pulling \cup Composing \cup Sealing
    BY <1>1 DEF Pulling
  <2>2. QED
    BY <1>1, <1>2, <2>1 DEF Runs
<1>4. /\ run[m].pass # 0 /\ run[m].epoch \in 1..EpochsOf(chain, Len(chain))
      /\ run[m].epoch < EpochsOf(chain, Len(chain))
  BY <1>1 DEF Grounded, Seals, Sealing
<1>5. Grounded(s)
  BY <1>1, <1>3, <1>4 DEF Grounded, Composing, Pulling
<1>6. RunMoves
  BY <1>1, <1>2, <1>3, <1>5, Still DEF ForceResync
<1>7. QED
  BY <1>1, <1>6, Still, MovesOf DEF ForceResync, Pulls, floorVars

\* The accusation is shown, and the command is over.
LEMMA AbortMoves ==
    ASSUME Shapes, NEW m \in Machines, Abort(m)
    PROVE  Moves
<1>1. Typed
  BY RunIs
<1>2. Ends(m) /\ UNCHANGED <<deks, reported>> /\ UNCHANGED <<serverVars, requests, pushes, floorVars>>
  BY DEF Abort, Pulls
<1>3. QED
  BY <1>1, <1>2, Still, MovesOf DEF floorVars

\* Writing the intent down moves the journal and the run alone.
LEMMA JournalMoves ==
    ASSUME Shapes, NEW m \in Machines, Journal(m)
    PROVE  Moves
<1>1. /\ Typed /\ run[m] \in Runs /\ Grounded(run[m]) /\ run[m].phase = "journal"
      /\ intents \in [Machines -> SUBSET Intents]
  BY RunIs DEF Journal, Typed
<1>2. PICK s : s = [run[m] EXCEPT !.phase = "send"]
  OBVIOUS
<1>3. s \in Runs
  BY <1>1, <1>2 DEF Runs, Composing
<1>4. Grounded(s)
  BY <1>1, <1>2, <1>3 DEF Grounded, Composing, Sealing, Pulling, Seals, Runs
<1>5. RunMoves
  BY <1>1, <1>2, <1>3, <1>4, Still DEF Journal
<1>6. intents' \in [Machines -> SUBSET Intents]
  BY <1>1, IntentTyped DEF Journal
<1>7. QED
  BY <1>1, <1>5, <1>6, Still, MovesOf DEF Journal

\* A composite on its way is of its run.
LEMMA RequestTyped ==
    ASSUME Shapes, NEW m \in Machines, run[m].phase \in Composing
    PROVE  RequestOf(m) \in Requests /\ RequestOf(m).declaredHead \in 1..Len(chain)
<1>1. run[m] \in Runs /\ run[m].view \in 1..Len(chain)
  BY RunIs
<1>2. QED
  BY <1>1 DEF RequestOf, Requests, Runs

\* Sending adds one well-formed request over the head the run has signed at.
LEMMA SendMoves ==
    ASSUME Shapes, NEW m \in Machines, Send(m)
    PROVE  Moves
<1>1. Typed /\ run[m] \in Runs /\ Grounded(run[m]) /\ run[m].phase = "send" /\ deks \in Nat
  BY RunIs DEF Send, Typed
<1>2. PICK s : s = [run[m] EXCEPT !.phase = "wait", !.answer = "none"]
  OBVIOUS
<1>3. s \in Runs
  BY <1>1, <1>2 DEF Runs, Composing, Answers
<1>4. Grounded(s)
  BY <1>1, <1>2, <1>3 DEF Grounded, Composing, Sealing, Pulling, Seals, Runs
<1>5. RunMoves
  BY <1>1, <1>2, <1>3, <1>4, Still DEF Send
<1>6. QueuesMove
  <2>1. RequestOf(m) \in Requests /\ RequestOf(m).declaredHead \in 1..Len(chain)
    BY <1>1, RequestTyped DEF Composing
  <2>2. QED
    BY <1>1, <2>1 DEF Send, QueuesMove
<1>7. QED
  BY <1>1, <1>5, <1>6, Still, MovesOf DEF Send, floorVars

\* A command that gives up waiting leaves the answer, and a push, on its way.
LEMMA TimeOutMoves ==
    ASSUME Shapes, NEW m \in Machines, TimeOut(m)
    PROVE  Moves
<1>1. Typed /\ run[m] \in Runs /\ Grounded(run[m]) /\ run[m].phase = "wait" /\ deks \in Nat
  BY RunIs DEF TimeOut, Typed
<1>2. PICK s : s = [run[m] EXCEPT !.phase = "probe"]
  OBVIOUS
<1>3. s \in Runs
  BY <1>1, <1>2 DEF Runs, Composing
<1>4. Grounded(s)
  BY <1>1, <1>2, <1>3 DEF Grounded, Composing, Sealing, Pulling, Seals, Runs
<1>5. RunMoves
  BY <1>1, <1>2, <1>3, <1>4, Still DEF TimeOut
<1>6. QueuesMove
  BY <1>1 DEF TimeOut, QueuesMove
<1>7. QED
  BY <1>1, <1>5, <1>6, Still, MovesOf DEF TimeOut, floorVars

\* A composite that the server takes starts the next epoch.
LEMMA ServeMoves ==
    ASSUME Shapes, NEW q, ServeComposite(q)
    PROVE  Moves
<1>1. /\ Typed /\ q \in requests /\ q \in Requests /\ q.from \in Machines /\ q.dek \in Deks
      /\ q.epoch \in Nat /\ q.declaredHead \in Nat /\ deks \in Nat
  BY DEF ServeComposite, Shapes, Typed, Requests
<1>2. PICK m \in Machines : m = q.from
  BY <1>1
<1>3. /\ run[m] \in Runs /\ Grounded(run[m])
      /\ EpochAt(HeadSeq) = EpochsOf(chain, Len(chain))
  BY RunIs
<1>4. Verdict(q) \in Answers
  BY DEF Verdict, Answers
<1>5. RunMoves
  <2>1. CASE AwaitedBy(q)
    <3>1. PICK s : s = [run[m] EXCEPT !.answer = Verdict(q)]
      OBVIOUS
    <3>2. s \in Runs
      BY <1>3, <1>4, <3>1 DEF Runs
    <3>3. Grounded(s)
      <4>1. run[m].phase = "wait"
        BY <1>2, <2>1 DEF AwaitedBy
      <4>2. QED
        BY <1>3, <3>1, <3>2, <4>1 DEF Grounded, Composing, Sealing, Pulling, Seals, Runs
    <3>4. Enter(m, s)
      BY <1>2, <2>1, <3>1 DEF ServeComposite
    <3>5. QED
      BY <1>1, <3>2, <3>3, <3>4, Still
  <2>2. CASE ~AwaitedBy(q)
    BY <1>1, <2>2, Still DEF ServeComposite
  <2>3. QED
    BY <2>1, <2>2
<1>6. ServerMoves
  <2>1. CASE Verdict(q) = "ok"
    <3>1. q.epoch = EpochsOf(chain, Len(chain)) + 1
      BY <1>3, <2>1 DEF Verdict
    <3>2. Fits(Entry("rotate_epoch", q.epoch, q.dek))
      BY <1>1, <3>1 DEF Fits, Entry, Entries
    <3>3. PICK id, e : /\ id = [declaredHead |-> q.declaredHead, dek |-> q.dek]
                       /\ e = Entry("rotate_epoch", q.epoch, q.dek)
      OBVIOUS
    <3>4. id \in Ids /\ e.op = "rotate_epoch"
      BY <1>1, <3>3 DEF Ids, Entry
    <3>5. EntryAdded(e)
      BY <2>1, <3>2, <3>3, <3>4 DEF ServeComposite, EntryAdded
    <3>6. id.declaredHead = Len(chain)
      <4>1. q.declaredHead = HeadSeq
        BY <2>1 DEF Verdict
      <4>2. QED
        BY <3>3, <4>1, Reading
    <3>7. ManifestFits(id)
      <4>1. Len(chain) \in Nat
        BY <1>1, HeadIs DEF Typed
      <4>2. QED
        BY <3>3, <3>4, <3>5, <3>6, <4>1 DEF ManifestFits
    <3>8. manifests' = Append(manifests, id) /\ UNCHANGED deleted
      BY <2>1, <3>3 DEF ServeComposite
    <3>9. QED
      BY <1>1, <3>5, <3>7, <3>8 DEF ServerMoves, Typed
  <2>2. CASE Verdict(q) # "ok"
    BY <1>1, <2>2, Still DEF ServeComposite, serverVars
  <2>3. QED
    BY <2>1, <2>2
<1>7. QueuesMove
  BY <1>1 DEF ServeComposite, QueuesMove
<1>8. QED
  BY <1>1, <1>5, <1>6, <1>7, Still, MovesOf DEF ServeComposite, floorVars

\* A confirmed composite settles its intent and raises the floor.
LEMMA ConfirmMoves ==
    ASSUME Shapes, NEW m \in Machines, Confirm(m)
    PROVE  Moves
<1>1. /\ Typed /\ run[m] \in Runs /\ Grounded(run[m]) /\ run[m].phase = "wait"
      /\ HeadSeq = Len(chain) /\ Len(chain) \in Nat
      /\ EpochAt(HeadSeq) = EpochsOf(chain, Len(chain)) /\ EpochAt(HeadSeq) \in Nat \ {0}
      /\ run[m].view \in 1..Len(chain) /\ run[m].opened \in 1..run[m].view /\ run[m].mode \in Modes
  BY RunIs DEF Confirm, Answered, Composing
<1>2. UNCHANGED Unserved
  BY DEF Confirm
<1>3. ServerMoves /\ QueuesMove /\ reported' \in [Machines -> [epoch : Nat, baseline : Nat]]
      /\ (Ends(m) => RunMoves)
      /\ (UNCHANGED intents => intents' \in [Machines -> SUBSET Intents])
  BY <1>1, <1>2, Still DEF Unserved
<1>4. \A o \in Outcomes : Settles(m, o) => intents' \in [Machines -> SUBSET Intents]
  BY <1>1, SettlesTyped
<1>5. intents' \in [Machines -> SUBSET Intents]
  BY <1>3, <1>4 DEF Confirm, Outcomes, SETTLED_IN, SETTLED_OUT, floorVars
<1>6. RunMoves
  <2>1. CASE Ends(m)
    BY <1>3, <2>1
  <2>2. CASE EpochAt(HeadSeq) = run[m].epoch
             /\ Enter(m, [run[m] EXCEPT !.phase = "push", !.view = HeadSeq, !.pass = 1])
    <3>1. PICK s : s = [run[m] EXCEPT !.phase = "push", !.view = HeadSeq, !.pass = 1]
      OBVIOUS
    <3>2. s \in Runs
      <4>1. run[m] \in Runs /\ HeadSeq \in Nat
        BY <1>1
      <4>2. QED
        BY <3>1, <4>1 DEF Runs, Sealing
    <3>3. /\ s.phase = "push" /\ s.mode = run[m].mode /\ s.opened = run[m].opened
          /\ s.view = Len(chain) /\ s.epoch = run[m].epoch /\ s.todo = run[m].todo
          /\ s.seen = run[m].seen /\ s.claimed = run[m].claimed /\ s.pass = 1
      BY <1>1, <3>1 DEF Runs
    <3>4. s.claimed = {} /\ \A v \in s.todo : s.seen[v] \in 1..Len(values[v])
      BY <1>1, <3>3 DEF Grounded, Pulling
    <3>5. Grounded(s)
      BY <1>1, <2>2, <3>3, <3>4 DEF Grounded, Composing, Pulling
    <3>6. QED
      BY <1>1, <2>2, <3>1, <3>2, <3>5, Still
  <2>3. QED
    BY <2>1, <2>2 DEF Confirm
<1>7. QED
  BY <1>3, <1>5, <1>6, MovesOf

\* After a head conflict a run signs the same key again over the head of now.
LEMMA HeadConflictMoves ==
    ASSUME Shapes, NEW m \in Machines, HeadConflict(m)
    PROVE  Moves
<1>1. /\ Typed /\ run[m] \in Runs /\ Grounded(run[m]) /\ run[m].phase = "wait"
      /\ HeadSeq = Len(chain) /\ Len(chain) \in Nat
      /\ EpochAt(HeadSeq) = EpochsOf(chain, Len(chain)) /\ EpochAt(HeadSeq) \in Nat \ {0}
      /\ run[m].view \in 1..Len(chain) /\ run[m].opened \in 1..run[m].view /\ run[m].mode \in Modes
  BY RunIs DEF HeadConflict, Answered, Composing
<1>2. UNCHANGED Unserved /\ Settles(m, "rejected")
  BY DEF HeadConflict
<1>3. ServerMoves /\ QueuesMove /\ reported' \in [Machines -> [epoch : Nat, baseline : Nat]]
      /\ (Ends(m) => RunMoves)
  BY <1>1, <1>2, Still DEF Unserved
<1>4. intents' \in [Machines -> SUBSET Intents]
  BY <1>1, <1>2, SettlesTyped DEF Outcomes, SETTLED_OUT
<1>5. RunMoves
  <2>1. CASE Ends(m)
    BY <1>3, <2>1
  <2>2. CASE Recheck(run[m]) /\ Enter(m, Resigned(run[m]))
    <3>1. PICK s : s = Resigned(run[m])
      OBVIOUS
    <3>2. s \in Runs
      <4>1. run[m] \in Runs /\ HeadSeq \in Nat /\ run[m].attempt + 1 \in Nat
        BY <1>1 DEF Runs
      <4>2. QED
        BY <3>1, <4>1 DEF Runs, Composing, Resigned
    <3>3. /\ s.phase = "journal" /\ s.mode = run[m].mode /\ s.opened = run[m].opened
          /\ s.view = Len(chain) /\ s.epoch = run[m].epoch /\ s.todo = run[m].todo
          /\ s.seen = run[m].seen /\ s.claimed = run[m].claimed
      BY <1>1, <3>1 DEF Runs, Resigned
    <3>4. s.epoch = EpochsOf(chain, s.view) + 1
      BY <1>1, <2>2, <3>3 DEF Recheck
    <3>5. s.claimed = {} /\ \A v \in s.todo : s.seen[v] \in 1..Len(values[v])
      BY <1>1, <3>3 DEF Grounded, Pulling
    <3>6. Grounded(s)
      BY <1>1, <3>3, <3>4, <3>5 DEF Grounded, Sealing, Pulling, Seals
    <3>7. QED
      BY <1>1, <2>2, <3>1, <3>2, <3>6, Still
  <2>3. QED
    BY <2>1, <2>2 DEF HeadConflict
<1>6. QED
  BY <1>3, <1>4, <1>5, MovesOf

\* After a conflict of values a run starts over with a pull.
LEMMA ValuesConflictMoves ==
    ASSUME Shapes, NEW m \in Machines, ValuesConflict(m)
    PROVE  Moves
<1>1. /\ Typed /\ run[m] \in Runs /\ run[m].phase = "wait" /\ Len(chain) \in Nat
      /\ run[m].mode \in Modes /\ run[m].opened \in 1..Len(chain)
  <2>1. /\ Typed /\ run[m] \in Runs /\ run[m].phase = "wait" /\ Len(chain) \in Nat
        /\ run[m].view \in 1..Len(chain) /\ run[m].opened \in 1..run[m].view /\ run[m].mode \in Modes
    BY RunIs DEF ValuesConflict, Answered, Composing
  <2>2. QED
    BY <2>1
<1>2. UNCHANGED Unserved /\ Settles(m, "rejected")
  BY DEF ValuesConflict
<1>3. ServerMoves /\ QueuesMove /\ reported' \in [Machines -> [epoch : Nat, baseline : Nat]]
      /\ (Ends(m) => RunMoves)
  BY <1>1, <1>2, Still DEF Unserved
<1>4. intents' \in [Machines -> SUBSET Intents]
  BY <1>1, <1>2, SettlesTyped DEF Outcomes, SETTLED_OUT
<1>5. RunMoves
  <2>1. CASE Ends(m)
    BY <1>3, <2>1
  <2>2. CASE Enter(m, Round(run[m].mode, run[m].baseline, run[m].opened, run[m].round + 1))
    <3>1. PICK s : s = Round(run[m].mode, run[m].baseline, run[m].opened, run[m].round + 1)
      OBVIOUS
    <3>2. run[m] \in Runs /\ run[m].mode \in Modes
      BY <1>1
    <3>3. s \in Runs /\ Grounded(s)
      BY <1>1, <3>1, <3>2, NextRoundIs
    <3>4. QED
      BY <1>1, <2>2, <3>1, <3>3, Still
  <2>3. QED
    BY <2>1, <2>2 DEF ValuesConflict
<1>6. QED
  BY <1>3, <1>4, <1>5, MovesOf

\* A refused composite ends its run.
LEMMA RejectedMoves ==
    ASSUME Shapes, NEW m \in Machines, Rejected(m)
    PROVE  Moves
<1>1. Typed
  BY RunIs
<1>2. UNCHANGED Unserved /\ Settles(m, "rejected") /\ Ends(m)
  BY DEF Rejected
<1>3. intents' \in [Machines -> SUBSET Intents]
  BY <1>1, <1>2, SettlesTyped DEF Outcomes, SETTLED_OUT
<1>4. QED
  BY <1>1, <1>2, <1>3, Still, MovesOf DEF Unserved

\* A probe settles the intent by the chain and ends the run.
LEMMA ProbeMoves ==
    ASSUME Shapes, NEW m \in Machines, Probe(m)
    PROVE  Moves
<1>1. Typed
  BY RunIs
<1>2. UNCHANGED Unserved /\ Ends(m)
  BY DEF Probe
<1>3. Probed(run[m]) \in {"unknown", "send-pending"} \cup Outcomes
  BY DEF Probed, Outcomes, SETTLED_IN, SETTLED_OUT
<1>4. intents' \in [Machines -> SUBSET Intents]
  BY <1>1, <1>3, SettlesTyped, Still DEF Probe, floorVars
<1>5. QED
  BY <1>1, <1>2, <1>4, Still, MovesOf DEF Unserved

\* A crash leaves nothing but what was on disk.
LEMMA CrashMoves ==
    ASSUME Shapes, NEW m \in Machines, Crash(m)
    PROVE  Moves
<1>1. Typed
  BY RunIs
<1>2. QED
  BY <1>1, Still, MovesOf DEF Crash, floorVars

\* A push adds one version under the current epoch, or the request for it.
LEMMA PushMoves ==
    ASSUME Shapes, NEW m \in Machines, NEW v \in Variables, Push(m, v)
    PROVE  Moves
<1>1. /\ Typed /\ run[m] \in Runs /\ Grounded(run[m]) /\ run[m].phase = "push" /\ v \in run[m].todo
      /\ EpochAt(HeadSeq) = EpochsOf(chain, Len(chain)) /\ EpochAt(HeadSeq) \in Nat \ {0}
      /\ values \in [Variables -> Seq(Texts)] /\ deks \in Nat
      /\ run[m].view \in 1..Len(chain) /\ Len(chain) \in Nat
  BY RunIs DEF Push, Typed, Sealing
<1>2. /\ values[v] \in Seq(Texts) /\ Len(values[v]) \in Nat
      /\ run[m].seen[v] \in 1..Len(values[v]) /\ run[m].epoch \in 1..EpochAt(HeadSeq)
      /\ run[m].epoch \in Nat /\ run[m].pass # 0
  BY <1>1 DEF Grounded, Sealing, Seals
<1>3. PICK p : p = PushOf(m, v)
  OBVIOUS
<1>4. values[v][run[m].seen[v]] \in Texts
  BY <1>2
<1>5. /\ p \in Pushes /\ p.var = v /\ p.version = run[m].seen[v] + 1
      /\ p.value \in Texts /\ p.value.epoch = run[m].epoch /\ p.value.head <= Len(chain)
      /\ p.value.text = values[v][run[m].seen[v]].text
  <2>1. PICK t, n : t = values[v][run[m].seen[v]].text /\ n = run[m].seen[v] + 1
    OBVIOUS
  <2>2. t \in Nat /\ n \in Nat
    <3>1. \A x \in Texts : x.text \in Nat
      BY DEF Texts
    <3>2. run[m].seen[v] + 1 \in Nat
      BY <1>2
    <3>3. QED
      BY <1>4, <2>1, <3>1, <3>2
  <2>3. PICK x : x = [epoch |-> run[m].epoch, text |-> t, same |-> TRUE, head |-> run[m].view]
    OBVIOUS
  <2>4. x \in Texts /\ x.epoch = run[m].epoch /\ x.text = t /\ x.head <= Len(chain)
    BY <1>1, <1>2, <2>2, <2>3 DEF Texts
  <2>5. p = [var |-> v, version |-> n, value |-> x]
    BY <1>3, <2>1, <2>3 DEF PushOf, Value, Seen
  <2>6. QED
    BY <2>1, <2>2, <2>4, <2>5 DEF Pushes
<1>6. PushFits(p)
  BY <1>2, <1>5 DEF PushFits
<1>7. UNCHANGED <<chain, deleted, manifests, requests, deks, floorVars, reported>>
  BY DEF Push
<1>8. ASSUME NEW c \in SUBSET {v}, c # {} => run[m].epoch # EpochAt(HeadSeq), Tried(m, v, c)
      PROVE  RunMoves
  <2>1. PICK s : s = [run[m] EXCEPT !.todo = @ \ {v}, !.claimed = @ \cup c]
    OBVIOUS
  <2>2. s \in Runs
    <3>1. run[m].todo \ {v} \subseteq Variables /\ run[m].claimed \cup c \subseteq Variables
      BY <1>1 DEF Runs
    <3>2. QED
      BY <1>1, <2>1, <3>1 DEF Runs
  <2>3. /\ s.phase = "push" /\ s.mode = run[m].mode /\ s.opened = run[m].opened
        /\ s.view = run[m].view /\ s.epoch = run[m].epoch /\ s.todo = run[m].todo \ {v}
        /\ s.seen = run[m].seen /\ s.claimed = run[m].claimed \cup c /\ s.pass = run[m].pass
    BY <1>1, <2>1 DEF Runs
  <2>4. s.claimed # {} => s.epoch < EpochsOf(chain, Len(chain))
    BY <1>1, <1>2, <1>8, <2>3 DEF Grounded
  <2>5. Grounded(s)
    <3>1. /\ s.mode \in Modes /\ 1 <= s.opened /\ s.opened <= s.view /\ s.view <= Len(chain)
          /\ s.epoch \in 1..EpochsOf(chain, Len(chain)) /\ s.pass # 0
          /\ \A w \in s.todo : s.seen[w] \in 1..Len(values[w])
      BY <1>1, <1>2, <2>3 DEF Grounded
    <3>2. QED
      BY <2>3, <2>4, <3>1 DEF Grounded, Composing, Pulling
  <2>6. QED
    BY <1>1, <1>8, <2>1, <2>2, <2>5, Still DEF Tried
<1>9. CASE Present(v) /\ ValueCas(v, p.value.epoch, p.version) /\ Extended(v, p.value)
           /\ Tried(m, v, {}) /\ UNCHANGED pushes
  <2>1. RunMoves
    BY <1>8, <1>9
  <2>2. p.value.epoch = EpochAt(HeadSeq) /\ run[m].seen[v] = Len(values[v])
    BY <1>2, <1>5, <1>9 DEF ValueCas
  <2>3. TextAdded(v, p.value)
    BY <1>1, <1>2, <1>5, <1>7, <1>9, <2>2 DEF TextAdded, Follows, Extended
  <2>4. ServerMoves
    BY <1>1, <1>7, <2>3 DEF ServerMoves, Typed
  <2>5. QED
    BY <1>1, <1>7, <1>9, <2>1, <2>4, Still, MovesOf DEF floorVars
<1>10. CASE Tried(m, v, IF Present(v) /\ p.value.epoch # EpochAt(HeadSeq) THEN {v} ELSE {})
            /\ UNCHANGED <<values, pushes>>
  <2>1. RunMoves
    BY <1>5, <1>8, <1>10
  <2>2. QED
    BY <1>1, <1>7, <1>10, <2>1, Still, MovesOf DEF floorVars, serverVars
<1>11. CASE pushes' \in {pushes, pushes \cup {p}} /\ Tried(m, v, {}) /\ UNCHANGED values
  <2>1. RunMoves
    BY <1>8, <1>11
  <2>2. QueuesMove
    BY <1>1, <1>6, <1>7, <1>11 DEF QueuesMove
  <2>3. QED
    BY <1>1, <1>7, <1>11, <2>1, <2>2, Still, MovesOf DEF floorVars, serverVars
<1>12. QED
  BY <1>3, <1>9, <1>10, <1>11 DEF Push

\* A push that arrives late is taken only as the next version.
LEMMA ServePushMoves ==
    ASSUME Shapes, NEW p, ServePush(p)
    PROVE  Moves
<1>1. /\ Typed /\ p \in pushes /\ p \in Pushes /\ p.var \in Variables /\ p.version \in Nat
      /\ p.value \in Texts
      /\ p.version - 1 \in 1..Len(values[p.var])
      /\ p.value.text = values[p.var][p.version - 1].text /\ p.value.head <= Len(chain)
      /\ Len(values[p.var]) \in Nat /\ deks \in Nat
  BY DEF ServePush, Shapes, PushesRepeat, Typed, Pushes
<1>2. EpochAt(HeadSeq) = EpochsOf(chain, Len(chain))
  BY Reading
<1>3. UNCHANGED <<chain, deleted, manifests, requests, deks, run, floorVars, reported>>
      /\ pushes' = pushes \ {p}
  BY DEF ServePush
<1>4. ServerMoves
  <2>1. CASE Present(p.var) /\ ValueCas(p.var, p.value.epoch, p.version) /\ Extended(p.var, p.value)
    <3>1. p.value.epoch = EpochsOf(chain, Len(chain)) /\ p.version - 1 = Len(values[p.var])
      BY <1>1, <1>2, <2>1 DEF ValueCas
    <3>2. TextAdded(p.var, p.value)
      BY <1>1, <1>3, <2>1, <3>1 DEF TextAdded, Follows, Extended
    <3>3. QED
      BY <1>1, <1>3, <3>2 DEF ServerMoves, Typed
  <2>2. CASE UNCHANGED values
    BY <1>1, <1>3, <2>2, Still DEF serverVars
  <2>3. QED
    BY <2>1, <2>2 DEF ServePush
<1>5. QueuesMove
  BY <1>1, <1>3 DEF QueuesMove
<1>6. QED
  BY <1>1, <1>3, <1>4, <1>5, Still, MovesOf DEF floorVars

\* An entry that starts nothing fits any chain.
LEMMA NeutralFits ==
    \A op \in Neutral : Fits(Entry(op, 0, NoDek))
BY DEF Fits, Entry, Entries, NoDek, Deks

\* The checkpoint a run leaves behind is such an entry.
LEMMA AttestationIs ==
    ASSUME Typed, NEW e, e = Attestation
    PROVE  e \in Entries /\ e.op = "checkpoint" /\ e.op \in Neutral /\ e.dek = NoDek /\ Fits(e)
<1>1. PICK c : c = Entry("checkpoint", 0, NoDek)
  OBVIOUS
<1>2. c \in Entries /\ c.op = "checkpoint" /\ c.dek = NoDek
  BY <1>1 DEF Entry, Entries, Neutral, NoDek, Deks
<1>3. e = [c EXCEPT !.attests = Len(manifests)] /\ Len(manifests) \in Nat
  BY <1>1 DEF Attestation, Typed
<1>4. e \in Entries /\ e.op = "checkpoint" /\ e.dek = NoDek
  BY <1>2, <1>3 DEF Entries
<1>5. QED
  BY <1>4 DEF Fits, Neutral

\* The last checkpoint of a run adds a neutral entry.
LEMMA NotarizeMoves ==
    ASSUME Shapes, NEW m \in Machines, Notarize(m)
    PROVE  Moves
<1>1. Typed /\ run[m] \in Runs
  BY RunIs
<1>2. UNCHANGED <<values, deleted, manifests, requests, pushes, deks, floorVars>>
      /\ Ends(m) /\ Reports(m, run[m])
      /\ (chain' = chain \/ chain' = Append(chain, Attestation))
  BY DEF Notarize
<1>3. ServerMoves
  <2>1. PICK e : e = Attestation
    OBVIOUS
  <2>2. Fits(e) /\ e.op = "checkpoint"
    BY <1>1, <2>1, AttestationIs
  <2>3. chain' = chain \/ EntryAdded(e)
    BY <1>2, <2>1, <2>2 DEF EntryAdded
  <2>4. QED
    BY <1>1, <1>2, <2>3 DEF ServerMoves, Typed
<1>4. reported' \in [Machines -> [epoch : Nat, baseline : Nat]]
  BY <1>1, <1>2, ReportsTyped
<1>5. QED
  BY <1>1, <1>2, <1>3, <1>4, Still, MovesOf DEF floorVars

\* Requests of others add an entry or a version, under the rules of the server.
LEMMA OthersMove ==
    ASSUME Shapes, Others
    PROVE  Moves
<1>1. /\ Typed /\ HeadSeq = Len(chain) /\ HeadSeq \in Nat
      /\ EpochAt(HeadSeq) = EpochsOf(chain, Len(chain)) /\ EpochAt(HeadSeq) \in Nat
      /\ deleted \subseteq Variables
  BY HeadIs, Reading DEF Shapes, Typed
<1>2. UNCHANGED <<requests, pushes, deks, run, floorVars, reported>>
  BY DEF Others
<1>3. ASSUME NEW head \in Heads
      PROVE  head \in Nat /\ head <= Len(chain)
  <2>1. EpochStart(EpochAt(HeadSeq)) \in Nat
    <3>1. EpochsOf(chain, Len(chain)) \in 1..EpochsOf(chain, Len(chain))
      BY <1>1, HeadIs DEF Typed
    <3>2. StartIn(chain, EpochsOf(chain, Len(chain))) \in 1..Len(chain)
      BY <1>1, <3>1, StartFound DEF Typed
    <3>3. EpochStart(EpochAt(HeadSeq)) = StartIn(chain, EpochsOf(chain, Len(chain)))
      BY <1>1, Reading
    <3>4. QED
      BY <3>2, <3>3
  <2>2. QED
    BY <1>1, <2>1 DEF Heads
<1>4. ASSUME NEW op \in Neutral, OtherEntry(op)
      PROVE  ServerMoves
  <2>1. Lives(chain, Len(chain)) /\ Fits(Entry(op, 0, NoDek))
    BY <1>1, <1>4, NeutralFits, Reading DEF OtherEntry
  <2>2. EntryAdded(Entry(op, 0, NoDek))
    BY <1>4, <2>1 DEF OtherEntry, EntryAdded
  <2>3. QED
    BY <1>1, <1>4, <2>2 DEF OtherEntry, ServerMoves
<1>5. ASSUME NEW v \in Variables, NEW n \in Nat, NEW head \in Heads,
             Extended(v, Value(EpochAt(HeadSeq), n, FALSE, head)), chain' = chain
      PROVE  \E x : TextAdded(v, x)
  <2>1. head \in Nat /\ head <= Len(chain)
    BY <1>3
  <2>2. PICK x : x = Value(EpochAt(HeadSeq), n, FALSE, head)
    OBVIOUS
  <2>3. x \in Texts /\ x.epoch = EpochsOf(chain, Len(chain)) /\ ~x.same /\ x.head <= Len(chain)
    BY <1>1, <2>1, <2>2 DEF Value, Texts
  <2>4. QED
    BY <1>5, <2>2, <2>3 DEF Extended, TextAdded, Follows
<1>6. ASSUME NEW v \in Variables, NEW head \in Heads,
             WriteValue(v, head) \/ CreateVariable(v, head) \/ DeleteVariable(v, head)
      PROVE  ServerMoves
  <2>1. Len(values[v]) + 1 \in Nat
    BY <1>1 DEF Typed
  <2>2. PICK id : id = [declaredHead |-> head, dek |-> NoDek]
    OBVIOUS
  <2>3. ManifestFits(id)
    BY <1>3, <2>2 DEF ManifestFits, Ids, NoDek, Deks
  <2>4. OtherManifest(head) => \E i : ManifestFits(i) /\ manifests' = Append(manifests, i)
    BY <2>2, <2>3 DEF OtherManifest
  <2>5. CASE WriteValue(v, head)
    BY <1>1, <1>5, <2>1, <2>5 DEF WriteValue, ServerMoves
  <2>6. CASE CreateVariable(v, head)
    <3>1. \E x : TextAdded(v, x)
      <4>1. Extended(v, Value(EpochAt(HeadSeq), 1, FALSE, head)) /\ chain' = chain
        BY <2>6 DEF CreateVariable
      <4>2. QED
        BY <1>5, <4>1
    <3>2. QED
      BY <1>1, <2>4, <2>6, <3>1 DEF CreateVariable, ServerMoves
  <2>7. CASE DeleteVariable(v, head)
    BY <1>1, <2>4, <2>7 DEF DeleteVariable, ServerMoves
  <2>8. QED
    BY <1>6, <2>5, <2>6, <2>7
<1>7. ServerMoves
  BY <1>4, <1>6 DEF Others, Depart, DeleteEnvironment, AppendOther, Neutral
<1>8. QED
  BY <1>1, <1>2, <1>7, Still, MovesOf DEF floorVars

\* What a sweep opens with.
LEMMA SweepMoves ==
    ASSUME Shapes, NEW m \in Machines, Sweep(m) \/ ManualRotate(m)
    PROVE  Moves
<1>1. CASE Sweep(m)
  <2>1. Baseline(HeadSeq) \in Nat
    <3>1. LastLeave(chain, Len(chain)) \in Nat
      BY HeadIs, LastLeaveIs DEF Shapes, Typed
    <3>2. QED
      BY <3>1, Reading
  <2>2. PICK mode \in Modes : Opens(m, mode, Baseline(HeadSeq))
    BY <1>1 DEF Sweep, Modes
  <2>3. QED
    BY <2>1, <2>2, OpensMoves
<1>2. CASE ManualRotate(m)
  BY <1>2, OpensMoves DEF ManualRotate, Modes
<1>3. QED
  BY <1>1, <1>2

\* Every step moves the data so.
LEMMA EveryMove ==
    ASSUME Shapes, [Next]_rotationVars
    PROVE  Moves
<1>1. Typed
  BY DEF Shapes
<1>2. CASE UNCHANGED rotationVars
  BY <1>1, <1>2, Still, MovesOf DEF rotationVars, serverVars, floorVars
<1>3. ASSUME NEW m \in Machines,
             Sweep(m) \/ ManualRotate(m) \/ Works(m) \/ TimeOut(m) \/ Crash(m)
      PROVE  Moves
  <2>1. CASE Sweep(m) \/ ManualRotate(m)
    BY <2>1, SweepMoves
  <2>2. CASE Works(m)
    BY <2>2, ForceResyncMoves, FetchMoves, ResyncMoves, AbortMoves, JournalMoves, SendMoves,
       ConfirmMoves, HeadConflictMoves, ValuesConflictMoves, RejectedMoves, ProbeMoves, PushMoves,
       NotarizeMoves
    DEF Works
  <2>3. QED
    BY <1>3, <2>1, <2>2, TimeOutMoves, CrashMoves
<1>4. CASE Serves
  BY <1>4, ServeMoves, ServePushMoves DEF Serves
<1>5. QED
  BY <1>2, <1>3, <1>4, OthersMove DEF Next

(***************************************************************************)
(* The shapes hold from the start on.                                      *)
(***************************************************************************)

\* The chain begins with the creation, and perhaps with somebody who has left.
LEMMA InitialChain ==
    ASSUME Init
    PROVE  /\ Chained(chain)
           /\ EpochsOf(chain, Len(chain)) = 1
           /\ StartIn(chain, 1) = 1
           /\ Lives(chain, Len(chain))
           /\ AlreadyLeft => Len(chain) = 2 /\ Leave = 2
           /\ ~AlreadyLeft => Len(chain) = 1 /\ Leave = 0
<1> DEFINE a == Entry("create_environment", 1, NoDek)
           b == Entry("remove_member", 0, NoDek)
<1>1. PICK c : c = <<a>>
  OBVIOUS
<1>2. /\ a \in Entries /\ b \in Entries
      /\ a.op = "create_environment" /\ a.epoch = 1 /\ a.dek = NoDek
      /\ b.op = "remove_member" /\ b.dek = NoDek
  BY DEF Entry, Entries, NoDek, Deks, Neutral
<1> HIDE DEF a, b
<1>3. c \in Seq(Entries) /\ Len(c) = 1 /\ c[1] = a
  BY <1>1, <1>2
<1>4. StartsIn(c, 1) = {1} /\ EpochsOf(c, 1) = 1
  <2>1. StartsIn(c, 1) = {1}
    BY <1>2, <1>3 DEF StartsIn
  <2>2. QED
    BY <2>1, FS_Singleton DEF EpochsOf
<1>5. Chained(c)
  BY <1>2, <1>3, <1>4 DEF Chained
<1>6. StartIn(c, 1) = 1
  <2>1. 1 \in 1..EpochsOf(c, Len(c)) /\ StartsIn(c, Len(c)) = {1}
    BY <1>3, <1>4
  <2>2. StartIn(c, 1) \in StartsIn(c, Len(c))
    BY <1>5, <2>1, StartFound
  <2>3. QED
    BY <2>1, <2>2
<1>7. Lives(c, 1) /\ LastLeave(c, 1) = 0
  <2>1. Lives(c, 1) /\ LeavesOf(c, 1) = {}
    BY <1>2, <1>3 DEF Lives, LeavesOf
  <2>2. QED
    BY <2>1, LastLeaveIs
<1>8. CASE ~AlreadyLeft
  <2>1. chain = c
    BY <1>1, <1>3, <1>8 DEF Init, a
  <2>2. QED
    BY <1>3, <1>4, <1>5, <1>6, <1>7, <1>8, <2>1 DEF Leave
<1>9. CASE AlreadyLeft
  <2>1. chain = Append(c, b)
    <3>1. chain = <<a>> \o <<b>>
      BY <1>9 DEF Init, a, b
    <3>2. QED
      BY <1>1, <1>2, <3>1
  <2>2. /\ Chained(chain) /\ StartIn(chain, 1) = 1
    <3>1. b.op \in Neutral /\ b.dek = NoDek /\ b \in Entries
      BY <1>2 DEF Neutral
    <3>2. /\ Chained(Append(c, b))
          /\ \A n \in 1..EpochsOf(c, Len(c)) : StartIn(Append(c, b), n) = StartIn(c, n)
      BY <1>5, <3>1, ChainedAfter
    <3>3. EpochsOf(c, Len(c)) = 1 /\ 1 \in 1..1
      BY <1>3, <1>4
    <3>4. QED
      BY <1>6, <2>1, <3>2, <3>3
  <2>3. Len(chain) = 2
    BY <1>2, <1>3, <2>1, Appended
  <2>4. EpochsOf(chain, 2) = 1 /\ LastLeave(chain, 2) = 2 /\ Lives(chain, 2)
    <3>1. ~Begins(b) /\ b.op = "remove_member" /\ b.op # "delete_environment" /\ b \in Entries
      BY <1>2 DEF Begins
    <3>2. EpochsOf(Append(c, b), Len(c) + 1) = EpochsOf(c, Len(c))
      BY <1>3, <3>1, StartsAfter
    <3>3. LastLeave(Append(c, b), Len(c) + 1) = Len(c) + 1
      BY <1>3, <3>1, LeaveAfter
    <3>4. Lives(Append(c, b), Len(c) + 1) <=> Lives(c, Len(c)) /\ b.op # "delete_environment"
      BY <1>3, <3>1, LivesAfter
    <3>5. Len(c) = 1 /\ Len(c) + 1 = 2
      BY <1>3
    <3>6. QED
      BY <1>4, <1>7, <2>1, <3>1, <3>2, <3>3, <3>4, <3>5
  <2>5. QED
    BY <1>9, <2>2, <2>3, <2>4 DEF Leave
<1>10. AlreadyLeft \in BOOLEAN
  BY RetryAssumption
<1>11. QED
  BY <1>8, <1>9, <1>10

\* The first state has these shapes.
LEMMA ShapesInitially == Init => Shapes
<1> SUFFICES ASSUME Init PROVE Shapes
  OBVIOUS
<1>1. Chained(chain) /\ EpochsOf(chain, Len(chain)) = 1 /\ Len(chain) \in Nat \ {0}
  BY InitialChain, HeadIs
<1>2. /\ values \in [Variables -> Seq(Texts)]
      /\ \A v \in Variables : \A n \in 1..Len(values[v]) :
            values[v][n].epoch = 1 /\ values[v][n].same = FALSE /\ values[v][n].head = 1
  <2>1. PICK t : t = Value(1, 1, FALSE, 1)
    OBVIOUS
  <2>2. t \in Texts /\ t.epoch = 1 /\ t.same = FALSE /\ t.head = 1
    BY <2>1 DEF Value, Texts
  <2>3. <<t>> \in Seq(Texts) /\ <<>> \in Seq(Texts) /\ Len(<<t>>) = 1 /\ <<t>>[1] = t
    BY <2>2
  <2>4. \A v \in Variables : values[v] = <<t>> \/ values[v] = <<>>
    BY <2>1 DEF Init
  <2>5. values \in [Variables -> Seq(Texts)]
    <3>1. values = [v \in Variables |-> values[v]]
      BY DEF Init
    <3>2. QED
      BY <2>3, <2>4, <3>1
  <2>6. QED
    BY <2>2, <2>3, <2>4, <2>5
<1>3. run \in [Machines -> Runs] /\ \A m \in Machines : Grounded(run[m])
  BY IdleGrounded DEF Init
<1>4. manifests \in Seq(Ids) /\ Len(manifests) = 1 /\ ManifestsKept
  <2>1. PICK id : id = [declaredHead |-> 0, dek |-> NoDek]
    OBVIOUS
  <2>2. id \in Ids /\ id.declaredHead = 0 /\ id.dek = NoDek
    BY <2>1 DEF Ids, NoDek, Deks
  <2>3. manifests = <<id>>
    BY <2>1 DEF Init
  <2>4. QED
    BY <1>1, <2>2, <2>3 DEF ManifestsKept, Stands
<1>5. Typed
  <2>1. /\ intents \in [Machines -> SUBSET Intents]
        /\ reported \in [Machines -> [epoch : Nat, baseline : Nat]]
        /\ deleted = {} /\ requests = {} /\ pushes = {} /\ deks = 0
    BY DEF Init
  <2>2. QED
    BY <1>1, <1>2, <1>3, <1>4, <2>1 DEF Typed
<1>6. ValuesKept
  BY <1>1, <1>2 DEF ValuesKept
<1>7. QED
  BY <1>3, <1>4, <1>5, <1>6 DEF Shapes, Init, PushesRepeat, RequestsGrounded

\* What the server stores and a run has read has its shape in every reachable state.
THEOREM ShapesHold == Spec => []Shapes
<1>1. Init => Shapes
  BY ShapesInitially
<1>2. Shapes /\ [Next]_rotationVars => Shapes'
  BY EveryMove, ShapesKept
<1>3. QED
  BY <1>1, <1>2, PTL DEF Spec

\* A command accuses an honest server only when it was overtaken: a rotation, a checkpoint
\* or the deletion of the environment landed between the chain it had read and what it
\* fetched (verifyAll, settlePass).  A rotation explains a manifest that declares the
\* head of the view and brings an epoch the view does not have; any of the three explains a
\* second look at the chain that contradicts the wire; and a claimed epoch conflict is
\* never turned against the server, since the chain read again shows the epoch.
THEOREM AccusationsHaveARace == Spec => []AccusedOnlyWhenOvertaken
<1>1. Shapes => AccusedOnlyWhenOvertaken
  BY Reading DEF Shapes, Grounded, Overtaken, AccusedOnlyWhenOvertaken
<1>2. QED
  BY <1>1, ShapesHold, PTL

\* A re-encryption never buries a newer text, also when its push arrives after the run
\* has given up on it (pushReencrypted, checkValueCas): versions stay in their place,
\* so what the compare-and-set lets in was read from the version just before it.
THEOREM TextsAreKept == Spec => []ReencryptionKeepsText
<1>1. Shapes => ReencryptionKeepsText
  BY DEF Shapes, ValuesKept, ReencryptionKeepsText
<1>2. QED
  BY <1>1, ShapesHold, PTL

(***************************************************************************)
(* What a run may rely on stays so.                                        *)
(***************************************************************************)

\* The last departure stays the last, or a new one is the new head.
LEMMA LeaveMoves ==
    ASSUME Typed, ServerMoves
    PROVE  /\ Leave \in 0..Len(chain) /\ Leave' \in 0..Len(chain')
           /\ Leave' = Leave \/ (Leave' = Len(chain') /\ Len(chain') = Len(chain) + 1)
           /\ Leave <= Leave'
<1>1. Chained(chain) /\ Len(chain) \in Nat /\ chain \in Seq(Entries) /\ Len(chain') \in Nat
  BY HeadIs, ChainGrows DEF Typed
<1>2. Leave \in 0..Len(chain) /\ Leave' \in 0..Len(chain')
  BY <1>1, LastLeaveIs DEF Leave
<1>3. Leave' = Leave \/ (Leave' = Len(chain') /\ Len(chain') = Len(chain) + 1)
  <2>1. CASE chain' = chain
    BY <2>1 DEF Leave
  <2>2. ASSUME NEW e, EntryAdded(e)
        PROVE  Leave' = Leave \/ (Leave' = Len(chain') /\ Len(chain') = Len(chain) + 1)
    <3>1. e \in Entries /\ chain' = Append(chain, e) /\ Len(Append(chain, e)) = Len(chain) + 1
      BY <1>1, <2>2, Appended DEF EntryAdded, Fits
    <3>2. \/ LastLeave(Append(chain, e), Len(chain) + 1) = Len(chain) + 1
          \/ LastLeave(Append(chain, e), Len(chain) + 1) = LastLeave(chain, Len(chain))
      BY <1>1, <3>1, LeaveAfter
    <3>3. QED
      BY <3>1, <3>2 DEF Leave
  <2>3. QED
    BY <2>1, <2>2 DEF ServerMoves, TextAdded
<1>4. QED
  BY <1>1, <1>2, <1>3

\* A deleted environment does not come back.
LEMMA LivesBefore ==
    ASSUME Typed, ServerMoves, Lives(chain', Len(chain'))
    PROVE  Lives(chain, Len(chain))
<1>1. CASE chain' = chain
  BY <1>1
<1>2. ASSUME NEW e, EntryAdded(e)
      PROVE  Lives(chain, Len(chain))
  <2>1. chain \in Seq(Entries) /\ e \in Entries /\ chain' = Append(chain, e)
        /\ Len(Append(chain, e)) = Len(chain) + 1
    BY <1>2, Appended DEF EntryAdded, Fits, Typed, Chained
  <2>2. Lives(Append(chain, e), Len(chain) + 1)
    BY <2>1
  <2>3. QED
    BY <2>1, <2>2, LivesAfter
<1>3. QED
  BY <1>1, <1>2 DEF ServerMoves, TextAdded

\* The current value of an active variable is sealed under an epoch that has begun.
LEMMA LatestIs ==
    ASSUME Typed, ValuesKept, NEW v \in Active
    PROVE  /\ v \in Variables /\ Latest(v) = values[v][Len(values[v])]
           /\ Latest(v).epoch \in 1..EpochsOf(chain, Len(chain))
           /\ StartIn(chain, Latest(v).epoch) \in 1..Len(chain)
<1>1. /\ v \in Variables /\ values[v] \in Seq(Texts) /\ values[v] # <<>>
  BY DEF Active, Typed
<1>2. Len(values[v]) \in 1..Len(values[v])
  BY <1>1
<1>3. Latest(v).epoch \in 1..EpochsOf(chain, Len(chain))
  BY <1>1, <1>2 DEF ValuesKept, Latest
<1>4. QED
  BY <1>1, <1>3, StartFound DEF Latest, Typed

\* The current value is the one there was, or one sealed under the epoch in force.
LEMMA LatestMoves ==
    ASSUME Typed, ServerMoves, NEW v \in Variables, v \in Active'
    PROVE  \/ v \in Active /\ Latest(v)' = Latest(v)
           \/ Latest(v)'.epoch = EpochsOf(chain, Len(chain)) /\ chain' = chain
<1>1. values \in [Variables -> Seq(Texts)] /\ v \notin deleted' /\ deleted \subseteq deleted'
  BY DEF Typed, Active, ServerMoves
<1>2. CASE values' = values
  BY <1>1, <1>2 DEF Active, Latest
<1>3. ASSUME NEW w \in Variables, NEW x, TextAdded(w, x)
      PROVE  \/ v \in Active /\ Latest(v)' = Latest(v)
             \/ Latest(v)'.epoch = EpochsOf(chain, Len(chain)) /\ chain' = chain
  <2>1. /\ x \in Texts /\ x.epoch = EpochsOf(chain, Len(chain)) /\ chain' = chain
        /\ values' = [values EXCEPT ![w] = Append(@, x)]
    BY <1>3 DEF TextAdded, Follows
  <2>2. CASE v = w
    <3>1. values'[v] = Append(values[v], x) /\ values[v] \in Seq(Texts)
      BY <1>1, <2>1, <2>2
    <3>2. Len(Append(values[v], x)) = Len(values[v]) + 1 /\ Append(values[v], x)[Len(values[v]) + 1] = x
      BY <2>1, <3>1, Appended
    <3>3. Latest(v)' = x
      BY <3>1, <3>2 DEF Latest
    <3>4. QED
      BY <2>1, <3>3
  <2>3. CASE v # w
    BY <1>1, <2>1, <2>3 DEF Active, Latest
  <2>4. QED
    BY <2>2, <2>3
<1>4. QED
  BY <1>2, <1>3 DEF ServerMoves, EntryAdded

\* A fence stays: the epoch in force only moves on.
LEMMA FenceKept ==
    ASSUME Typed, ServerMoves, NEW i \in Nat, FencedFrom(i)
    PROVE  FencedFrom(i)'
<1> DEFINE E == EpochsOf(chain, Len(chain))
           F == EpochsOf(chain', Len(chain'))
<1>1. /\ Chained(chain') /\ E \in Nat \ {0} /\ F \in Nat /\ E <= F
      /\ StartIn(chain', E) = StartIn(chain, E)
  <2>1. E \in 1..E
    BY ChainGrows DEF Typed
  <2>2. QED
    BY <2>1, ChainGrows DEF Typed
<1>2. StartIn(chain', E) <= StartIn(chain', F)
      /\ StartIn(chain', E) \in 1..Len(chain') /\ StartIn(chain', F) \in 1..Len(chain')
      /\ Len(chain') \in Nat
  <2>1. E \in 1..F /\ F \in 1..F /\ Len(chain') \in Nat
    BY <1>1, ChainGrows DEF Typed
  <2>2. QED
    BY <1>1, <2>1, StartsOrdered, StartFound
<1>3. StartIn(chain, E) > i
  BY DEF FencedFrom
<1> HIDE DEF E, F
<1>4. StartIn(chain', F) > i
  BY <1>1, <1>2, <1>3
<1>5. QED
  BY <1>4 DEF FencedFrom, F

\* Nobody's reach grows back: once fenced off and sealed again, an environment stays so.
LEMMA SafeKept ==
    ASSUME Typed, ValuesKept, ServerMoves, NEW i \in Nat, Safe(i)
    PROVE  Safe(i)'
<1>1. SUFFICES ASSUME Lives(chain', Len(chain'))
               PROVE  FencedFrom(i)' /\ SealedFrom(i)'
  BY DEF Safe
<1>2. FencedFrom(i) /\ SealedFrom(i)
  BY <1>1, LivesBefore DEF Safe
<1>3. FencedFrom(i)'
  BY <1>2, FenceKept
<1>4. ASSUME NEW v \in Variables, v \in Active'
      PROVE  StartIn(chain', Latest(v)'.epoch) > i
  <2>1. CASE v \in Active /\ Latest(v)' = Latest(v)
    <3>1. StartIn(chain', Latest(v).epoch) = StartIn(chain, Latest(v).epoch)
      BY <2>1, LatestIs, ChainGrows DEF Typed
    <3>2. QED
      BY <1>2, <2>1, <3>1 DEF SealedFrom
  <2>2. CASE Latest(v)'.epoch = EpochsOf(chain, Len(chain)) /\ chain' = chain
    BY <1>2, <2>2 DEF FencedFrom
  <2>3. QED
    BY <1>4, <2>1, <2>2, LatestMoves
<1>5. SealedFrom(i)'
  <2>1. Active' \subseteq Variables
    BY DEF Active
  <2>2. QED
    BY <1>4, <2>1 DEF SealedFrom
<1>6. QED
  BY <1>3, <1>5

\* What landed stays where it is.
LEMMA LandedKept ==
    ASSUME Typed, ServerMoves, NEW h \in Nat, NEW n, NEW d, LandedAt(h, n, d)
    PROVE  LandedAt(h, n, d)'
<1>1. /\ Len(chain) \in Nat /\ Len(chain') \in Nat /\ Len(chain) <= Len(chain')
      /\ \A i \in 1..Len(chain) : chain'[i] = chain[i]
  BY ChainGrows DEF Typed
<1>2. h + 1 \in 1..Len(chain)
  BY <1>1 DEF LandedAt
<1>3. QED
  BY <1>1, <1>2 DEF LandedAt

\* What a run covers it goes on covering.
LEMMA CoversKept ==
    ASSUME Typed, ValuesKept, ServerMoves, NEW r \in Runs, Grounded(r), NEW b, Covers(r, b)
    PROVE  Covers(r, b)'
<1>1. /\ r.baseline \in Nat /\ r.opened \in Nat /\ r.view \in Nat /\ r.epoch \in Nat
      /\ Len(chain) \in Nat /\ EpochsOf(chain, Len(chain)) \in Nat
  BY HeadIs DEF Runs, Typed
<1>2. Leave \in Nat /\ Leave' \in Nat /\ Leave <= Leave'
  BY <1>1, LeaveMoves, ChainGrows DEF Typed
<1>3. r.phase \notin {"idle", "abort"} /\ r.mode # "rotate" =>
          b < r.baseline /\ r.baseline <= r.opened /\ r.baseline <= Leave'
  BY <1>1, <1>2 DEF Covers
<1>4. r.phase \notin {"idle", "abort"} /\ r.mode = "verify" =>
          StartIn(chain', EpochsOf(chain', r.opened)) > r.baseline
  <2>1. SUFFICES ASSUME r.phase \notin {"idle", "abort"}, r.mode = "verify"
                 PROVE  StartIn(chain', EpochsOf(chain', r.opened)) > r.baseline
    OBVIOUS
  <2>2. r.opened \in 1..Len(chain)
    BY <1>1, <2>1 DEF Grounded
  <2>3. /\ EpochsOf(chain', r.opened) = EpochsOf(chain, r.opened)
        /\ EpochsOf(chain, r.opened) \in 1..EpochsOf(chain, Len(chain))
    BY <2>2, ChainGrows, HeadIs DEF Typed
  <2>4. StartIn(chain', EpochsOf(chain, r.opened)) = StartIn(chain, EpochsOf(chain, r.opened))
    BY <2>3, ChainGrows DEF Typed
  <2>5. QED
    BY <2>1, <2>3, <2>4 DEF Covers
<1>5. Seals(r) /\ r.mode # "rotate" => StartIn(chain', r.epoch) > r.baseline
  <2>1. Seals(r) => StartIn(chain', r.epoch) = StartIn(chain, r.epoch)
    BY ChainGrows DEF Typed, Grounded
  <2>2. QED
    BY <2>1 DEF Covers
<1>6. r.phase = "notarize" /\ r.mode # "rotate" => Safe(r.baseline)'
  BY <1>1, SafeKept DEF Covers
<1>7. r.phase = "ahead" => Fresh(r)'
  <2>1. SUFFICES ASSUME r.phase = "ahead" PROVE Fresh(r)'
    OBVIOUS
  <2>2. Fresh(r) /\ Wire(r)
    BY <2>1 DEF Covers, Grounded
  <2>3. /\ r.snapshot \in 1..Len(chain)
        /\ EpochsOf(chain', r.snapshot) = EpochsOf(chain, r.snapshot)
        /\ EpochsOf(chain, r.snapshot) \in 1..EpochsOf(chain, Len(chain))
    BY <1>1, <2>2, ChainGrows, HeadIs DEF Typed, Wire
  <2>4. ASSUME NEW v \in Variables, v \in Active'
        PROVE  \/ Latest(v)'.epoch >= EpochsOf(chain', r.snapshot)
               \/ r.seen[v] # 0 /\ Latest(v)'.epoch = Seen(r, v)'.epoch
    <3>1. CASE v \in Active /\ Latest(v)' = Latest(v)
      <4>1. r.seen[v] # 0 => Seen(r, v)' = Seen(r, v)
        <5>1. r.seen[v] \in Nat /\ r.seen[v] <= Len(values[v]) /\ Len(values[v]) \in Nat
          BY <2>2, ValuesGrow DEF Wire, Runs
        <5>2. r.seen[v] # 0 => r.seen[v] \in 1..Len(values[v])
          BY <5>1
        <5>3. QED
          BY <5>2, ValuesGrow DEF Seen
      <4>2. \/ Latest(v).epoch >= EpochsOf(chain, r.snapshot)
            \/ r.seen[v] # 0 /\ Latest(v).epoch = Seen(r, v).epoch
        BY <2>2, <3>1 DEF Fresh
      <4>3. QED
        BY <2>3, <3>1, <4>1, <4>2
    <3>2. CASE Latest(v)'.epoch = EpochsOf(chain, Len(chain)) /\ chain' = chain
      <4>1. EpochsOf(chain, Len(chain)) >= EpochsOf(chain, r.snapshot)
        BY <1>1, <2>3
      <4>2. QED
        BY <2>3, <3>2, <4>1
    <3>3. QED
      BY <2>4, <3>1, <3>2, LatestMoves
  <2>5. Active' \subseteq Variables
    BY DEF Active
  <2>6. QED
    BY <2>4, <2>5 DEF Fresh
<1>8. QED
  BY <1>3, <1>4, <1>5, <1>6, <1>7 DEF Covers, Seals

(***************************************************************************)
(* Every action keeps the promise.                                         *)
(***************************************************************************)

\* One run changes, nothing is reported: what remains is to look at the new run.
RunKeeps(m, s) ==
    /\ run' = [run EXCEPT ![m] = s]
    /\ Covers(s, reported[m].baseline)
    /\ AnsweredTrue(s)'

\* A departure is reported dealt with.
NewClaim(m, b) == reported[m].baseline < b /\ b <= Leave /\ Safe(b)

Claims(m, b) ==
    /\ run' = [run EXCEPT ![m] = Idle]
    /\ reported'[m].baseline = b
    /\ \A n \in Machines : n # m => reported'[n] = reported[n]
    /\ b = reported[m].baseline \/ NewClaim(m, b)
    /\ UNCHANGED <<values, deleted>>
    /\ chain' = chain \/ EntryAdded(Attestation)

ClaimsMove ==
    \/ reported' = reported /\ run' = run
    \/ reported' = reported /\ \E m \in Machines : \E s \in Runs : RunKeeps(m, s)
    \/ \E m \in Machines : \E b \in Nat : Claims(m, b)

\* An idle run covers nothing and awaits nothing.
LEMMA IdleKeeps ==
    ASSUME NEW m \in Machines, Ends(m)
    PROVE  RunKeeps(m, Idle) /\ Idle \in Runs
<1>1. Idle.phase = "idle"
  BY DEF Idle
<1>2. Covers(Idle, reported[m].baseline) /\ AnsweredTrue(Idle)'
  BY <1>1 DEF Covers, AnsweredTrue, Seals, Sealing, Pulling
<1>3. QED
  BY <1>2, IdleGrounded DEF Ends, Enter, RunKeeps

\* A run that goes on with the same purpose, outside of sealing or still inside it, covers
\* what it covered.
LEMMA CarriedOn ==
    ASSUME NEW r \in Runs, NEW s \in Runs, NEW b, Covers(r, b), r.phase \notin {"idle", "abort"},
           s.mode = r.mode, s.baseline = r.baseline, s.opened = r.opened,
           s.phase # "ahead", ~Seals(s) \/ (Seals(r) /\ s.phase # "notarize" /\ s.epoch = r.epoch)
    PROVE  Covers(s, b)
<1>1. s.phase = "notarize" => Seals(s)
  BY DEF Seals, Sealing
<1>2. QED
  BY <1>1 DEF Covers

\* A sweep covers the departures so far, none of which its machine has reported.
LEMMA SweepKeeps ==
    ASSUME Shapes, Promise, NEW m \in Machines, Sweep(m) \/ ManualRotate(m)
    PROVE  ClaimsMove
<1>1. /\ Typed /\ Len(chain) \in Nat \ {0} /\ HeadSeq = Len(chain)
      /\ Baseline(HeadSeq) = Leave /\ Leave \in 0..Len(chain)
      /\ EpochAt(HeadSeq) = EpochsOf(chain, Len(chain))
      /\ EpochsOf(chain, Len(chain)) \in Nat \ {0}
      /\ reported[m].baseline \in Nat
  BY RunIs, Reading, LastLeaveIs DEF Leave, Typed
<1>2. ASSUME NEW mode \in Modes, NEW b \in Nat, Opens(m, mode, b),
             mode # "rotate" => reported[m].baseline < b /\ b = Leave,
             mode = "verify" => StartIn(chain, EpochsOf(chain, Len(chain))) > b
      PROVE  ClaimsMove
  <2>1. PICK s : s = Round(mode, b, HeadSeq, 1)
    OBVIOUS
  <2>2. /\ s \in Runs /\ s.phase = "pull" /\ s.mode = mode /\ s.baseline = b
        /\ s.opened = Len(chain) /\ s.pass = 0
    <3>1. PICK o : o = HeadSeq
      OBVIOUS
    <3>2. o \in Nat /\ o = Len(chain) /\ s = Round(mode, b, o, 1) /\ 1 \in Nat
      BY <1>1, <2>1, <3>1
    <3>3. s \in Runs /\ s.phase = "pull" /\ s.mode = mode /\ s.baseline = b /\ s.opened = o /\ s.pass = 0
      BY <1>2, <3>2, RoundIs
    <3>4. QED
      BY <3>2, <3>3
  <2>3. ~Seals(s)
    BY <2>2 DEF Seals, Sealing, Pulling
  <2>4. Covers(s, reported[m].baseline)
    BY <1>1, <1>2, <2>2, <2>3 DEF Covers
  <2>5. AnsweredTrue(s)'
    BY <2>2 DEF AnsweredTrue
  <2>6. RunKeeps(m, s) /\ reported' = reported
    BY <1>2, <2>1, <2>4, <2>5 DEF Opens, Enter, RunKeeps
  <2>7. QED
    BY <2>2, <2>6 DEF ClaimsMove
<1>3. CASE Sweep(m)
  <2>1. reported[m].baseline < Leave
    BY <1>1, <1>3 DEF Sweep
  <2>2. CASE IsPendingAt(HeadSeq, Leave)
    BY <1>1, <1>2, <1>3, <2>1, <2>2 DEF Sweep, Modes
  <2>3. CASE ~IsPendingAt(HeadSeq, Leave)
    <3>1. ~(StartIn(chain, EpochsOf(chain, Len(chain))) < Leave)
      BY <1>1, <2>3, Reading DEF IsPendingAt
    <3>2. EpochsOf(chain, Len(chain)) \in 1..EpochsOf(chain, Len(chain))
      BY <1>1
    <3>3. StartIn(chain, EpochsOf(chain, Len(chain))) \in StartsIn(chain, Len(chain))
          /\ StartIn(chain, EpochsOf(chain, Len(chain))) \in 1..Len(chain)
      BY <1>1, <3>2, StartFound DEF Typed
    <3>4. Leave \in LeavesOf(chain, Len(chain))
      <4>1. Leave # 0
        BY <1>1, <2>1
      <4>2. QED
        BY <1>1, <4>1, LastLeaveIs DEF Leave
    <3>5. StartIn(chain, EpochsOf(chain, Len(chain))) # Leave
      BY <3>3, <3>4 DEF StartsIn, LeavesOf
    <3>6. StartIn(chain, EpochsOf(chain, Len(chain))) > Leave
      BY <1>1, <3>1, <3>3, <3>5
    <3>7. Opens(m, "verify", Leave)
      BY <1>1, <1>3, <2>3 DEF Sweep
    <3>8. QED
      BY <1>1, <1>2, <2>1, <3>6, <3>7 DEF Modes
  <2>4. QED
    BY <2>2, <2>3
<1>4. CASE ManualRotate(m)
  BY <1>2, <1>4 DEF ManualRotate, Modes
<1>5. QED
  BY <1>3, <1>4

\* If no active value is older than an epoch that began after a departure, whoever had
\* left by then reads nothing.
LEMMA NothingStale ==
    ASSUME Typed, ValuesKept, NEW n \in 1..EpochsOf(chain, Len(chain)),
           \A v \in Active : Latest(v).epoch >= n,
           NEW i \in Nat, StartIn(chain, n) > i
    PROVE  Safe(i)
<1>1. /\ Chained(chain) /\ EpochsOf(chain, Len(chain)) \in Nat \ {0} /\ Len(chain) \in Nat
      /\ n \in Nat /\ StartIn(chain, n) \in 1..Len(chain)
  BY HeadIs, StartFound DEF Typed
<1>2. ASSUME NEW k \in 1..EpochsOf(chain, Len(chain)), n <= k
      PROVE  StartIn(chain, k) > i
  <2>1. StartIn(chain, n) <= StartIn(chain, k) /\ StartIn(chain, k) \in 1..Len(chain)
    BY <1>1, <1>2, StartsOrdered, StartFound
  <2>2. QED
    BY <1>1, <2>1
<1>3. FencedFrom(i)
  <2>1. EpochsOf(chain, Len(chain)) \in 1..EpochsOf(chain, Len(chain)) /\ n <= EpochsOf(chain, Len(chain))
    BY <1>1
  <2>2. QED
    BY <1>2, <2>1 DEF FencedFrom
<1>4. SealedFrom(i)
  <2>1. SUFFICES ASSUME NEW v \in Active PROVE StartIn(chain, Latest(v).epoch) > i
    BY DEF SealedFrom
  <2>2. Latest(v).epoch \in 1..EpochsOf(chain, Len(chain)) /\ Latest(v).epoch >= n
    BY LatestIs
  <2>3. n <= Latest(v).epoch
    BY <1>1, <2>2
  <2>4. QED
    BY <1>2, <2>2, <2>3
<1>5. QED
  BY <1>3, <1>4 DEF Safe

\* A run judges, for the purpose it has, what stands for the values of now.
Judged(m, p) ==
    /\ Judging(p) /\ SamePurpose(p, run[m]) /\ Fresh(p)
    /\ run[m].phase \in {"push"} \cup Pulling

\* What was fetched in the same step is what is there.
LEMMA FetchedFresh ==
    ASSUME Typed, NEW r, r.seen = Served
    PROVE  Fresh(r)
<1>1. ASSUME NEW v \in Active
      PROVE  r.seen[v] # 0 /\ Seen(r, v) = Latest(v)
  BY ServedIs DEF Seen, Latest
<1>2. QED
  BY <1>1 DEF Fresh

\* If nothing that was brought is older than the epoch of the view, and the position of the
\* checkpoint fits the view, then nothing that is there is older.
LEMMA NothingOlder ==
    ASSUME Shapes, NEW m \in Machines, NEW p, Judged(m, p), Verified(p) = "ok",
           NEW n, n = EpochsOf(chain, p.view), StaleIn(p, n) = {}
    PROVE  /\ n \in 1..EpochsOf(chain, Len(chain))
           /\ \A v \in Active : Latest(v).epoch >= n
<1>1. /\ Typed /\ ValuesKept /\ p \in Runs /\ p.view \in 1..Len(chain) /\ Fresh(p) /\ Wire(p)
      /\ Chained(chain)
  <2>1. Typed /\ ValuesKept /\ Chained(chain) /\ Len(chain) \in Nat
    BY HeadIs DEF Shapes, Typed
  <2>2. p \in Runs /\ Fresh(p) /\ Wire(p) /\ 1 <= p.opened /\ p.opened <= p.view /\ p.view <= Len(chain)
    BY DEF Judged, Judging
  <2>3. p.view \in Nat /\ p.opened \in Nat
    BY <2>2 DEF Runs
  <2>4. QED
    BY <2>1, <2>2, <2>3
<1>2. p.snapshot = LatestCheckpoint(p.view)
  BY DEF Verified
<1>3. EpochsOf(chain, p.snapshot) = n /\ n \in 1..EpochsOf(chain, Len(chain))
  BY <1>1, <1>2, LatestCheckpointIs, HeadIs
<1>4. ASSUME NEW v \in Active
      PROVE  Latest(v).epoch >= n
  <2>1. CASE Latest(v).epoch >= EpochsOf(chain, p.snapshot)
    BY <1>3, <2>1
  <2>2. CASE p.seen[v] # 0 /\ Latest(v).epoch = Seen(p, v).epoch
    <3>1. v \in Brought(p)
      BY <2>2 DEF Brought, Active
    <3>2. ~(Seen(p, v).epoch < n)
      BY <3>1 DEF StaleIn
    <3>3. Latest(v).epoch \in Nat /\ n \in Nat
      <4>1. Latest(v).epoch \in 1..EpochsOf(chain, Len(chain))
        BY <1>1, LatestIs
      <4>2. QED
        BY <1>3, <4>1
    <3>4. QED
      BY <2>2, <3>2, <3>3
  <2>3. QED
    BY <1>1, <2>1, <2>2 DEF Fresh
<1>5. QED
  BY <1>3, <1>4

\* What a run that judges covers.
LEMMA JudgedCovers ==
    ASSUME Shapes, Promise, NEW m \in Machines, NEW p, Judged(m, p)
    PROVE  /\ Typed /\ ValuesKept /\ p \in Runs /\ p.baseline \in Nat /\ p.mode \in Modes
           /\ reported \in [Machines -> [epoch : Nat, baseline : Nat]]
           /\ p.mode # "rotate" => /\ reported[m].baseline < p.baseline
                                   /\ p.baseline <= p.opened /\ p.baseline <= Leave
           /\ p.mode = "verify" => /\ StartIn(chain, EpochsOf(chain, p.opened)) > p.baseline
                                   /\ StartIn(chain, EpochsOf(chain, p.view)) > p.baseline
           /\ p.pass # 0 /\ p.mode # "rotate" => StartIn(chain, p.epoch) > p.baseline
           /\ EpochAt(p.view) = EpochsOf(chain, p.view)
<1>1. /\ Typed /\ ValuesKept /\ Chained(chain)
      /\ reported \in [Machines -> [epoch : Nat, baseline : Nat]]
      /\ Covers(run[m], reported[m].baseline)
  BY DEF Shapes, Typed, Promise, PromiseOf
<1>2. /\ p \in Runs /\ p.mode \in Modes /\ 1 <= p.opened /\ p.opened <= p.view /\ p.view <= Len(chain)
      /\ SamePurpose(p, run[m]) /\ run[m].phase \in {"push"} \cup Pulling
  BY DEF Judged, Judging
<1>3. p.baseline \in Nat /\ p.opened \in Nat /\ p.view \in Nat /\ Len(chain) \in Nat
  BY <1>1, <1>2, HeadIs DEF Runs
<1>4. run[m].phase \notin {"idle", "abort"} /\ (run[m].pass # 0 => Seals(run[m]))
  BY <1>2 DEF Pulling, Seals, Sealing
<1>5. /\ p.mode # "rotate" => /\ reported[m].baseline < p.baseline
                               /\ p.baseline <= p.opened /\ p.baseline <= Leave
      /\ p.mode = "verify" => StartIn(chain, EpochsOf(chain, p.opened)) > p.baseline
      /\ p.pass # 0 /\ p.mode # "rotate" => StartIn(chain, p.epoch) > p.baseline
  BY <1>1, <1>2, <1>4 DEF Covers, SamePurpose
\* The epoch in force at the view began no earlier than the one at the opening.
<1>6. p.mode = "verify" => StartIn(chain, EpochsOf(chain, p.view)) > p.baseline
  <2>1. SUFFICES ASSUME p.mode = "verify" PROVE StartIn(chain, EpochsOf(chain, p.view)) > p.baseline
    OBVIOUS
  <2>2. p.opened \in 1..Len(chain) /\ p.view \in 1..Len(chain)
    BY <1>2, <1>3
  <2>3. /\ EpochsOf(chain, p.opened) \in 1..EpochsOf(chain, Len(chain))
        /\ EpochsOf(chain, p.view) \in 1..EpochsOf(chain, Len(chain))
    BY <1>1, <2>2, HeadIs
  <2>4. EpochsOf(chain, p.opened) <= EpochsOf(chain, p.view)
    BY <1>2, <1>3, StartsGrow
  <2>5. StartIn(chain, EpochsOf(chain, p.opened)) <= StartIn(chain, EpochsOf(chain, p.view))
    BY <1>1, <2>3, <2>4, StartsOrdered
  <2>6. /\ StartIn(chain, EpochsOf(chain, p.opened)) \in 1..Len(chain)
        /\ StartIn(chain, EpochsOf(chain, p.view)) \in 1..Len(chain)
    BY <1>1, <2>3, StartFound
  <2>7. QED
    BY <1>3, <1>5, <2>1, <2>5, <2>6
<1>7. QED
  BY <1>1, <1>2, <1>3, <1>5, <1>6, Reading

\* A pull that opens a round reports only what it has seen, or goes on.
LEMMA DecideKeeps ==
    ASSUME Shapes, Promise, NEW m \in Machines, NEW p, Judged(m, p), Verified(p) = "ok", p.pass = 0,
           Decide(m, p), UNCHANGED Pulls
    PROVE  ClaimsMove
<1>1. /\ Typed /\ ValuesKept /\ Judging(p) /\ p \in Runs /\ p.baseline \in Nat /\ p.mode \in Modes
      /\ reported \in [Machines -> [epoch : Nat, baseline : Nat]]
      /\ p.mode # "rotate" => /\ reported[m].baseline < p.baseline
                              /\ p.baseline <= p.opened /\ p.baseline <= Leave
      /\ p.mode = "verify" => /\ StartIn(chain, EpochsOf(chain, p.opened)) > p.baseline
                              /\ StartIn(chain, EpochsOf(chain, p.view)) > p.baseline
      /\ EpochAt(p.view) = EpochsOf(chain, p.view)
  BY JudgedCovers DEF Judged
<1>2. PICK todo \in SUBSET Brought(p) : \E r :
          /\ r = Chosen(p, todo)
          /\ \/ /\ p.mode = "verify" /\ StaleIn(p, EpochAt(p.view)) = {}
                /\ Ends(m) /\ Reports(m, r) /\ UNCHANGED deks
             \/ p.mode # "force" /\ Resume(m, r) /\ UNCHANGED reported
             \/ Rotate(m, r) /\ UNCHANGED reported
  BY <1>1, Decides
<1>3. PICK r :
          /\ r = Chosen(p, todo)
          /\ \/ /\ p.mode = "verify" /\ StaleIn(p, EpochAt(p.view)) = {}
                /\ Ends(m) /\ Reports(m, r) /\ UNCHANGED deks
             \/ p.mode # "force" /\ Resume(m, r) /\ UNCHANGED reported
             \/ Rotate(m, r) /\ UNCHANGED reported
  BY <1>2
<1>4. /\ r \in Runs /\ r.mode = p.mode /\ r.baseline = p.baseline /\ r.opened = p.opened
      /\ r.epoch = EpochsOf(chain, p.view) /\ r.epoch \in 1..EpochsOf(chain, Len(chain))
      /\ r.epoch \in Nat
  <2>1. /\ r \in Runs /\ r.mode = p.mode /\ r.baseline = p.baseline /\ r.opened = p.opened
        /\ r.view = p.view /\ r.epoch = EpochsOf(chain, r.view)
        /\ r.epoch \in 1..EpochsOf(chain, Len(chain))
    BY <1>1, <1>3, DecideReads
  <2>2. QED
    BY <2>1 DEF Runs
<1>5. UNCHANGED serverVars
  BY DEF Pulls
<1>6. CASE p.mode = "verify" /\ StaleIn(p, EpochAt(p.view)) = {} /\ Ends(m) /\ Reports(m, r)
  <2>1. Safe(p.baseline)
    <3>1. \A v \in Active : Latest(v).epoch >= r.epoch
      BY <1>1, <1>4, <1>6, NothingOlder
    <3>2. QED
      BY <1>1, <1>4, <1>6, <3>1, NothingStale
  <2>2. NewClaim(m, p.baseline)
    BY <1>1, <1>6, <2>1 DEF NewClaim
  <2>3. reported'[m].baseline = p.baseline /\ \A n \in Machines : n # m => reported'[n] = reported[n]
    BY <1>1, <1>4, <1>6 DEF Reports
  <2>4. Claims(m, p.baseline)
    BY <1>5, <1>6, <2>2, <2>3 DEF Claims, Ends, Enter, serverVars
  <2>5. QED
    BY <1>1, <2>4 DEF ClaimsMove
<1>7. CASE Ends(m) /\ UNCHANGED reported
  BY <1>7, IdleKeeps DEF ClaimsMove
<1>8. CASE p.mode # "force" /\ UNCHANGED reported
           /\ Enter(m, [r EXCEPT !.phase = "push", !.pass = 1, !.dek = DekOf(r.epoch)])
  <2>1. PICK s : s = [r EXCEPT !.phase = "push", !.pass = 1, !.dek = DekOf(r.epoch)]
    OBVIOUS
  <2>2. s \in Runs /\ s.phase = "push" /\ s.mode = p.mode /\ s.baseline = p.baseline
        /\ s.opened = p.opened /\ s.epoch = EpochsOf(chain, p.view)
    BY <1>1, <1>4, <2>1, ResumedIs
  <2>3. s.mode # "rotate" => s.mode = "verify"
    BY <1>1, <1>8, <2>2 DEF Modes
  <2>4. Covers(s, reported[m].baseline)
    BY <1>1, <2>2, <2>3 DEF Covers
  <2>5. AnsweredTrue(s)'
    BY <2>2 DEF AnsweredTrue
  <2>6. RunKeeps(m, s)
    BY <1>8, <2>1, <2>4, <2>5 DEF RunKeeps, Enter
  <2>7. QED
    BY <1>8, <2>2, <2>6 DEF ClaimsMove
<1>9. CASE UNCHANGED reported
           /\ Enter(m, Composed(r, r.epoch + 1, [maker |-> m, number |-> deks + 1]))
  <2>1. PICK n, d : n = r.epoch + 1 /\ d = [maker |-> m, number |-> deks + 1]
    OBVIOUS
  <2>2. n \in Nat /\ d \in Deks
    BY <1>1, <1>4, <2>1 DEF Typed, Deks
  <2>3. PICK s : s = Composed(r, n, d)
    OBVIOUS
  <2>4. s \in Runs /\ s.phase = "journal" /\ s.mode = p.mode /\ s.baseline = p.baseline
        /\ s.opened = p.opened
    BY <1>4, <2>2, <2>3, RotatedIs
  <2>5. ~Seals(s)
    BY <2>4 DEF Seals, Sealing, Pulling
  <2>6. Covers(s, reported[m].baseline)
    BY <1>1, <2>4, <2>5 DEF Covers
  <2>7. AnsweredTrue(s)'
    BY <2>4 DEF AnsweredTrue
  <2>8. RunKeeps(m, s)
    BY <1>9, <2>1, <2>3, <2>6, <2>7 DEF RunKeeps, Enter
  <2>9. QED
    BY <1>9, <2>4, <2>8 DEF ClaimsMove
<1>10. QED
  BY <1>3, <1>6, <1>7, <1>8, <1>9 DEF Resume, Rotate, Composed

\* A pass that leaves nothing stale has nothing left to revoke.
LEMMA SettlePassKeeps ==
    ASSUME Shapes, Promise, NEW m \in Machines, NEW p, Judged(m, p), Verified(p) = "ok", p.pass # 0,
           SettlePass(m, p), UNCHANGED reported
    PROVE  ClaimsMove
<1>1. /\ Typed /\ ValuesKept /\ Judging(p) /\ p \in Runs /\ p.baseline \in Nat /\ p.mode \in Modes
      /\ p.mode # "rotate" => /\ reported[m].baseline < p.baseline
                              /\ p.baseline <= p.opened /\ p.baseline <= Leave
      /\ p.mode = "verify" => StartIn(chain, EpochsOf(chain, p.opened)) > p.baseline
      /\ p.mode # "rotate" => StartIn(chain, p.epoch) > p.baseline
      /\ Wire(p)
  BY JudgedCovers DEF Judged, Judging
<1>2. CASE Ends(m)
  BY <1>2, IdleKeeps DEF ClaimsMove
<1>3. CASE /\ EpochsOf(chain, p.view) = p.epoch /\ StaleIn(p, p.epoch) = {}
           /\ Enter(m, [p EXCEPT !.phase = "notarize", !.claimed = {}, !.snapshot = 0])
  <2>1. PICK s : s = [p EXCEPT !.phase = "notarize", !.claimed = {}, !.snapshot = 0]
    OBVIOUS
  <2>2. /\ s \in Runs /\ s.phase = "notarize" /\ s.mode = p.mode /\ s.baseline = p.baseline
        /\ s.opened = p.opened /\ s.epoch = p.epoch
    BY <1>1, <2>1, PassedIs
  <2>3. /\ p.epoch \in 1..EpochsOf(chain, Len(chain))
        /\ \A v \in Active : Latest(v).epoch >= p.epoch
    BY <1>3, NothingOlder
  <2>4. p.mode # "rotate" => Safe(p.baseline)
    BY <1>1, <2>3, NothingStale
  <2>5. Covers(s, reported[m].baseline)
    BY <1>1, <2>2, <2>4 DEF Covers
  <2>6. AnsweredTrue(s)'
    BY <2>2 DEF AnsweredTrue
  <2>7. QED
    BY <1>3, <2>1, <2>2, <2>5, <2>6 DEF RunKeeps, Enter, ClaimsMove
<1>4. ASSUME NEW todo \in SUBSET Brought(p), Enter(m, NextPass(p, p.pass + 1, todo))
      PROVE  ClaimsMove
  <2>1. PICK n : n = p.pass + 1 /\ n \in Nat
    BY <1>1 DEF Runs
  <2>2. PICK s : s = NextPass(p, n, todo)
    OBVIOUS
  <2>3. todo \in SUBSET Variables
    BY <1>1, BroughtIs
  <2>4. /\ s \in Runs /\ s.phase = "push" /\ s.mode = p.mode /\ s.baseline = p.baseline
        /\ s.opened = p.opened /\ s.epoch = p.epoch
    BY <1>1, <2>1, <2>2, <2>3, PassAgainIs
  <2>5. Covers(s, reported[m].baseline)
    BY <1>1, <2>4 DEF Covers
  <2>6. AnsweredTrue(s)'
    BY <2>4 DEF AnsweredTrue
  <2>7. QED
    BY <1>4, <2>1, <2>2, <2>4, <2>5, <2>6 DEF RunKeeps, Enter, ClaimsMove
<1>5. QED
  BY <1>1, <1>2, <1>3, <1>4, Settlings

\* Whatever is made of a pull, it is for the purpose of the run.
LEMMA JudgeKeeps ==
    ASSUME Shapes, Promise, NEW m \in Machines, NEW p, Judged(m, p), NEW view \in Nat,
           Judge(m, p, view), UNCHANGED Pulls
    PROVE  ClaimsMove
<1>1. /\ p \in Runs /\ p.mode \in Modes /\ Fresh(p)
      /\ p.mode # "rotate" => /\ reported[m].baseline < p.baseline
                              /\ p.baseline <= p.opened /\ p.baseline <= Leave
      /\ p.mode = "verify" => StartIn(chain, EpochsOf(chain, p.opened)) > p.baseline
      /\ p.pass # 0 /\ p.mode # "rotate" => StartIn(chain, p.epoch) > p.baseline
  BY JudgedCovers DEF Judged
<1>2. CASE Verified(p) = "ok" /\ p.pass = 0 /\ Decide(m, p)
  BY <1>2, DecideKeeps
<1>3. CASE UNCHANGED reported /\ Verified(p) = "ok" /\ p.pass # 0 /\ SettlePass(m, p)
  BY <1>3, SettlePassKeeps
<1>4. CASE UNCHANGED reported /\ Enter(m, [p EXCEPT !.phase = "ahead"])
  <2>1. PICK s : s = [p EXCEPT !.phase = "ahead"]
    OBVIOUS
  <2>2. /\ s \in Runs /\ s.phase = "ahead" /\ s.mode = p.mode /\ s.baseline = p.baseline
        /\ s.opened = p.opened /\ s.epoch = p.epoch /\ s.pass = p.pass
        /\ s.seen = p.seen /\ s.snapshot = p.snapshot
    BY <1>1, <2>1, AheadIs
  <2>3. Fresh(s)
    BY <1>1, <2>2 DEF Fresh, Seen
  <2>4. Seals(s) => p.pass # 0
    BY <2>2 DEF Seals, Sealing
  <2>5. Covers(s, reported[m].baseline)
    BY <1>1, <2>2, <2>3, <2>4 DEF Covers
  <2>6. AnsweredTrue(s)'
    BY <2>2 DEF AnsweredTrue
  <2>7. QED
    BY <1>4, <2>1, <2>2, <2>5, <2>6 DEF RunKeeps, Enter, ClaimsMove
<1>5. CASE UNCHANGED reported /\ Ends(m)
  BY <1>5, IdleKeeps DEF ClaimsMove
<1>6. CASE UNCHANGED reported /\ Accuse(m, view)
  <2>1. PICK i : i = Idle /\ i \in Runs
    BY IdleGrounded
  <2>2. PICK s : s = [i EXCEPT !.phase = "abort", !.view = view]
    OBVIOUS
  <2>3. s \in Runs /\ s.phase = "abort"
    BY <2>1, <2>2 DEF Runs
  <2>4. Covers(s, reported[m].baseline) /\ AnsweredTrue(s)'
    BY <2>3 DEF Covers, AnsweredTrue, Seals, Sealing, Pulling
  <2>5. QED
    BY <1>6, <2>1, <2>2, <2>3, <2>4 DEF Accuse, RunKeeps, Enter, ClaimsMove
<1>7. QED
  BY <1>2, <1>3, <1>4, <1>5, <1>6, Judgements

\* The wire is of now.
LEMMA FetchKeeps ==
    ASSUME Shapes, Promise, NEW m \in Machines, Fetch(m)
    PROVE  ClaimsMove
<1>1. (run[m].phase = "pull" \/ PassOver(run[m])) /\ UNCHANGED Pulls /\ Typed
  BY DEF Fetch, Shapes
<1>2. CASE LiveAt(HeadSeq)
  <2>1. PICK r : r = Fetched(run[m]) /\ Judge(m, r, run[m].view)
    BY <1>2 DEF Fetch
  <2>2. Judging(r) /\ SamePurpose(r, run[m]) /\ r.seen = Served /\ r.view = run[m].view
    BY <1>1, <2>1, FetchedIs
  <2>3. run[m].view \in Nat
    BY <2>2 DEF Judging, Runs
  <2>4. Judged(m, r)
    BY <1>1, <2>2, FetchedFresh DEF Judged, PassOver, Pulling
  <2>5. QED
    BY <1>1, <2>1, <2>3, <2>4, JudgeKeeps
<1>3. CASE Ends(m) /\ UNCHANGED reported
  BY <1>3, IdleKeeps DEF ClaimsMove
<1>4. QED
  BY <1>2, <1>3 DEF Fetch

\* The wire is of before, and judged by the chain of now.
LEMMA ResyncKeeps ==
    ASSUME Shapes, Promise, NEW m \in Machines, Resync(m)
    PROVE  ClaimsMove
<1>1. run[m].phase = "ahead" /\ UNCHANGED Pulls
  BY DEF Resync
<1>2. PICK r : r = [run[m] EXCEPT !.view = HeadSeq] /\ Judge(m, r, run[m].view)
  BY DEF Resync
<1>3. /\ Judging(r) /\ SamePurpose(r, run[m]) /\ run[m].view \in Nat
      /\ r.snapshot = run[m].snapshot /\ r.seen = run[m].seen
  BY <1>1, <1>2, ResyncedIs
<1>4. Fresh(run[m])
  BY <1>1 DEF Promise, PromiseOf, Covers
<1>5. Judged(m, r)
  BY <1>1, <1>3, <1>4 DEF Judged, Fresh, Seen, Pulling
<1>6. QED
  BY <1>1, <1>2, <1>3, <1>5, JudgeKeeps

\* A command that ends promises nothing.
LEMMA EndsKeeps ==
    ASSUME NEW m \in Machines, Ends(m), UNCHANGED reported
    PROVE  ClaimsMove
BY IdleKeeps DEF ClaimsMove

\* A run that goes on with the same purpose, outside of sealing or inside it.
LEMMA GoesOn ==
    ASSUME Shapes, Promise, NEW m \in Machines, run[m].phase \notin {"idle", "abort"},
           NEW s \in Runs, Enter(m, s), UNCHANGED reported,
           s.mode = run[m].mode, s.baseline = run[m].baseline, s.opened = run[m].opened,
           s.phase # "wait" \/ s.answer = "none",
           s.phase # "ahead",
           ~Seals(s) \/ (Seals(run[m]) /\ s.phase # "notarize" /\ s.epoch = run[m].epoch)
    PROVE  ClaimsMove
<1>1. run[m] \in Runs /\ Covers(run[m], reported[m].baseline)
  BY RunIs DEF Promise, PromiseOf
<1>2. Covers(s, reported[m].baseline)
  BY <1>1, CarriedOn
<1>3. AnsweredTrue(s)'
  BY DEF AnsweredTrue
<1>4. QED
  BY <1>2, <1>3 DEF RunKeeps, Enter, ClaimsMove

\* A composite that is journalled, sent or given up on is for the same purpose.
LEMMA ComposingKeeps ==
    ASSUME Shapes, Promise, NEW m \in Machines, Journal(m) \/ Send(m) \/ TimeOut(m)
    PROVE  ClaimsMove
<1>1. run[m] \in Runs
  BY RunIs
<1>2. run[m].phase \in {"journal", "send", "wait"} /\ UNCHANGED reported
  BY DEF Journal, Send, TimeOut
<1>3. CASE Ends(m)
  BY <1>2, <1>3, EndsKeeps
<1>4. CASE Enter(m, [run[m] EXCEPT !.phase = "send"])
  <2>1. PICK s : s = [run[m] EXCEPT !.phase = "send"]
    OBVIOUS
  <2>2. s \in Runs /\ s.phase = "send" /\ s.mode = run[m].mode /\ s.baseline = run[m].baseline
        /\ s.opened = run[m].opened
    BY <1>1, <2>1 DEF Runs, Composing
  <2>3. QED
    BY <1>2, <1>4, <2>1, <2>2, GoesOn DEF Seals, Sealing, Pulling
<1>5. CASE Enter(m, [run[m] EXCEPT !.phase = "wait", !.answer = "none"])
  <2>1. PICK s : s = [run[m] EXCEPT !.phase = "wait", !.answer = "none"]
    OBVIOUS
  <2>2. s \in Runs /\ s.phase = "wait" /\ s.mode = run[m].mode /\ s.baseline = run[m].baseline
        /\ s.opened = run[m].opened /\ s.answer = "none"
    BY <1>1, <2>1 DEF Runs, Composing, Answers
  <2>3. QED
    BY <1>2, <1>5, <2>1, <2>2, GoesOn DEF Seals, Sealing, Pulling
<1>6. CASE Enter(m, [run[m] EXCEPT !.phase = "probe"])
  <2>1. PICK s : s = [run[m] EXCEPT !.phase = "probe"]
    OBVIOUS
  <2>2. s \in Runs /\ s.phase = "probe" /\ s.mode = run[m].mode /\ s.baseline = run[m].baseline
        /\ s.opened = run[m].opened
    BY <1>1, <2>1 DEF Runs, Composing
  <2>3. QED
    BY <1>2, <1>6, <2>1, <2>2, GoesOn DEF Seals, Sealing, Pulling
<1>7. QED
  BY <1>3, <1>4, <1>5, <1>6 DEF Journal, Send, TimeOut

\* A conflict starts the composite, or the whole rotation, again.
LEMMA ConflictKeeps ==
    ASSUME Shapes, Promise, NEW m \in Machines, HeadConflict(m) \/ ValuesConflict(m)
    PROVE  ClaimsMove
<1>1. run[m] \in Runs /\ HeadSeq \in Nat /\ run[m].attempt + 1 \in Nat /\ run[m].round + 1 \in Nat
  <2>1. run[m] \in Runs /\ HeadSeq \in Nat
    BY RunIs
  <2>2. run[m].attempt \in Nat /\ run[m].round \in Nat
    BY <2>1 DEF Runs
  <2>3. QED
    BY <2>1, <2>2
<1>2. run[m].phase = "wait" /\ UNCHANGED reported
  BY DEF HeadConflict, ValuesConflict, Answered, Unserved
<1>3. CASE Ends(m)
  BY <1>2, <1>3, EndsKeeps
<1>4. CASE Enter(m, Resigned(run[m]))
  <2>1. PICK s : s = Resigned(run[m])
    OBVIOUS
  <2>2. s \in Runs /\ s.phase = "journal" /\ s.mode = run[m].mode /\ s.baseline = run[m].baseline
        /\ s.opened = run[m].opened
    BY <1>1, <2>1 DEF Runs, Composing, Resigned
  <2>3. QED
    BY <1>2, <1>4, <2>1, <2>2, GoesOn DEF Seals, Sealing, Pulling
<1>5. CASE Enter(m, Round(run[m].mode, run[m].baseline, run[m].opened, run[m].round + 1))
  <2>1. PICK s : s = Round(run[m].mode, run[m].baseline, run[m].opened, run[m].round + 1)
    OBVIOUS
  <2>2. run[m] \in Runs /\ run[m].mode \in Modes
    <3>1. run[m].mode \in Modes
      BY <1>2, RunIs DEF Composing
    <3>2. QED
      BY <1>1, <3>1
  <2>3. s \in Runs /\ s.phase = "pull" /\ s.mode = run[m].mode /\ s.baseline = run[m].baseline
        /\ s.opened = run[m].opened /\ s.pass = 0
    BY <2>1, <2>2, NextRoundIs
  <2>4. QED
    BY <1>2, <1>5, <2>1, <2>3, GoesOn DEF Seals, Sealing, Pulling
<1>6. QED
  BY <1>3, <1>4, <1>5 DEF HeadConflict, ValuesConflict

\* Errors, probes, accusations and crashes end the command.
LEMMA EndingKeeps ==
    ASSUME Shapes, Promise, NEW m \in Machines, Rejected(m) \/ Probe(m) \/ Crash(m) \/ Abort(m)
    PROVE  ClaimsMove
BY EndsKeeps DEF Rejected, Probe, Crash, Abort, Unserved

\* Pushes do not change what the run is about.
LEMMA PushKeeps ==
    ASSUME Shapes, Promise, NEW m \in Machines, NEW v \in Variables, Push(m, v)
    PROVE  ClaimsMove
<1>1. run[m] \in Runs /\ run[m].phase = "push" /\ UNCHANGED reported
  BY RunIs DEF Push
<1>2. PICK c \in SUBSET Variables : Tried(m, v, c)
  BY DEF Push
<1>3. PICK s : s = [run[m] EXCEPT !.todo = @ \ {v}, !.claimed = @ \cup c]
  OBVIOUS
<1>4. run[m].todo \ {v} \subseteq Variables /\ run[m].claimed \cup c \subseteq Variables
  BY <1>1 DEF Runs
<1>5. s \in Runs /\ s.phase = "push" /\ s.mode = run[m].mode /\ s.baseline = run[m].baseline
      /\ s.opened = run[m].opened /\ s.epoch = run[m].epoch
  BY <1>1, <1>3, <1>4 DEF Runs
<1>6. QED
  BY <1>1, <1>2, <1>3, <1>5, GoesOn DEF Tried, Seals, Sealing

\* Reading the chain again before a rescan does not either.
LEMMA ForceResyncKeeps ==
    ASSUME Shapes, Promise, NEW m \in Machines, ForceResync(m)
    PROVE  ClaimsMove
<1>1. run[m] \in Runs /\ run[m].phase = "push" /\ UNCHANGED reported /\ HeadSeq \in Nat
  BY RunIs DEF ForceResync
<1>2. PICK s : s = [run[m] EXCEPT !.phase = "pull", !.view = HeadSeq]
  OBVIOUS
<1>3. "pull" \in {"idle", "abort"} \cup Pulling \cup Composing \cup Sealing
  BY DEF Pulling
<1>4. s \in Runs /\ s.phase = "pull" /\ s.mode = run[m].mode /\ s.baseline = run[m].baseline
      /\ s.opened = run[m].opened /\ s.epoch = run[m].epoch
  BY <1>1, <1>2, <1>3 DEF Runs
<1>5. QED
  BY <1>1, <1>2, <1>4, GoesOn DEF ForceResync, Seals, Sealing

\* An accepted composite starts its epoch after everything its run has read.
LEMMA ConfirmKeeps ==
    ASSUME Shapes, Promise, NEW m \in Machines, Confirm(m)
    PROVE  ClaimsMove
<1>1. /\ Typed /\ run[m] \in Runs /\ Grounded(run[m])
      /\ HeadSeq = Len(chain) /\ Len(chain) \in Nat
      /\ EpochAt(HeadSeq) = EpochsOf(chain, Len(chain))
      /\ run[m].phase = "wait" /\ run[m].answer = "ok"
      /\ run[m].view \in 1..Len(chain) /\ run[m].opened \in 1..run[m].view
  BY RunIs DEF Confirm, Answered, Composing
<1>2. /\ UNCHANGED reported
      /\ Covers(run[m], reported[m].baseline) /\ LandedAt(run[m].view, run[m].epoch, run[m].dek)
  BY <1>1 DEF Confirm, Unserved, Promise, PromiseOf, AnsweredTrue
<1>3. CASE Ends(m)
  BY <1>2, <1>3, EndsKeeps
<1>4. CASE Enter(m, [run[m] EXCEPT !.phase = "push", !.view = HeadSeq, !.pass = 1])
  <2>1. PICK s : s = [run[m] EXCEPT !.phase = "push", !.view = HeadSeq, !.pass = 1]
    OBVIOUS
  <2>2. s \in Runs
    <3>1. HeadSeq \in Nat
      BY <1>1
    <3>2. QED
      BY <1>1, <2>1, <3>1 DEF Runs, Sealing
  <2>3. s.phase = "push" /\ s.mode = run[m].mode /\ s.baseline = run[m].baseline
        /\ s.opened = run[m].opened /\ s.epoch = run[m].epoch
    BY <1>1, <2>1 DEF Runs
  <2>4. StartIn(chain, run[m].epoch) = run[m].view + 1
    <3>1. PICK i : i = run[m].view + 1
      OBVIOUS
    <3>2. i \in 1..Len(chain) /\ chain[i] = Entry("rotate_epoch", run[m].epoch, run[m].dek)
      BY <1>1, <1>2, <3>1 DEF LandedAt
    <3>3. i \in StartsIn(chain, Len(chain)) /\ chain[i].epoch = run[m].epoch
      BY <3>2 DEF StartsIn, Entry
    <3>4. StartIn(chain, chain[i].epoch) = i
      BY <1>1, <3>3, StartFound DEF Typed
    <3>5. QED
      BY <3>1, <3>3, <3>4
  <2>5. run[m].mode # "rotate" => StartIn(chain, run[m].epoch) > run[m].baseline
    <3>1. run[m].mode # "rotate" => run[m].baseline <= run[m].opened
      BY <1>1, <1>2 DEF Covers
    <3>2. run[m].baseline \in Nat /\ run[m].opened <= run[m].view
      BY <1>1 DEF Runs
    <3>3. QED
      BY <1>1, <2>4, <3>1, <3>2
  <2>6. Covers(s, reported[m].baseline)
    BY <1>1, <1>2, <2>3, <2>5 DEF Covers
  <2>7. AnsweredTrue(s)'
    BY <2>3 DEF AnsweredTrue
  <2>8. QED
    BY <1>2, <1>4, <2>1, <2>2, <2>6, <2>7 DEF RunKeeps, Enter, ClaimsMove
<1>5. QED
  BY <1>3, <1>4 DEF Confirm

\* The result is shown after the checkpoint, which changes neither epochs nor values.
LEMMA NotarizeKeeps ==
    ASSUME Shapes, Promise, NEW m \in Machines, Notarize(m)
    PROVE  ClaimsMove
<1>1. /\ run[m] \in Runs /\ run[m].phase = "notarize" /\ Covers(run[m], reported[m].baseline)
      /\ reported \in [Machines -> [epoch : Nat, baseline : Nat]]
  BY RunIs DEF Notarize, Promise, PromiseOf, Typed
<1>2. PICK b : b = IF run[m].mode = "rotate" THEN reported[m].baseline ELSE run[m].baseline
  OBVIOUS
<1>3. b \in Nat
  BY <1>1, <1>2 DEF Runs
<1>4. reported'[m].baseline = b /\ \A n \in Machines : n # m => reported'[n] = reported[n]
  BY <1>1, <1>2 DEF Notarize, Reports
<1>5. b = reported[m].baseline \/ NewClaim(m, b)
  BY <1>1, <1>2 DEF Covers, NewClaim
<1>6. Claims(m, b)
  <2>1. UNCHANGED <<values, deleted>> /\ run' = [run EXCEPT ![m] = Idle]
    BY DEF Notarize, Ends, Enter
  <2>2. chain' = chain \/ EntryAdded(Attestation)
    <3>1. PICK e : e = Attestation
      OBVIOUS
    <3>2. Fits(e) /\ e.op = "checkpoint"
      BY <3>1, AttestationIs DEF Shapes
    <3>3. QED
      BY <3>1, <3>2 DEF Notarize, EntryAdded
  <2>3. QED
    BY <1>4, <1>5, <2>1, <2>2 DEF Claims
<1>7. QED
  BY <1>3, <1>6 DEF ClaimsMove

\* The server answers truly.
LEMMA ServeKeeps ==
    ASSUME Shapes, Promise, NEW q, ServeComposite(q)
    PROVE  ClaimsMove
<1>1. /\ q \in requests /\ q \in Requests /\ q.from \in Machines /\ UNCHANGED reported
      /\ Len(chain) \in Nat /\ HeadSeq = Len(chain)
  BY HeadIs DEF ServeComposite, Shapes, Typed, Requests, HeadSeq
<1>2. CASE ~AwaitedBy(q)
  BY <1>1, <1>2 DEF ServeComposite, ClaimsMove
<1>3. CASE AwaitedBy(q)
  <2>1. PICK m \in Machines : m = q.from
    BY <1>1
  <2>2. /\ run[m] \in Runs /\ run[m].phase = "wait" /\ q = RequestOf(m)
        /\ Covers(run[m], reported[m].baseline)
    BY <1>3, <2>1, RunIs DEF AwaitedBy, Promise, PromiseOf
  <2>3. PICK s : s = [run[m] EXCEPT !.answer = Verdict(q)]
    OBVIOUS
  <2>4. /\ s \in Runs /\ s.phase = "wait" /\ s.mode = run[m].mode /\ s.baseline = run[m].baseline
        /\ s.opened = run[m].opened /\ s.answer = Verdict(q)
        /\ s.view = q.declaredHead /\ s.epoch = q.epoch /\ s.dek = q.dek
    <3>1. Verdict(q) \in Answers
      BY DEF Verdict, Answers
    <3>2. q.declaredHead = run[m].view /\ q.epoch = run[m].epoch /\ q.dek = run[m].dek
      BY <2>2 DEF RequestOf
    <3>3. QED
      BY <2>2, <2>3, <3>1, <3>2 DEF Runs
  <2>5. Covers(s, reported[m].baseline)
    BY <2>2, <2>4, CarriedOn DEF Seals, Sealing, Pulling
  <2>6. AnsweredTrue(s)'
    <3>1. SUFFICES ASSUME Verdict(q) = "ok"
                   PROVE  s.view < Len(chain')
                          /\ chain'[s.view + 1] = Entry("rotate_epoch", s.epoch, s.dek)
      BY <2>4 DEF AnsweredTrue, LandedAt
    <3>2. q.declaredHead = Len(chain)
          /\ chain' = Append(chain, Entry("rotate_epoch", q.epoch, q.dek))
      BY <1>1, <3>1 DEF Verdict, ServeComposite
    <3>3. chain \in Seq(Entries) /\ Entry("rotate_epoch", q.epoch, q.dek) \in Entries
      BY <1>1, HeadIs DEF Entry, Entries, Requests, Shapes, Typed
    <3>4. QED
      BY <1>1, <2>4, <3>2, <3>3, Appended
  <2>7. RunKeeps(m, s)
    BY <1>3, <2>1, <2>3, <2>5, <2>6 DEF ServeComposite, Enter, RunKeeps
  <2>8. QED
    BY <1>1, <2>4, <2>7 DEF ClaimsMove
<1>4. QED
  BY <1>2, <1>3

\* Every step keeps what runs may rely on, or reports a departure rightly.
LEMMA EveryClaim ==
    ASSUME Shapes, Promise, [Next]_rotationVars
    PROVE  ClaimsMove
<1>1. ASSUME NEW m \in Machines, Works(m)
      PROVE  ClaimsMove
  BY <1>1, ForceResyncKeeps, FetchKeeps, ResyncKeeps, ComposingKeeps, ConfirmKeeps, ConflictKeeps,
     EndingKeeps, PushKeeps, NotarizeKeeps DEF Works
<1>2. ASSUME NEW m \in Machines, Sweep(m) \/ ManualRotate(m) \/ TimeOut(m) \/ Crash(m)
      PROVE  ClaimsMove
  BY <1>2, SweepKeeps, ComposingKeeps, EndingKeeps
<1>3. CASE Serves
  BY <1>3, ServeKeeps DEF Serves, ServePush, ClaimsMove
<1>4. CASE Others \/ UNCHANGED rotationVars
  BY <1>4 DEF Others, rotationVars, ClaimsMove
<1>5. QED
  BY <1>1, <1>2, <1>3, <1>4 DEF Next

\* What the runs have read after a step, they have read of the state before it.
LEMMA GroundedNext ==
    ASSUME Shapes, Moves
    PROVE  run' \in [Machines -> Runs] /\ \A m \in Machines : Grounded(run'[m])
<1>1. run \in [Machines -> Runs] /\ \A m \in Machines : Grounded(run[m])
  BY DEF Shapes, Typed
<1>2. CASE run' = run
  BY <1>1, <1>2
<1>3. ASSUME NEW n \in Machines, NEW r \in Runs, run' = [run EXCEPT ![n] = r], Grounded(r)
      PROVE  run' \in [Machines -> Runs] /\ \A m \in Machines : Grounded(run'[m])
  <2>1. SUFFICES ASSUME NEW m \in Machines PROVE Grounded(run'[m])
    BY <1>1, <1>3
  <2>2. run'[m] = run[m] \/ run'[m] = r
    BY <1>1, <1>3
  <2>3. QED
    BY <1>1, <1>3, <2>2
<1>4. QED
  BY <1>2, <1>3 DEF Moves, ClientsMove

\* Every step keeps the promise.
LEMMA PromiseKept ==
    ASSUME Shapes, Promise, [Next]_rotationVars
    PROVE  Promise'
<1>1. Typed /\ ValuesKept /\ ServerMoves /\ ClaimsMove
      /\ run' \in [Machines -> Runs] /\ (\A n \in Machines : Grounded(run'[n]))
      /\ run \in [Machines -> Runs] /\ (\A n \in Machines : Grounded(run[n]))
      /\ reported \in [Machines -> [epoch : Nat, baseline : Nat]]
      /\ reported' \in [Machines -> [epoch : Nat, baseline : Nat]]
  BY EveryMove, EveryClaim, GroundedNext DEF Shapes, Moves, ClientsMove, Typed
<1>2. Leave \in Nat /\ Leave' \in Nat /\ Leave <= Leave'
  BY <1>1, LeaveMoves, ChainGrows DEF Typed
<1>3. ASSUME NEW m \in Machines, run'[m] = run[m], reported'[m] = reported[m]
      PROVE  PromiseOf(m)'
  <2>1. PICK r \in Runs : r = run[m]
    BY <1>1
  <2>2. PICK b \in Nat : b = reported[m].baseline
    BY <1>1
  <2>3. Grounded(r) /\ Covers(r, b) /\ AnsweredTrue(r) /\ b <= Leave
    BY <1>1, <2>1, <2>2 DEF Promise, PromiseOf
  <2>4. Covers(r, b)'
    BY <1>1, <2>3, CoversKept
  <2>5. AnsweredTrue(r)'
    <3>1. r.view \in Nat
      BY <2>1 DEF Runs
    <3>2. QED
      BY <1>1, <2>3, <3>1, LandedKept DEF AnsweredTrue
  <2>6. r = run'[m] /\ b = reported'[m].baseline
    BY <1>3, <2>1, <2>2
  <2>7. QED
    BY <1>2, <2>3, <2>4, <2>5, <2>6 DEF PromiseOf
<1>4. CASE reported' = reported /\ run' = run
  BY <1>3, <1>4 DEF Promise, PromiseOf
<1>5. ASSUME reported' = reported, NEW n \in Machines, NEW s \in Runs, RunKeeps(n, s)
      PROVE  Promise'
  <2>1. run'[n] = s /\ Grounded(s) /\ \A m \in Machines : m # n => run'[m] = run[m]
    <3>1. run'[n] = s /\ \A m \in Machines : m # n => run'[m] = run[m]
      BY <1>1, <1>5 DEF RunKeeps
    <3>2. QED
      BY <1>1, <3>1
  <2>2. PromiseOf(n)'
    <3>1. PICK b \in Nat : b = reported[n].baseline
      BY <1>1
    <3>2. b = reported'[n].baseline /\ s = run'[n] /\ b <= Leave' /\ Covers(s, b)' /\ AnsweredTrue(s)'
      BY <1>1, <1>2, <1>5, <2>1, <3>1, CoversKept DEF RunKeeps, Promise, PromiseOf
    <3>3. QED
      BY <3>2 DEF PromiseOf
  <2>4. QED
    BY <1>3, <1>5, <2>1, <2>2 DEF Promise, PromiseOf
<1>6. ASSUME NEW n \in Machines, NEW b \in Nat, Claims(n, b)
      PROVE  Promise'
  <2>1. run'[n] = Idle /\ \A m \in Machines : m # n => run'[m] = run[m]
    BY <1>1, <1>6 DEF Claims
  <2>2. reported'[n].baseline = b /\ \A m \in Machines : m # n => reported'[m] = reported[m]
    BY <1>6 DEF Claims
  <2>3. Idle.phase = "idle"
    BY DEF Idle
  <2>4. b <= Leave
    BY <1>6 DEF Claims, NewClaim, Promise, PromiseOf
  <2>5. PromiseOf(n)'
    BY <1>2, <2>1, <2>2, <2>3, <2>4 DEF PromiseOf, AnsweredTrue, Covers, Seals, Sealing, Pulling
  <2>6. QED
    BY <1>3, <2>1, <2>2, <2>5 DEF Promise, PromiseOf
<1>7. QED
  BY <1>1, <1>4, <1>5, <1>6 DEF ClaimsMove

\* Before any command runs there is nothing to keep.
LEMMA PromiseInitially == Init => Promise
<1>1. SUFFICES ASSUME Init PROVE Promise
  OBVIOUS
<1>2. SUFFICES ASSUME NEW m \in Machines PROVE PromiseOf(m)
  BY DEF Promise, PromiseOf
<1>3. run[m].phase = "idle" /\ reported[m].baseline = 0
  BY <1>1 DEF Init, Idle
<1>4. 0 <= Leave
  BY <1>1, InitialChain, RetryAssumption
<1>5. QED
  BY <1>3, <1>4 DEF PromiseOf, AnsweredTrue, Covers, Seals, Sealing, Pulling

\* What a run relies on when it reports a departure dealt with is so: a composite
\* answered "ok" stands after the head it was signed at, and whoever asks for the
\* values after the last pass finds none an old key opens.
THEOREM PromiseHolds == Spec => []Promise
<1>1. Init => Promise
  BY PromiseInitially
<1>2. Shapes /\ Promise /\ [Next]_rotationVars => Promise'
  BY PromiseKept
<1>3. QED
  BY <1>1, <1>2, ShapesHold, PTL DEF Spec

(***************************************************************************)
(* The promise of Revocation is kept.                                      *)
(***************************************************************************)

\* The four variables of Revocation, read off the chain.
ReadOff ==
    /\ LastDeparture = Leave
    /\ owed <=> Leave # 0
    /\ fenced <=> owed /\ (Lives(chain, Len(chain)) => FencedFrom(Leave))
    /\ exposed = {v \in Active : owed /\ Lives(chain, Len(chain))
                                 /\ StartIn(chain, Latest(v).epoch) < Leave}
    /\ claimed = {m \in Machines : owed /\ reported[m].baseline = Leave}

\* That is how they are defined.
LEMMA PromiseReads == ReadOff
<1>1. LastDeparture = Leave
  BY Reading DEF LastDeparture, Leave
<1>2. owed <=> Leave # 0
  BY <1>1 DEF owed
<1>3. EpochStart(EpochAt(HeadSeq)) = StartIn(chain, EpochsOf(chain, Len(chain)))
      /\ (LiveAt(HeadSeq) <=> Lives(chain, Len(chain)))
      /\ \A v : EpochStart(Latest(v).epoch) = StartIn(chain, Latest(v).epoch)
  BY Reading
<1>4. QED
  BY <1>1, <1>2, <1>3 DEF ReadOff, fenced, exposed, claimed, FencedFrom

\* And so they are after a step.
LEMMA PromiseReadsNext == ReadOff'
BY PromiseReads, PTL

\* Nobody leaves: the fence, once it stands, stays, and behind it ever less is exposed.
LEMMA NobodyLeaves ==
    ASSUME Shapes, ServerMoves, Leave' = Leave
    PROVE  /\ owed' = owed
           /\ fenced => fenced'
           /\ fenced \/ fenced' => exposed' \subseteq exposed
<1>1. /\ Typed /\ ValuesKept /\ Leave \in Nat
      /\ (Lives(chain', Len(chain')) => Lives(chain, Len(chain)))
  BY LeaveMoves, LivesBefore DEF Shapes
<1>2. owed' = owed
  <2>1. owed <=> Leave # 0
    BY PromiseReads, PromiseReadsNext DEF ReadOff
  <2>2. owed' <=> Leave' # 0
    BY PromiseReads, PromiseReadsNext DEF ReadOff
  <2>3. owed \in BOOLEAN /\ owed' \in BOOLEAN
    BY DEF owed
  <2>4. QED
    BY <2>1, <2>2, <2>3
<1>3. fenced' <=> owed' /\ (Lives(chain', Len(chain')) => FencedFrom(Leave)')
  BY PromiseReads, PromiseReadsNext DEF ReadOff
<1>4. fenced => fenced'
  <2>1. SUFFICES ASSUME fenced, Lives(chain', Len(chain')) PROVE FencedFrom(Leave)'
    BY <1>2, <1>3, PromiseReads, PromiseReadsNext DEF ReadOff
  <2>2. PICK i \in Nat : i = Leave
    BY <1>1
  <2>3. FencedFrom(i)
    BY <1>1, <2>1, <2>2, PromiseReads, PromiseReadsNext DEF ReadOff
  <2>4. FencedFrom(i)'
    BY <1>1, <2>3, FenceKept
  <2>5. QED
    BY <2>2, <2>4 DEF FencedFrom
<1>5. ASSUME NEW v, v \in exposed', fenced \/ fenced'
      PROVE  v \in exposed
  <2>1. /\ v \in Active' /\ owed' /\ Lives(chain', Len(chain'))
        /\ StartIn(chain', Latest(v)'.epoch) < Leave'
    BY <1>5, PromiseReads, PromiseReadsNext DEF ReadOff
  <2>2. v \in Variables /\ owed /\ Lives(chain, Len(chain))
    BY <1>1, <1>2, <2>1 DEF Active
  <2>3. CASE v \in Active /\ Latest(v)' = Latest(v)
    <3>1. StartIn(chain', Latest(v).epoch) = StartIn(chain, Latest(v).epoch)
      BY <1>1, <2>3, LatestIs, ChainGrows DEF Typed
    <3>2. QED
      BY <2>1, <2>2, <2>3, <3>1, PromiseReads, PromiseReadsNext DEF ReadOff
  <2>4. CASE Latest(v)'.epoch = EpochsOf(chain, Len(chain)) /\ chain' = chain
    <3>1. fenced' = fenced
      BY <2>4 DEF fenced, owed, LastDeparture, Baseline, HeadSeq, LiveAt, EpochStart, EpochAt, EpochStarts
    <3>2. FencedFrom(Leave)
      BY <1>5, <2>2, <3>1, PromiseReads, PromiseReadsNext DEF ReadOff
    <3>3. StartIn(chain, EpochsOf(chain, Len(chain))) \in Nat
      BY <1>1, HeadIs, StartFound DEF Typed
    <3>4. QED
      BY <1>1, <2>1, <2>4, <3>2, <3>3 DEF FencedFrom
  <2>5. QED
    BY <1>1, <2>1, <2>2, <2>3, <2>4, LatestMoves
<1>6. QED
  BY <1>2, <1>4, <1>5

\* Somebody leaves: whatever fence there was is void, and what was exposed is.
LEMMA SomebodyLeaves ==
    ASSUME Shapes, ServerMoves, Leave' # Leave
    PROVE  owed' /\ ~fenced' /\ exposed \subseteq exposed' /\ Leave < Leave'
<1>1. /\ Typed /\ ValuesKept /\ Leave \in Nat /\ Leave <= Len(chain) /\ Len(chain) \in Nat
      /\ Leave' = Len(chain') /\ Len(chain') = Len(chain) + 1
  BY LeaveMoves, HeadIs DEF Shapes, Typed
<1>2. PICK e : EntryAdded(e)
  BY <1>1 DEF ServerMoves, TextAdded
<1>3. /\ chain \in Seq(Entries) /\ e \in Entries /\ chain' = Append(chain, e) /\ values' = values
      /\ deleted' = deleted
  BY <1>1, <1>2, HeadIs DEF EntryAdded, Fits, Typed, ServerMoves
<1>4. e.op = "remove_member"
  <2>1. e.op # "remove_member" => LastLeave(Append(chain, e), Len(chain) + 1) = LastLeave(chain, Len(chain))
    BY <1>3, LeaveAfter
  <2>2. Leave' = LastLeave(Append(chain, e), Len(chain) + 1)
    BY <1>1, <1>3 DEF Leave
  <2>3. QED
    BY <2>1, <2>2 DEF Leave
<1>5. Lives(chain, Len(chain)) /\ Lives(chain', Len(chain'))
  <2>1. Lives(chain, Len(chain))
    BY <1>2, <1>4 DEF EntryAdded
  <2>2. Lives(Append(chain, e), Len(chain) + 1)
    BY <1>3, <1>4, <2>1, LivesAfter
  <2>3. QED
    BY <1>1, <1>3, <2>1, <2>2
<1>6. owed' /\ Leave < Leave'
  <2>1. owed' <=> Leave' # 0
    BY PromiseReads, PromiseReadsNext DEF ReadOff
  <2>2. QED
    BY <1>1, <2>1
<1>7. ~fenced'
  <2>1. fenced' <=> owed' /\ (Lives(chain', Len(chain')) => FencedFrom(Leave)')
    BY PromiseReads, PromiseReadsNext DEF ReadOff
  <2>2. FencedFrom(Leave)' <=> StartIn(chain', EpochsOf(chain', Len(chain'))) > Leave'
    BY DEF FencedFrom
  <2>3. Chained(chain') /\ EpochsOf(chain', Len(chain')) \in 1..EpochsOf(chain', Len(chain'))
    BY <1>1, ChainGrows DEF Typed
  <2>4. StartIn(chain', EpochsOf(chain', Len(chain'))) \in 1..Len(chain')
    BY <2>3, StartFound
  <2>5. QED
    BY <1>1, <1>5, <2>1, <2>2, <2>4
<1>8. ASSUME NEW v \in exposed
      PROVE  v \in exposed'
  <2>1. /\ v \in Active /\ StartIn(chain, Latest(v).epoch) \in 1..Len(chain)
        /\ Latest(v).epoch \in 1..EpochsOf(chain, Len(chain))
    BY <1>1, <1>8, LatestIs, PromiseReads, PromiseReadsNext DEF ReadOff
  <2>2. v \in Active' /\ Latest(v)' = Latest(v)
    BY <1>3, <2>1 DEF Active, Latest
  <2>3. StartIn(chain', Latest(v).epoch) = StartIn(chain, Latest(v).epoch)
    BY <1>1, <2>1, ChainGrows DEF Typed
  <2>4. StartIn(chain', Latest(v)'.epoch) < Leave'
    BY <1>1, <2>1, <2>2, <2>3
  <2>5. exposed' = {w \in Active' : owed' /\ Lives(chain', Len(chain'))
                                 /\ StartIn(chain', Latest(w)'.epoch) < Leave'}
    BY PromiseReads, PromiseReadsNext DEF ReadOff
  <2>6. QED
    BY <1>5, <1>6, <2>2, <2>4, <2>5
<1>9. QED
  BY <1>6, <1>7, <1>8

\* A report counts while nobody else leaves.
LEMMA ClaimedMoves ==
    ASSUME Shapes, Promise, [Next]_rotationVars
    PROVE  /\ Leave' # Leave => claimed' = {}
           /\ Leave' = Leave =>
                 \/ claimed' = claimed
                 \/ /\ owed /\ fenced /\ exposed = {}
                    /\ \E m \in Machines : claimed' = claimed \cup {m}
<1>1. /\ Typed /\ ServerMoves /\ ClaimsMove
      /\ Leave \in Nat /\ Leave' \in Nat /\ Leave <= Leave' /\ Len(chain) \in Nat
      /\ reported \in [Machines -> [epoch : Nat, baseline : Nat]]
      /\ reported' \in [Machines -> [epoch : Nat, baseline : Nat]]
      /\ \A m \in Machines : reported[m].baseline <= Leave
  BY EveryMove, EveryClaim, LeaveMoves, HeadIs, ChainGrows
     DEF Shapes, Moves, ClientsMove, Typed, Promise, PromiseOf
<1>2. /\ claimed = {m \in Machines : owed /\ reported[m].baseline = Leave}
      /\ claimed' = {m \in Machines : owed' /\ reported'[m].baseline = Leave'}
      /\ owed <=> Leave # 0
      /\ owed' <=> Leave' # 0
  BY PromiseReads, PromiseReadsNext DEF ReadOff
<1>3. ASSUME NEW n \in Machines, NEW b \in Nat, Claims(n, b)
      PROVE  /\ \A m \in Machines : reported'[m].baseline = IF m = n THEN b ELSE reported[m].baseline
             /\ b <= Leave /\ Leave' = Leave
  <2>1. b <= Leave
    BY <1>1, <1>3 DEF Claims, NewClaim
  <2>2. CASE chain' = chain
    BY <1>3, <2>1, <2>2 DEF Claims, Leave
  <2>3. CASE EntryAdded(Attestation)
    <3>1. PICK e \in Entries : e.op # "remove_member" /\ chain' = Append(chain, e)
      <4>1. PICK e : e = Attestation
        OBVIOUS
      <4>2. e \in Entries /\ e.op = "checkpoint"
        BY <1>1, <4>1, AttestationIs
      <4>3. chain' = Append(chain, e)
        BY <2>3, <4>1 DEF EntryAdded
      <4>4. QED
        BY <4>2, <4>3
    <3>2. LastLeave(Append(chain, e), Len(chain) + 1) = LastLeave(chain, Len(chain))
          /\ Len(Append(chain, e)) = Len(chain) + 1
      BY <1>1, <3>1, HeadIs, LeaveAfter, Appended DEF Typed
    <3>3. Leave' = Leave
      BY <3>1, <3>2 DEF Leave
    <3>4. QED
      BY <1>3, <2>1, <3>3 DEF Claims
  <2>4. QED
    BY <1>3, <2>2, <2>3 DEF Claims
<1>4. ASSUME Leave' # Leave
      PROVE  claimed' = {}
  <2>1. reported' = reported
    BY <1>1, <1>3, <1>4 DEF ClaimsMove
  <2>2. \A m \in Machines : reported[m].baseline # Leave'
    BY <1>1, <1>4
  <2>3. QED
    BY <1>2, <2>1, <2>2
<1>5. ASSUME Leave' = Leave
      PROVE  \/ claimed' = claimed
             \/ /\ owed /\ fenced /\ exposed = {}
                /\ \E m \in Machines : claimed' = claimed \cup {m}
  <2>1. CASE reported' = reported
    BY <1>2, <1>5, <2>1
  <2>2. ASSUME NEW n \in Machines, NEW b \in Nat, Claims(n, b)
        PROVE  \/ claimed' = claimed
               \/ /\ owed /\ fenced /\ exposed = {}
                  /\ \E m \in Machines : claimed' = claimed \cup {m}
    <3>1. /\ \A m \in Machines : reported'[m].baseline = IF m = n THEN b ELSE reported[m].baseline
          /\ b <= Leave
      BY <1>3, <2>2
    <3>2. CASE b = reported[n].baseline
      BY <1>2, <1>5, <3>1, <3>2
    <3>3. CASE NewClaim(n, b) /\ b # Leave
      <4>1. reported[n].baseline # Leave
        BY <1>1, <3>1, <3>3 DEF NewClaim
      <4>2. QED
        BY <1>2, <1>5, <3>1, <3>3, <4>1
    <3>4. CASE NewClaim(n, b) /\ b = Leave
      <4>1. owed
        BY <1>1, <1>2, <3>4 DEF NewClaim
      <4>2. claimed' = claimed \cup {n}
        BY <1>2, <1>5, <3>1, <3>4, <4>1
      <4>3. Safe(Leave)
        BY <3>4 DEF NewClaim
      <4>4. fenced
        BY <4>1, <4>3, PromiseReads DEF ReadOff, Safe
      <4>5. exposed = {}
        <5>1. SUFFICES ASSUME NEW v \in exposed PROVE FALSE
          OBVIOUS
        <5>2. v \in Active /\ Lives(chain, Len(chain)) /\ StartIn(chain, Latest(v).epoch) < Leave
          BY PromiseReads DEF ReadOff
        <5>3. StartIn(chain, Latest(v).epoch) > Leave
          BY <4>3, <5>2 DEF Safe, SealedFrom
        <5>4. StartIn(chain, Latest(v).epoch) \in 1..Len(chain)
          BY <1>1, <5>2, LatestIs DEF Shapes
        <5>5. QED
          BY <1>1, <5>2, <5>3, <5>4
      <4>6. QED
        BY <4>1, <4>2, <4>4, <4>5
    <3>5. QED
      BY <2>2, <3>2, <3>3, <3>4 DEF Claims
  <2>3. QED
    BY <1>1, <2>1, <2>2 DEF ClaimsMove
<1>6. QED
  BY <1>4, <1>5

\* Every step of the rotation is a step of Revocation, or none.
LEMMA StepRefines ==
    ASSUME Shapes, Promise, [Next]_rotationVars
    PROVE  [R!Next]_(R!revocationVars)
<1>1. /\ ServerMoves
      /\ owed \in BOOLEAN /\ owed' \in BOOLEAN /\ fenced \in BOOLEAN /\ fenced' \in BOOLEAN
      /\ exposed \in SUBSET Variables /\ exposed' \in SUBSET Variables
      /\ (fenced => owed) /\ (fenced' => owed')
      /\ (~owed => exposed = {} /\ claimed = {}) /\ (~owed' => exposed' = {} /\ claimed' = {})
  BY EveryMove DEF Moves, owed, fenced, exposed, claimed, Active
<1>2. CASE Leave' # Leave
  <2>1. owed' /\ ~fenced' /\ exposed \subseteq exposed' /\ claimed' = {}
    BY <1>1, <1>2, SomebodyLeaves, ClaimedMoves
  <2>2. R!Depart
    BY <1>1, <2>1 DEF R!Depart
  <2>3. QED
    BY <2>2 DEF R!Next
<1>3. CASE Leave' = Leave
  <2>1. /\ owed' = owed
        /\ fenced => fenced'
        /\ fenced \/ fenced' => exposed' \subseteq exposed
    BY <1>1, <1>3, NobodyLeaves
  <2>2. \/ claimed' = claimed
        \/ /\ owed /\ fenced /\ exposed = {}
           /\ \E m \in Machines : claimed' = claimed \cup {m}
    BY <1>3, ClaimedMoves
  <2>3. CASE ~owed
    BY <1>1, <2>1, <2>3 DEF R!revocationVars
  <2>4. CASE owed /\ fenced /\ claimed' = claimed
    <3>1. R!Cover
      BY <1>1, <2>1, <2>4 DEF R!Cover
    <3>2. QED
      BY <3>1 DEF R!Next
  <2>5. CASE owed /\ ~fenced /\ fenced'
    <3>1. R!Fence
      BY <1>1, <2>1, <2>2, <2>5 DEF R!Fence
    <3>2. QED
      BY <3>1 DEF R!Next
  <2>6. CASE owed /\ ~fenced /\ ~fenced'
    <3>1. R!Drift
      BY <1>1, <2>1, <2>2, <2>6 DEF R!Drift
    <3>2. QED
      BY <3>1 DEF R!Next
  <2>7. CASE owed /\ fenced /\ exposed = {} /\ \E m \in Machines : claimed' = claimed \cup {m}
    <3>1. PICK m \in Machines : claimed' = claimed \cup {m}
      BY <2>7
    <3>2. R!Claim(m)
      BY <1>1, <2>1, <2>7, <3>1 DEF R!Claim
    <3>3. QED
      BY <3>2 DEF R!Next
  <2>8. QED
    BY <2>2, <2>3, <2>4, <2>5, <2>6, <2>7
<1>4. QED
  BY <1>2, <1>3

\* An environment starts with nothing reported and, if somebody has left, with no fence.
LEMMA InitRefines == Init => R!Init
<1>1. SUFFICES ASSUME Init PROVE R!Init
  OBVIOUS
<1>2. /\ EpochsOf(chain, Len(chain)) = 1 /\ StartIn(chain, 1) = 1
      /\ Lives(chain, Len(chain)) /\ Leave \in {0, 2}
  BY <1>1, InitialChain, RetryAssumption
<1>3. owed \in BOOLEAN /\ (owed <=> Leave # 0) /\ fenced \in BOOLEAN
  BY PromiseReads DEF ReadOff, owed, fenced
<1>4. ~fenced
  <2>1. fenced => owed /\ FencedFrom(Leave)
    BY <1>2, PromiseReads DEF ReadOff
  <2>2. FencedFrom(Leave) => 1 > Leave
    BY <1>2 DEF FencedFrom
  <2>3. QED
    BY <1>2, <1>3, <2>1, <2>2
<1>5. claimed = {}
  <2>1. \A m \in Machines : reported[m].baseline = 0
    BY <1>1 DEF Init
  <2>2. QED
    BY <1>3, <2>1, PromiseReads DEF ReadOff
<1>6. exposed \in SUBSET Variables /\ (exposed # {} => owed)
  BY DEF exposed, Active
<1>7. QED
  BY <1>3, <1>4, <1>5, <1>6 DEF R!Init

\* The sweep keeps the promise of Revocation, for any number of machines, variables,
\* retries and faults: once the new epoch stands nothing becomes readable with an old
\* key again, and a departure is reported dealt with only when nothing is readable
\* with what was taken along (sweepRotations, rotateWithWarnings).
THEOREM RotationRefinesRevocation == Spec => RevocationKept
<1>1. Init => R!Init
  BY InitRefines
<1>2. Shapes /\ Promise /\ [Next]_rotationVars => [R!Next]_(R!revocationVars)
  BY StepRefines
<1>3. QED
  BY <1>1, <1>2, ShapesHold, PromiseHolds, PTL DEF Spec, RevocationKept, R!Spec

(***************************************************************************)
(* The journal and the floor tell the truth.                               *)
(***************************************************************************)

\* What a step that is not about machine m's own key does to the server: it takes no
\* request of m, and puts no key of m on the chain.
NotAbout(m) ==
    /\ \A q \in requests' : q \in requests \/ ~Made(m, q.dek)
    /\ chain' = chain \/ \E e : EntryAdded(e) /\ ~Made(m, e.dek)

\* A data key that was never made is nobody's.
LEMMA NeutralKey == \A m : ~Made(m, NoDek)
BY DEF Made, NoDek

\* Where the chain is after a step that adds nothing of m's.
LEMMA ForeignEntry ==
    ASSUME Typed, NEW m \in Machines, ServerMoves, NotAbout(m)
    PROVE  /\ Len(chain) \in Nat /\ Len(chain') \in Nat /\ Len(chain) <= Len(chain')
           /\ \A i \in 1..Len(chain) : chain'[i] = chain[i]
           /\ \A i \in 1..Len(chain') : i \in 1..Len(chain) \/ ~Made(m, chain'[i].dek)
<1>1. /\ Len(chain) \in Nat /\ Len(chain') \in Nat /\ Len(chain) <= Len(chain')
      /\ \A i \in 1..Len(chain) : chain'[i] = chain[i]
  BY ChainGrows DEF Typed
<1>2. CASE chain' = chain
  BY <1>1, <1>2
<1>3. ASSUME NEW e, EntryAdded(e), ~Made(m, e.dek)
      PROVE  \A i \in 1..Len(chain') : i \in 1..Len(chain) \/ ~Made(m, chain'[i].dek)
  <2>1. chain \in Seq(Entries) /\ e \in Entries /\ chain' = Append(chain, e)
    BY <1>3, HeadIs DEF Typed, EntryAdded, Fits
  <2>2. Len(chain') = Len(chain) + 1 /\ chain'[Len(chain) + 1] = e
    BY <2>1, Appended
  <2>3. QED
    BY <1>1, <1>3, <2>2
<1>4. QED
  BY <1>1, <1>2, <1>3 DEF NotAbout

\* More of the server's memory does not unmake a key.
LEMMA MadeStays ==
    ASSUME deks \in Nat, deks' \in Nat, deks <= deks', NEW m, NEW d, Made(m, d)
    PROVE  Made(m, d)'
BY DEF Made

\* An intent that was true stays true, if no attempt of its own is about to land.
LEMMA IntentKept ==
    ASSUME Typed, ServerMoves, NEW m \in Machines, NotAbout(m), NEW i \in Intents, Made(m, i.dek),
           IntentHolds(i)
    PROVE  IntentHolds(i)'
<1>1. /\ Len(chain) \in Nat /\ Len(chain') \in Nat /\ Len(chain) <= Len(chain')
      /\ \A k \in 1..Len(chain) : chain'[k] = chain[k]
      /\ \A k \in 1..Len(chain') : k \in 1..Len(chain) \/ ~Made(m, chain'[k].dek)
  BY ForeignEntry
<1>2. i.declaredHead \in Nat /\ i.manifest \in Nat
  BY DEF Intents
<1>3. LandedAt(i.declaredHead, i.epoch, i.dek)' <=> LandedAt(i.declaredHead, i.epoch, i.dek)
  <2>1. CASE i.declaredHead + 1 \in 1..Len(chain)
    BY <1>1, <1>2, <2>1 DEF LandedAt
  <2>2. CASE i.declaredHead + 1 \notin 1..Len(chain)
    <3>1. ~LandedAt(i.declaredHead, i.epoch, i.dek)
      BY <1>1, <1>2, <2>2 DEF LandedAt
    <3>2. ASSUME i.declaredHead < Len(chain'),
                 chain'[i.declaredHead + 1] = Entry("rotate_epoch", i.epoch, i.dek)
          PROVE  FALSE
      <4>1. i.declaredHead + 1 \in 1..Len(chain')
        BY <1>1, <1>2, <3>2
      <4>2. chain'[i.declaredHead + 1].dek = i.dek
        BY <3>2 DEF Entry
      <4>3. QED
        BY <1>1, <2>2, <4>1, <4>2
    <3>3. QED
      BY <3>1, <3>2 DEF LandedAt
  <2>3. QED
    BY <2>1, <2>2
<1>4. i.outcome \in SETTLED_OUT =>
          \/ i.declaredHead < Len(chain')
          \/ \A q \in requests' : ~(q.dek = i.dek /\ q.declaredHead = i.declaredHead)
  BY <1>1, <1>2 DEF IntentHolds, NotAbout
<1>5. LandedAt(i.declaredHead, i.epoch, i.dek) =>
          i.manifest \in 1..Len(manifests') /\ manifests'[i.manifest] = ManifestId(i)
  <2>1. /\ Len(manifests) \in Nat /\ Len(manifests') \in Nat /\ Len(manifests) <= Len(manifests')
        /\ \A k \in 1..Len(manifests) : manifests'[k] = manifests[k]
    BY ManifestsGrow
  <2>2. \A k \in 1..Len(manifests) : k \in 1..Len(manifests') /\ manifests'[k] = manifests[k]
    BY <2>1
  <2>3. QED
    BY <2>2 DEF IntentHolds
<1>6. QED
  BY <1>3, <1>4, <1>5 DEF IntentHolds, ManifestId

\* A journal that a step leaves alone stays true.
LEMMA IntentsStay ==
    ASSUME Shapes, Journalled, ServerMoves, deks' \in Nat, deks <= deks',
           NEW m \in Machines, NotAbout(m), intents'[m] = intents[m]
    PROVE  /\ IntentsHold(m)'
           /\ \A i \in intents'[m] : Made(m, i.dek)' /\ i.declaredHead \in 1..Len(chain')
<1>1. /\ Typed /\ deks \in Nat /\ intents[m] \subseteq Intents
      /\ Len(chain) \in Nat /\ Len(chain') \in Nat /\ Len(chain) <= Len(chain')
  BY ForeignEntry DEF Shapes, Typed
<1>2. ASSUME NEW i \in intents[m]
      PROVE  /\ IntentHolds(i)' /\ Made(m, i.dek)' /\ i.declaredHead \in 1..Len(chain')
             /\ \A q \in requests' : SameAttempt(i, q)
  <2>1. /\ i \in Intents /\ IntentHolds(i) /\ Made(m, i.dek) /\ i.declaredHead \in 1..Len(chain)
        /\ \A q \in requests : SameAttempt(i, q)
    BY <1>1 DEF Journalled, IntentsHold, KeysOwn
  <2>2. IntentHolds(i)' /\ Made(m, i.dek)'
    BY <1>1, <2>1, IntentKept, MadeStays
  <2>3. \A q \in requests' : SameAttempt(i, q)
    BY <2>1 DEF NotAbout, SameAttempt
  <2>4. QED
    BY <1>1, <2>1, <2>2, <2>3
<1>3. QED
  BY <1>2 DEF IntentsHold, SameAttempt

\* A key in use that a step leaves alone stays where it is, or is given up.
LEMMA KeyStays ==
    ASSUME Shapes, Journalled, ServerMoves, deks' \in Nat, deks <= deks',
           NEW m \in Machines, NotAbout(m), intents'[m] = intents[m],
           run'[m] = run[m] \/ run'[m].phase \notin Composing
    PROVE  KeysOwn(m)' /\ KeyInUse(m)'
<1>1. /\ Typed /\ deks \in Nat
      /\ \A i \in intents'[m] : Made(m, i.dek)' /\ i.declaredHead \in 1..Len(chain')
  BY IntentsStay DEF Shapes, Typed
<1>2. CASE run'[m].phase \notin Composing
  BY <1>1, <1>2 DEF KeysOwn, KeyInUse
<1>3. CASE run'[m] = run[m] /\ run[m].phase \in Composing
  <2>1. Made(m, run[m].dek) /\ KeyInUse(m)
    BY <1>3 DEF Journalled, KeysOwn
  <2>2. KeysOwn(m)'
    BY <1>1, <1>3, <2>1, MadeStays DEF KeysOwn
  <2>3. /\ Len(chain) \in Nat /\ Len(chain') \in Nat /\ Len(chain) <= Len(chain')
        /\ \A k \in 1..Len(chain) : chain'[k] = chain[k]
        /\ \A k \in 1..Len(chain') : k \in 1..Len(chain) \/ ~Made(m, chain'[k].dek)
    BY <1>1, ForeignEntry
  <2>4. KeyOnChain(m)'
    <3>1. SUFFICES ASSUME NEW p \in 1..Len(chain'), chain'[p].dek = run[m].dek
                   PROVE  /\ run[m].phase = "probe" \/ (run[m].phase = "wait" /\ run[m].answer = "ok")
                          /\ p = run[m].view + 1
      BY <1>3 DEF KeyOnChain
    <3>2. p \in 1..Len(chain) /\ chain[p].dek = run[m].dek
      BY <2>1, <2>3, <3>1
    <3>3. QED
      BY <1>3, <2>1, <3>2 DEF KeyInUse, KeyOnChain
  <2>5. KeyRequested(m)'
    <3>1. RequestOf(m)' = RequestOf(m)
      BY <1>3 DEF RequestOf
    <3>2. SUFFICES ASSUME NEW q \in requests', q.dek = run[m].dek
                   PROVE  /\ run[m].phase = "probe" \/ (run[m].phase = "wait" /\ run[m].answer = "none")
                          /\ q = RequestOf(m)
      BY <1>3, <3>1 DEF KeyRequested
    <3>3. q \in requests
      BY <2>1, <3>2 DEF NotAbout
    <3>4. QED
      BY <1>3, <2>1, <3>2, <3>3 DEF KeyInUse, KeyRequested
  <2>6. KeyJournalled(m)'
    <3>1. KeyJournalled(m)
      BY <1>3, <2>1 DEF KeyInUse
    <3>2. QED
      BY <1>3, <3>1 DEF KeyJournalled
  <2>7. run[m].phase = "wait" /\ run[m].answer = "head-conflict" => run[m].view < Len(chain')
    <3>1. run[m].view \in Nat
      BY <1>1 DEF Typed, Runs
    <3>2. QED
      BY <1>3, <2>1, <2>3, <3>1 DEF KeyInUse
  <2>8. run[m].phase # "journal" => IntentOf(run[m]) \in intents'[m]
    BY <1>3, <2>1 DEF KeyInUse
  <2>9. IntentOf(run[m])' = IntentOf(run'[m])
    BY DEF IntentOf
  <2>10. QED
    BY <1>3, <2>2, <2>4, <2>5, <2>6, <2>7, <2>8, <2>9 DEF KeyInUse
<1>4. QED
  BY <1>2, <1>3

\* An accepted manifest stays accepted.
LEMMA AcceptedStays ==
    ASSUME Typed, ServerMoves, NEW f, Accepted(f)
    PROVE  Accepted(f)'
<1>1. /\ Len(manifests) \in Nat /\ Len(manifests') \in Nat /\ Len(manifests) <= Len(manifests')
      /\ \A k \in 1..Len(manifests) : manifests'[k] = manifests[k]
  BY ManifestsGrow
<1>2. \A k \in 1..Len(manifests) : k \in 1..Len(manifests') /\ manifests'[k] = manifests[k]
  BY <1>1
<1>3. QED
  BY <1>2 DEF Accepted

\* Keys on the chain and on their way were made before now.
LEMMA KeysStayMade ==
    ASSUME Typed, KeysMade, ServerMoves, deks' \in Nat, deks <= deks',
           \A q \in requests' : q \in requests \/ Made(q.from, q.dek)',
           chain' = chain \/ \E e : EntryAdded(e) /\ (e.dek = NoDek \/ e.dek.number \in 1..deks)
    PROVE  KeysMade'
<1>1. /\ deks \in Nat /\ chain \in Seq(Entries) /\ Len(chain) \in Nat
  BY HeadIs DEF Typed
<1>2. \A q \in requests' : Made(q.from, q.dek)'
  BY <1>1, MadeStays DEF KeysMade
<1>3. ASSUME NEW e, EntryAdded(e), e.dek = NoDek \/ e.dek.number \in 1..deks
      PROVE  \A i \in 1..Len(chain') : chain'[i].dek = NoDek \/ chain'[i].dek.number \in 1..deks
  <2>1. chain' = Append(chain, e) /\ e \in Entries
    BY <1>3 DEF EntryAdded, Fits
  <2>2. /\ Len(chain') = Len(chain) + 1 /\ chain'[Len(chain) + 1] = e
        /\ \A i \in 1..Len(chain) : chain'[i] = chain[i]
    BY <1>1, <2>1, Appended
  <2>3. QED
    BY <1>1, <1>3, <2>2 DEF KeysMade
<1>4. \A i \in 1..Len(chain') : chain'[i].dek = NoDek \/ chain'[i].dek.number \in 1..deks
  BY <1>3 DEF KeysMade
<1>5. \A i \in 1..Len(chain') : chain'[i].dek = NoDek \/ chain'[i].dek.number \in 1..deks'
  BY <1>1, <1>4
<1>6. QED
  BY <1>2, <1>5 DEF KeysMade, Made

\* A step of one machine concerns nobody else's keys, journal or floor.
LEMMA OneMachine ==
    ASSUME Shapes, Journalled, ServerMoves, deks' \in Nat, deks <= deks', NEW m \in Machines,
           \A n \in Machines : n # m =>
               NotAbout(n) /\ run'[n] = run[n] /\ intents'[n] = intents[n] /\ floors'[n] = floors[n],
           floors' \in [Machines -> [version : Nat, id : Ids]],
           KeysMade', KeysOwn(m)', KeyInUse(m)', IntentsHold(m)', Accepted(floors[m])'
    PROVE  Journalled'
<1>1. ASSUME NEW n \in Machines, n # m
      PROVE  KeysOwn(n)' /\ KeyInUse(n)' /\ IntentsHold(n)' /\ Accepted(floors[n])'
  <2>1. KeysOwn(n)' /\ KeyInUse(n)' /\ IntentsHold(n)'
    BY <1>1, KeyStays, IntentsStay
  <2>2. PICK f : f = floors[n] /\ f = floors'[n]
    BY <1>1
  <2>3. Accepted(f)'
    BY <2>2, AcceptedStays DEF Shapes, Journalled
  <2>4. QED
    BY <2>1, <2>2, <2>3 DEF Accepted
<1>2. \A n \in Machines : KeysOwn(n)' /\ KeyInUse(n)' /\ IntentsHold(n)' /\ Accepted(floors[n])'
  BY <1>1
<1>3. QED
  BY <1>2 DEF Journalled

\* A step that makes no key, asks for nothing and writes no journal.
LEMMA QuietStep ==
    ASSUME Shapes, Journalled, ServerMoves, UNCHANGED <<requests, deks, intents, floors>>,
           \A m \in Machines : run'[m] = run[m] \/ run'[m].phase \notin Composing,
           chain' = chain \/ \E e : EntryAdded(e) /\ e.dek = NoDek
    PROVE  Journalled'
<1>1. Typed /\ deks \in Nat /\ deks' \in Nat /\ deks <= deks'
  BY DEF Shapes, Typed
<1>2. \A m \in Machines : NotAbout(m)
  BY NeutralKey DEF NotAbout
<1>3. KeysMade'
  BY <1>1, KeysStayMade DEF Journalled
<1>4. ASSUME NEW m \in Machines
      PROVE  KeysOwn(m)' /\ KeyInUse(m)' /\ IntentsHold(m)' /\ Accepted(floors[m])'
  <2>1. KeysOwn(m)' /\ KeyInUse(m)' /\ IntentsHold(m)'
    BY <1>1, <1>2, KeyStays, IntentsStay
  <2>2. PICK f : f = floors[m] /\ f = floors'[m]
    OBVIOUS
  <2>3. Accepted(f)'
    BY <1>1, <2>2, AcceptedStays DEF Journalled
  <2>4. QED
    BY <2>1, <2>2, <2>3 DEF Accepted
<1>5. \A m \in Machines : KeysOwn(m)' /\ KeyInUse(m)' /\ IntentsHold(m)' /\ Accepted(floors[m])'
  BY <1>4
<1>6. floors' \in [Machines -> [version : Nat, id : Ids]]
  BY DEF Journalled
<1>7. QED
  BY <1>3, <1>5, <1>6 DEF Journalled

\* A run that makes no key, and leaves the server alone.
LEMMA QuietRun ==
    ASSUME Shapes, Journalled, NEW m \in Machines, NEW s, Enter(m, s), s.phase \notin Composing,
           UNCHANGED <<serverVars, requests, deks, intents, floors>>
    PROVE  Journalled'
<1>1. ServerMoves /\ run \in [Machines -> Runs] /\ chain' = chain
  BY Still DEF Shapes, Typed, serverVars
<1>2. \A n \in Machines : run'[n] = run[n] \/ run'[n].phase \notin Composing
  BY <1>1 DEF Enter
<1>3. QED
  BY <1>1, <1>2, QuietStep

\* What a command does after its composite, or without one, is quiet in this sense.
LEMMA QuietHolds ==
    ASSUME Shapes, Journalled,
           \/ \E m \in Machines : \/ ForceResync(m) \/ Abort(m) \/ Notarize(m) \/ Crash(m)
                                  \/ \E v \in Variables : Push(m, v)
           \/ \E p \in pushes : ServePush(p)
           \/ Others
           \/ UNCHANGED rotationVars
    PROVE  Journalled'
<1>1. ServerMoves /\ Typed /\ run \in [Machines -> Runs]
  BY EveryMove DEF Moves, Next, Works, Serves, Shapes, Typed
<1>2. \A op \in Neutral : Fits(Entry(op, 0, NoDek)) /\ Entry(op, 0, NoDek).dek = NoDek
                          /\ Entry(op, 0, NoDek).op = op
  BY NeutralFits DEF Entry
<1>3. Idle.phase \notin Composing
  BY DEF Idle, Composing
<1>4. ASSUME NEW m \in Machines, ForceResync(m)
      PROVE  Journalled'
  <2>1. PICK s : s = [run[m] EXCEPT !.phase = "pull", !.view = HeadSeq]
    OBVIOUS
  <2>2. s.phase \notin Composing
    BY <1>1, <2>1 DEF Runs, Composing
  <2>3. Enter(m, s) /\ UNCHANGED <<serverVars, requests, deks, intents, floors>>
    BY <1>4, <2>1 DEF ForceResync, Pulls, floorVars
  <2>4. QED
    BY <2>2, <2>3, QuietRun
<1>5. ASSUME NEW m \in Machines, Abort(m) \/ Crash(m)
      PROVE  Journalled'
  <2>1. Enter(m, Idle) /\ UNCHANGED <<serverVars, requests, deks, intents, floors>>
    BY <1>5 DEF Abort, Crash, Ends, Pulls, floorVars
  <2>2. QED
    BY <1>3, <2>1, QuietRun
<1>6. ASSUME NEW m \in Machines, NEW v \in Variables, Push(m, v)
      PROVE  Journalled'
  <2>1. PICK c : Enter(m, [run[m] EXCEPT !.todo = @ \ {v}, !.claimed = @ \cup c])
    BY <1>6 DEF Push, Tried
  <2>2. PICK s : s = [run[m] EXCEPT !.todo = @ \ {v}, !.claimed = @ \cup c]
    OBVIOUS
  <2>3. s.phase \notin Composing
    BY <1>1, <1>6, <2>2 DEF Runs, Push, Composing
  <2>4. \A n \in Machines : run'[n] = run[n] \/ run'[n].phase \notin Composing
    BY <1>1, <2>1, <2>2, <2>3 DEF Enter
  <2>5. UNCHANGED <<requests, deks, intents, floors, chain>>
    BY <1>6 DEF Push, floorVars
  <2>6. QED
    BY <1>1, <2>4, <2>5, QuietStep
<1>7. ASSUME NEW m \in Machines, Notarize(m)
      PROVE  Journalled'
  <2>1. UNCHANGED <<requests, deks, intents, floors>> /\ run' = [run EXCEPT ![m] = Idle]
    BY <1>7 DEF Notarize, floorVars, Ends, Enter
  <2>2. \A n \in Machines : run'[n] = run[n] \/ run'[n].phase \notin Composing
    BY <1>1, <1>3, <2>1
  <2>3. PICK e : e = Attestation
    OBVIOUS
  <2>4. e.op # "create_environment" /\ e.dek = NoDek /\ Fits(e)
    BY <1>1, <2>3, AttestationIs
  <2>5. LiveAt(HeadSeq) <=> Lives(chain, Len(chain))
    BY Reading
  <2>6. chain' = chain \/ EntryAdded(e)
    BY <1>7, <2>3, <2>4, <2>5 DEF Notarize, EntryAdded
  <2>7. QED
    BY <1>1, <2>1, <2>2, <2>4, <2>6, QuietStep
<1>8. CASE (\E p \in pushes : ServePush(p)) \/ UNCHANGED rotationVars
  BY <1>1, <1>8, QuietStep DEF ServePush, rotationVars, serverVars, floorVars
<1>9. CASE Others
  <2>1. UNCHANGED <<requests, deks, run, intents, floors>>
    BY <1>9 DEF Others, floorVars
  <2>2. chain' = chain \/ \E e : EntryAdded(e) /\ e.dek = NoDek
    <3>1. LiveAt(HeadSeq) <=> Lives(chain, Len(chain))
      BY Reading
    <3>2. ASSUME NEW op \in Neutral, OtherEntry(op)
          PROVE  \E e : EntryAdded(e) /\ e.dek = NoDek
      BY <1>2, <3>1, <3>2 DEF OtherEntry, EntryAdded
    <3>3. CASE Depart \/ DeleteEnvironment \/ AppendOther
      BY <3>2, <3>3 DEF Depart, DeleteEnvironment, AppendOther, Neutral
    <3>4. ASSUME NEW v \in Variables, NEW head \in Heads,
                 WriteValue(v, head) \/ CreateVariable(v, head) \/ DeleteVariable(v, head)
          PROVE  chain' = chain
      BY <3>4 DEF WriteValue, CreateVariable, DeleteVariable
    <3>5. QED
      BY <1>9, <3>3, <3>4 DEF Others
  <2>3. QED
    BY <1>1, <2>1, <2>2, QuietStep
<1>10. QED
  BY <1>4, <1>5, <1>6, <1>7, <1>8, <1>9

\* A floor that moves on moves to one of the manifests it was offered.
LEMMA PromotedIs ==
    ASSUME Typed, NEW f \in [version : Nat, id : Ids], Accepted(f),
           NEW C, C \subseteq [version : Nat, id : Ids], \A g \in C : Accepted(g)
    PROVE  Promoted(f, C) \in [version : Nat, id : Ids] /\ Accepted(Promoted(f, C))
<1> DEFINE S == C \cup {f}
           V == {g.version : g \in S}
<1>1. Len(manifests) \in Nat /\ \A g \in S : g.version \in 1..Len(manifests)
  BY DEF Typed, Accepted
<1>2. V \subseteq 0..Len(manifests) /\ V # {}
  BY <1>1
<1>3. PICK k \in V : \A j \in V : j <= k
  BY <1>1, <1>2, LastOf
<1>4. PICK newest : newest = CHOOSE x \in S : \A g \in S : g.version <= x.version
  OBVIOUS
<1>5. newest \in S
  BY <1>3, <1>4
<1>6. Promoted(f, C) = IF newest.version > f.version THEN newest ELSE f
  BY <1>4 DEF Promoted
<1>7. QED
  BY <1>5, <1>6

\* A command that opens the project closes the intents whose slot on the chain is
\* taken, and knows by what.
LEMMA ReconcileHolds ==
    ASSUME Shapes, Journalled, NEW m \in Machines, ReconcileIntents(m),
           UNCHANGED <<chain, manifests, requests, deks>>
    PROVE  /\ IntentsHold(m)'
           /\ \A i \in intents'[m] : Made(m, i.dek)' /\ i.declaredHead \in 1..Len(chain')
           /\ floors' \in [Machines -> [version : Nat, id : Ids]]
           /\ Accepted(floors[m])'
           /\ \A n \in Machines : n # m => intents'[n] = intents[n] /\ floors'[n] = floors[n]
<1> DEFINE landed == {i \in intents[m] : i.outcome = "open" /\ IntentEntryState(i) = "accepted"}
           offered == {ManifestOf(i) : i \in landed}
<1>1. /\ Typed /\ intents \in [Machines -> SUBSET Intents] /\ HeadSeq = Len(chain)
      /\ Len(chain) \in Nat
      /\ floors \in [Machines -> [version : Nat, id : Ids]] /\ Accepted(floors[m])
      /\ \A i \in intents[m] : /\ i \in Intents /\ IntentHolds(i) /\ Made(m, i.dek)
                               /\ i.declaredHead \in 1..Len(chain)
                               /\ \A q \in requests : SameAttempt(i, q)
  BY HeadIs DEF Shapes, Typed, Journalled, KeysOwn, IntentsHold, HeadSeq
<1>2. /\ intents' = [intents EXCEPT ![m] = {Reconciled(i) : i \in intents[m]}]
      /\ floors' = [floors EXCEPT ![m] = Promoted(floors[m], offered)]
  BY DEF ReconcileIntents
<1>3. ASSUME NEW i \in intents[m]
      PROVE  /\ Reconciled(i).dek = i.dek /\ Reconciled(i).declaredHead = i.declaredHead
             /\ Reconciled(i).epoch = i.epoch /\ Reconciled(i).manifest = i.manifest
             /\ \/ Reconciled(i).outcome = i.outcome
                \/ /\ Reconciled(i).outcome \in SETTLED_IN
                   /\ LandedAt(i.declaredHead, i.epoch, i.dek)
                \/ /\ Reconciled(i).outcome = "not-accepted"
                   /\ ~LandedAt(i.declaredHead, i.epoch, i.dek) /\ i.declaredHead < Len(chain)
  <2>1. IntentEntryState(i) \in {"pending", "accepted", "rejected"}
    BY DEF IntentEntryState
  <2>2. \A o : /\ [i EXCEPT !.outcome = o].outcome = o /\ [i EXCEPT !.outcome = o].dek = i.dek
               /\ [i EXCEPT !.outcome = o].declaredHead = i.declaredHead
               /\ [i EXCEPT !.outcome = o].epoch = i.epoch
               /\ [i EXCEPT !.outcome = o].manifest = i.manifest
    BY <1>1 DEF Intents
  <2>3. CASE i.outcome # "open" \/ IntentEntryState(i) = "pending"
    BY <2>3 DEF Reconciled
  <2>4. CASE i.outcome = "open" /\ IntentEntryState(i) = "rejected"
    <3>1. Reconciled(i) = [i EXCEPT !.outcome = "not-accepted"]
      BY <2>4 DEF Reconciled
    <3>2. i.declaredHead # Len(chain)
          /\ chain[i.declaredHead + 1] # Entry("rotate_epoch", i.epoch, i.dek)
      BY <1>1, <2>4 DEF IntentEntryState
    <3>3. QED
      BY <1>1, <2>2, <3>1, <3>2 DEF LandedAt
  <2>5. CASE i.outcome = "open" /\ IntentEntryState(i) = "accepted"
    <3>1. PICK o \in SETTLED_IN : Reconciled(i) = [i EXCEPT !.outcome = o]
      BY <2>5 DEF Reconciled, SETTLED_IN
    <3>2. i.declaredHead # Len(chain)
          /\ chain[i.declaredHead + 1] = Entry("rotate_epoch", i.epoch, i.dek)
      BY <1>1, <2>5 DEF IntentEntryState
    <3>3. QED
      BY <1>1, <2>2, <3>1, <3>2 DEF LandedAt
  <2>6. QED
    BY <2>1, <2>3, <2>4, <2>5
<1>4. ASSUME NEW i \in intents[m]
      PROVE  /\ IntentHolds(Reconciled(i)) /\ \A q \in requests : SameAttempt(Reconciled(i), q)
             /\ Made(m, Reconciled(i).dek) /\ Reconciled(i).declaredHead \in 1..Len(chain)
  <2>1. PICK j : j = Reconciled(i)
    OBVIOUS
  <2>2. /\ j.dek = i.dek /\ j.declaredHead = i.declaredHead /\ j.epoch = i.epoch
        /\ j.manifest = i.manifest
        /\ \/ j.outcome = i.outcome
           \/ j.outcome \in SETTLED_IN /\ LandedAt(i.declaredHead, i.epoch, i.dek)
           \/ /\ j.outcome = "not-accepted"
              /\ ~LandedAt(i.declaredHead, i.epoch, i.dek) /\ i.declaredHead < Len(chain)
    BY <1>3, <2>1
  <2>3. SETTLED_IN \cap SETTLED_OUT = {} /\ "not-accepted" \notin SETTLED_IN
    BY DEF SETTLED_IN, SETTLED_OUT
  <2>4. IntentHolds(j)
    BY <1>1, <2>2, <2>3 DEF IntentHolds, ManifestId
  <2>5. \A q \in requests : SameAttempt(j, q)
    BY <1>1, <2>2 DEF SameAttempt
  <2>6. QED
    BY <1>1, <2>1, <2>2, <2>4, <2>5
<1>5. intents'[m] = {Reconciled(i) : i \in intents[m]}
  BY <1>1, <1>2
<1>6. /\ IntentsHold(m)'
      /\ \A i \in intents'[m] : Made(m, i.dek)' /\ i.declaredHead \in 1..Len(chain')
  <2>1. \A j \in intents'[m] : /\ IntentHolds(j) /\ \A q \in requests : SameAttempt(j, q)
                               /\ Made(m, j.dek) /\ j.declaredHead \in 1..Len(chain)
    BY <1>4, <1>5
  <2>2. \A j : IntentHolds(j)' <=> IntentHolds(j)
    BY DEF IntentHolds, LandedAt
  <2>3. QED
    BY <2>1, <2>2 DEF IntentsHold, Made, SameAttempt
<1>7. offered \subseteq [version : Nat, id : Ids] /\ \A g \in offered : Accepted(g)
  <2>1. SUFFICES ASSUME NEW i \in landed
                 PROVE  ManifestOf(i) \in [version : Nat, id : Ids] /\ Accepted(ManifestOf(i))
    OBVIOUS
  <2>2. i \in Intents /\ i.declaredHead # Len(chain) /\ IntentHolds(i)
        /\ chain[i.declaredHead + 1] = Entry("rotate_epoch", i.epoch, i.dek)
    BY <1>1 DEF IntentEntryState
  <2>3. LandedAt(i.declaredHead, i.epoch, i.dek)
    BY <1>1, <2>2 DEF LandedAt
  <2>4. i.manifest \in 1..Len(manifests) /\ manifests[i.manifest] = ManifestId(i)
    BY <2>2, <2>3 DEF IntentHolds
  <2>5. ManifestOf(i) = [version |-> i.manifest, id |-> ManifestId(i)] /\ ManifestId(i) \in Ids
    BY <2>2 DEF ManifestOf, ManifestId, Ids, Intents
  <2>6. QED
    BY <2>2, <2>4, <2>5 DEF Accepted, Intents
<1> HIDE DEF landed, offered
<1>8. Promoted(floors[m], offered) \in [version : Nat, id : Ids]
      /\ Accepted(Promoted(floors[m], offered))
  BY <1>1, <1>7, PromotedIs
<1>9. floors'[m] = Promoted(floors[m], offered) /\ floors' \in [Machines -> [version : Nat, id : Ids]]
  BY <1>1, <1>2, <1>8
<1>10. Accepted(floors[m])'
  <2>1. PICK f : f = floors'[m] /\ Accepted(f)
    BY <1>8, <1>9
  <2>2. QED
    BY <2>1 DEF Accepted
<1>11. QED
  BY <1>1, <1>2, <1>6, <1>9, <1>10

\* Nobody's keys are touched by a step that leaves the server alone.
LEMMA AboutNobody ==
    ASSUME UNCHANGED <<chain, requests>>
    PROVE  \A m : NotAbout(m)
BY DEF NotAbout

\* Opening a project keeps the journals true.
LEMMA OpensHolds ==
    ASSUME Shapes, Journalled, NEW m \in Machines, Sweep(m) \/ ManualRotate(m)
    PROVE  Journalled'
<1>1. ServerMoves /\ Typed /\ run \in [Machines -> Runs] /\ deks \in Nat
  BY SweepMoves DEF Moves, Shapes, Typed
<1>2. PICK mode \in Modes, b \in Nat : Opens(m, mode, b)
  <2>1. Baseline(HeadSeq) \in Nat
    BY HeadIs, LastLeaveIs, Reading DEF Shapes, Typed
  <2>2. QED
    BY <2>1 DEF Sweep, ManualRotate, Modes
<1>3. ReconcileIntents(m) /\ UNCHANGED <<chain, manifests, requests, deks>>
  BY <1>2 DEF Opens, serverVars
<1>4. run'[m].phase \notin Composing /\ \A n \in Machines : n # m => run'[n] = run[n]
  <2>1. PICK o : o = HeadSeq
    OBVIOUS
  <2>2. o \in Nat /\ 1 \in Nat
    <3>1. HeadSeq = Len(chain)
      BY Reading
    <3>2. Len(chain) \in Nat
      BY <1>1, HeadIs DEF Typed
    <3>3. QED
      BY <2>1, <3>1, <3>2
  <2>3. PICK s : s = Round(mode, b, o, 1)
    OBVIOUS
  <2>4. s.phase = "pull"
    <3>1. mode \in Modes /\ b \in Nat
      BY <1>2
    <3>2. QED
      BY <2>2, <2>3, <3>1, RoundIs
  <2>5. run' = [run EXCEPT ![m] = s]
    BY <1>2, <2>1, <2>3 DEF Opens, Enter
  <2>6. QED
    BY <1>1, <2>4, <2>5 DEF Composing
<1>5. /\ IntentsHold(m)' /\ Accepted(floors[m])'
      /\ \A i \in intents'[m] : Made(m, i.dek)' /\ i.declaredHead \in 1..Len(chain')
      /\ floors' \in [Machines -> [version : Nat, id : Ids]]
      /\ \A n \in Machines : n # m => intents'[n] = intents[n] /\ floors'[n] = floors[n]
  BY <1>3, ReconcileHolds
<1>6. KeysOwn(m)' /\ KeyInUse(m)'
  BY <1>4, <1>5 DEF KeysOwn, KeyInUse
<1>7. KeysMade' /\ \A n \in Machines : NotAbout(n)
  BY <1>1, <1>3, AboutNobody, KeysStayMade DEF Journalled
<1>8. deks' \in Nat /\ deks <= deks'
  BY <1>1, <1>3
<1>9. QED
  BY <1>1, <1>4, <1>5, <1>6, <1>7, <1>8, OneMachine

\* A rotation begins with a data key nobody has seen.
LEMMA DecideHolds ==
    ASSUME Shapes, Journalled, NEW m \in Machines, NEW p, Judging(p), Decide(m, p), UNCHANGED Pulls
    PROVE  Journalled'
<1>1. /\ Typed /\ ServerMoves /\ run \in [Machines -> Runs] /\ deks \in Nat
      /\ UNCHANGED <<serverVars, requests, intents, floors>> /\ UNCHANGED <<chain, manifests>>
      /\ floors \in [Machines -> [version : Nat, id : Ids]] /\ KeysMade
  BY Still DEF Shapes, Typed, Pulls, serverVars, floorVars, Journalled
<1>2. PICK todo \in SUBSET Brought(p) : \E r :
          /\ r = Chosen(p, todo)
          /\ \/ /\ p.mode = "verify" /\ StaleIn(p, EpochAt(p.view)) = {}
                /\ Ends(m) /\ Reports(m, r) /\ UNCHANGED deks
             \/ p.mode # "force" /\ Resume(m, r) /\ UNCHANGED reported
             \/ Rotate(m, r) /\ UNCHANGED reported
  BY Decides
<1>3. PICK r : r = Chosen(p, todo) /\ ((Ends(m) /\ UNCHANGED deks) \/ Resume(m, r) \/ Rotate(m, r))
  BY <1>2
<1>4. r \in Runs /\ r.epoch \in 1..EpochsOf(chain, Len(chain)) /\ r.epoch \in Nat
  <2>1. r \in Runs /\ r.epoch \in 1..EpochsOf(chain, Len(chain))
    BY <1>3, DecideReads
  <2>2. QED
    BY <2>1 DEF Runs
<1>5. CASE Ends(m) /\ UNCHANGED deks
  <2>1. Idle.phase \notin Composing
    BY DEF Idle, Composing
  <2>2. QED
    BY <1>1, <1>5, <2>1, QuietRun DEF Ends
<1>6. CASE UNCHANGED deks /\ Enter(m, [r EXCEPT !.phase = "push", !.pass = 1, !.dek = DekOf(r.epoch)])
  <2>1. PICK s : s = [r EXCEPT !.phase = "push", !.pass = 1, !.dek = DekOf(r.epoch)]
    OBVIOUS
  <2>2. s.phase \notin Composing
    BY <1>4, <2>1 DEF Runs, Composing
  <2>3. QED
    BY <1>1, <1>6, <2>1, <2>2, QuietRun
<1>7. CASE deks' = deks + 1 /\ Enter(m, Composed(r, r.epoch + 1, [maker |-> m, number |-> deks + 1]))
  <2>1. PICK n, d : n = r.epoch + 1 /\ d = [maker |-> m, number |-> deks + 1]
    OBVIOUS
  <2>2. n \in Nat /\ d \in Deks
    BY <1>1, <1>4, <2>1 DEF Deks
  <2>3. PICK s : s = Composed(r, n, d)
    OBVIOUS
  <2>4. s.phase = "journal" /\ s.dek = d
    BY <1>4, <2>2, <2>3, RotatedIs
  <2>5. run'[m] = s /\ \A k \in Machines : k # m => run'[k] = run[k]
    BY <1>1, <1>7, <2>1, <2>3 DEF Enter
  <2>6. deks' \in Nat /\ deks <= deks' /\ s.dek.number \in 1..deks' /\ s.dek.number \notin 1..deks
        /\ s.dek.maker = m /\ s.dek # NoDek
    BY <1>1, <1>7, <2>1, <2>4 DEF NoDek
  <2>7. KeysMade' /\ \A k \in Machines : NotAbout(k)
    BY <1>1, <2>6, AboutNobody, KeysStayMade
  <2>8. /\ IntentsHold(m)'
        /\ \A i \in intents'[m] : Made(m, i.dek)' /\ i.declaredHead \in 1..Len(chain')
    BY <1>1, <2>6, <2>7, IntentsStay
  <2>9. KeysOwn(m)'
    BY <2>5, <2>6, <2>8 DEF KeysOwn, Made
  <2>10. KeyInUse(m)'
    <3>1. \A k \in 1..Len(chain) : chain[k].dek # s.dek
      BY <1>1, <2>6 DEF KeysMade
    <3>2. \A q \in requests : q.dek # s.dek
      BY <1>1, <2>6 DEF KeysMade, Made
    <3>3. \A i \in intents[m] : i.dek # s.dek
      BY <2>6 DEF Journalled, KeysOwn, Made
    <3>4. KeyOnChain(m)' /\ KeyRequested(m)' /\ KeyJournalled(m)'
      BY <1>1, <2>5, <3>1, <3>2, <3>3 DEF KeyOnChain, KeyRequested, KeyJournalled
    <3>5. run'[m].phase = "journal"
      BY <2>4, <2>5
    <3>6. QED
      BY <3>4, <3>5 DEF KeyInUse
  <2>11. Accepted(floors[m])'
    <3>1. PICK f : f = floors[m] /\ f = floors'[m] /\ Accepted(f)
      BY <1>1 DEF Journalled
    <3>2. QED
      BY <1>1, <3>1 DEF Accepted
  <2>12. QED
    BY <1>1, <2>5, <2>6, <2>7, <2>8, <2>9, <2>10, <2>11, OneMachine
<1>8. QED
  BY <1>3, <1>5, <1>6, <1>7 DEF Resume, Rotate, Composed

\* Whatever is made of a pull, only a rotation makes a key.
LEMMA JudgeHolds ==
    ASSUME Shapes, Journalled, NEW m \in Machines, NEW p, Judging(p), NEW view,
           Judge(m, p, view), UNCHANGED Pulls
    PROVE  Journalled'
<1>1. p \in Runs /\ Idle \in Runs /\ UNCHANGED <<serverVars, requests, intents, floors>>
  BY IdleGrounded DEF Judging, Pulls, floorVars
<1>2. CASE Decide(m, p)
  BY <1>2, DecideHolds
<1>3. CASE UNCHANGED deks /\ Ends(m)
  <2>1. Idle.phase \notin Composing
    BY DEF Idle, Composing
  <2>2. QED
    BY <1>1, <1>3, <2>1, QuietRun DEF Ends
<1>4. CASE UNCHANGED deks /\ Enter(m, [p EXCEPT !.phase = "ahead"])
  <2>1. PICK s : s = [p EXCEPT !.phase = "ahead"]
    OBVIOUS
  <2>2. s.phase \notin Composing
    BY <1>1, <2>1 DEF Runs, Composing
  <2>3. QED
    BY <1>1, <1>4, <2>1, <2>2, QuietRun
<1>5. CASE UNCHANGED deks /\ Accuse(m, view)
  <2>1. PICK i : i = Idle /\ i \in Runs
    BY <1>1
  <2>2. PICK s : s = [i EXCEPT !.phase = "abort", !.view = view]
    OBVIOUS
  <2>3. s.phase \notin Composing
    BY <2>1, <2>2 DEF Runs, Composing
  <2>4. QED
    BY <1>1, <1>5, <2>1, <2>2, <2>3, QuietRun DEF Accuse
<1>6. CASE UNCHANGED deks /\ Enter(m, [p EXCEPT !.phase = "notarize", !.claimed = {}, !.snapshot = 0])
  <2>1. PICK s : s = [p EXCEPT !.phase = "notarize", !.claimed = {}, !.snapshot = 0]
    OBVIOUS
  <2>2. s.phase \notin Composing
    BY <1>1, <2>1 DEF Runs, Composing
  <2>3. QED
    BY <1>1, <1>6, <2>1, <2>2, QuietRun
<1>7. ASSUME NEW n, NEW todo, UNCHANGED deks, Enter(m, NextPass(p, n, todo))
      PROVE  Journalled'
  <2>1. PICK s : s = NextPass(p, n, todo)
    OBVIOUS
  <2>2. s.phase \notin Composing
    BY <1>1, <2>1 DEF Runs, Composing, NextPass
  <2>3. QED
    BY <1>1, <1>7, <2>1, <2>2, QuietRun
<1>8. CASE UNCHANGED deks /\ SettlePass(m, p)
  BY <1>3, <1>6, <1>7, <1>8, Settlings
<1>9. QED
  BY <1>2, <1>3, <1>4, <1>5, <1>8, Judgements

\* A pull does what its judgement says.
LEMMA FetchHolds ==
    ASSUME Shapes, Journalled, NEW m \in Machines, Fetch(m) \/ Resync(m)
    PROVE  Journalled'
<1>1. UNCHANGED Pulls
  BY DEF Fetch, Resync
<1>2. CASE Fetch(m) /\ LiveAt(HeadSeq)
  <2>1. PICK r : r = Fetched(run[m]) /\ Judge(m, r, run[m].view)
    BY <1>2 DEF Fetch
  <2>2. Judging(r)
    BY <1>2, <2>1, FetchedIs DEF Fetch
  <2>3. QED
    BY <1>1, <2>1, <2>2, JudgeHolds
<1>3. CASE Fetch(m) /\ ~LiveAt(HeadSeq)
  <2>1. Enter(m, Idle) /\ UNCHANGED <<serverVars, requests, deks, intents, floors>>
    BY <1>1, <1>3 DEF Fetch, Ends, Pulls, floorVars
  <2>2. Idle.phase \notin Composing
    BY DEF Idle, Composing
  <2>3. QED
    BY <2>1, <2>2, QuietRun
<1>4. CASE Resync(m)
  <2>1. PICK r : r = [run[m] EXCEPT !.view = HeadSeq] /\ Judge(m, r, run[m].view)
    BY <1>4 DEF Resync
  <2>2. Judging(r)
    BY <1>4, <2>1, ResyncedIs DEF Resync
  <2>3. QED
    BY <1>1, <2>1, <2>2, JudgeHolds
<1>5. QED
  BY <1>2, <1>3, <1>4

\* The intent is written before anything is sent.
LEMMA JournalHolds ==
    ASSUME Shapes, Journalled, NEW m \in Machines, Journal(m)
    PROVE  Journalled'
<1>1. /\ Typed /\ ServerMoves /\ run \in [Machines -> Runs] /\ deks \in Nat
      /\ UNCHANGED <<chain, manifests, requests, deks, floors>>
      /\ floors \in [Machines -> [version : Nat, id : Ids]] /\ KeysMade
      /\ intents \in [Machines -> SUBSET Intents]
      /\ run[m] \in Runs /\ run[m].phase = "journal" /\ run[m].phase \in Composing
      /\ run[m].view \in 1..Len(chain) /\ Len(chain) \in Nat
  <2>1. run[m].phase = "journal" /\ run[m].phase \in Composing
    BY DEF Journal, Composing
  <2>2. QED
    BY <2>1, RunIs, JournalMoves DEF Moves, Shapes, Typed, Journal, serverVars, Journalled
<1>2. \A n \in Machines : NotAbout(n)
  BY <1>1, AboutNobody
<1>3. CASE Ends(m) /\ UNCHANGED intents
  <2>1. \A n \in Machines : run'[n] = run[n] \/ run'[n].phase \notin Composing
    BY <1>1, <1>3 DEF Ends, Enter, Idle, Composing
  <2>2. QED
    BY <1>1, <1>3, <2>1, QuietStep
<1>4. CASE intents' = [intents EXCEPT ![m] = @ \cup {IntentOf(run[m])}]
           /\ Enter(m, [run[m] EXCEPT !.phase = "send"])
  <2>1. PICK r : r = run[m]
    OBVIOUS
  <2>2. PICK s : s = [r EXCEPT !.phase = "send"]
    OBVIOUS
  <2>3. /\ s.phase = "send" /\ s.view = r.view /\ s.dek = r.dek /\ s.epoch = r.epoch
        /\ s.manifest = r.manifest
    BY <1>1, <2>1, <2>2 DEF Runs
  <2>4. run'[m] = s /\ \A n \in Machines : n # m => run'[n] = run[n]
    BY <1>1, <1>4, <2>1, <2>2 DEF Enter
  <2>5. PICK j : j = IntentOf(r)
    OBVIOUS
  <2>6. /\ j.declaredHead = r.view /\ j.epoch = r.epoch /\ j.dek = r.dek
        /\ j.manifest = r.manifest + 1 /\ j.outcome = "open"
    BY <2>5 DEF IntentOf
  <2>7. intents'[m] = intents[m] \cup {j} /\ \A n \in Machines : n # m => intents'[n] = intents[n]
    BY <1>1, <1>4, <2>1, <2>5
  <2>8. KeyInUse(m) /\ Made(m, r.dek) /\ KeyOnChain(m) /\ KeyRequested(m) /\ KeyJournalled(m)
    BY <1>1, <2>1 DEF Journalled, KeysOwn, KeyInUse
  <2>9. /\ \A p \in 1..Len(chain) : chain[p].dek # r.dek
        /\ \A q \in requests : q.dek # r.dek
        /\ \A i \in intents[m] : i.dek = r.dek =>
              /\ i.epoch = r.epoch /\ i.manifest = r.manifest + 1 /\ i.declaredHead < r.view
    BY <1>1, <2>1, <2>8 DEF KeyOnChain, KeyRequested, KeyJournalled
  <2>10. /\ IntentsHold(m)'
         /\ \A i \in intents'[m] : Made(m, i.dek)' /\ i.declaredHead \in 1..Len(chain')
    <3>1. ~LandedAt(j.declaredHead, j.epoch, j.dek)
      <4>1. ASSUME r.view < Len(chain), chain[r.view + 1] = Entry("rotate_epoch", r.epoch, r.dek)
            PROVE  FALSE
        <5>1. r.view + 1 \in 1..Len(chain) /\ chain[r.view + 1].dek = r.dek
          BY <1>1, <2>1, <4>1 DEF Entry
        <5>2. QED
          BY <2>9, <5>1
      <4>2. QED
        BY <2>6, <4>1 DEF LandedAt
    <3>2. IntentHolds(j) /\ \A q \in requests : SameAttempt(j, q)
      BY <2>6, <2>9, <3>1 DEF IntentHolds, SETTLED_IN, SETTLED_OUT, SameAttempt
    <3>3. \A i \in intents'[m] : /\ IntentHolds(i) /\ \A q \in requests : SameAttempt(i, q)
                                 /\ Made(m, i.dek) /\ i.declaredHead \in 1..Len(chain)
      BY <1>1, <2>1, <2>6, <2>7, <2>8, <3>2 DEF Journalled, IntentsHold, KeysOwn
    <3>4. \A i : IntentHolds(i)' <=> IntentHolds(i)
      BY <1>1 DEF IntentHolds, LandedAt
    <3>5. QED
      BY <1>1, <3>3, <3>4 DEF IntentsHold, Made, SameAttempt
  <2>11. KeysOwn(m)'
    BY <1>1, <2>3, <2>4, <2>8, <2>10 DEF KeysOwn, Made
  <2>12. KeyInUse(m)'
    <3>1. KeyOnChain(m)' /\ KeyRequested(m)'
      BY <1>1, <2>3, <2>4, <2>9 DEF KeyOnChain, KeyRequested
    <3>2. KeyJournalled(m)'
      <4>1. r.view \in Nat /\ \A i \in intents[m] : i.declaredHead \in Nat
        BY <1>1, <2>1 DEF Intents
      <4>2. SUFFICES ASSUME NEW i \in intents'[m], i.dek = r.dek
                     PROVE  /\ i.epoch = r.epoch /\ i.manifest = r.manifest + 1
                            /\ i.declaredHead <= r.view
                            /\ i.outcome # "open" => i.declaredHead < r.view
        BY <2>3, <2>4 DEF KeyJournalled
      <4>3. CASE i = j
        BY <2>6, <4>1, <4>3
      <4>4. CASE i \in intents[m]
        BY <2>9, <4>1, <4>2, <4>4
      <4>5. QED
        BY <2>7, <4>3, <4>4
    <3>3. IntentOf(s) = j /\ IntentOf(run[m])' = IntentOf(s)
      BY <2>3, <2>4, <2>5 DEF IntentOf
    <3>4. QED
      BY <2>3, <2>4, <2>7, <3>1, <3>2, <3>3 DEF KeyInUse
  <2>13. PICK f : f = floors[m] /\ f = floors'[m] /\ Accepted(f)
    BY <1>1 DEF Journalled
  <2>14. Accepted(floors[m])'
    BY <1>1, <2>13 DEF Accepted
  <2>15. KeysMade' /\ deks' \in Nat /\ deks <= deks'
    BY <1>1, KeysStayMade
  <2>16. QED
    BY <1>1, <1>2, <2>4, <2>7, <2>10, <2>11, <2>12, <2>14, <2>15, OneMachine
<1>5. QED
  BY <1>3, <1>4 DEF Journal

\* A composite is sent once its intent is written, and for that attempt only.
LEMMA SendHolds ==
    ASSUME Shapes, Journalled, NEW m \in Machines, Send(m)
    PROVE  Journalled'
<1>1. run[m].phase = "send" /\ run[m].phase \in Composing
  BY DEF Send, Composing
<1>2. /\ Typed /\ ServerMoves /\ run \in [Machines -> Runs] /\ deks \in Nat
      /\ UNCHANGED <<chain, manifests, deks, intents, floors>>
      /\ floors \in [Machines -> [version : Nat, id : Ids]] /\ KeysMade
      /\ intents \in [Machines -> SUBSET Intents]
      /\ run[m] \in Runs /\ run[m].view \in 1..Len(chain) /\ Len(chain) \in Nat
  BY <1>1, RunIs, SendMoves DEF Moves, Shapes, Typed, Send, serverVars, floorVars, Journalled
<1>3. PICK r : r = run[m]
  OBVIOUS
<1>4. PICK s : s = [r EXCEPT !.phase = "wait", !.answer = "none"]
  OBVIOUS
<1>5. /\ s.phase = "wait" /\ s.answer = "none" /\ s.view = r.view /\ s.dek = r.dek
      /\ s.epoch = r.epoch /\ s.manifest = r.manifest /\ s.seen = r.seen
  BY <1>2, <1>3, <1>4 DEF Runs
<1>6. run'[m] = s /\ \A n \in Machines : n # m => run'[n] = run[n]
  BY <1>2, <1>3, <1>4 DEF Send, Enter
<1>7. PICK a : a = RequestOf(m)
  OBVIOUS
<1>8. /\ a.from = m /\ a.declaredHead = r.view /\ a.epoch = r.epoch /\ a.dek = r.dek
      /\ a.manifest = r.manifest + 1
  BY <1>3, <1>7 DEF RequestOf
<1>9. requests' = requests \cup {a}
  BY <1>7 DEF Send
<1>10. KeyInUse(m) /\ Made(m, r.dek) /\ KeyOnChain(m) /\ KeyRequested(m) /\ KeyJournalled(m)
       /\ IntentOf(r) \in intents[m]
  BY <1>1, <1>3 DEF Journalled, KeysOwn, KeyInUse
<1>11. /\ \A p \in 1..Len(chain) : chain[p].dek # r.dek
       /\ \A q \in requests : q.dek # r.dek
       /\ \A i \in intents[m] : i.dek = r.dek =>
             /\ i.epoch = r.epoch /\ i.manifest = r.manifest + 1 /\ i.declaredHead <= r.view
             /\ i.outcome # "open" => i.declaredHead < r.view
  BY <1>1, <1>3, <1>10 DEF KeyOnChain, KeyRequested, KeyJournalled
<1>12. \A n \in Machines : n # m => NotAbout(n)
  BY <1>2, <1>8, <1>9, <1>10 DEF NotAbout, Made
<1>13. IntentsHold(m)'
  <2>1. SUFFICES ASSUME NEW i \in intents[m]
                 PROVE  IntentHolds(i)' /\ \A q \in requests' : SameAttempt(i, q)
    BY <1>2 DEF IntentsHold, SameAttempt
  <2>2. IntentHolds(i) /\ \A q \in requests : SameAttempt(i, q)
    BY DEF Journalled, IntentsHold
  <2>3. \A q \in requests' : SameAttempt(i, q)
    BY <1>8, <1>9, <1>11, <2>2 DEF SameAttempt
  <2>4. i.outcome \in SETTLED_OUT => ~(a.dek = i.dek /\ a.declaredHead = i.declaredHead)
    <3>1. i.outcome \in SETTLED_OUT => i.outcome # "open"
      BY DEF SETTLED_OUT
    <3>2. r.view \in Nat
      BY <1>2, <1>3
    <3>3. QED
      BY <1>8, <1>11, <3>1, <3>2
  <2>5. IntentHolds(i)'
    BY <1>2, <1>9, <2>2, <2>4 DEF IntentHolds, LandedAt
  <2>6. QED
    BY <2>3, <2>5
<1>14. \A i \in intents'[m] : Made(m, i.dek)' /\ i.declaredHead \in 1..Len(chain')
  BY <1>2 DEF Journalled, KeysOwn, Made
<1>15. KeysOwn(m)'
  BY <1>2, <1>5, <1>6, <1>10, <1>14 DEF KeysOwn, Made
<1>16. KeyInUse(m)'
  <2>1. KeyOnChain(m)'
    BY <1>2, <1>5, <1>6, <1>11 DEF KeyOnChain
  <2>2. KeyRequested(m)'
    <3>1. RequestOf(m)' = a
      BY <1>3, <1>5, <1>6, <1>7 DEF RequestOf
    <3>2. QED
      BY <1>5, <1>6, <1>9, <1>11, <3>1 DEF KeyRequested
  <2>3. KeyJournalled(m)'
    BY <1>2, <1>5, <1>6, <1>11 DEF KeyJournalled
  <2>4. IntentOf(run[m])' = IntentOf(r)
    BY <1>5, <1>6 DEF IntentOf
  <2>5. QED
    BY <1>2, <1>5, <1>6, <1>10, <2>1, <2>2, <2>3, <2>4 DEF KeyInUse
<1>17. PICK f : f = floors[m] /\ f = floors'[m] /\ Accepted(f)
  BY <1>2 DEF Journalled
<1>18. Accepted(floors[m])'
  BY <1>2, <1>17 DEF Accepted
<1>19. KeysMade' /\ deks' \in Nat /\ deks <= deks'
  <2>1. Made(a.from, a.dek)'
    BY <1>2, <1>8, <1>10 DEF Made
  <2>2. QED
    BY <1>2, <1>9, <2>1, KeysStayMade
<1>20. QED
  BY <1>2, <1>6, <1>12, <1>13, <1>15, <1>16, <1>18, <1>19, OneMachine

\* Whoever gives up waiting may still be served, later, or has been.
LEMMA TimeOutHolds ==
    ASSUME Shapes, Journalled, NEW m \in Machines, TimeOut(m)
    PROVE  Journalled'
<1>1. run[m].phase = "wait" /\ run[m].phase \in Composing
  BY DEF TimeOut, Composing
<1>2. /\ Typed /\ ServerMoves /\ run \in [Machines -> Runs] /\ deks \in Nat
      /\ UNCHANGED <<chain, manifests, deks, intents, floors>> /\ requests' \subseteq requests
      /\ floors \in [Machines -> [version : Nat, id : Ids]] /\ KeysMade
      /\ run[m] \in Runs
  BY <1>1, RunIs, TimeOutMoves DEF Moves, Shapes, Typed, TimeOut, serverVars, floorVars, Journalled
<1>3. PICK r : r = run[m]
  OBVIOUS
<1>4. PICK s : s = [r EXCEPT !.phase = "probe"]
  OBVIOUS
<1>5. /\ s.phase = "probe" /\ s.view = r.view /\ s.dek = r.dek
      /\ s.epoch = r.epoch /\ s.manifest = r.manifest /\ s.seen = r.seen
  BY <1>2, <1>3, <1>4 DEF Runs
<1>6. run'[m] = s /\ \A n \in Machines : n # m => run'[n] = run[n]
  BY <1>2, <1>3, <1>4 DEF TimeOut, Enter
<1>7. KeyInUse(m) /\ Made(m, r.dek) /\ KeyOnChain(m) /\ KeyRequested(m) /\ KeyJournalled(m)
      /\ IntentOf(r) \in intents[m]
  BY <1>1, <1>3 DEF Journalled, KeysOwn, KeyInUse
<1>8. \A n \in Machines : NotAbout(n)
  BY <1>2 DEF NotAbout
<1>9. /\ IntentsHold(m)'
      /\ \A i \in intents'[m] : Made(m, i.dek)' /\ i.declaredHead \in 1..Len(chain')
  BY <1>2, <1>8, IntentsStay
<1>10. KeysOwn(m)'
  BY <1>2, <1>5, <1>6, <1>7, <1>9 DEF KeysOwn, Made
<1>11. KeyInUse(m)'
  <2>1. KeyOnChain(m)'
    BY <1>2, <1>3, <1>5, <1>6, <1>7 DEF KeyOnChain
  <2>2. KeyRequested(m)'
    <3>1. RequestOf(m)' = RequestOf(m)
      BY <1>3, <1>5, <1>6 DEF RequestOf
    <3>2. QED
      BY <1>2, <1>3, <1>5, <1>6, <1>7, <3>1 DEF KeyRequested
  <2>3. KeyJournalled(m)'
    BY <1>1, <1>2, <1>3, <1>5, <1>6, <1>7 DEF KeyJournalled
  <2>4. IntentOf(run[m])' = IntentOf(r)
    BY <1>5, <1>6 DEF IntentOf
  <2>5. QED
    BY <1>2, <1>5, <1>6, <1>7, <2>1, <2>2, <2>3, <2>4 DEF KeyInUse
<1>12. PICK f : f = floors[m] /\ f = floors'[m] /\ Accepted(f)
  BY <1>2 DEF Journalled
<1>13. Accepted(floors[m])'
  BY <1>2, <1>12 DEF Accepted
<1>14. KeysMade' /\ deks' \in Nat /\ deks <= deks'
  BY <1>2, KeysStayMade
<1>15. QED
  BY <1>2, <1>6, <1>8, <1>9, <1>10, <1>11, <1>13, <1>14, OneMachine

\* What a composite that the server takes adds.
LEMMA ServeAdds ==
    ASSUME Shapes, NEW q, ServeComposite(q)
    PROVE  /\ q \in requests /\ q \in Requests /\ q.from \in Machines
           /\ q.declaredHead \in 1..Len(chain) /\ q \notin requests' /\ requests' \subseteq requests
           /\ Verdict(q) # "ok" => chain' = chain /\ manifests' = manifests
           /\ Verdict(q) = "ok" =>
                 /\ q.declaredHead = Len(chain) /\ q.manifest = Len(manifests) + 1
                 /\ EntryAdded(Entry("rotate_epoch", q.epoch, q.dek))
                 /\ Len(chain') = Len(chain) + 1
                 /\ \A i \in 1..Len(chain) : chain'[i] = chain[i]
                 /\ chain'[Len(chain) + 1] = Entry("rotate_epoch", q.epoch, q.dek)
                 /\ Len(manifests') = Len(manifests) + 1
                 /\ \A i \in 1..Len(manifests) : manifests'[i] = manifests[i]
                 /\ manifests'[Len(manifests) + 1] = [declaredHead |-> q.declaredHead, dek |-> q.dek]
<1>1. /\ Typed /\ q \in requests /\ q \in Requests /\ q.from \in Machines /\ q.dek \in Deks
      /\ q.epoch \in Nat /\ q.declaredHead \in Nat /\ q.declaredHead \in 1..Len(chain)
      /\ requests' = requests \ {q} /\ chain \in Seq(Entries) /\ manifests \in Seq(Ids)
  BY HeadIs DEF ServeComposite, Shapes, Typed, Requests, RequestsGrounded
<1>2. HeadSeq = Len(chain) /\ EpochAt(HeadSeq) = EpochsOf(chain, Len(chain))
  BY Reading
<1>3. ASSUME Verdict(q) = "ok"
      PROVE  /\ q.declaredHead = Len(chain) /\ q.manifest = Len(manifests) + 1
             /\ EntryAdded(Entry("rotate_epoch", q.epoch, q.dek))
             /\ manifests' = Append(manifests, [declaredHead |-> q.declaredHead, dek |-> q.dek])
             /\ chain' = Append(chain, Entry("rotate_epoch", q.epoch, q.dek))
  <2>1. /\ q.declaredHead = Len(chain) /\ q.manifest = Len(manifests) + 1
        /\ q.epoch = EpochsOf(chain, Len(chain)) + 1
    BY <1>2, <1>3 DEF Verdict
  <2>2. /\ manifests' = Append(manifests, [declaredHead |-> q.declaredHead, dek |-> q.dek])
        /\ chain' = Append(chain, Entry("rotate_epoch", q.epoch, q.dek)) /\ values' = values
    BY <1>3 DEF ServeComposite
  <2>3. Fits(Entry("rotate_epoch", q.epoch, q.dek))
        /\ Entry("rotate_epoch", q.epoch, q.dek).op # "remove_member"
    BY <1>1, <2>1 DEF Fits, Entry, Entries
  <2>4. QED
    BY <2>1, <2>2, <2>3 DEF EntryAdded
<1>4. Entry("rotate_epoch", q.epoch, q.dek) \in Entries
      /\ [declaredHead |-> q.declaredHead, dek |-> q.dek] \in Ids
  BY <1>1 DEF Entry, Entries, Ids
<1>5. QED
  BY <1>1, <1>3, <1>4, Appended DEF ServeComposite

\* The answer settles the attempt it is about, and lands it where the intent says.
LEMMA ServeHolds ==
    ASSUME Shapes, Journalled, NEW q, ServeComposite(q)
    PROVE  Journalled'
<1>1. PICK m \in Machines : m = q.from
  BY ServeAdds
<1>2. /\ Typed /\ ServerMoves /\ run \in [Machines -> Runs] /\ deks \in Nat
      /\ UNCHANGED <<deks, intents, floors>>
      /\ floors \in [Machines -> [version : Nat, id : Ids]] /\ KeysMade
      /\ intents \in [Machines -> SUBSET Intents]
      /\ run[m] \in Runs /\ Len(chain) \in Nat /\ Made(m, q.dek)
      /\ manifests \in Seq(Ids) /\ Len(manifests) \in Nat
  BY <1>1, RunIs, ServeMoves, ServeAdds
     DEF Moves, Shapes, Typed, ServeComposite, floorVars, Journalled, KeysMade
<1>3. /\ Len(chain) <= Len(chain') /\ Len(chain') \in Nat
      /\ \A k \in 1..Len(chain) : chain'[k] = chain[k]
  BY <1>2, ChainGrows DEF Typed
<1> DEFINE e == Entry("rotate_epoch", q.epoch, q.dek)
<1>4. /\ q.declaredHead \in 1..Len(chain) /\ q \in requests /\ q \notin requests'
      /\ requests' \subseteq requests
      /\ Verdict(q) # "ok" => chain' = chain /\ manifests' = manifests
  BY ServeAdds
<1>5. ASSUME Verdict(q) = "ok"
      PROVE  /\ q.declaredHead = Len(chain) /\ q.manifest = Len(manifests) + 1 /\ EntryAdded(e)
             /\ Len(chain') = Len(chain) + 1 /\ chain'[Len(chain) + 1] = e
             /\ Len(manifests') = Len(manifests) + 1
             /\ \A i \in 1..Len(manifests) : manifests'[i] = manifests[i]
             /\ manifests'[Len(manifests) + 1] = [declaredHead |-> q.declaredHead, dek |-> q.dek]
  BY <1>5, ServeAdds
<1>6. e.dek = q.dek
  BY DEF Entry
<1>7. \A i : Entry("rotate_epoch", i.epoch, i.dek) = e <=> i.epoch = q.epoch /\ i.dek = q.dek
  BY DEF Entry
<1> HIDE DEF e
<1>8. \A n \in Machines : n # m => NotAbout(n)
  BY <1>2, <1>4, <1>5, <1>6 DEF NotAbout, Made
<1>9. KeysMade'
  <2>1. e.dek.number \in 1..deks
    BY <1>2, <1>6 DEF Made
  <2>2. chain' = chain \/ EntryAdded(e)
    BY <1>4, <1>5
  <2>3. \A a \in requests' : a \in requests
    BY <1>4
  <2>4. deks' \in Nat /\ deks <= deks'
    BY <1>2
  <2>5. QED
    BY <1>2, <2>1, <2>2, <2>3, <2>4, KeysStayMade
<1>10. ASSUME Verdict(q) = "ok"
      PROVE  IntentsHold(m)'
  <2>1. SUFFICES ASSUME NEW i \in intents[m]
                 PROVE  IntentHolds(i)' /\ \A a \in requests' : SameAttempt(i, a)
    BY <1>2 DEF IntentsHold, SameAttempt
  <2>2. /\ i \in Intents /\ IntentHolds(i) /\ \A a \in requests : SameAttempt(i, a)
        /\ i.declaredHead \in 1..Len(chain) /\ i.manifest \in Nat
    BY <1>2 DEF Journalled, IntentsHold, KeysOwn, Intents
  <2>3. LandedAt(i.declaredHead, i.epoch, i.dek)' <=>
            \/ LandedAt(i.declaredHead, i.epoch, i.dek)
            \/ i.declaredHead = Len(chain) /\ i.epoch = q.epoch /\ i.dek = q.dek
    <3>1. CASE i.declaredHead < Len(chain)
      <4>1. i.declaredHead + 1 \in 1..Len(chain)
        BY <1>2, <2>2, <3>1
      <4>2. QED
        BY <1>2, <1>3, <2>2, <3>1, <4>1 DEF LandedAt
    <3>2. CASE i.declaredHead = Len(chain)
      <4>1. chain'[i.declaredHead + 1] = e /\ i.declaredHead < Len(chain')
        BY <1>2, <1>10, <1>5, <3>2
      <4>2. ~LandedAt(i.declaredHead, i.epoch, i.dek)
        BY <1>2, <3>2 DEF LandedAt
      <4>3. LandedAt(i.declaredHead, i.epoch, i.dek)' <=> i.epoch = q.epoch /\ i.dek = q.dek
        BY <1>7, <4>1 DEF LandedAt
      <4>4. QED
        BY <3>2, <4>2, <4>3
    <3>3. QED
      BY <1>2, <2>2, <3>1, <3>2
  <2>4. i.outcome \in SETTLED_OUT => ~(i.declaredHead = Len(chain) /\ i.dek = q.dek)
    BY <1>2, <1>10, <1>4, <1>5, <2>2 DEF IntentHolds
  <2>5. i.declaredHead < Len(chain')
    BY <1>2, <1>10, <1>5, <2>2
  <2>6. LandedAt(i.declaredHead, i.epoch, i.dek)' =>
            i.manifest \in 1..Len(manifests') /\ manifests'[i.manifest] = ManifestId(i)
    <3>1. CASE LandedAt(i.declaredHead, i.epoch, i.dek)
      <4>1. i.manifest \in 1..Len(manifests) /\ manifests[i.manifest] = ManifestId(i)
        BY <2>2, <3>1 DEF IntentHolds
      <4>2. QED
        BY <1>2, <1>10, <1>5, <4>1
    <3>2. CASE i.declaredHead = Len(chain) /\ i.dek = q.dek
      <4>1. i.manifest = q.manifest
        BY <1>10, <1>4, <1>5, <2>2, <3>2 DEF SameAttempt
      <4>2. ManifestId(i) = [declaredHead |-> q.declaredHead, dek |-> q.dek]
        BY <1>10, <1>5, <3>2 DEF ManifestId
      <4>3. QED
        BY <1>2, <1>10, <1>5, <4>1, <4>2
    <3>3. QED
      BY <2>3, <3>1, <3>2
  <2>7. IntentHolds(i)'
    BY <2>2, <2>3, <2>4, <2>5, <2>6 DEF IntentHolds, ManifestId
  <2>8. QED
    BY <1>4, <2>2, <2>7
<1>11. IntentsHold(m)'
  <2>1. CASE Verdict(q) # "ok"
    <3>1. NotAbout(m)
      BY <1>4, <2>1 DEF NotAbout
    <3>2. QED
      BY <1>2, <3>1, IntentsStay
  <2>2. QED
    BY <1>10, <2>1
<1>12. \A i \in intents'[m] : Made(m, i.dek)' /\ i.declaredHead \in 1..Len(chain')
  BY <1>2, <1>3 DEF Journalled, KeysOwn, Made
<1>13. PICK r : r = run[m]
  OBVIOUS
<1>14. PICK s : s = IF AwaitedBy(q) THEN [r EXCEPT !.answer = Verdict(q)] ELSE r
  OBVIOUS
<1>15. /\ s.phase = r.phase /\ s.view = r.view /\ s.dek = r.dek /\ s.epoch = r.epoch
       /\ s.manifest = r.manifest /\ s.seen = r.seen
       /\ s.answer = IF AwaitedBy(q) THEN Verdict(q) ELSE r.answer
  BY <1>2, <1>13, <1>14 DEF Runs
<1>16. run'[m] = s /\ \A n \in Machines : n # m => run'[n] = run[n]
  BY <1>1, <1>2, <1>13, <1>14 DEF ServeComposite, Enter
<1>17. AwaitedBy(q) <=> r.phase = "wait" /\ r.answer = "none" /\ q = RequestOf(m)
  BY <1>1, <1>13 DEF AwaitedBy
<1>18. KeysOwn(m)'
  BY <1>2, <1>12, <1>13, <1>15, <1>16 DEF KeysOwn, Made, Journalled
<1>19. CASE r.phase \notin Composing
  <2>1. KeyInUse(m)'
    BY <1>15, <1>16, <1>19 DEF KeyInUse
  <2>2. PICK f : f = floors[m] /\ f = floors'[m] /\ Accepted(f)'
    BY <1>2, AcceptedStays DEF Journalled
  <2>3. Accepted(floors[m])'
    BY <2>2 DEF Accepted
  <2>4. QED
    BY <1>2, <1>8, <1>9, <1>11, <1>16, <1>18, <2>1, <2>3, OneMachine
<1>20. CASE r.phase \in Composing
  <2>1. /\ KeyInUse(m) /\ KeyOnChain(m) /\ KeyRequested(m) /\ KeyJournalled(m)
        /\ r.view \in 1..Len(chain)
    BY <1>13, <1>20, RunIs DEF Journalled, KeyInUse
  <2>2. RequestOf(m)' = RequestOf(m)
    BY <1>13, <1>15, <1>16 DEF RequestOf
  <2>3. RequestOf(m).declaredHead = r.view /\ RequestOf(m).dek = r.dek
    BY <1>13 DEF RequestOf
  <2>4. KeyOnChain(m)'
    <3>1. SUFFICES ASSUME NEW p \in 1..Len(chain'), chain'[p].dek = r.dek
                   PROVE  /\ s.phase = "probe" \/ (s.phase = "wait" /\ s.answer = "ok")
                          /\ p = s.view + 1
      BY <1>15, <1>16 DEF KeyOnChain
    <3>2. CASE p \in 1..Len(chain)
      <4>1. /\ r.phase = "probe" \/ (r.phase = "wait" /\ r.answer = "ok")
            /\ p = r.view + 1
        BY <1>3, <1>13, <2>1, <3>1, <3>2 DEF KeyOnChain
      <4>2. ~AwaitedBy(q)
        BY <1>17, <4>1
      <4>3. QED
        BY <1>15, <4>1, <4>2
    <3>3. CASE p \notin 1..Len(chain)
      <4>1. Verdict(q) = "ok" /\ p = Len(chain) + 1
        BY <1>2, <1>4, <1>5, <3>3
      <4>2. q.dek = r.dek
        BY <1>5, <1>6, <3>1, <4>1
      <4>3. /\ r.phase = "probe" \/ (r.phase = "wait" /\ r.answer = "none")
            /\ q = RequestOf(m)
        BY <1>13, <1>4, <2>1, <4>2 DEF KeyRequested
      <4>4. p = r.view + 1
        BY <1>5, <2>3, <4>1, <4>3
      <4>5. QED
        BY <1>15, <1>17, <4>1, <4>3, <4>4
    <3>4. QED
      BY <3>2, <3>3
  <2>5. KeyRequested(m)'
    <3>1. SUFFICES ASSUME NEW a \in requests', a.dek = r.dek
                   PROVE  /\ s.phase = "probe" \/ (s.phase = "wait" /\ s.answer = "none")
                          /\ a = RequestOf(m)
      BY <1>15, <1>16, <2>2 DEF KeyRequested
    <3>2. /\ a # q
          /\ r.phase = "probe" \/ (r.phase = "wait" /\ r.answer = "none")
          /\ a = RequestOf(m)
      BY <1>13, <1>4, <2>1, <3>1 DEF KeyRequested
    <3>3. ~AwaitedBy(q)
      BY <1>17, <3>2
    <3>4. QED
      BY <1>15, <3>2, <3>3
  <2>6. KeyJournalled(m)'
    BY <1>2, <1>13, <1>15, <1>16, <2>1 DEF KeyJournalled
  <2>7. IntentOf(run[m])' = IntentOf(r)
    BY <1>15, <1>16 DEF IntentOf
  <2>8. s.phase = "wait" /\ s.answer = "head-conflict" => s.view < Len(chain')
    <3>1. SUFFICES ASSUME s.phase = "wait", s.answer = "head-conflict" PROVE r.view < Len(chain')
      BY <1>15
    <3>2. CASE AwaitedBy(q)
      <4>1. q.declaredHead # Len(chain) /\ q.declaredHead = r.view
        BY <1>15, <1>17, <2>3, <3>1, <3>2, Reading DEF Verdict
      <4>2. QED
        BY <1>2, <1>3, <2>1, <4>1
    <3>3. CASE ~AwaitedBy(q)
      <4>1. r.view < Len(chain)
        BY <1>13, <1>15, <1>20, <2>1, <3>1, <3>3 DEF KeyInUse
      <4>2. QED
        BY <1>2, <1>3, <2>1, <4>1
    <3>4. QED
      BY <3>2, <3>3
  <2>9. KeyInUse(m)'
    BY <1>2, <1>13, <1>15, <1>16, <1>20, <2>1, <2>4, <2>5, <2>6, <2>7, <2>8 DEF KeyInUse
  <2>10. PICK f : f = floors[m] /\ f = floors'[m] /\ Accepted(f)'
    BY <1>2, AcceptedStays DEF Journalled
  <2>11. Accepted(floors[m])'
    BY <2>10 DEF Accepted
  <2>12. QED
    BY <1>2, <1>8, <1>9, <1>11, <1>16, <1>18, <2>9, <2>11, OneMachine
<1>21. QED
  BY <1>19, <1>20

\* Settling an attempt with what is so keeps the journal and the floor true, even if one
\* of the two writes fails.
LEMMA SettleHolds ==
    ASSUME Shapes, Journalled, NEW m \in Machines, NEW o \in Outcomes, Settles(m, o),
           UNCHANGED Unserved, run[m].phase \in {"wait", "probe"},
           o # "open",
           o \in SETTLED_IN => LandedAt(run[m].view, run[m].epoch, run[m].dek),
           o \in SETTLED_OUT =>
               /\ ~LandedAt(run[m].view, run[m].epoch, run[m].dek)
               /\ run[m].view < Len(chain) \/ \A q \in requests : q.dek # run[m].dek
    PROVE  /\ IntentsHold(m)'
           /\ \A i \in intents'[m] :
                 /\ Made(m, i.dek)' /\ i.declaredHead \in 1..Len(chain')
                 /\ i \in intents[m] \/ (i.dek = run[m].dek /\ i.epoch = run[m].epoch
                                         /\ i.manifest = run[m].manifest + 1
                                         /\ i.declaredHead = run[m].view)
           /\ floors' \in [Machines -> [version : Nat, id : Ids]]
           /\ Accepted(floors[m])'
           /\ \A n \in Machines : n # m => intents'[n] = intents[n] /\ floors'[n] = floors[n]
<1>1. PICK r : r = run[m]
  OBVIOUS
<1>2. /\ Typed /\ intents \in [Machines -> SUBSET Intents] /\ r \in Runs /\ r.phase \in Composing
      /\ floors \in [Machines -> [version : Nat, id : Ids]] /\ Accepted(floors[m])
      /\ UNCHANGED <<chain, manifests, requests, deks>>
      /\ r.view \in 1..Len(chain)
  <2>1. r.phase \in Composing
    BY <1>1 DEF Composing
  <2>2. QED
    BY <1>1, <2>1, RunIs DEF Shapes, Typed, Journalled, Unserved, serverVars
<1>3. PICK i : i = IntentOf(r)
  OBVIOUS
<1>4. /\ i \in Intents /\ i.declaredHead = r.view /\ i.epoch = r.epoch /\ i.dek = r.dek
      /\ i.manifest = r.manifest + 1 /\ i.outcome = "open"
  BY <1>2, <1>3, IntentTyped DEF IntentOf
<1>5. i \in intents[m]
  BY <1>1, <1>2, <1>3 DEF Journalled, KeyInUse
<1>6. /\ IntentHolds(i) /\ Made(m, i.dek) /\ i.declaredHead \in 1..Len(chain)
      /\ \A q \in requests : SameAttempt(i, q)
  BY <1>5 DEF Journalled, IntentsHold, KeysOwn
<1>7. PICK j : j = [i EXCEPT !.outcome = o]
  OBVIOUS
<1>8. /\ j.declaredHead = r.view /\ j.epoch = r.epoch /\ j.dek = r.dek
      /\ j.manifest = r.manifest + 1 /\ j.outcome = o
  BY <1>4, <1>7 DEF Intents
<1>9. IntentHolds(j) /\ \A q \in requests : SameAttempt(j, q)
  <2>1. \A q \in requests : SameAttempt(j, q)
    BY <1>4, <1>6, <1>8 DEF SameAttempt
  <2>2. LandedAt(j.declaredHead, j.epoch, j.dek) =>
            j.manifest \in 1..Len(manifests) /\ manifests[j.manifest] = ManifestId(j)
    BY <1>4, <1>6, <1>8 DEF IntentHolds, ManifestId
  <2>3. j.outcome \in SETTLED_IN => LandedAt(j.declaredHead, j.epoch, j.dek)
    BY <1>1, <1>8
  <2>4. j.outcome \in SETTLED_OUT =>
          /\ ~LandedAt(j.declaredHead, j.epoch, j.dek)
          /\ j.declaredHead < Len(chain)
             \/ \A q \in requests : ~(q.dek = j.dek /\ q.declaredHead = j.declaredHead)
    BY <1>1, <1>8
  <2>5. QED
    BY <2>1, <2>2, <2>3, <2>4 DEF IntentHolds
<1>10. PICK closed : closed = [intents EXCEPT ![m] = (intents[m] \ {i}) \cup {j}]
  OBVIOUS
<1>11. PICK moved : moved = IF o \in SETTLED_IN
                            THEN [floors EXCEPT ![m] = Promoted(floors[m], {ManifestOf(i)})] ELSE floors
  OBVIOUS
<1>12. intents' \in {intents, closed} /\ floors' \in {floors, moved}
  BY <1>1, <1>3, <1>7, <1>10, <1>11 DEF Settles, Resolved
<1>13. /\ intents'[m] = intents[m] \/ intents'[m] = (intents[m] \ {i}) \cup {j}
       /\ \A n \in Machines : n # m => intents'[n] = intents[n] /\ floors'[n] = floors[n]
  BY <1>2, <1>10, <1>11, <1>12
<1>14. \A k \in intents'[m] : k \in intents[m] \/ k = j
  BY <1>13
<1>15. IntentsHold(m)'
  <2>1. \A k \in intents'[m] : IntentHolds(k) /\ \A q \in requests : SameAttempt(k, q)
    BY <1>9, <1>14 DEF Journalled, IntentsHold
  <2>2. \A k : IntentHolds(k)' <=> IntentHolds(k)
    BY <1>2 DEF IntentHolds, LandedAt
  <2>3. QED
    BY <1>2, <2>1, <2>2 DEF IntentsHold, SameAttempt
<1>16. \A k \in intents'[m] : Made(m, k.dek)' /\ k.declaredHead \in 1..Len(chain')
  <2>1. \A k \in intents'[m] : Made(m, k.dek) /\ k.declaredHead \in 1..Len(chain)
    BY <1>4, <1>6, <1>8, <1>14 DEF Journalled, KeysOwn
  <2>2. QED
    BY <1>2, <2>1 DEF Made
<1>17. o \in SETTLED_IN => /\ Promoted(floors[m], {ManifestOf(i)}) \in [version : Nat, id : Ids]
                           /\ Accepted(Promoted(floors[m], {ManifestOf(i)}))
  <2>1. SUFFICES ASSUME o \in SETTLED_IN
                 PROVE  ManifestOf(i) \in [version : Nat, id : Ids] /\ Accepted(ManifestOf(i))
    BY <1>2, PromotedIs
  <2>2. i.manifest \in 1..Len(manifests) /\ manifests[i.manifest] = ManifestId(i)
    BY <1>1, <1>4, <1>6, <2>1 DEF IntentHolds
  <2>3. ManifestOf(i) = [version |-> i.manifest, id |-> ManifestId(i)] /\ ManifestId(i) \in Ids
    BY <1>4 DEF ManifestOf, ManifestId, Ids, Intents
  <2>4. QED
    BY <1>4, <2>2, <2>3 DEF Accepted, Intents
<1>18. floors' \in [Machines -> [version : Nat, id : Ids]] /\ Accepted(floors'[m])
  BY <1>2, <1>11, <1>12, <1>17
<1>19. Accepted(floors[m])'
  <2>1. PICK f : f = floors'[m] /\ Accepted(f)
    BY <1>18
  <2>2. QED
    BY <1>2, <2>1 DEF Accepted
<1>20. QED
  BY <1>1, <1>8, <1>13, <1>14, <1>15, <1>16, <1>18, <1>19

\* A settled attempt whose run ends.
LEMMA SettledAndEnded ==
    ASSUME Shapes, Journalled, NEW m \in Machines, NEW o \in Outcomes, Settles(m, o),
           UNCHANGED Unserved, run[m].phase \in {"wait", "probe"},
           o # "open",
           o \in SETTLED_IN => LandedAt(run[m].view, run[m].epoch, run[m].dek),
           o \in SETTLED_OUT =>
               /\ ~LandedAt(run[m].view, run[m].epoch, run[m].dek)
               /\ run[m].view < Len(chain) \/ \A q \in requests : q.dek # run[m].dek,
           NEW s, Enter(m, s), s.phase \notin Composing
    PROVE  Journalled'
<1>1. /\ IntentsHold(m)' /\ Accepted(floors[m])'
      /\ \A i \in intents'[m] : Made(m, i.dek)' /\ i.declaredHead \in 1..Len(chain')
      /\ floors' \in [Machines -> [version : Nat, id : Ids]]
      /\ \A n \in Machines : n # m => intents'[n] = intents[n] /\ floors'[n] = floors[n]
  BY SettleHolds
<1>2. /\ Typed /\ UNCHANGED <<chain, manifests, requests, deks>> /\ ServerMoves /\ deks \in Nat
      /\ run \in [Machines -> Runs]
  BY Still DEF Unserved, serverVars, Shapes, Typed
<1>3. run'[m].phase \notin Composing /\ \A n \in Machines : n # m => run'[n] = run[n]
  BY <1>2 DEF Enter
<1>4. KeysOwn(m)' /\ KeyInUse(m)'
  BY <1>1, <1>3 DEF KeysOwn, KeyInUse
<1>5. KeysMade' /\ \A n \in Machines : NotAbout(n)
  BY <1>2, AboutNobody, KeysStayMade DEF Journalled
<1>6. deks' \in Nat /\ deks <= deks'
  BY <1>2
<1>7. QED
  BY <1>1, <1>2, <1>3, <1>4, <1>5, <1>6, OneMachine

\* An attempt that landed is seen on the chain, and what is seen is that attempt.
LEMMA LandedIs ==
    ASSUME Shapes, Journalled, NEW m \in Machines, run[m].phase \in Composing
    PROVE  Landed(run[m]) <=> LandedAt(run[m].view, run[m].epoch, run[m].dek)
<1>1. PICK r : r = run[m]
  OBVIOUS
<1>2. /\ Typed /\ Chained(chain) /\ r \in Runs /\ r.view \in 1..Len(chain) /\ Len(chain) \in Nat
      /\ r.epoch = EpochsOf(chain, r.view) + 1 /\ EpochsOf(chain, r.view) \in Nat
      /\ EpochsOf(chain, Len(chain)) \in Nat
      /\ chain \in Seq(Entries)
  BY <1>1, RunIs, HeadIs, StartsFinite DEF Typed, Grounded
<1>3. Landed(r) <=> r.epoch <= EpochsOf(chain, Len(chain)) /\ chain[StartIn(chain, r.epoch)].dek = r.dek
  BY <1>2, Reading DEF Landed, DekOf
<1>4. ASSUME LandedAt(r.view, r.epoch, r.dek)
      PROVE  Landed(r)
  <2>1. PICK i : i = r.view + 1
    OBVIOUS
  <2>2. i \in 1..Len(chain) /\ chain[i] = Entry("rotate_epoch", r.epoch, r.dek)
    BY <1>2, <1>4, <2>1 DEF LandedAt
  <2>3. i \in StartsIn(chain, Len(chain)) /\ chain[i].epoch = r.epoch /\ chain[i].dek = r.dek
    BY <2>2 DEF StartsIn, Entry
  <2>4. StartIn(chain, r.epoch) = i
    BY <1>2, <2>3, StartFound
  <2>5. r.epoch = EpochsOf(chain, i)
    BY <1>2, <2>3 DEF Chained
  <2>6. EpochsOf(chain, i) <= EpochsOf(chain, Len(chain))
    BY <1>2, <2>2, StartsGrow
  <2>7. QED
    BY <1>3, <2>3, <2>4, <2>5, <2>6
<1>5. ASSUME Landed(r)
      PROVE  LandedAt(r.view, r.epoch, r.dek)
  <2>1. r.epoch \in 1..EpochsOf(chain, Len(chain))
    BY <1>2, <1>3, <1>5
  <2>2. PICK p : p = StartIn(chain, r.epoch)
    OBVIOUS
  <2>3. p \in StartsIn(chain, Len(chain)) /\ p \in 1..Len(chain) /\ chain[p].epoch = r.epoch
        /\ chain[p].dek = r.dek
    BY <1>2, <1>3, <1>5, <2>1, <2>2, StartFound
  <2>4. p = r.view + 1
    BY <1>1, <2>3 DEF Journalled, KeyInUse, KeyOnChain
  <2>5. chain[p].op = "rotate_epoch"
    <3>1. p # 1
      BY <1>2, <2>4
    <3>2. chain[p].op # "create_environment"
      BY <1>2, <2>3, <3>1 DEF Chained
    <3>3. QED
      BY <2>3, <3>2 DEF StartsIn
  <2>6. chain[p] = Entry("rotate_epoch", r.epoch, r.dek)
    <3>1. chain[p] \in Entries
      BY <1>2, <2>3
    <3>2. QED
      BY <2>3, <2>5, <3>1 DEF Entry, Entries
  <2>7. QED
    BY <1>2, <2>3, <2>4, <2>6 DEF LandedAt
<1>6. QED
  BY <1>1, <1>4, <1>5

\* A refused attempt is not on the chain, and nothing of it is on its way.
LEMMA RefusedIs ==
    ASSUME Shapes, Journalled, NEW m \in Machines, run[m].phase = "wait",
           run[m].answer \notin {"none", "ok"}
    PROVE  /\ ~LandedAt(run[m].view, run[m].epoch, run[m].dek)
           /\ \A q \in requests : q.dek # run[m].dek
<1>1. /\ run[m].phase \in Composing /\ run[m].view \in 1..Len(chain) /\ Len(chain) \in Nat
      /\ KeyOnChain(m) /\ KeyRequested(m)
  <2>1. run[m].phase \in Composing
    BY DEF Composing
  <2>2. QED
    BY <2>1, RunIs DEF Journalled, KeyInUse
<1>2. \A p \in 1..Len(chain) : chain[p].dek # run[m].dek
  BY <1>1 DEF KeyOnChain
<1>3. \A q \in requests : q.dek # run[m].dek
  BY <1>1 DEF KeyRequested
<1>4. ASSUME LandedAt(run[m].view, run[m].epoch, run[m].dek)
      PROVE  FALSE
  <2>1. run[m].view + 1 \in 1..Len(chain) /\ chain[run[m].view + 1].dek = run[m].dek
    BY <1>1, <1>4 DEF LandedAt, Entry
  <2>2. QED
    BY <1>2, <2>1
<1>5. QED
  BY <1>3, <1>4

\* What the answer "ok" settles is on the chain.
LEMMA ConfirmHolds ==
    ASSUME Shapes, Promise, Journalled, NEW m \in Machines, Confirm(m)
    PROVE  Journalled'
<1>1. /\ run[m].phase = "wait" /\ run[m].answer = "ok" /\ run[m].phase \in Composing
      /\ UNCHANGED Unserved
  BY DEF Confirm, Answered, Composing
<1>2. LandedAt(run[m].view, run[m].epoch, run[m].dek) /\ Landed(run[m])
  BY <1>1, LandedIs DEF Promise, PromiseOf, AnsweredTrue
<1>3. /\ Typed /\ run \in [Machines -> Runs] /\ ServerMoves
      /\ UNCHANGED <<chain, requests, deks>>
  BY <1>1, Still DEF Shapes, Typed, Unserved, serverVars
<1>4. Idle.phase \notin Composing
  BY DEF Idle, Composing
<1>5. CASE Ends(m) /\ UNCHANGED <<floorVars, spent>>
  <2>1. \A n \in Machines : run'[n] = run[n] \/ run'[n].phase \notin Composing
    BY <1>3, <1>4, <1>5 DEF Ends, Enter
  <2>2. QED
    BY <1>3, <1>5, <2>1, QuietStep DEF floorVars
<1>6. ASSUME NEW o \in SETTLED_IN, Settles(m, o), NEW s, Enter(m, s), s.phase \notin Composing
      PROVE  Journalled'
  <2>1. o \in Outcomes /\ o # "open" /\ o \notin SETTLED_OUT
    BY <1>6 DEF Outcomes, SETTLED_IN, SETTLED_OUT
  <2>2. QED
    BY <1>1, <1>2, <1>6, <2>1, SettledAndEnded
<1>7. CASE Settles(m, "accepted-superseded") /\ Ends(m)
  BY <1>4, <1>6, <1>7 DEF Ends, SETTLED_IN
<1>8. CASE Settles(m, "accepted")
           /\ Enter(m, [run[m] EXCEPT !.phase = "push", !.view = HeadSeq, !.pass = 1])
  <2>1. PICK s : s = [run[m] EXCEPT !.phase = "push", !.view = HeadSeq, !.pass = 1]
    OBVIOUS
  <2>2. s.phase = "push"
    BY <1>3, <2>1 DEF Runs
  <2>3. s.phase \notin Composing
    BY <2>2 DEF Composing
  <2>4. QED
    BY <1>6, <1>8, <2>1, <2>3 DEF SETTLED_IN
<1>9. QED
  BY <1>2, <1>5, <1>7, <1>8 DEF Confirm

\* What a conflict or a refusal settles is not on the chain and never gets there; a
\* composite signed again is signed at a later head.
LEMMA ConflictHolds ==
    ASSUME Shapes, Journalled, NEW m \in Machines,
           HeadConflict(m) \/ ValuesConflict(m) \/ Rejected(m)
    PROVE  Journalled'
<1>1. /\ run[m].phase = "wait" /\ run[m].answer \notin {"none", "ok"} /\ run[m].phase \in Composing
      /\ UNCHANGED Unserved /\ Settles(m, "rejected")
      /\ HeadConflict(m) => run[m].answer = "head-conflict"
  BY DEF HeadConflict, ValuesConflict, Rejected, Answered, Composing
<1>2. /\ ~LandedAt(run[m].view, run[m].epoch, run[m].dek)
      /\ \A q \in requests : q.dek # run[m].dek
  BY <1>1, RefusedIs
<1>3. /\ Typed /\ run \in [Machines -> Runs] /\ ServerMoves /\ deks \in Nat
      /\ UNCHANGED <<chain, manifests, requests, deks>> /\ HeadSeq = Len(chain) /\ Len(chain) \in Nat
      /\ run[m] \in Runs /\ run[m].view \in 1..Len(chain)
  BY <1>1, RunIs, Still DEF Shapes, Typed, Unserved, serverVars
<1>4. "rejected" \in Outcomes /\ "rejected" \notin SETTLED_IN
  BY DEF Outcomes, SETTLED_OUT, SETTLED_IN
<1>5. ASSUME NEW s, Enter(m, s), s.phase \notin Composing
      PROVE  Journalled'
  BY <1>1, <1>2, <1>4, <1>5, SettledAndEnded
<1>6. CASE Ends(m)
  BY <1>5, <1>6 DEF Ends, Idle, Composing
<1>7. CASE Enter(m, Round(run[m].mode, run[m].baseline, run[m].opened, run[m].round + 1))
  <2>1. PICK s : s = Round(run[m].mode, run[m].baseline, run[m].opened, run[m].round + 1)
    OBVIOUS
  <2>2. run[m] \in Runs /\ run[m].mode \in Modes
    BY <1>1, <1>3, RunIs
  <2>3. s.phase = "pull"
    BY <2>1, <2>2, NextRoundIs
  <2>4. s.phase \notin Composing
    BY <2>3 DEF Composing
  <2>5. QED
    BY <1>5, <1>7, <2>1, <2>4
<1>8. CASE HeadConflict(m) /\ Enter(m, Resigned(run[m]))
  <2>1. PICK r : r = run[m]
    OBVIOUS
  <2>2. PICK s : s = Resigned(r)
    OBVIOUS
  <2>3. /\ s.phase = "journal" /\ s.view = Len(chain) /\ s.dek = r.dek /\ s.epoch = r.epoch
        /\ s.manifest = r.manifest
    BY <1>3, <2>1, <2>2 DEF Runs, Resigned
  <2>4. run'[m] = s /\ \A n \in Machines : n # m => run'[n] = run[n]
    BY <1>3, <1>8, <2>1, <2>2 DEF Enter
  <2>5. /\ IntentsHold(m)' /\ Accepted(floors[m])'
        /\ \A i \in intents'[m] :
                 /\ Made(m, i.dek)' /\ i.declaredHead \in 1..Len(chain')
                 /\ i \in intents[m] \/ (i.dek = r.dek /\ i.epoch = r.epoch
                                         /\ i.manifest = r.manifest + 1
                                         /\ i.declaredHead = r.view)
        /\ floors' \in [Machines -> [version : Nat, id : Ids]]
        /\ \A n \in Machines : n # m => intents'[n] = intents[n] /\ floors'[n] = floors[n]
    BY <1>1, <1>2, <1>4, <2>1, SettleHolds
  <2>6. /\ KeyOnChain(m) /\ KeyJournalled(m) /\ Made(m, r.dek) /\ r.view < Len(chain)
    BY <1>1, <1>8, <2>1 DEF Journalled, KeysOwn, KeyInUse
  <2>7. KeysOwn(m)'
    BY <1>3, <2>3, <2>4, <2>5, <2>6 DEF KeysOwn, Made
  <2>8. KeyInUse(m)'
    <3>1. KeyOnChain(m)'
      <4>1. \A p \in 1..Len(chain) : chain[p].dek # r.dek
        BY <1>1, <2>1, <2>6 DEF KeyOnChain
      <4>2. QED
        BY <1>3, <2>3, <2>4, <4>1 DEF KeyOnChain
    <3>2. KeyRequested(m)'
      BY <1>2, <1>3, <2>1, <2>3, <2>4 DEF KeyRequested
    <3>3. KeyJournalled(m)'
      <4>1. SUFFICES ASSUME NEW i \in intents'[m], i.dek = r.dek
                     PROVE  /\ i.epoch = r.epoch /\ i.manifest = r.manifest + 1
                            /\ i.declaredHead <= Len(chain) /\ i.declaredHead < Len(chain)
        <5>1. run'[m].dek = r.dek /\ run'[m].epoch = r.epoch
              /\ run'[m].manifest = r.manifest /\ run'[m].view = Len(chain)
          BY <2>3, <2>4
        <5>2. QED
          BY <5>1 DEF KeyJournalled
      <4>2. /\ i.epoch = r.epoch /\ i.manifest = r.manifest + 1 /\ i.declaredHead <= r.view
        BY <1>3, <2>1, <2>5, <2>6, <4>1 DEF KeyJournalled
      <4>3. i.declaredHead \in Nat /\ r.view \in Nat /\ Len(chain) \in Nat
        BY <1>3, <2>1, <2>5
      <4>4. QED
        BY <1>3, <2>1, <2>6, <4>2, <4>3
    <3>4. QED
      BY <2>3, <2>4, <3>1, <3>2, <3>3 DEF KeyInUse
  <2>9. KeysMade' /\ \A n \in Machines : NotAbout(n)
    BY <1>3, AboutNobody, KeysStayMade DEF Journalled
  <2>10. deks' \in Nat /\ deks <= deks'
    BY <1>3
  <2>11. QED
    BY <1>3, <2>4, <2>5, <2>7, <2>8, <2>9, <2>10, OneMachine
<1>9. QED
  BY <1>6, <1>7, <1>8 DEF HeadConflict, ValuesConflict, Rejected

\* A probe settles only what the chain decides for good.
LEMMA ProbeHolds ==
    ASSUME Shapes, Journalled, NEW m \in Machines, Probe(m)
    PROVE  Journalled'
<1>1. run[m].phase = "probe" /\ run[m].phase \in Composing /\ UNCHANGED Unserved /\ Ends(m)
  BY DEF Probe, Composing
<1>2. /\ Typed /\ run \in [Machines -> Runs] /\ ServerMoves
      /\ UNCHANGED <<chain, requests, deks>> /\ HeadSeq = Len(chain) /\ Len(chain) \in Nat
      /\ EpochAt(HeadSeq) = EpochsOf(chain, Len(chain))
      /\ run[m] \in Runs /\ run[m].view \in 1..Len(chain) /\ run[m].epoch = EpochsOf(chain, run[m].view) + 1
      /\ EpochsOf(chain, run[m].view) \in Nat
  BY <1>1, RunIs, Still, StartsFinite DEF Shapes, Typed, Unserved, serverVars, Grounded
<1>3. Idle.phase \notin Composing
  BY DEF Idle, Composing
<1>4. Landed(run[m]) <=> LandedAt(run[m].view, run[m].epoch, run[m].dek)
  BY <1>1, LandedIs
<1>5. CASE UNCHANGED <<floorVars, spent>>
  <2>1. \A n \in Machines : run'[n] = run[n] \/ run'[n].phase \notin Composing
    BY <1>1, <1>2, <1>3 DEF Ends, Enter
  <2>2. QED
    BY <1>2, <1>5, <2>1, QuietStep DEF floorVars
<1>6. ASSUME NEW o \in {"accepted", "accepted-superseded"}, Probed(run[m]) = o, Settles(m, o)
      PROVE  Journalled'
  <2>1. Landed(run[m])
    BY <1>6 DEF Probed
  <2>2. o \in Outcomes /\ o # "open" /\ o \notin SETTLED_OUT
    BY <1>6 DEF Outcomes, SETTLED_IN, SETTLED_OUT
  <2>3. QED
    BY <1>1, <1>3, <1>4, <1>6, <2>1, <2>2, SettledAndEnded DEF Ends
<1>7. CASE Probed(run[m]) = "not-accepted" /\ Settles(m, "not-accepted")
  <2>1. ~Landed(run[m]) /\ (EpochAt(HeadSeq) >= run[m].epoch \/ HeadSeq > run[m].view)
    BY <1>7 DEF Probed
  <2>2. run[m].view < Len(chain)
    <3>1. run[m].view = Len(chain) => EpochAt(HeadSeq) < run[m].epoch
      BY <1>2
    <3>2. QED
      BY <1>2, <2>1, <3>1
  <2>3. "not-accepted" \in Outcomes /\ "not-accepted" \notin SETTLED_IN
    BY DEF Outcomes, SETTLED_OUT, SETTLED_IN
  <2>4. QED
    BY <1>1, <1>3, <1>4, <1>7, <2>1, <2>2, <2>3, SettledAndEnded DEF Ends
<1>8. Probed(run[m]) \in {"unknown", "send-pending", "accepted", "accepted-superseded", "not-accepted"}
  BY DEF Probed
<1>9. QED
  BY <1>5, <1>6, <1>7, <1>8 DEF Probe

\* Every step keeps the journals and the floors true.
LEMMA JournalledKept ==
    ASSUME Shapes, Promise, Journalled, [Next]_rotationVars
    PROVE  Journalled'
<1>1. ASSUME NEW m \in Machines, Works(m)
      PROVE  Journalled'
  <2>1. CASE Fetch(m) \/ Resync(m) \/ Journal(m) \/ Send(m)
    BY <2>1, FetchHolds, JournalHolds, SendHolds
  <2>2. CASE Confirm(m) \/ HeadConflict(m) \/ ValuesConflict(m) \/ Rejected(m) \/ Probe(m)
    BY <2>2, ConfirmHolds, ConflictHolds, ProbeHolds
  <2>3. CASE \/ ForceResync(m) \/ Abort(m) \/ Notarize(m)
             \/ \E v \in Variables : Push(m, v)
    BY <2>3, QuietHolds
  <2>4. QED
    BY <1>1, <2>1, <2>2, <2>3 DEF Works
<1>2. ASSUME NEW m \in Machines, Sweep(m) \/ ManualRotate(m) \/ TimeOut(m) \/ Crash(m)
      PROVE  Journalled'
  BY <1>2, OpensHolds, TimeOutHolds, QuietHolds
<1>3. CASE Serves
  BY <1>3, ServeHolds, QuietHolds DEF Serves
<1>4. CASE Others \/ UNCHANGED rotationVars
  BY <1>4, QuietHolds
<1>5. QED
  BY <1>1, <1>2, <1>3, <1>4 DEF Next

\* The journals are empty at first, and the floors at the first manifest.
LEMMA JournalledInitially == Init => Journalled
<1>1. SUFFICES ASSUME Init PROVE Journalled
  OBVIOUS
<1>2. /\ requests = {} /\ deks = 0 /\ run = [m \in Machines |-> Idle]
      /\ intents = [m \in Machines |-> {}]
      /\ manifests = <<[declaredHead |-> 0, dek |-> NoDek]>>
      /\ floors = [m \in Machines |-> [version |-> 1, id |-> manifests[1]]]
  BY <1>1 DEF Init
<1>3. KeysMade
  <2> DEFINE a == Entry("create_environment", 1, NoDek)
             b == Entry("remove_member", 0, NoDek)
  <2>1. a.dek = NoDek /\ b.dek = NoDek
    BY DEF Entry
  <2> HIDE DEF a, b
  <2>3. \A i \in 1..Len(chain) : chain[i].dek = NoDek
    <3>1. CASE AlreadyLeft
      <4>1. chain = <<a>> \o <<b>>
        BY <1>1, <3>1 DEF Init, a, b
      <4>2. QED
        BY <2>1, <4>1
    <3>2. CASE ~AlreadyLeft
      <4>1. chain = <<a>> \o <<>>
        BY <1>1, <3>2 DEF Init, a
      <4>2. chain = <<a>>
        BY <4>1
      <4>3. QED
        BY <2>1, <4>2
    <3>3. QED
      BY <3>1, <3>2
  <2>4. QED
    BY <1>2, <2>3 DEF KeysMade
<1>4. Len(manifests) = 1 /\ manifests[1] \in Ids
  BY <1>2 DEF Ids, NoDek, Deks
<1>5. floors \in [Machines -> [version : Nat, id : Ids]]
  BY <1>2, <1>4
<1>6. ASSUME NEW m \in Machines
      PROVE  KeysOwn(m) /\ KeyInUse(m) /\ IntentsHold(m) /\ Accepted(floors[m])
  <2>1. run[m].phase = "idle" /\ intents[m] = {}
    BY <1>2 DEF Idle
  <2>2. floors[m].version = 1 /\ floors[m].id = manifests[1]
    BY <1>2
  <2>3. QED
    BY <1>4, <2>1, <2>2 DEF KeysOwn, KeyInUse, IntentsHold, Accepted, Composing
<1>7. QED
  BY <1>3, <1>5, <1>6 DEF Journalled

\* A data key lives in one run, is asked for at one head at a time, and is on the chain
\* nowhere but after the head its run has signed at; the intents that name it and the
\* floors that follow from it are true.
THEOREM JournalledHolds == Spec => []Journalled
<1>1. Init => Journalled
  BY JournalledInitially
<1>2. Shapes /\ Promise /\ Journalled /\ [Next]_rotationVars => Journalled'
  BY JournalledKept
<1>3. QED
  BY <1>1, <1>2, ShapesHold, PromiseHolds, PTL DEF Spec

\* What the journal says of a composite is so, for good, however late a request that
\* was given up on arrives (probeAmbiguousSend, reconcileCompositeIntents).
THEOREM JournalIsTruthful == Spec => []IntentsTruthful
<1>1. Journalled => IntentsTruthful
  BY Reading DEF Journalled, IntentsHold, IntentHolds, IntentsTruthful, HasLanded, LandedAt
<1>2. QED
  BY <1>1, JournalledHolds, PTL

\* The manifest a floor records is the one the server accepted under that version: a
\* manifest signed for a refused attempt never gets in (settleManifestIntent).
THEOREM FloorIsTrue == Spec => []FloorTrue
<1>1. Shapes /\ Journalled => FloorTrue
  <2>1. manifests \in Seq(Ids) => DOMAIN manifests = 1..Len(manifests)
    OBVIOUS
  <2>2. QED
    BY <2>1 DEF Shapes, Typed, Journalled, Accepted, FloorTrue
<1>2. QED
  BY <1>1, ShapesHold, JournalledHolds, PTL

=============================================================================
