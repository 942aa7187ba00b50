----------------------------- MODULE MandateProofs -----------------------------
(***************************************************************************)
(* Theorems about RotationMandates: what a client reads off the chain about *)
(* applied operations and owed rotations is what really happened, on every  *)
(* chain, and no departure escapes it.                                      *)
(***************************************************************************)
EXTENDS RotationMandates, ChainProofs

(***************************************************************************)
(* The entries and the proposals still pending.                            *)
(***************************************************************************)

Kinds == {"direct", "propose", "approve", "withdraw"}

EntryRecords == [kind : Kinds, op : WellFormedOperations \cup {Nothing, Genesis},
                 proposal : Nat, effect : WellFormedOperations \cup {Nothing, Genesis}]

\* Nothing that names the proposal has completed or withdrawn it.
StillOpen(id) ==
    /\ SeqsNaming(id, "withdraw") = {}
    /\ \A s \in SeqsNaming(id, "approve") : entries[s].effect = Nothing

\* It was withdrawn before it was completed.
Withdrawn(id) ==
    /\ SeqsNaming(id, "withdraw") # {}
    /\ \A s \in SeqsNaming(id, "approve") : entries[s].effect = Nothing

\* Its last approve completed it.
Completed(id) ==
    /\ SeqsNaming(id, "withdraw") = {}
    /\ \E s \in SeqsNaming(id, "approve") :
          /\ entries[s].effect = entries[id].op
          /\ \A t \in SeqsNaming(id, "approve") : t <= s
          /\ \A t \in SeqsNaming(id, "approve") : t # s => entries[t].effect = Nothing

\* What an entry has applied, by its kind.
EffectFits(s) ==
    /\ entries[s].kind = "direct" => entries[s].effect = entries[s].op
    /\ entries[s].kind \in {"propose", "withdraw"} => entries[s].effect = Nothing
    /\ entries[s].kind \in {"direct", "propose"} => entries[s].op # Nothing
    /\ entries[s].kind \in {"approve", "withdraw"} => entries[s].proposal \in Proposed

\* A proposal is pending, withdrawn or completed, and the entries that name it say which.
EntryInvariant ==
    /\ entries \in Seq(EntryRecords)
    /\ Len(entries) = headSeq
    /\ \A s \in 1..headSeq : EffectFits(s)
    /\ \A id \in DOMAIN pendingProposals :
          /\ id \in Proposed
          /\ StillOpen(id)
          /\ entries[id].op = pendingProposals[id].inner
    /\ \A id \in Proposed \ DOMAIN pendingProposals : Withdrawn(id) \/ Completed(id)

\* No operation of an entry is nothing at all.
LEMMA OperationsAreSomething ==
    ASSUME NEW op \in Operations
    PROVE  op \in WellFormedOperations /\ op # Nothing
<1>1. op \in WellFormedOperations
  BY OperationsAssumption
<1>2. op.op # "none"
  BY <1>1 DEF WellFormedOperations, AddMemberOps, ChangeRoleOps, RemoveMemberOps, AddDeviceOps,
     RevokeDeviceOps, GrantServerOps, RevokeServerOps, EnvironmentOps, RotateEpochOps,
     CheckpointOps, PolicyOps
<1>3. QED
  BY <1>1, <1>2 DEF Nothing

\* An entry that names a proposal does so in the ledger of the proposal only.
LEMMA EntryAppended ==
    ASSUME entries \in Seq(EntryRecords), Len(entries) = headSeq, headSeq \in Nat,
           NEW x \in EntryRecords, entries' = Append(entries, x), headSeq' = headSeq + 1
    PROVE  /\ entries' \in Seq(EntryRecords) /\ Len(entries') = headSeq'
           /\ \A s \in 1..headSeq : s \in 1..headSeq' /\ entries'[s] = entries[s]
           /\ entries'[headSeq + 1] = x
           /\ DOMAIN entries = 1..headSeq /\ DOMAIN entries' = 1..headSeq + 1
           /\ Proposed' = Proposed \cup {s \in {headSeq + 1} : x.kind = "propose"}
           /\ \A id, kind : SeqsNaming(id, kind)' =
                 SeqsNaming(id, kind) \cup
                     {s \in {headSeq + 1} : x.kind = kind /\ x.proposal = id}
<1>1. /\ entries' \in Seq(EntryRecords) /\ Len(entries') = headSeq'
      /\ \A s \in 1..headSeq : s \in 1..headSeq' /\ entries'[s] = entries[s]
      /\ entries'[headSeq + 1] = x
      /\ DOMAIN entries = 1..headSeq /\ DOMAIN entries' = 1..headSeq + 1
  OBVIOUS
<1>2. 1..headSeq + 1 = 1..headSeq \cup {headSeq + 1}
  OBVIOUS
<1>3. Proposed' = Proposed \cup {s \in {headSeq + 1} : x.kind = "propose"}
  BY <1>1, <1>2 DEF Proposed
<1>4. \A id, kind : SeqsNaming(id, kind)' =
          SeqsNaming(id, kind) \cup {s \in {headSeq + 1} : x.kind = kind /\ x.proposal = id}
  BY <1>1, <1>2 DEF SeqsNaming
<1>5. QED
  BY <1>1, <1>3, <1>4

\* An entry that does not name a proposal decides nothing about it.
LEMMA FateKept ==
    ASSUME EntryInvariant, headSeq \in Nat, NEW x \in EntryRecords,
           entries' = Append(entries, x), headSeq' = headSeq + 1, NEW id \in Proposed,
           x.kind \in {"approve", "withdraw"} => x.proposal # id
    PROVE  /\ StillOpen(id) => StillOpen(id)'
           /\ Withdrawn(id) => Withdrawn(id)'
           /\ Completed(id) => Completed(id)'
           /\ entries'[id] = entries[id]
<1>1. /\ DOMAIN entries = 1..headSeq
      /\ \A s \in 1..headSeq : s \in 1..headSeq' /\ entries'[s] = entries[s]
      /\ \A i, kind : SeqsNaming(i, kind)' =
            SeqsNaming(i, kind) \cup {s \in {headSeq + 1} : x.kind = kind /\ x.proposal = i}
  BY EntryAppended DEF EntryInvariant
<1>2. /\ SeqsNaming(id, "withdraw")' = SeqsNaming(id, "withdraw")
      /\ SeqsNaming(id, "approve")' = SeqsNaming(id, "approve")
  BY <1>1
<1>3. \A s \in SeqsNaming(id, "approve") : entries'[s] = entries[s]
  BY <1>1 DEF SeqsNaming
<1>4. entries'[id] = entries[id]
  BY <1>1 DEF Proposed
<1>5. StillOpen(id) => StillOpen(id)'
  BY <1>2, <1>3 DEF StillOpen
<1>6. Withdrawn(id) => Withdrawn(id)'
  BY <1>2, <1>3 DEF Withdrawn
<1>7. ASSUME Completed(id) PROVE Completed(id)'
  <2>1. PICK s \in SeqsNaming(id, "approve") :
          /\ entries[s].effect = entries[id].op
          /\ \A t \in SeqsNaming(id, "approve") : t <= s
          /\ \A t \in SeqsNaming(id, "approve") : t # s => entries[t].effect = Nothing
    BY <1>7 DEF Completed
  <2>2. s \in SeqsNaming(id, "approve")' /\ entries'[s].effect = entries'[id].op
    BY <1>2, <1>3, <1>4, <2>1
  <2>3. \A t \in SeqsNaming(id, "approve")' :
           t <= s /\ (t # s => entries'[t].effect = Nothing)
    BY <1>2, <1>3, <2>1
  <2>4. SeqsNaming(id, "withdraw")' = {}
    BY <1>2, <1>7 DEF Completed
  <2>5. QED
    BY <2>2, <2>3, <2>4 DEF Completed
<1>8. QED
  BY <1>4, <1>5, <1>6, <1>7

\* What the entries say of a proposal that no entry names yet.
LEMMA NobodyNames ==
    ASSUME EntryInvariant, NEW id, id \notin Proposed
    PROVE  SeqsNaming(id, "approve") = {} /\ SeqsNaming(id, "withdraw") = {}
BY DEF EntryInvariant, EffectFits, SeqsNaming

\* A new entry leaves the fate of the proposals it does not name, and fits itself.
LEMMA EntryAdded ==
    ASSUME EntryInvariant, headSeq \in Nat, NEW x \in EntryRecords,
           entries' = Append(entries, x), headSeq' = headSeq + 1, EffectFits(headSeq)',
           \A id \in DOMAIN pendingProposals' :
              \/ /\ id \in DOMAIN pendingProposals
                 /\ pendingProposals'[id].inner = pendingProposals[id].inner
                 /\ StillOpen(id)'
              \/ /\ id = headSeq + 1 /\ x.kind = "propose"
                 /\ pendingProposals'[id].inner = x.op,
           x.kind = "propose" => headSeq + 1 \in DOMAIN pendingProposals',
           \A id \in DOMAIN pendingProposals \ DOMAIN pendingProposals' :
              Withdrawn(id)' \/ Completed(id)',
           \A id \in Proposed \ DOMAIN pendingProposals :
              x.kind \in {"approve", "withdraw"} => x.proposal # id
    PROVE  EntryInvariant'
<1>1. /\ entries' \in Seq(EntryRecords) /\ Len(entries') = headSeq'
      /\ \A s \in 1..headSeq : s \in 1..headSeq' /\ entries'[s] = entries[s]
      /\ entries'[headSeq + 1] = x
      /\ DOMAIN entries = 1..headSeq /\ DOMAIN entries' = 1..headSeq + 1
      /\ Proposed' = Proposed \cup {s \in {headSeq + 1} : x.kind = "propose"}
      /\ \A i, kind : SeqsNaming(i, kind)' =
            SeqsNaming(i, kind) \cup {s \in {headSeq + 1} : x.kind = kind /\ x.proposal = i}
  BY EntryAppended DEF EntryInvariant
<1>2. ASSUME NEW s \in 1..headSeq' PROVE EffectFits(s)'
  <2>1. s \in 1..headSeq \/ s = headSeq + 1
    OBVIOUS
  <2>2. CASE s \in 1..headSeq
    BY <1>1, <2>2 DEF EntryInvariant, EffectFits
  <2>3. CASE s = headSeq + 1
    BY <2>3 DEF EffectFits
  <2>4. QED
    BY <2>1, <2>2, <2>3
<1>3. ASSUME NEW id \in DOMAIN pendingProposals'
      PROVE  id \in Proposed' /\ StillOpen(id)' /\ entries'[id].op = pendingProposals'[id].inner
  <2>1. CASE /\ id \in DOMAIN pendingProposals
             /\ pendingProposals'[id].inner = pendingProposals[id].inner
             /\ StillOpen(id)'
    <3>1. id \in Proposed /\ entries[id].op = pendingProposals[id].inner
      BY <2>1 DEF EntryInvariant
    <3>2. id \in 1..headSeq
      BY <1>1, <3>1 DEF Proposed
    <3>3. QED
      BY <1>1, <2>1, <3>1, <3>2
  <2>2. CASE id = headSeq + 1 /\ x.kind = "propose" /\ pendingProposals'[id].inner = x.op
    <3>1. id \notin Proposed
      BY <1>1, <2>2 DEF Proposed
    <3>2. SeqsNaming(id, "approve")' = {} /\ SeqsNaming(id, "withdraw")' = {}
      BY <1>1, <2>2, <3>1, NobodyNames
    <3>3. QED
      BY <1>1, <2>2, <3>2 DEF StillOpen
  <2>3. QED
    BY <2>1, <2>2
<1>4. ASSUME NEW id \in Proposed', id \notin DOMAIN pendingProposals'
      PROVE  Withdrawn(id)' \/ Completed(id)'
  <2>1. id \in Proposed
    BY <1>1, <1>4
  <2>2. CASE id \in DOMAIN pendingProposals
    BY <1>4, <2>2
  <2>3. CASE id \notin DOMAIN pendingProposals
    <3>1. Withdrawn(id) \/ Completed(id)
      BY <2>1, <2>3 DEF EntryInvariant
    <3>2. QED
      BY <2>1, <2>3, <3>1, FateKept
  <2>4. QED
    BY <2>2, <2>3
<1>5. QED
  BY <1>1, <1>2, <1>3, <1>4 DEF EntryInvariant

\* The record of a new entry.
LEMMA EntryType ==
    ASSUME TypeOK', NEW kind \in Kinds, NEW op \in Operations \cup {Nothing}, NEW id \in Nat
    PROVE  LET x == Entry(kind, op, id, applied'.operation)
           IN  /\ x \in EntryRecords
               /\ x.kind = kind /\ x.op = op /\ x.proposal = id
               /\ x.effect = applied'.operation
BY OperationsAreSomething DEF TypeOK, Entry, EntryRecords

\* Every entry keeps what the entries say of the proposals.
LEMMA EntryStep ==
    ASSUME TypeOK, TypeOK', EntryInvariant, [MandatesNext]_mandateVars
    PROVE  EntryInvariant'
<1>1. headSeq \in Nat /\ headSeq + 1 \in Nat
  BY DEF TypeOK
<1>2. /\ DOMAIN entries = 1..headSeq /\ Proposed \subseteq 1..headSeq
      /\ DOMAIN pendingProposals \subseteq Proposed /\ DOMAIN pendingProposals \subseteq Nat
  BY <1>1 DEF EntryInvariant, Proposed, TypeOK, IsMap
<1>3. \A id \in DOMAIN pendingProposals :
        /\ StillOpen(id) /\ entries[id].op = pendingProposals[id].inner
        /\ pendingProposals[id].inner \in Operations
  BY DEF EntryInvariant, TypeOK, IsMap, Proposals
<1>4. ASSUME NEW d, NEW op \in Operations, Direct(d, op), RecordEntry("direct", op, 0)
      PROVE  EntryInvariant'
  <2>1. PICK x \in EntryRecords :
          /\ entries' = Append(entries, x)
          /\ x.kind = "direct" /\ x.op = op /\ x.proposal = 0 /\ x.effect = applied'.operation
    BY <1>4, EntryType, "direct" \in Kinds DEF RecordEntry, Kinds
  <2>2. headSeq' = headSeq + 1 /\ applied'.operation = op /\ pendingProposals' = pendingProposals
    BY <1>4, ApplyLeavesOperation DEF Direct, Signs
  <2>3. entries'[headSeq + 1] = x
    BY <1>1, <2>1, <2>2, EntryAppended DEF EntryInvariant
  <2>4. EffectFits(headSeq)'
    BY <2>1, <2>2, <2>3, OperationsAreSomething DEF EffectFits
  <2>5. \A id \in DOMAIN pendingProposals : StillOpen(id)'
    BY <1>1, <1>2, <1>3, <2>1, <2>2, FateKept
  <2>6. QED
    BY <1>1, <2>1, <2>2, <2>4, <2>5, EntryAdded
<1>5. ASSUME NEW d, NEW op \in Operations, NEW expires, Propose(d, op, expires),
             RecordEntry("propose", op, 0)
      PROVE  EntryInvariant'
  <2>1. PICK x \in EntryRecords :
          /\ entries' = Append(entries, x)
          /\ x.kind = "propose" /\ x.op = op /\ x.proposal = 0 /\ x.effect = applied'.operation
    BY <1>5, EntryType, "propose" \in Kinds DEF RecordEntry, Kinds
  <2>2. /\ headSeq' = headSeq + 1 /\ applied'.operation = Nothing
        /\ DOMAIN pendingProposals' = DOMAIN pendingProposals \cup {headSeq + 1}
        /\ pendingProposals'[headSeq + 1].inner = op
        /\ \A id \in DOMAIN pendingProposals :
              id # headSeq + 1 => pendingProposals'[id] = pendingProposals[id]
    BY <1>5 DEF Propose, Signs, ApplyNothing, WithKey
  <2>3. entries'[headSeq + 1] = x
    BY <1>1, <2>1, <2>2, EntryAppended DEF EntryInvariant
  <2>4. EffectFits(headSeq)'
    BY <2>1, <2>2, <2>3, OperationsAreSomething DEF EffectFits
  <2>5. \A id \in DOMAIN pendingProposals : StillOpen(id)' /\ id # headSeq + 1
    BY <1>1, <1>2, <1>3, <2>1, <2>2, FateKept
  <2>6. QED
    BY <1>1, <2>1, <2>2, <2>4, <2>5, EntryAdded
<1>6. ASSUME NEW d, NEW id \in DOMAIN pendingProposals, NEW now, ApproveVote(d, id, now),
             RecordEntry("approve", Nothing, id)
      PROVE  EntryInvariant'
  <2>1. PICK x \in EntryRecords :
          /\ entries' = Append(entries, x)
          /\ x.kind = "approve" /\ x.proposal = id /\ x.effect = applied'.operation
    BY <1>2, <1>6, EntryType, "approve" \in Kinds DEF RecordEntry, Kinds
  <2>2. /\ headSeq' = headSeq + 1 /\ applied'.operation = Nothing
        /\ DOMAIN pendingProposals' = DOMAIN pendingProposals
        /\ \A i \in DOMAIN pendingProposals :
              pendingProposals'[i].inner = pendingProposals[i].inner
    BY <1>6 DEF ApproveVote, Signs, ApplyNothing
  <2>3. /\ entries'[headSeq + 1] = x /\ id \in Proposed'
        /\ \A s \in 1..headSeq : entries'[s] = entries[s]
        /\ \A i, kind : SeqsNaming(i, kind)' =
              SeqsNaming(i, kind) \cup {s \in {headSeq + 1} : x.kind = kind /\ x.proposal = i}
    BY <1>1, <1>2, <2>1, <2>2, EntryAppended DEF EntryInvariant
  <2>4. EffectFits(headSeq)'
    BY <2>1, <2>2, <2>3 DEF EffectFits
  <2>5. ASSUME NEW i \in DOMAIN pendingProposals PROVE StillOpen(i)'
    <3>1. CASE i = id
      <4>1. /\ SeqsNaming(i, "withdraw")' = SeqsNaming(i, "withdraw")
            /\ SeqsNaming(i, "approve")' = SeqsNaming(i, "approve") \cup {headSeq + 1}
        BY <2>1, <2>3, <3>1
      <4>2. SeqsNaming(i, "approve") \subseteq 1..headSeq
        BY <1>2 DEF SeqsNaming
      <4>3. StillOpen(i)
        BY <1>3
      <4>4. QED
        BY <2>1, <2>2, <2>3, <4>1, <4>2, <4>3 DEF StillOpen
    <3>2. CASE i # id
      BY <1>1, <1>2, <1>3, <2>1, <2>2, <3>2, FateKept
    <3>3. QED
      BY <3>1, <3>2
  <2>6. \A i \in Proposed \ DOMAIN pendingProposals : x.proposal # i
    BY <2>1
  <2>7. QED
    BY <1>1, <2>1, <2>2, <2>4, <2>5, <2>6, EntryAdded
<1>7. ASSUME NEW d, NEW id \in DOMAIN pendingProposals, NEW now, ApproveComplete(d, id, now),
             RecordEntry("approve", Nothing, id)
      PROVE  EntryInvariant'
  <2>1. PICK x \in EntryRecords :
          /\ entries' = Append(entries, x)
          /\ x.kind = "approve" /\ x.proposal = id /\ x.effect = applied'.operation
    BY <1>2, <1>7, EntryType, "approve" \in Kinds DEF RecordEntry, Kinds
  <2>2. /\ headSeq' = headSeq + 1 /\ applied'.operation = pendingProposals[id].inner
        /\ DOMAIN pendingProposals' = DOMAIN pendingProposals \ {id}
        /\ \A i \in DOMAIN pendingProposals \ {id} : pendingProposals'[i] = pendingProposals[i]
    BY <1>7, ApplyLeavesOperation DEF ApproveComplete, Signs, WithoutKey
  <2>3. /\ entries'[headSeq + 1] = x /\ id \in Proposed'
        /\ \A s \in 1..headSeq : entries'[s] = entries[s]
        /\ \A i, kind : SeqsNaming(i, kind)' =
              SeqsNaming(i, kind) \cup {s \in {headSeq + 1} : x.kind = kind /\ x.proposal = i}
    BY <1>1, <1>2, <2>1, <2>2, EntryAppended DEF EntryInvariant
  <2>4. EffectFits(headSeq)'
    BY <2>1, <2>2, <2>3 DEF EffectFits
  <2>5. Completed(id)'
    <3>1. /\ SeqsNaming(id, "withdraw")' = SeqsNaming(id, "withdraw")
          /\ SeqsNaming(id, "approve")' = SeqsNaming(id, "approve") \cup {headSeq + 1}
      BY <2>1, <2>3
    <3>2. SeqsNaming(id, "approve") \subseteq 1..headSeq
      BY <1>2 DEF SeqsNaming
    <3>3. entries'[headSeq + 1].effect = entries'[id].op
      BY <1>2, <1>3, <2>1, <2>2, <2>3
    <3>4. \A t \in SeqsNaming(id, "approve")' : t <= headSeq + 1
      BY <1>1, <3>1, <3>2
    <3>5. \A t \in SeqsNaming(id, "approve")' : t # headSeq + 1 => entries'[t].effect = Nothing
      BY <1>3, <2>3, <3>1, <3>2 DEF StillOpen
    <3>6. QED
      BY <1>3, <3>1, <3>3, <3>4, <3>5 DEF StillOpen, Completed
  <2>6. \A i \in DOMAIN pendingProposals' : StillOpen(i)'
    BY <1>1, <1>2, <1>3, <2>1, <2>2, FateKept
  <2>7. \A i \in Proposed \ DOMAIN pendingProposals : x.proposal # i
    BY <2>1
  <2>8. QED
    BY <1>1, <2>1, <2>2, <2>4, <2>5, <2>6, <2>7, EntryAdded
<1>8. ASSUME NEW d, NEW id \in DOMAIN pendingProposals, Withdraw(d, id),
             RecordEntry("withdraw", Nothing, id)
      PROVE  EntryInvariant'
  <2>1. PICK x \in EntryRecords :
          /\ entries' = Append(entries, x)
          /\ x.kind = "withdraw" /\ x.proposal = id /\ x.effect = applied'.operation
    BY <1>2, <1>8, EntryType, "withdraw" \in Kinds DEF RecordEntry, Kinds
  <2>2. /\ headSeq' = headSeq + 1 /\ applied'.operation = Nothing
        /\ DOMAIN pendingProposals' = DOMAIN pendingProposals \ {id}
        /\ \A i \in DOMAIN pendingProposals \ {id} : pendingProposals'[i] = pendingProposals[i]
    BY <1>8 DEF Withdraw, Signs, WithoutKey, ApplyNothing
  <2>3. /\ entries'[headSeq + 1] = x /\ id \in Proposed'
        /\ \A s \in 1..headSeq : entries'[s] = entries[s]
        /\ \A i, kind : SeqsNaming(i, kind)' =
              SeqsNaming(i, kind) \cup {s \in {headSeq + 1} : x.kind = kind /\ x.proposal = i}
    BY <1>1, <1>2, <2>1, <2>2, EntryAppended DEF EntryInvariant
  <2>4. EffectFits(headSeq)'
    BY <2>1, <2>2, <2>3 DEF EffectFits
  <2>5. Withdrawn(id)'
    <3>1. /\ SeqsNaming(id, "withdraw")' = SeqsNaming(id, "withdraw") \cup {headSeq + 1}
          /\ SeqsNaming(id, "approve")' = SeqsNaming(id, "approve")
      BY <2>1, <2>3
    <3>2. SeqsNaming(id, "approve") \subseteq 1..headSeq
      BY <1>2 DEF SeqsNaming
    <3>3. StillOpen(id)
      BY <1>3
    <3>4. QED
      BY <2>3, <3>1, <3>2, <3>3 DEF StillOpen, Withdrawn
  <2>6. \A i \in DOMAIN pendingProposals' : StillOpen(i)'
    BY <1>1, <1>2, <1>3, <2>1, <2>2, FateKept
  <2>7. \A i \in Proposed \ DOMAIN pendingProposals : x.proposal # i
    BY <2>1
  <2>8. QED
    BY <1>1, <2>1, <2>2, <2>4, <2>5, <2>6, <2>7, EntryAdded
<1>9. CASE UNCHANGED mandateVars
  <2>1. UNCHANGED <<entries, headSeq, pendingProposals>>
    BY <1>9 DEF mandateVars, historyVars, vars
  <2>2. QED
    BY <2>1 DEF EntryInvariant, EffectFits, Proposed, SeqsNaming, StillOpen, Withdrawn, Completed
<1>10. QED
  BY <1>4, <1>5, <1>6, <1>7, <1>8, <1>9 DEF MandatesNext

\* The genesis entry names no proposal.
LEMMA EntryInit == MandatesInit => EntryInvariant
<1> SUFFICES ASSUME MandatesInit PROVE EntryInvariant
  OBVIOUS
<1>1. headSeq = 1 /\ pendingProposals = [i \in {} |-> Nothing]
  BY DEF MandatesInit, HistoryInit, Init
<1>2. PICK x : x = Entry("direct", Genesis, 0, Genesis)
  OBVIOUS
<1>3. /\ entries = <<x>> /\ x \in EntryRecords
      /\ x.kind = "direct" /\ x.op = Genesis /\ x.effect = Genesis
  BY <1>2 DEF MandatesInit, Entry, EntryRecords, Kinds
<1>4. Genesis # Nothing
  BY DEF Genesis, Nothing
<1>5. /\ entries \in Seq(EntryRecords) /\ Len(entries) = 1 /\ entries[1] = x
      /\ DOMAIN entries = 1..1 /\ \A s \in 1..1 : s = 1
  BY <1>3
<1>6. EffectFits(1) /\ Proposed = {}
  BY <1>3, <1>4, <1>5 DEF EffectFits, Proposed
<1>7. QED
  BY <1>1, <1>5, <1>6 DEF EntryInvariant

\* The seqs of applied operations are the entries with an effect.
LEMMA AppliedFromEntries ==
    ASSUME EntryInvariant, headSeq \in Nat
    PROVE  AppliedDerivable
<1> DEFINE Effects == {[seq |-> s, operation |-> entries[s].effect] :
                          s \in {x \in DOMAIN entries : entries[x].effect # Nothing}}
<1>1. DOMAIN entries = 1..headSeq /\ \A s \in DOMAIN entries : entries[s] \in EntryRecords
  BY DEF EntryInvariant
<1>2. \A s \in DOMAIN entries : EffectFits(s) /\ entries[s].kind \in Kinds
  BY <1>1 DEF EntryInvariant, EntryRecords
<1>3. ASSUME NEW s \in DOMAIN entries, entries[s].kind = "direct"
      PROVE  [seq |-> s, operation |-> entries[s].op] \in Effects
  BY <1>2, <1>3 DEF EffectFits
<1>4. ASSUME NEW id \in Proposed, NEW s \in CompletedAt(id)
      PROVE  [seq |-> s, operation |-> entries[id].op] \in Effects
  <2>1. id \notin DOMAIN pendingProposals /\ SeqsNaming(id, "withdraw") = {}
    BY <1>4 DEF CompletedAt
  <2>2. s \in SeqsNaming(id, "approve") /\ \A t \in SeqsNaming(id, "approve") : t <= s
    BY <1>4, <2>1 DEF CompletedAt
  <2>3. Completed(id)
    BY <2>1 DEF EntryInvariant, Withdrawn
  <2>4. PICK c \in SeqsNaming(id, "approve") :
          entries[c].effect = entries[id].op /\ \A t \in SeqsNaming(id, "approve") : t <= c
    BY <2>3 DEF Completed
  <2>5. c = s
    BY <1>1, <2>2, <2>4 DEF SeqsNaming
  <2>6. s \in DOMAIN entries /\ entries[id].op # Nothing
    BY <1>2, <2>2 DEF EffectFits, Proposed, SeqsNaming
  <2>7. QED
    BY <2>4, <2>5, <2>6
<1>5. ASSUME NEW s \in DOMAIN entries, entries[s].effect # Nothing
      PROVE  [seq |-> s, operation |-> entries[s].effect] \in AppliedOperations
  <2>1. CASE entries[s].kind = "direct"
    BY <1>2, <2>1 DEF EffectFits, AppliedOperations
  <2>2. CASE entries[s].kind = "approve"
    <3>1. PICK id \in Proposed : entries[s].proposal = id
      BY <1>2, <2>2 DEF EffectFits
    <3>2. s \in SeqsNaming(id, "approve")
      BY <2>2, <3>1 DEF SeqsNaming
    <3>3. id \notin DOMAIN pendingProposals /\ Completed(id)
      BY <1>5, <3>2 DEF EntryInvariant, StillOpen, Withdrawn
    <3>4. /\ \A t \in SeqsNaming(id, "approve") : t <= s
          /\ entries[s].effect = entries[id].op /\ SeqsNaming(id, "withdraw") = {}
      BY <1>5, <3>2, <3>3 DEF Completed
    <3>5. s \in CompletedAt(id)
      BY <3>2, <3>3, <3>4 DEF CompletedAt
    <3>6. QED
      BY <3>4, <3>5 DEF AppliedOperations
  <2>3. QED
    BY <1>2, <1>5, <2>1, <2>2 DEF EffectFits, Kinds
<1>6. AppliedOperations \subseteq Effects
  <2>1. ASSUME NEW a \in AppliedOperations PROVE a \in Effects
    <3>1. \/ \E s \in DOMAIN entries :
                 entries[s].kind = "direct" /\ a = [seq |-> s, operation |-> entries[s].op]
          \/ \E id \in Proposed : \E s \in CompletedAt(id) :
                 a = [seq |-> s, operation |-> entries[id].op]
      BY DEF AppliedOperations
    <3>2. QED
      BY <1>3, <1>4, <3>1
  <2>2. QED
    BY <2>1
<1>7. Effects \subseteq AppliedOperations
  BY <1>5
<1>8. QED
  BY <1>6, <1>7 DEF AppliedDerivable

\* A chain with its entries kept is a chain with its history.
LEMMA MandatesAreHistory == MandatesSpec => HistorySpec
<1>1. MandatesInit => HistoryInit
  BY DEF MandatesInit
<1>2. [MandatesNext]_mandateVars => [HistoryNext]_historyVars
  <2>1. MandatesNext => HistoryNext
    BY DEF MandatesNext, HistoryNext, Next
  <2>2. UNCHANGED mandateVars => UNCHANGED historyVars
    BY DEF mandateVars
  <2>3. QED
    BY <2>1, <2>2
<1>3. QED
  BY <1>1, <1>2, PTL DEF MandatesSpec, HistorySpec

\* On every chain, which operations have been applied, and when, can be read off the
\* entries and the proposals still pending (indexProposals, appliedOperations).
THEOREM AppliedIsDerivable == MandatesSpec => []AppliedDerivable
<1> DEFINE Inv == TypeOK /\ KeyInvariant /\ EntryInvariant
<1>1. MandatesInit => Inv
  BY InitTypeAndKeys, EntryInit DEF MandatesInit, HistoryInit
<1>2. Inv /\ [MandatesNext]_mandateVars => Inv'
  <2> SUFFICES ASSUME Inv, [MandatesNext]_mandateVars PROVE Inv'
    OBVIOUS
  <2>1. [Next]_vars
    BY DEF MandatesNext, mandateVars, historyVars, Next
  <2>2. QED
    BY <2>1, TypeAndKeysStep, EntryStep
<1>3. Inv => AppliedDerivable
  BY AppliedFromEntries DEF TypeOK
<1>4. QED
  BY <1>1, <1>2, <1>3, PTL DEF MandatesSpec

(***************************************************************************)
(* Mandates.                                                               *)
(***************************************************************************)

\* The operation op was applicable to the chain state before it.
AppliesTo(op, before) ==
    /\ op \in WellFormedOperations \cup {Nothing}
    /\ op.op \in {"remove_member", "change_role", "revoke_device"} =>
          op.target \in DOMAIN before.members
    /\ op.op = "revoke_device" =>
          \A fp \in op.fps : \E d \in before.devices : d.user = op.target /\ FingerprintOf(d) = fp

\* What every entry applied, it applied to the state of the seq before it.
EffectInvariant ==
    /\ entries[1].effect = Genesis
    /\ \A s \in 2..headSeq : AppliesTo(entries[s].effect, snapshots[s - 1])

\* An operation that the consensus rules pass is applicable.
LEMMA ConsensusApplies ==
    ASSUME NEW op \in Operations, NEW d, ConsensusRule(op, d)
    PROVE  AppliesTo(op, Snapshot)
<1>1. op \in WellFormedOperations
  BY OperationsAreSomething
<1>2. CASE op.op = "remove_member"
  BY <1>1, <1>2 DEF ConsensusRule, RemoveMemberRule, TargetedRule, AppliesTo, Snapshot
<1>3. CASE op.op = "change_role"
  BY <1>1, <1>3 DEF ConsensusRule, ChangeRoleRule, TargetedRule, AppliesTo, Snapshot
<1>4. CASE op.op = "revoke_device"
  <2>1. RevokeDeviceRule(op, d)
    BY <1>4 DEF ConsensusRule
  <2>2. \A fp \in op.fps : \E x \in devices : x.user = op.target /\ FingerprintOf(x) = fp
    BY <2>1 DEF RevokeDeviceRule, DevicesOf, FingerprintOf
  <2>3. QED
    BY <1>1, <1>4, <2>1, <2>2 DEF RevokeDeviceRule, AppliesTo, Snapshot
<1>5. QED
  BY <1>1, <1>2, <1>3, <1>4 DEF AppliesTo

\* A new entry keeps the operation it applies, or applies none and changes nothing.
EntryOf(x) ==
    /\ entries' = Append(entries, x)
    /\ x.effect = applied'.operation
    /\ headSeq' = headSeq + 1
    /\ snapshots' = Append(snapshots, Snapshot')
    /\ \/ \E d \in devices, op \in Operations :
             x.effect = op /\ ConsensusRule(op, d) /\ Apply(op, d, headSeq + 1)
       \/ x.effect = Nothing /\ StateUnchanged

\* Every step of the specification is such an entry.
LEMMA MandateCases ==
    ASSUME TypeOK, TypeOK', MandatesNext
    PROVE  \E x \in EntryRecords : EntryOf(x)
<1>1. \A id \in DOMAIN pendingProposals : id \in Nat /\ pendingProposals[id].inner \in Operations
  BY DEF TypeOK, IsMap, Proposals
<1>2. snapshots' = Append(snapshots, Snapshot')
  BY DEF MandatesNext, Record
<1>3. ASSUME NEW d \in devices, NEW op \in Operations, Direct(d, op), RecordEntry("direct", op, 0)
      PROVE  \E x \in EntryRecords : EntryOf(x)
  <2>1. PICK x \in EntryRecords : entries' = Append(entries, x) /\ x.effect = applied'.operation
    BY <1>3, EntryType, "direct" \in Kinds DEF RecordEntry, Kinds
  <2>2. /\ headSeq' = headSeq + 1 /\ applied'.operation = op
        /\ ConsensusRule(op, d) /\ Apply(op, d, headSeq + 1)
    BY <1>3, ApplyLeavesOperation DEF Direct, Signs
  <2>3. QED
    BY <1>2, <2>1, <2>2 DEF EntryOf
<1>4. ASSUME NEW d \in devices, NEW op \in Operations, NEW expires, Propose(d, op, expires),
             RecordEntry("propose", op, 0)
      PROVE  \E x \in EntryRecords : EntryOf(x)
  <2>1. PICK x \in EntryRecords : entries' = Append(entries, x) /\ x.effect = applied'.operation
    BY <1>4, EntryType, "propose" \in Kinds DEF RecordEntry, Kinds
  <2>2. headSeq' = headSeq + 1 /\ applied'.operation = Nothing /\ StateUnchanged
    BY <1>4 DEF Propose, Signs, ApplyNothing, StateUnchanged
  <2>3. QED
    BY <1>2, <2>1, <2>2 DEF EntryOf
<1>5. ASSUME NEW d \in devices, NEW id \in DOMAIN pendingProposals, NEW now,
             ApproveVote(d, id, now) \/ ApproveComplete(d, id, now),
             RecordEntry("approve", Nothing, id)
      PROVE  \E x \in EntryRecords : EntryOf(x)
  <2>1. PICK x \in EntryRecords : entries' = Append(entries, x) /\ x.effect = applied'.operation
    <3>1. id \in Nat /\ "approve" \in Kinds /\ Nothing \in Operations \cup {Nothing}
      BY <1>1 DEF Kinds
    <3>2. PICK x : x = Entry("approve", Nothing, id, applied'.operation)
      OBVIOUS
    <3>3. entries' = Append(entries, x)
      BY <1>5, <3>2 DEF RecordEntry
    <3>4. x \in EntryRecords /\ x.effect = applied'.operation
      BY <3>1, <3>2, EntryType
    <3>5. QED
      BY <3>3, <3>4
  <2>2. CASE ApproveVote(d, id, now)
    <3>1. headSeq' = headSeq + 1 /\ applied'.operation = Nothing /\ StateUnchanged
      BY <2>2 DEF ApproveVote, Signs, ApplyNothing, StateUnchanged
    <3>2. QED
      BY <1>2, <2>1, <3>1 DEF EntryOf
  <2>3. CASE ApproveComplete(d, id, now)
    <3>1. PICK p \in devices, op \in Operations :
            /\ op = pendingProposals[id].inner
            /\ ConsensusRule(op, p) /\ Apply(op, p, headSeq + 1)
      BY <1>1, <2>3 DEF ApproveComplete
    <3>2. headSeq' = headSeq + 1 /\ applied'.operation = op
      BY <2>3, <3>1, ApplyLeavesOperation DEF ApproveComplete, Signs
    <3>3. QED
      BY <1>2, <2>1, <3>1, <3>2 DEF EntryOf
  <2>4. QED
    BY <1>5, <2>2, <2>3
<1>6. ASSUME NEW d \in devices, NEW id \in DOMAIN pendingProposals, Withdraw(d, id),
             RecordEntry("withdraw", Nothing, id)
      PROVE  \E x \in EntryRecords : EntryOf(x)
  <2>1. PICK x \in EntryRecords : entries' = Append(entries, x) /\ x.effect = applied'.operation
    <3>1. id \in Nat /\ "withdraw" \in Kinds /\ Nothing \in Operations \cup {Nothing}
      BY <1>1 DEF Kinds
    <3>2. PICK x : x = Entry("withdraw", Nothing, id, applied'.operation)
      OBVIOUS
    <3>3. entries' = Append(entries, x)
      BY <1>6, <3>2 DEF RecordEntry
    <3>4. x \in EntryRecords /\ x.effect = applied'.operation
      BY <3>1, <3>2, EntryType
    <3>5. QED
      BY <3>3, <3>4
  <2>2. headSeq' = headSeq + 1 /\ applied'.operation = Nothing /\ StateUnchanged
    BY <1>6 DEF Withdraw, Signs, ApplyNothing, StateUnchanged
  <2>3. QED
    BY <1>2, <2>1, <2>2 DEF EntryOf
<1>7. QED
  BY <1>3, <1>4, <1>5, <1>6 DEF MandatesNext

\* Every entry keeps the effects applicable.
LEMMA EffectStep ==
    ASSUME SnapshotInvariant, EntryInvariant, EffectInvariant, NEW x \in EntryRecords, EntryOf(x)
    PROVE  EffectInvariant'
<1>1. headSeq \in Nat \ {0} /\ headSeq' = headSeq + 1 /\ snapshots[headSeq] = Snapshot
  BY DEF SnapshotInvariant, EntryOf
<1>2. \A s \in 1..headSeq : snapshots'[s] = snapshots[s]
  BY SnapshotsGrow DEF EntryOf, Advances
<1>3. (\A s \in 1..headSeq : entries'[s] = entries[s]) /\ entries'[headSeq + 1] = x
  BY <1>1, EntryAppended DEF EntryInvariant, EntryOf
<1>4. AppliesTo(x.effect, Snapshot)
  <2>1. AppliesTo(Nothing, Snapshot)
    BY DEF AppliesTo, Nothing
  <2>2. QED
    BY <2>1, ConsensusApplies DEF EntryOf
<1>5. ASSUME NEW s \in 2..headSeq' PROVE AppliesTo(entries'[s].effect, snapshots'[s - 1])
  <2>1. CASE s \in 2..headSeq
    BY <1>1, <1>2, <1>3, <2>1 DEF EffectInvariant
  <2>2. CASE s = headSeq + 1
    BY <1>1, <1>2, <1>3, <1>4, <2>2
  <2>3. QED
    BY <1>1, <2>1, <2>2
<1>6. entries'[1].effect = Genesis
  BY <1>1, <1>3 DEF EffectInvariant
<1>7. QED
  BY <1>5, <1>6 DEF EffectInvariant

\* The environments of then are those created by then.
LEMMA EnvironmentsOfThen ==
    ASSUME TypeOK, IndexInvariant, NEW s \in 1..headSeq, NEW scope
    PROVE  EnvironmentsOfScopeAt(scope, s) =
               {e \in DOMAIN snapshots[s].environments : ScopeIncludesEnvironment(scope, e)}
<1>1. EnvironmentsAgree /\ headSeq \in Nat
  BY AgreesUpToHead DEF IndexInvariant, SnapshotInvariant
<1>2. /\ DOMAIN environmentStarts = DOMAIN environments
      /\ \A e \in DOMAIN environments :
            /\ environmentStarts[e].createdAt = environments[e].createdAt
            /\ environments[e].createdAt \in Nat
  BY DEF IndexInvariant, EnvironmentIndex, ShowsEnvironment, TypeOK, IsMap, EnvironmentStates
<1>3. DOMAIN environments \subseteq Envs
  BY DEF TypeOK, IsMap
<1>4. DOMAIN snapshots[s].environments \subseteq Envs
  <2>1. snapshots[s] \in SnapshotRecords
    BY <1>1 DEF IndexInvariant, SnapshotInvariant
  <2>2. QED
    BY <2>1 DEF SnapshotRecords
<1>5. ASSUME NEW e \in Envs
      PROVE  /\ e \in DOMAIN environments
             /\ environments[e].createdAt <= s
             <=> e \in DOMAIN snapshots[s].environments
  <2>1. EnvironmentStateAt(e, s) = EnvironmentIn(snapshots[s], e)
    BY <1>1 DEF EnvironmentsAgree
  <2>2. EnvironmentIn(snapshots[s], e) = Absent <=> e \notin DOMAIN snapshots[s].environments
    BY DEF EnvironmentIn, Absent
  <2>3. EnvironmentStateAt(e, s) = Absent
          <=> e \notin DOMAIN environmentStarts \/ s < environmentStarts[e].createdAt
    BY DEF EnvironmentStateAt, Absent
  <2>4. QED
    BY <1>1, <1>2, <2>1, <2>2, <2>3
<1>6. QED
  BY <1>3, <1>4, <1>5 DEF EnvironmentsOfScopeAt

\* The chain state before an entry is what the index says of the seq before it.
LEMMA StateBefore ==
    ASSUME IndexInvariant, NEW s \in 2..headSeq, NEW u \in Users,
           u \in DOMAIN snapshots[s - 1].members
    PROVE  LET before == snapshots[s - 1]
           IN  /\ MemberStateAt(u, s - 1) # Absent
               /\ MemberStateAt(u, s - 1).role = before.members[u].role
               /\ MemberStateAt(u, s - 1).scope = before.members[u].scope
               /\ \A d \in before.devices : d.user = u =>
                     DeviceScopeBefore(u, FingerprintOf(d), s) =
                         EffectivePermission(before.members[u], d).scope
<1>1. SnapshotInvariant /\ PeopleIndexed /\ MembersAgree /\ s - 1 \in 1..headSeq
  BY AgreesUpToHead DEF IndexInvariant, SnapshotInvariant
<1>2. MemberStateAt(u, s - 1) = MemberIn(s - 1, u)
  BY <1>1 DEF MembersAgree
<1>3. /\ MemberStateAt(u, s - 1) # Absent
      /\ MemberStateAt(u, s - 1).role = snapshots[s - 1].members[u].role
      /\ MemberStateAt(u, s - 1).scope = snapshots[s - 1].members[u].scope
  BY <1>2 DEF MemberIn, Absent
<1>4. ASSUME NEW d \in snapshots[s - 1].devices, d.user = u
      PROVE  DeviceScopeBefore(u, FingerprintOf(d), s) =
                 EffectivePermission(snapshots[s - 1].members[u], d).scope
  <2>1. DeviceStateAt(u, FingerprintOf(d), s - 1) =
            [kind |-> "device", device |-> d,
             permission |-> EffectivePermission(snapshots[s - 1].members[u], d)]
    BY <1>1, <1>2, <1>4, DeviceFollows
  <2>2. QED
    BY <2>1 DEF DeviceScopeBefore, Absent
<1>5. QED
  BY <1>3, <1>4

\* A role is at least that of a member unless it is that of a reader.
LEMMA NotReader ==
    ASSUME NEW r \in Roles
    PROVE  AtLeast(r, "member") <=> r # "reader"
BY DEF Roles, AtLeast, ROLE_RANK

\* A role change names a role.
LEMMA ChangeRoleShape ==
    ASSUME NEW op \in WellFormedOperations \cup {Nothing}, op.op = "change_role"
    PROVE  op.role \in Roles /\ op.scope \in Scopes
BY DEF WellFormedOperations, AddMemberOps, ChangeRoleOps, RemoveMemberOps, AddDeviceOps,
   RevokeDeviceOps, GrantServerOps, RevokeServerOps, EnvironmentOps, RotateEpochOps,
   CheckpointOps, PolicyOps, Nothing

\* What a client derives of one applied operation is what the entry took away.
LEMMA MandatesOfEntry ==
    ASSUME TypeOK, IndexInvariant, EntryInvariant, EffectInvariant, NEW s \in 2..headSeq
    PROVE  MandatesOfApplied([seq |-> s, operation |-> entries[s].effect]) = LossesIn(s)
<1>1. PICK op, before : op = entries[s].effect /\ before = snapshots[s - 1]
  OBVIOUS
<1>2. AppliesTo(op, before) /\ op \in WellFormedOperations \cup {Nothing}
  BY <1>1 DEF EffectInvariant, AppliesTo
<1>3. s \in 1..headSeq /\ s - 1 \in 1..headSeq /\ before \in SnapshotRecords
  BY <1>1 DEF IndexInvariant, SnapshotInvariant
<1> DEFINE a == [seq |-> s, operation |-> op]
           covered(scope) == {e \in DOMAIN snapshots[s].environments :
                                 ScopeIncludesEnvironment(scope, e)}
<1>4. \A scope : EnvironmentsOfScopeAt(scope, s) = covered(scope)
  BY <1>3, EnvironmentsOfThen
<1>5. \A u \in Users : u \in DOMAIN before.members =>
        /\ before.members[u] \in MemberStates
        /\ MemberStateAt(u, s - 1) # Absent
        /\ MemberStateAt(u, s - 1).role = before.members[u].role
        /\ MemberStateAt(u, s - 1).scope = before.members[u].scope
        /\ \A d \in before.devices : d.user = u =>
              DeviceScopeBefore(u, FingerprintOf(d), s) =
                  EffectivePermission(before.members[u], d).scope
  BY <1>1, <1>3, StateBefore DEF SnapshotRecords
<1>6. a.seq = s /\ a.operation = op
  OBVIOUS
<1>7. op.op \in {"remove_member", "change_role", "revoke_device"} =>
        op.target \in Users /\ op.target \in DOMAIN before.members
  BY <1>2, <1>3 DEF AppliesTo, SnapshotRecords
<1>8. CASE op.op = "remove_member"
  <2>1. LossesIn(s) = {Mandate("member-removed", s, covered(before.members[op.target].scope))}
    BY <1>1, <1>8 DEF LossesIn
  <2>2. ScopeBefore(op.target, s) = before.members[op.target].scope
    BY <1>5, <1>7, <1>8 DEF ScopeBefore
  <2>3. MandatesOfApplied(a) =
            {Mandate("member-removed", s, EnvironmentsOfScopeAt(ScopeBefore(op.target, s), s))}
    BY <1>6, <1>8 DEF MandatesOfApplied
  <2>4. QED
    BY <1>1, <1>4, <2>1, <2>2, <2>3
<1>9. CASE op.op = "revoke_server"
  <2>1. LossesIn(s) = {Mandate("server-revoked", s, covered(ALL_SCOPE))}
    BY <1>1, <1>9 DEF LossesIn
  <2>2. MandatesOfApplied(a) = {Mandate("server-revoked", s, EnvironmentsOfScopeAt(ALL_SCOPE, s))}
    BY <1>6, <1>9 DEF MandatesOfApplied
  <2>3. QED
    BY <1>1, <1>4, <2>1, <2>2
<1>10. CASE op.op = "revoke_device"
  <2> DEFINE person == before.members[op.target]
             revoked == {d \in before.devices : d.user = op.target /\ FingerprintOf(d) \in op.fps}
             lost(d) == covered(EffectivePermission(person, d).scope)
             named(fp) == EnvironmentsOfScopeAt(DeviceScopeBefore(op.target, fp, s), s)
  <2>1. LossesIn(s) = {Mandate("device-revoked", s, UNION {lost(d) : d \in revoked})}
    BY <1>1, <1>10 DEF LossesIn
  <2>2. MandatesOfApplied(a) = {Mandate("device-revoked", s, UNION {named(fp) : fp \in op.fps})}
    BY <1>6, <1>10 DEF MandatesOfApplied, RevokeDeviceMandate
  <2>3. ASSUME NEW d \in revoked PROVE named(FingerprintOf(d)) = lost(d)
    BY <1>4, <1>5, <1>7, <1>10
  <2>4. op.fps = {FingerprintOf(d) : d \in revoked}
    BY <1>2, <1>10 DEF AppliesTo
  <2>5. {named(fp) : fp \in op.fps} = {lost(d) : d \in revoked}
    BY <2>3, <2>4
  <2>6. QED
    BY <1>1, <2>1, <2>2, <2>5
<1>11. CASE op.op = "change_role"
  <2> DEFINE person == before.members[op.target]
             narrowed == covered(person.scope) \ covered(op.scope)
  <2>1. LossesIn(s) =
               {m \in {Mandate("role-demoted", s, covered(op.scope))} :
                   person.role # "reader" /\ op.role = "reader"}
          \cup {m \in {Mandate("scope-narrowed", s, narrowed)} : narrowed # {}}
    BY <1>1, <1>11 DEF LossesIn
  <2>2. /\ ScopeBefore(op.target, s) = person.scope
        /\ MemberStateAt(op.target, s - 1) # Absent
        /\ MemberStateAt(op.target, s - 1).role = person.role
        /\ person.role \in Roles
    BY <1>5, <1>7, <1>11 DEF ScopeBefore, MemberStates
  <2>3. op.role \in Roles
    BY <1>2, <1>11, ChangeRoleShape
  <2>4. AtLeast(person.role, "member") <=> person.role # "reader"
    BY <2>2, NotReader
  <2>5. AtLeast(op.role, "member") <=> op.role # "reader"
    BY <2>3, NotReader
  <2>6. EnvironmentsOfScopeAt(ScopeBefore(op.target, s), s) \ EnvironmentsOfScopeAt(op.scope, s)
           = narrowed
    BY <1>4, <2>2
  <2>7. MandatesOfApplied(a) = ChangeRoleMandates(op, s)
    BY <1>6, <1>11 DEF MandatesOfApplied
  <2>8. EnvironmentsOfScopeAt(op.scope, s) = covered(op.scope)
    BY <1>4
  <2>9. ChangeRoleMandates(op, s) = LossesIn(s)
    BY <2>1, <2>2, <2>4, <2>5, <2>6, <2>8 DEF ChangeRoleMandates
  <2>10. QED
    BY <1>1, <2>7, <2>9
<1>12. CASE op.op \notin {"remove_member", "revoke_server", "revoke_device", "change_role"}
  <2>1. LossesIn(s) = {}
    BY <1>1, <1>12 DEF LossesIn
  <2>2. MandatesOfApplied(a) = {}
    BY <1>6, <1>12 DEF MandatesOfApplied
  <2>3. QED
    BY <1>1, <2>1, <2>2
<1>13. QED
  BY <1>8, <1>9, <1>10, <1>11, <1>12

\* Nothing and the genesis entry take nothing away.
LEMMA NoMandates ==
    ASSUME NEW s
    PROVE  /\ MandatesOfApplied([seq |-> s, operation |-> Nothing]) = {}
           /\ MandatesOfApplied([seq |-> s, operation |-> Genesis]) = {}
BY DEF MandatesOfApplied, Nothing, Genesis

\* The mandates are those of the entries that applied something.
LEMMA MandatesFromEntries ==
    ASSUME TypeOK, IndexInvariant, EntryInvariant, EffectInvariant
    PROVE  MandatesExact
<1>1. /\ headSeq \in Nat \ {0} /\ DOMAIN entries = 1..headSeq
      /\ 1..headSeq = {1} \cup 2..headSeq /\ entries[1].effect = Genesis
  BY DEF IndexInvariant, SnapshotInvariant, EntryInvariant, EffectInvariant
<1>2. AppliedOperations =
          {[seq |-> s, operation |-> entries[s].effect] :
              s \in {x \in DOMAIN entries : entries[x].effect # Nothing}}
  BY AppliedFromEntries DEF AppliedDerivable, TypeOK
<1>3. ASSUME NEW m \in Mandates PROVE \E s \in 2..headSeq : m \in LossesIn(s)
  <2>1. PICK s \in 1..headSeq :
          m \in MandatesOfApplied([seq |-> s, operation |-> entries[s].effect])
    BY <1>1, <1>2 DEF Mandates
  <2>2. s # 1
    BY <1>1, <2>1, NoMandates
  <2>3. s \in 2..headSeq
    BY <1>1, <2>2
  <2>4. QED
    BY <2>1, <2>3, MandatesOfEntry
<1>4. ASSUME NEW s \in 2..headSeq, NEW m \in LossesIn(s) PROVE m \in Mandates
  <2>1. m \in MandatesOfApplied([seq |-> s, operation |-> entries[s].effect])
    BY MandatesOfEntry
  <2>2. entries[s].effect # Nothing
    BY <2>1, NoMandates
  <2>3. [seq |-> s, operation |-> entries[s].effect] \in AppliedOperations
    BY <1>1, <1>2, <2>2
  <2>4. QED
    BY <2>1, <2>3 DEF Mandates
<1>5. QED
  BY <1>3, <1>4 DEF MandatesExact

\* What the mandates rest on.
MandateInvariant ==
    /\ TypeOK /\ KeyInvariant /\ IndexInvariant
    /\ EntryInvariant /\ EffectInvariant

\* It holds of the genesis entry.
LEMMA MandateInitial == MandatesInit => MandateInvariant
<1> SUFFICES ASSUME MandatesInit PROVE MandateInvariant
  OBVIOUS
<1>1. HistoryInit /\ Init /\ headSeq = 1 /\ entries[1].effect = Genesis
  BY DEF MandatesInit, HistoryInit, Init, Entry
<1>2. EffectInvariant
  BY <1>1 DEF EffectInvariant
<1>3. QED
  BY <1>1, <1>2, InitTypeAndKeys, IndexInit, EntryInit DEF MandateInvariant

\* No step breaks it.
LEMMA MandateStep ==
    ASSUME MandateInvariant, [MandatesNext]_mandateVars
    PROVE  MandateInvariant'
<1>1. [Next]_vars /\ [HistoryNext]_historyVars
  BY DEF MandatesNext, mandateVars, HistoryNext, historyVars, Next
<1>2. TypeOK' /\ KeyInvariant'
  BY <1>1, TypeAndKeysStep DEF MandateInvariant
<1>3. IndexInvariant' /\ EntryInvariant'
  BY <1>1, <1>2, IndexStep, EntryStep DEF MandateInvariant
<1>4. EffectInvariant'
  <2>1. CASE MandatesNext
    BY <1>2, <2>1, MandateCases, EffectStep DEF MandateInvariant, IndexInvariant
  <2>2. CASE UNCHANGED mandateVars
    BY <2>2 DEF mandateVars, historyVars, vars, MandateInvariant, EffectInvariant
  <2>3. QED
    BY <2>1, <2>2
<1>5. QED
  BY <1>2, <1>3, <1>4 DEF MandateInvariant

\* On every chain the mandates a client derives at the head are those of the chain states
\* around each entry, whatever followed it (rotationMandates).
THEOREM MandatesAreExact == MandatesSpec => []MandatesExact
<1>1. MandateInvariant => MandatesExact
  BY MandatesFromEntries DEF MandateInvariant
<1>2. QED
  BY <1>1, MandateInitial, MandateStep, PTL DEF MandatesSpec

(***************************************************************************)
(* Departures.                                                             *)
(***************************************************************************)

\* The entry s has a loss that concerns the environment e.
TakenBy(s, e) == \E m \in LossesIn(s) : e \in m.environments

\* Who was a recipient in the current epoch is one or was taken away by an entry since.
LeaversInvariant ==
    \A e \in LiveEnvironments :
        LET began == Last(environments[e].epochStarts)
        IN  /\ began \in 1..headSeq
            /\ \A s \in began..headSeq :
                  \/ RecipientsIn(snapshots[s], e) \subseteq RecipientsIn(Snapshot, e)
                  \/ \E t \in s + 1..headSeq : TakenBy(t, e)

\* A permission covers what both scopes cover.
LEMMA IntersectCovers ==
    ASSUME NEW a \in Scopes, NEW b \in Scopes, NEW e
    PROVE  ScopeIncludesEnvironment(IntersectScopes(a, b), e)
              <=> ScopeIncludesEnvironment(a, e) /\ ScopeIncludesEnvironment(b, e)
BY DEF Scopes, IntersectScopes, ScopeIncludesEnvironment, Listed

\* A device of a chain state is a recipient of what person and device both cover.
SealedTo(person, d, e) ==
    ScopeIncludesEnvironment(person.scope, e) /\ ScopeIncludesEnvironment(d.scope, e)

\* The recipients of the chain state now, and of the next one.
LEMMA RecipientsNow ==
    ASSUME TypeOK, KeyInvariant, NEW e
    PROVE  RecipientsIn(Snapshot, e) =
                    {[kind |-> "member", id |-> d.user, enc |-> d.enc] :
                        d \in {x \in devices : SealedTo(members[x.user], x, e)}}
               \cup {[kind |-> "server", id |-> k, enc |-> k] :
                        k \in {x \in DOMAIN serverGrants : e \in serverGrants[x].ids}}
<1>1. ASSUME NEW x \in devices
      PROVE  ScopeIncludesEnvironment(EffectivePermission(members[x.user], x).scope, e)
                <=> SealedTo(members[x.user], x, e)
  <2>1. x \in DeviceRecords /\ x.user \in DOMAIN members
    BY DEF TypeOK, KeyInvariant, PeopleMatchDevices
  <2>2. x.scope \in Scopes /\ members[x.user].scope \in Scopes
    BY <2>1 DEF TypeOK, IsMap, MemberStates, DeviceRecords
  <2>3. QED
    BY <2>2, IntersectCovers DEF EffectivePermission, SealedTo
<1>2. {x \in devices : ScopeIncludesEnvironment(EffectivePermission(members[x.user], x).scope, e)}
         = {x \in devices : SealedTo(members[x.user], x, e)}
  BY <1>1
<1>3. QED
  BY <1>2 DEF RecipientsIn, Snapshot

\* The same of the next state.
LEMMA RecipientsNext ==
    ASSUME TypeOK', KeyInvariant', NEW e
    PROVE  RecipientsIn(Snapshot', e) =
                    {[kind |-> "member", id |-> d.user, enc |-> d.enc] :
                        d \in {x \in devices' : SealedTo(members'[x.user], x, e)}}
               \cup {[kind |-> "server", id |-> k, enc |-> k] :
                        k \in {x \in DOMAIN serverGrants' : e \in serverGrants'[x].ids}}
<1>1. ASSUME NEW x \in devices'
      PROVE  ScopeIncludesEnvironment(EffectivePermission(members'[x.user], x).scope, e)
                <=> SealedTo(members'[x.user], x, e)
  <2>1. x \in DeviceRecords /\ x.user \in DOMAIN members'
    BY DEF TypeOK, KeyInvariant, PeopleMatchDevices
  <2>2. x.scope \in Scopes /\ members'[x.user].scope \in Scopes
    BY <2>1 DEF TypeOK, IsMap, MemberStates, DeviceRecords
  <2>3. QED
    BY <2>2, IntersectCovers DEF EffectivePermission, SealedTo
<1>2. {x \in devices' : ScopeIncludesEnvironment(EffectivePermission(members'[x.user], x).scope, e)}
         = {x \in devices' : SealedTo(members'[x.user], x, e)}
  BY <1>1
<1>3. QED
  BY <1>2 DEF RecipientsIn, Snapshot

\* Nobody leaves if every device and every server key that was reached still is.
LEMMA NobodyLeft ==
    ASSUME TypeOK, KeyInvariant, TypeOK', KeyInvariant', NEW e,
           \A d \in devices : SealedTo(members[d.user], d, e) =>
              \E c \in devices' :
                 c.user = d.user /\ c.enc = d.enc /\ SealedTo(members'[c.user], c, e),
           \A k \in DOMAIN serverGrants : e \in serverGrants[k].ids =>
              k \in DOMAIN serverGrants' /\ e \in serverGrants'[k].ids
    PROVE  RecipientsIn(Snapshot, e) \subseteq RecipientsIn(Snapshot', e)
<1>1. ASSUME NEW r \in RecipientsIn(Snapshot, e) PROVE r \in RecipientsIn(Snapshot', e)
  <2>1. CASE \E d \in devices : /\ r = [kind |-> "member", id |-> d.user, enc |-> d.enc]
                                /\ SealedTo(members[d.user], d, e)
    <3>1. PICK d \in devices : /\ r = [kind |-> "member", id |-> d.user, enc |-> d.enc]
                               /\ SealedTo(members[d.user], d, e)
      BY <2>1
    <3>2. PICK c \in devices' : c.user = d.user /\ c.enc = d.enc /\ SealedTo(members'[c.user], c, e)
      BY <3>1
    <3>3. r = [kind |-> "member", id |-> c.user, enc |-> c.enc]
      BY <3>1, <3>2
    <3>4. QED
      BY <3>2, <3>3, RecipientsNext
  <2>2. CASE \E k \in DOMAIN serverGrants :
                r = [kind |-> "server", id |-> k, enc |-> k] /\ e \in serverGrants[k].ids
    BY <2>2, RecipientsNext
  <2>3. QED
    BY <2>1, <2>2, RecipientsNow
<1>2. QED
  BY <1>1

\* What an entry takes away, by the chain states around it.
LEMMA LossesOfEntry ==
    ASSUME SnapshotInvariant, EntryInvariant, NEW x \in EntryRecords, EntryOf(x),
           NEW n, n = headSeq + 1
    PROVE  LET op == x.effect
               covered(scope) == {e \in DOMAIN environments' : ScopeIncludesEnvironment(scope, e)}
               person == members[op.target]
               narrowed == covered(person.scope) \ covered(op.scope)
               revoked == {d \in devices : d.user = op.target /\ FingerprintOf(d) \in op.fps}
           IN  /\ op.op = "remove_member" =>
                     LossesIn(n)' = {Mandate("member-removed", n, covered(person.scope))}
               /\ op.op = "revoke_server" =>
                     LossesIn(n)' = {Mandate("server-revoked", n, covered(ALL_SCOPE))}
               /\ op.op = "revoke_device" =>
                     LossesIn(n)' =
                        {Mandate("device-revoked", n,
                            UNION {covered(EffectivePermission(person, d).scope) : d \in revoked})}
               /\ op.op = "change_role" /\ narrowed # {} =>
                     Mandate("scope-narrowed", n, narrowed) \in LossesIn(n)'
<1>1. headSeq \in Nat \ {0} /\ snapshots[headSeq] = Snapshot /\ n - 1 = headSeq
  BY DEF SnapshotInvariant
<1>2. snapshots'[n - 1] = Snapshot /\ snapshots'[n] = Snapshot'
  BY <1>1, SnapshotsGrow DEF EntryOf, Advances
<1>3. entries'[n] = x
  BY <1>1, EntryAppended DEF EntryInvariant, EntryOf
<1>4. /\ Snapshot.members = members /\ Snapshot.devices = devices
      /\ snapshots'[n].environments = environments'
  BY <1>2 DEF Snapshot
<1> DEFINE op == x.effect
           covered(scope) == {e \in DOMAIN environments' : ScopeIncludesEnvironment(scope, e)}
           person == members[op.target]
           narrowed == covered(person.scope) \ covered(op.scope)
           revoked == {d \in devices : d.user = op.target /\ FingerprintOf(d) \in op.fps}
<1>5. ASSUME op.op = "remove_member"
      PROVE  LossesIn(n)' = {Mandate("member-removed", n, covered(person.scope))}
  BY <1>2, <1>3, <1>4, <1>5 DEF LossesIn
<1>6. ASSUME op.op = "revoke_server"
      PROVE  LossesIn(n)' = {Mandate("server-revoked", n, covered(ALL_SCOPE))}
  BY <1>2, <1>3, <1>4, <1>6 DEF LossesIn
<1>7. ASSUME op.op = "revoke_device"
      PROVE  LossesIn(n)' =
                {Mandate("device-revoked", n,
                    UNION {covered(EffectivePermission(person, d).scope) : d \in revoked})}
  BY <1>2, <1>3, <1>4, <1>7 DEF LossesIn
<1>8. ASSUME op.op = "change_role", narrowed # {}
      PROVE  Mandate("scope-narrowed", n, narrowed) \in LossesIn(n)'
  BY <1>2, <1>3, <1>4, <1>8 DEF LossesIn
<1>9. QED
  BY <1>5, <1>6, <1>7, <1>8

\* Whoever an entry makes leave an environment is among what it took away.
LEMMA LeaversAreTaken ==
    ASSUME TypeOK, KeyInvariant, TypeOK', KeyInvariant', SnapshotInvariant, EntryInvariant,
           NEW x \in EntryRecords, EntryOf(x), NEW n, n = headSeq + 1,
           NEW e \in DOMAIN environments, e \in LiveEnvironments'
    PROVE  RecipientsIn(Snapshot, e) \subseteq RecipientsIn(Snapshot', e) \/ TakenBy(n, e)'
<1>1. e \in Envs /\ e \in DOMAIN environments' /\ environments'[e].deletedAt = 0
  BY DEF TypeOK, IsMap, LiveEnvironments
<1>2. \A y \in devices : y.user \in DOMAIN members
  BY DEF KeyInvariant, PeopleMatchDevices
<1>3. CASE x.effect = Nothing /\ StateUnchanged
  <2>1. UNCHANGED <<members, devices, serverGrants>>
    BY <1>3 DEF StateUnchanged, memberVars, grantVars
  <2>2. QED
    BY <2>1, NobodyLeft
<1> DEFINE op == x.effect
<1>4. ASSUME NEW d \in devices, op \in Operations,
             ConsensusRule(op, d), Apply(op, d, headSeq + 1)
      PROVE  RecipientsIn(Snapshot, e) \subseteq RecipientsIn(Snapshot', e) \/ TakenBy(n, e)'
  <2> DEFINE covered(scope) == {y \in DOMAIN environments' : ScopeIncludesEnvironment(scope, y)}
             person == members[op.target]
  <2>1. CASE op.op = "add_member"
    <3>1. ApplyAddMember(op, headSeq + 1) /\ op.target \notin DOMAIN members
      BY <1>4, <2>1 DEF Apply, ConsensusRule, AddMemberRule
    <3>2. \A y \in devices : y \in devices' /\ members'[y.user] = members[y.user]
      BY <1>2, <3>1 DEF ApplyAddMember, WithKey
    <3>3. serverGrants' = serverGrants
      BY <3>1 DEF ApplyAddMember, grantVars
    <3>4. QED
      BY <3>2, <3>3, NobodyLeft
  <2>2. CASE op.op = "change_role"
    <3>1. /\ devices' = devices /\ serverGrants' = serverGrants
          /\ members' = WithKey(members, op.target, [role |-> op.role, scope |-> op.scope])
      BY <1>4, <2>2 DEF Apply, ApplyChangeRole, grantVars
    <3>2. CASE \E y \in devices : /\ y.user = op.target
                                  /\ ScopeIncludesEnvironment(person.scope, e)
                                  /\ ~ScopeIncludesEnvironment(op.scope, e)
      <4>1. e \in covered(person.scope) \ covered(op.scope)
        BY <1>1, <3>2
      <4>2. Mandate("scope-narrowed", n, covered(person.scope) \ covered(op.scope)) \in LossesIn(n)'
        BY <1>4, <2>2, <4>1, LossesOfEntry
      <4>3. QED
        BY <4>1, <4>2 DEF TakenBy, Mandate
    <3>3. CASE ~\E y \in devices : /\ y.user = op.target
                                   /\ ScopeIncludesEnvironment(person.scope, e)
                                   /\ ~ScopeIncludesEnvironment(op.scope, e)
      <4>1. \A y \in devices : SealedTo(members[y.user], y, e) => SealedTo(members'[y.user], y, e)
        BY <1>2, <3>1, <3>3 DEF SealedTo, WithKey
      <4>2. QED
        BY <3>1, <4>1, NobodyLeft
    <3>4. QED
      BY <3>2, <3>3
  <2>3. CASE op.op = "remove_member"
    <3>1. /\ devices' = devices \ DevicesOf(op.target) /\ serverGrants' = serverGrants
          /\ members' = WithoutKey(members, op.target)
      BY <1>4, <2>3 DEF Apply, ApplyRemoveMember, DropDevices, grantVars
    <3>2. CASE ScopeIncludesEnvironment(person.scope, e)
      <4>1. e \in covered(person.scope)
        BY <1>1, <3>2
      <4>2. LossesIn(n)' = {Mandate("member-removed", n, covered(person.scope))}
        BY <1>4, <2>3, LossesOfEntry
      <4>3. Mandate("member-removed", n, covered(person.scope)) \in LossesIn(n)'
        BY <4>2
      <4>4. QED
        BY <4>1, <4>3 DEF TakenBy, Mandate
    <3>3. CASE ~ScopeIncludesEnvironment(person.scope, e)
      <4>1. \A y \in devices : SealedTo(members[y.user], y, e) =>
               y \in devices' /\ members'[y.user] = members[y.user]
        BY <1>2, <3>1, <3>3 DEF SealedTo, DevicesOf, WithoutKey
      <4>2. QED
        BY <3>1, <4>1, NobodyLeft
    <3>4. QED
      BY <3>2, <3>3
  <2>4. CASE op.op = "add_device"
    <3>1. ApplyAddDevice(op, d, headSeq + 1)
      BY <1>4, <2>4 DEF Apply
    <3>2. UNCHANGED <<members, serverGrants>> /\ devices \subseteq devices'
      BY <3>1 DEF ApplyAddDevice, grantVars
    <3>3. QED
      BY <3>2, NobodyLeft
  <2>5. CASE op.op = "revoke_device"
    <3>1. /\ devices' = devices \ RevokedDevices(op) /\ UNCHANGED <<members, serverGrants>>
      BY <1>4, <2>5 DEF Apply, ApplyRevokeDevice, DropDevices, grantVars
    <3> DEFINE revoked == {y \in devices : y.user = op.target /\ FingerprintOf(y) \in op.fps}
    <3>2. RevokedDevices(op) = revoked
      BY DEF RevokedDevices, DevicesOf, FingerprintOf
    <3>3. CASE \E y \in RevokedDevices(op) : SealedTo(person, y, e)
      <4>1. PICK y \in RevokedDevices(op) : SealedTo(person, y, e)
        BY <3>3
      <4>2. y \in devices /\ y.user = op.target /\ op.target \in DOMAIN members
        BY <1>2, <3>2
      <4>3. y.scope \in Scopes /\ person.scope \in Scopes
        BY <4>2 DEF TypeOK, IsMap, MemberStates, DeviceRecords
      <4>4. e \in covered(EffectivePermission(person, y).scope)
        BY <1>1, <4>1, <4>3, IntersectCovers DEF EffectivePermission, SealedTo
      <4>5. LossesIn(n)' =
              {Mandate("device-revoked", n,
                  UNION {covered(EffectivePermission(person, z).scope) : z \in revoked})}
        BY <1>4, <2>5, LossesOfEntry
      <4>6. Mandate("device-revoked", n,
                UNION {covered(EffectivePermission(person, z).scope) : z \in revoked})
              \in LossesIn(n)'
        BY <4>5
      <4>7. e \in UNION {covered(EffectivePermission(person, z).scope) : z \in revoked}
        BY <3>2, <4>1, <4>4
      <4>8. QED
        BY <4>6, <4>7 DEF TakenBy, Mandate
    <3>4. CASE ~\E y \in RevokedDevices(op) : SealedTo(person, y, e)
      <4>1. \A y \in devices : SealedTo(members[y.user], y, e) => y \in devices'
        BY <3>1, <3>2, <3>4
      <4>2. QED
        BY <3>1, <4>1, NobodyLeft
    <3>5. QED
      BY <3>3, <3>4
  <2>6. CASE op.op = "grant_server"
    <3>1. ApplyGrantServer(op, headSeq + 1) /\ GrantServerRule(op)
      BY <1>4, <2>6 DEF Apply, ConsensusRule
    <3>2. /\ UNCHANGED <<members, devices>>
          /\ serverGrants' = WithKey(serverGrants, op.enc,
                                  [ids |-> op.ids, grantSeq |-> headSeq + 1])
      BY <3>1 DEF ApplyGrantServer, memberVars
    <3>3. \A k \in DOMAIN serverGrants : e \in serverGrants[k].ids =>
             k \in DOMAIN serverGrants' /\ e \in serverGrants'[k].ids
      BY <3>1, <3>2 DEF GrantServerRule, WithKey
    <3>4. QED
      BY <3>2, <3>3, NobodyLeft
  <2>7. CASE op.op = "revoke_server"
    <3>1. Mandate("server-revoked", n, covered(ALL_SCOPE)) \in LossesIn(n)'
      BY <1>4, <2>7, LossesOfEntry
    <3>2. e \in covered(ALL_SCOPE)
      BY <1>1 DEF ALL_SCOPE, ScopeIncludesEnvironment
    <3>3. QED
      BY <3>1, <3>2 DEF TakenBy, Mandate
  <2>8. CASE op.op = "create_environment"
    <3>1. UNCHANGED <<members, devices, serverGrants>>
      BY <1>4, <2>8 DEF Apply, ApplyCreateEnvironment, memberVars, grantVars
    <3>2. QED
      BY <3>1, NobodyLeft
  <2>9. CASE op.op = "rotate_epoch"
    <3>1. UNCHANGED <<members, devices, serverGrants>>
      BY <1>4, <2>9 DEF Apply, ApplyRotateEpoch, memberVars, grantVars
    <3>2. QED
      BY <3>1, NobodyLeft
  <2>10. CASE op.op = "delete_environment"
    <3>1. ApplyDeleteEnvironment(op, headSeq + 1) /\ headSeq + 1 # 0
      BY <1>4, <2>10 DEF Apply, SnapshotInvariant
    <3>2. environments' = [environments EXCEPT ![op.env].deletedAt = headSeq + 1]
      BY <3>1 DEF ApplyDeleteEnvironment
    <3>3. e # op.env
      BY <1>1, <3>1, <3>2 DEF TypeOK, IsMap, EnvironmentStates
    <3>4. \A sc : ScopeIncludesEnvironment(sc, e) =>
             ScopeIncludesEnvironment(ScopeWithout(sc, op.env), e)
      BY <3>3 DEF ScopeIncludesEnvironment, ScopeWithout, Listed
    <3>5. ASSUME NEW y \in devices, SealedTo(members[y.user], y, e)
          PROVE  \E c \in devices' :
                    c.user = y.user /\ c.enc = y.enc /\ SealedTo(members'[c.user], c, e)
      <4>1. PICK c : c = [y EXCEPT !.scope = ScopeWithout(y.scope, op.env)]
        OBVIOUS
      <4>2. c \in devices'
        BY <3>1, <4>1 DEF ApplyDeleteEnvironment
      <4>3. c.user = y.user /\ c.enc = y.enc /\ c.scope = ScopeWithout(y.scope, op.env)
        <5>1. y \in DeviceRecords
          BY DEF TypeOK
        <5>2. QED
          BY <4>1, <5>1 DEF DeviceRecords
      <4>4. members'[c.user].scope = ScopeWithout(members[y.user].scope, op.env)
        BY <1>2, <3>1, <4>3 DEF ApplyDeleteEnvironment
      <4>5. QED
        BY <3>4, <3>5, <4>2, <4>3, <4>4 DEF SealedTo
    <3>6. \A k \in DOMAIN serverGrants : e \in serverGrants[k].ids =>
             k \in DOMAIN serverGrants' /\ e \in serverGrants'[k].ids
      BY <3>1, <3>3 DEF ApplyDeleteEnvironment
    <3>7. QED
      BY <3>5, <3>6, NobodyLeft
  <2>11. CASE op.op = "checkpoint"
    <3>1. UNCHANGED <<members, devices, serverGrants>>
      BY <1>4, <2>11 DEF Apply, ApplyCheckpoint, memberVars, grantVars
    <3>2. QED
      BY <3>1, NobodyLeft
  <2>12. CASE op.op = "set_approval_policy"
    <3>1. UNCHANGED <<members, devices, serverGrants>>
      BY <1>4, <2>12 DEF Apply, ApplySetApprovalPolicy, memberVars, grantVars
    <3>2. QED
      BY <3>1, NobodyLeft
  <2>13. QED
    BY <1>4, <2>1, <2>2, <2>3, <2>4, <2>5, <2>6, <2>7, <2>8, <2>9, <2>10, <2>11, <2>12
    DEF ConsensusRule
<1>5. QED
  BY <1>3, <1>4 DEF EntryOf

\* The epoch of a live environment begins with the new entry or goes on.
LEMMA EpochGoesOn ==
    ASSUME TypeOK, NEW x \in EntryRecords, EntryOf(x), NEW n, n = headSeq + 1, n # 0,
           NEW e \in LiveEnvironments'
    PROVE  \/ Last(environments'[e].epochStarts) = n
           \/ /\ e \in LiveEnvironments
              /\ environments'[e].epochStarts = environments[e].epochStarts
<1>1. e \in DOMAIN environments' /\ environments'[e].deletedAt = 0
  BY DEF LiveEnvironments
<1>2. \A y \in DOMAIN environments : environments[y] \in EnvironmentStates
  BY DEF TypeOK, IsMap
<1>3. CASE environments' = environments
  BY <1>1, <1>3 DEF LiveEnvironments
<1>4. ASSUME NEW d \in devices, NEW op \in Operations, ConsensusRule(op, d), Apply(op, d, n)
      PROVE  \/ Last(environments'[e].epochStarts) = n
             \/ /\ e \in LiveEnvironments
                /\ environments'[e].epochStarts = environments[e].epochStarts
  <2>1. CASE op.op = "create_environment"
    <3>1. environments' = EnvironmentsAfterCreate(op, n)
      BY <1>4, <2>1 DEF Apply, ApplyCreateEnvironment
    <3>2. CASE e = op.env
      <4>1. environments'[e].epochStarts = <<n>>
        BY <3>1, <3>2 DEF EnvironmentsAfterCreate, WithKey
      <4>2. QED
        BY <4>1 DEF Last
    <3>3. CASE e # op.env
      BY <1>1, <3>1, <3>3 DEF EnvironmentsAfterCreate, WithKey, LiveEnvironments
    <3>4. QED
      BY <3>2, <3>3
  <2>2. CASE op.op = "rotate_epoch"
    <3>1. environments' = EnvironmentsAfterRotate(op, n)
      BY <1>4, <2>2 DEF Apply, ApplyRotateEpoch
    <3>2. DOMAIN environments' = DOMAIN environments
      BY <3>1 DEF EnvironmentsAfterRotate
    <3>3. CASE e = op.env
      <4>1. environments[e].epochStarts \in Seq(Nat) /\ e \in DOMAIN environments
        BY <1>1, <1>2, <3>2 DEF EnvironmentStates
      <4>2. environments'[e].epochStarts = Append(environments[e].epochStarts, n)
        BY <1>2, <3>1, <3>3, <4>1 DEF EnvironmentsAfterRotate, EnvironmentStates
      <4>3. PICK old : old = environments[e].epochStarts
        OBVIOUS
      <4>4. Last(Append(old, n)) = n
        BY <4>1, <4>3 DEF Last
      <4>5. QED
        BY <4>2, <4>3, <4>4
    <3>4. CASE e # op.env
      BY <1>1, <3>1, <3>4 DEF EnvironmentsAfterRotate, LiveEnvironments
    <3>5. QED
      BY <3>3, <3>4
  <2>3. CASE op.op = "delete_environment"
    <3>1. environments' = [environments EXCEPT ![op.env].deletedAt = n]
      BY <1>4, <2>3 DEF Apply, ApplyDeleteEnvironment
    <3>2. e # op.env
      BY <1>1, <1>2, <3>1 DEF EnvironmentStates
    <3>3. QED
      BY <1>1, <3>1, <3>2 DEF LiveEnvironments
  <2>4. CASE op.op \notin {"create_environment", "rotate_epoch", "delete_environment"}
    <3>1. environments' = environments
      BY <1>4, <2>4 DEF Apply, ApplyAddMember, ApplyChangeRole, ApplyRemoveMember, ApplyAddDevice,
         ApplyRevokeDevice, ApplyGrantServer, ApplyRevokeServer, ApplyCheckpoint,
         ApplySetApprovalPolicy, envVars
    <3>2. QED
      BY <1>3, <3>1
  <2>5. QED
    BY <2>1, <2>2, <2>3, <2>4
<1>5. QED
  BY <1>3, <1>4 DEF EntryOf, StateUnchanged, envVars

\* What an entry took away stays so.
LEMMA TakenForGood ==
    ASSUME SnapshotInvariant, EntryInvariant, NEW x \in EntryRecords, EntryOf(x),
           NEW t \in 2..headSeq, NEW e, TakenBy(t, e)
    PROVE  TakenBy(t, e)'
<1>1. headSeq \in Nat \ {0} /\ t \in 1..headSeq /\ t - 1 \in 1..headSeq
  BY DEF SnapshotInvariant
<1>2. snapshots'[t] = snapshots[t] /\ snapshots'[t - 1] = snapshots[t - 1]
  BY <1>1, SnapshotsGrow DEF EntryOf, Advances
<1>3. entries'[t] = entries[t]
  BY <1>1, EntryAppended DEF EntryInvariant, EntryOf
<1>4. LossesIn(t)' = LossesIn(t)
  BY <1>2, <1>3 DEF LossesIn
<1>5. QED
  BY <1>4 DEF TakenBy

\* Every entry keeps account of who left.
LEMMA LeaversStep ==
    ASSUME MandateInvariant, TypeOK', KeyInvariant', LeaversInvariant, [MandatesNext]_mandateVars
    PROVE  LeaversInvariant'
<1>1. TypeOK /\ KeyInvariant /\ SnapshotInvariant /\ EntryInvariant /\ headSeq \in Nat \ {0}
  BY DEF MandateInvariant, IndexInvariant, SnapshotInvariant
<1>2. CASE MandatesNext
  <2>1. PICK x \in EntryRecords : EntryOf(x)
    BY <1>1, <1>2, MandateCases
  <2>2. PICK n \in Nat : n = headSeq + 1 /\ n # 0
    BY <1>1
  <2>3. /\ headSeq' = n /\ snapshots'[n] = Snapshot'
        /\ \A s \in 1..headSeq : snapshots'[s] = snapshots[s]
    BY <1>1, <2>1, <2>2, SnapshotsGrow DEF EntryOf, Advances
  <2>4. ASSUME NEW e \in LiveEnvironments', NEW began,
               began = Last(environments'[e].epochStarts)
        PROVE  /\ began \in 1..n
               /\ \A s \in began..n :
                     \/ RecipientsIn(snapshots'[s], e) \subseteq RecipientsIn(Snapshot', e)
                     \/ \E t \in s + 1..n : TakenBy(t, e)'
    <3>1. CASE began = n
      <4>1. \A s \in n..n : s = n
        BY <2>2
      <4>2. QED
        BY <2>2, <2>3, <3>1, <4>1
    <3>2. CASE /\ e \in LiveEnvironments
               /\ environments'[e].epochStarts = environments[e].epochStarts
      <4>1. /\ began \in 1..headSeq
            /\ \A s \in began..headSeq :
                  \/ RecipientsIn(snapshots[s], e) \subseteq RecipientsIn(Snapshot, e)
                  \/ \E t \in s + 1..headSeq : TakenBy(t, e)
        BY <2>4, <3>2 DEF LeaversInvariant
      <4>2. ASSUME NEW s \in began..headSeq
            PROVE  \/ RecipientsIn(snapshots'[s], e) \subseteq RecipientsIn(Snapshot', e)
                   \/ \E t \in s + 1..n : TakenBy(t, e)'
        <5>1. s \in 1..headSeq /\ snapshots'[s] = snapshots[s]
          BY <1>1, <2>3, <4>1
        <5>2. CASE \E t \in s + 1..headSeq : TakenBy(t, e)
          <6>1. PICK t \in s + 1..headSeq : TakenBy(t, e)
            BY <5>2
          <6>2. t \in 2..headSeq /\ t \in s + 1..n
            BY <1>1, <2>2, <5>1
          <6>3. QED
            BY <1>1, <2>1, <6>1, <6>2, TakenForGood
        <5>3. CASE RecipientsIn(snapshots[s], e) \subseteq RecipientsIn(Snapshot, e)
          <6>1. n \in s + 1..n
            BY <1>1, <2>2, <5>1
          <6>2. e \in DOMAIN environments
            BY <3>2 DEF LiveEnvironments
          <6>3. RecipientsIn(Snapshot, e) \subseteq RecipientsIn(Snapshot', e) \/ TakenBy(n, e)'
            BY <1>1, <2>1, <2>2, <6>2, LeaversAreTaken
          <6>4. QED
            BY <5>1, <5>3, <6>1, <6>3
        <5>4. QED
          BY <4>1, <5>2, <5>3
      <4>3. \A s \in began..n : s \in began..headSeq \/ s = n
        BY <1>1, <2>2, <4>1
      <4>4. began \in 1..n
        BY <1>1, <2>2, <4>1
      <4>5. QED
        BY <2>3, <4>2, <4>3, <4>4
    <3>3. QED
      BY <1>1, <2>1, <2>2, <2>4, <3>1, <3>2, EpochGoesOn
  <2>5. ASSUME NEW e \in LiveEnvironments'
        PROVE  /\ Last(environments'[e].epochStarts) \in 1..headSeq'
               /\ \A s \in Last(environments'[e].epochStarts)..headSeq' :
                     \/ RecipientsIn(snapshots'[s], e) \subseteq RecipientsIn(Snapshot', e)
                     \/ \E t \in s + 1..headSeq' : TakenBy(t, e)'
    BY <2>3, <2>4
  <2>6. QED
    BY <2>5 DEF LeaversInvariant
<1>3. CASE UNCHANGED mandateVars
  <2>1. UNCHANGED <<entries, headSeq, snapshots, environments, members, devices, serverGrants>>
    BY <1>3 DEF mandateVars, historyVars, vars, memberVars, grantVars, envVars
  <2>2. Snapshot' = Snapshot /\ LiveEnvironments' = LiveEnvironments
    BY <2>1 DEF Snapshot, LiveEnvironments
  <2>3. \A t : LossesIn(t)' = LossesIn(t)
    BY <2>1 DEF LossesIn
  <2>4. \A t, e : TakenBy(t, e)' <=> TakenBy(t, e)
    BY <2>3 DEF TakenBy
  <2>5. QED
    BY <2>1, <2>2, <2>4 DEF LeaversInvariant
<1>4. QED
  BY <1>2, <1>3

\* A mandate is about the entry it is derived of.
LEMMA LossesAreDated ==
    ASSUME NEW t, NEW m \in LossesIn(t)
    PROVE  m.seq = t
BY DEF LossesIn, Mandate

\* On every chain, whoever could open the current epoch of a live environment and is no
\* longer a recipient is behind a mandate that no rotation has discharged (isPendingAt).
THEOREM NoDepartureIsMissed == MandatesSpec => []LeaversPending
<1> DEFINE Inv == MandateInvariant /\ LeaversInvariant
<1>1. MandatesInit => Inv
  <2>1. ASSUME MandatesInit PROVE LiveEnvironments = {}
    BY <2>1 DEF MandatesInit, HistoryInit, Init, LiveEnvironments
  <2>2. QED
    BY <2>1, MandateInitial DEF LeaversInvariant
<1>2. Inv /\ [MandatesNext]_mandateVars => Inv'
  <2> SUFFICES ASSUME Inv, [MandatesNext]_mandateVars PROVE Inv'
    OBVIOUS
  <2>1. MandateInvariant'
    BY MandateStep
  <2>2. TypeOK' /\ KeyInvariant'
    BY <2>1 DEF MandateInvariant
  <2>3. QED
    BY <2>1, <2>2, LeaversStep
<1>3. Inv => LeaversPending
  <2> SUFFICES ASSUME Inv, NEW e \in LiveEnvironments,
                      NEW s \in Last(environments[e].epochStarts)..headSeq,
                      ~(RecipientsIn(snapshots[s], e) \subseteq RecipientsIn(Snapshot, e))
               PROVE  \E p \in Unconverged : p.env = e /\ p.mandate.seq > s
    BY DEF LeaversPending
  <2>1. headSeq \in Nat /\ Last(environments[e].epochStarts) \in 1..headSeq
    BY DEF LeaversInvariant, MandateInvariant, TypeOK
  <2>2. PICK t \in s + 1..headSeq : TakenBy(t, e)
    BY DEF LeaversInvariant
  <2>3. PICK m \in LossesIn(t) : e \in m.environments
    BY <2>2 DEF TakenBy
  <2>4. /\ m.seq = t /\ t > s /\ t \in 2..headSeq
        /\ Last(environments[e].epochStarts) < t
    BY <2>1, <2>3, LossesAreDated
  <2>5. m \in Mandates
    BY <2>3, <2>4, MandatesFromEntries DEF MandateInvariant, MandatesExact
  <2>6. [env |-> e, mandate |-> m] \in Unconverged
    BY <2>3, <2>4, <2>5 DEF Unconverged, IsPending
  <2>7. QED
    BY <2>4, <2>6
<1>4. QED
  BY <1>1, <1>2, <1>3, PTL DEF MandatesSpec

=============================================================================
