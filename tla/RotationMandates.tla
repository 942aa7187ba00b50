--------------------------- MODULE RotationMandates ----------------------------
(***************************************************************************)
(* What a client owes after people, servers and devices lost access, read   *)
(* off the verified chain alone: the operations the chain has applied       *)
(* (packages/core/src/audit.ts, apps/cli/src/chain-applied.ts), the         *)
(* rotation mandates they leave (apps/cli/src/rotation-sweep.ts) and which  *)
(* of them no rotation has discharged.  Nothing of it is stored: every run  *)
(* of the CLI derives it again from the chain it holds by then, and the     *)
(* server derives its audit rows from the same index.                       *)
(***************************************************************************)
EXTENDS ChainHistory

VARIABLE entries  \* the entries of the chain; effect is a history variable: the
                  \* operation verification applied with the entry

mandateVars == <<historyVars, entries>>

Entry(kind, op, id, effect) == [kind |-> kind, op |-> op, proposal |-> id, effect |-> effect]

(***************************************************************************)
(* The applied operations (indexProposals, appliedOperations).  A proposal  *)
(* is named by the seq of its propose entry.                                *)
(***************************************************************************)

Proposed == {s \in DOMAIN entries : entries[s].kind = "propose"}

SeqsNaming(id, kind) ==
    {s \in DOMAIN entries : entries[s].kind = kind /\ entries[s].proposal = id}

\* Variant: what is still pending counts as completed.
CompletedUnlessWithdrawn(id) ==
    IF SeqsNaming(id, "withdraw") # {} THEN {}
    ELSE {s \in SeqsNaming(id, "approve") : \A t \in SeqsNaming(id, "approve") : t <= s}

\* The seq that completed a proposal, if one did: the last approve of one that is
\* neither pending nor withdrawn.
CompletedAt(id) ==
    IF id \in DOMAIN pendingProposals \/ SeqsNaming(id, "withdraw") # {} THEN {}
    ELSE {s \in SeqsNaming(id, "approve") : \A t \in SeqsNaming(id, "approve") : t <= s}

AppliedOperations ==
         {[seq |-> s, operation |-> entries[s].op] :
             s \in {x \in DOMAIN entries : entries[x].kind = "direct"}}
    \cup UNION {{[seq |-> s, operation |-> entries[id].op] : s \in CompletedAt(id)} :
                   id \in Proposed}

(***************************************************************************)
(* Mandates (rotationMandates).  Where the state before cannot be derived,  *)
(* the mandate covers everything.                                           *)
(***************************************************************************)

\* Variant: environments are not limited to those of the time.
EnvironmentsOfScopeNow(scope, seq) ==
    {e \in DOMAIN environments : ScopeIncludesEnvironment(scope, e)}

EnvironmentsOfScopeAt(scope, seq) ==
    {e \in DOMAIN environments :
        environments[e].createdAt <= seq /\ ScopeIncludesEnvironment(scope, e)}

\* Variant: the state with the entry already applied.
ScopeOnceApplied(u, seq) ==
    IF MemberStateAt(u, seq) = Absent THEN ALL_SCOPE ELSE MemberStateAt(u, seq).scope

ScopeBefore(u, seq) ==
    IF MemberStateAt(u, seq - 1) = Absent THEN ALL_SCOPE ELSE MemberStateAt(u, seq - 1).scope

DeviceScopeBefore(u, fp, seq) ==
    IF DeviceStateAt(u, fp, seq - 1) = Absent THEN ALL_SCOPE
    ELSE DeviceStateAt(u, fp, seq - 1).permission.scope

Mandate(kind, seq, E) == [kind |-> kind, seq |-> seq, environments |-> E]

RevokeDeviceMandate(op, seq) ==
    Mandate("device-revoked", seq,
        UNION {EnvironmentsOfScopeAt(DeviceScopeBefore(op.target, fp, seq), seq) : fp \in op.fps})

\* A demotion below member and a narrowing are two mandates of one entry.
ChangeRoleMandates(op, seq) ==
    LET before == MemberStateAt(op.target, seq - 1)
        wasWriter == before = Absent \/ AtLeast(before.role, "member")
        narrowed == EnvironmentsOfScopeAt(ScopeBefore(op.target, seq), seq)
                        \ EnvironmentsOfScopeAt(op.scope, seq)
        demoted == ~AtLeast(op.role, "member") /\ wasWriter
    IN       {m \in {Mandate("role-demoted", seq, EnvironmentsOfScopeAt(op.scope, seq))} : demoted}
        \cup {m \in {Mandate("scope-narrowed", seq, narrowed)} : narrowed # {}}

MandatesOfApplied(a) ==
    LET op == a.operation
    IN  CASE op.op = "remove_member" ->
               {Mandate("member-removed", a.seq,
                   EnvironmentsOfScopeAt(ScopeBefore(op.target, a.seq), a.seq))}
          [] op.op = "revoke_server" ->
               {Mandate("server-revoked", a.seq, EnvironmentsOfScopeAt(ALL_SCOPE, a.seq))}
          [] op.op = "revoke_device" -> {RevokeDeviceMandate(op, a.seq)}
          [] op.op = "change_role" -> ChangeRoleMandates(op, a.seq)
          [] OTHER -> {}

Mandates == UNION {MandatesOfApplied(a) : a \in AppliedOperations}

\* isPendingAt: the current epoch began before the mandate.
IsPending(e, seq) == Last(environments[e].epochStarts) < seq

\* resolveUnconvergedMandates, as (environment, mandate) pairs.
Unconverged ==
    UNION {{[env |-> e, mandate |-> m] :
               e \in {x \in m.environments \cap LiveEnvironments : IsPending(x, m.seq)}} :
           m \in Mandates}

(***************************************************************************)
(* The chain with its entries kept.                                        *)
(***************************************************************************)

RecordEntry(kind, op, id) == entries' = Append(entries, Entry(kind, op, id, applied'.operation))

MandatesInit ==
    /\ HistoryInit
    /\ entries = <<Entry("direct", Genesis, 0, Genesis)>>

MandatesNext ==
    /\ \E d \in devices :
          \/ \E op \in Operations : Direct(d, op) /\ RecordEntry("direct", op, 0)
          \/ \E op \in Operations, expires \in Timestamps :
                Propose(d, op, expires) /\ RecordEntry("propose", op, 0)
          \/ \E id \in DOMAIN pendingProposals :
                \/ \E now \in Timestamps :
                      /\ ApproveVote(d, id, now) \/ ApproveComplete(d, id, now)
                      /\ RecordEntry("approve", Nothing, id)
                \/ Withdraw(d, id) /\ RecordEntry("withdraw", Nothing, id)
    /\ Record

MandatesSpec == MandatesInit /\ [][MandatesNext]_mandateVars

(***************************************************************************)
(* Properties.                                                             *)
(***************************************************************************)

\* Which operations the chain has applied, and when, can be read off the entries
\* and the proposals still pending at the head: votes that no longer counted,
\* withdrawals and proposals left open are told from completions without judging
\* the consensus rules again (indexProposals).  Audit rows and mandates rest on it.
AppliedDerivable ==
    AppliedOperations =
        {[seq |-> s, operation |-> entries[s].effect] :
            s \in {x \in DOMAIN entries : entries[x].effect # Nothing}}

\* Nobody's departure is missed: whoever could open the current epoch of a live
\* environment at some time since it began and is no longer a recipient of it is
\* behind a mandate that is still unconverged, however they lost access, whatever
\* was re-added, re-granted or pruned since (isPendingAt against every mandate).
LeaversPending ==
    \A e \in LiveEnvironments :
        \A s \in Last(environments[e].epochStarts)..headSeq :
            RecipientsIn(snapshots[s], e) \subseteq RecipientsIn(Snapshot, e)
                \/ \E p \in Unconverged : p.env = e /\ p.mandate.seq > s

\* What the entry s took away, by the chain states before and after it.
LossesIn(s) ==
    LET op == entries[s].effect
        before == snapshots[s - 1]
        covered(scope) == {e \in DOMAIN snapshots[s].environments :
                              ScopeIncludesEnvironment(scope, e)}
        person == before.members[op.target]
        revoked == {d \in before.devices : d.user = op.target /\ FingerprintOf(d) \in op.fps}
        narrowed == covered(person.scope) \ covered(op.scope)
    IN  CASE op.op = "remove_member" -> {Mandate("member-removed", s, covered(person.scope))}
          [] op.op = "revoke_server" -> {Mandate("server-revoked", s, covered(ALL_SCOPE))}
          [] op.op = "revoke_device" ->
               {Mandate("device-revoked", s,
                   UNION {covered(EffectivePermission(person, d).scope) : d \in revoked})}
          [] op.op = "change_role" ->
                    {m \in {Mandate("role-demoted", s, covered(op.scope))} :
                        person.role # "reader" /\ op.role = "reader"}
               \cup {m \in {Mandate("scope-narrowed", s, narrowed)} : narrowed # {}}
          [] OTHER -> {}

\* The mandates derived at the head are those of the chain states around each
\* entry: what a run owed is neither lost, widened nor changed when the next run
\* derives it again after re-additions, prunings, deletions and new environments
\* (rotationMandates reads the state of now, a mandate is about the state of then).
MandatesExact == Mandates = UNION {LossesIn(s) : s \in 2..headSeq}

=============================================================================
