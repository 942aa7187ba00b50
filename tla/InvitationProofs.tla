---------------------------- MODULE InvitationProofs ----------------------------
(***************************************************************************)
(* Theorems about invitations: that however requests overlap the limits on  *)
(* issuing hold, that the audit log accounts for every transition of a row, *)
(* and that whatever fails has its reason.                                 *)
(***************************************************************************)
EXTENDS Invitations, FiniteSetTheorems, TLAPS

(***************************************************************************)
(* Rows and requests.                                                      *)
(***************************************************************************)

RowFields == {"terms", "inviter", "status", "createdAt", "expiresAt", "acceptance"}

\* A row of the table, and what its status says of its acceptance.
GoodRow(row) ==
    /\ DOMAIN row = RowFields /\ row = [x \in RowFields |-> row[x]]
    /\ row.terms \in Terms /\ row.terms.scope.ids \subseteq DOMAIN environments
    /\ row.status \in {"pending", "accepted", "revoked", "completed"}
    /\ row.createdAt \in Nat /\ row.expiresAt \in Nat
    /\ row.acceptance \in Acceptances \cup {Nobody}
    /\ row.status = "pending" => row.acceptance = Nobody
    /\ row.status \in {"accepted", "completed"} => row.acceptance # Nobody
    /\ row.status = "completed" => row.acceptance \in joined

\* What a request in progress has read, and why a compare-and-set of its has changed nothing.
GoodRequest(s) ==
    /\ s.at = "insert" => /\ s.invite \in Invites /\ s.terms \in Terms
                          /\ s.terms.scope.ids \subseteq DOMAIN environments
                          /\ s.now \in Nat /\ s.now <= clock
    /\ s.at \in {"accept", "accept lost", "revoke", "revoke lost"} =>
          s.invite \in DOMAIN invitations
    /\ s.at \in {"accept", "accept lost"} => s.now \in Nat
    /\ s.at = "accept" => s.acceptance \in Acceptances
    /\ s.at = "accept lost" => Gone(s.invite, s.now)
    /\ s.at = "revoke lost" => invitations[s.invite].status \notin {"pending", "accepted"}
    /\ s.at # "died"

RowInvariant ==
    /\ clock \in Nat
    /\ DOMAIN invitations \subseteq Invites /\ IsFiniteSet(DOMAIN invitations)
    /\ invitations = [i \in DOMAIN invitations |-> invitations[i]]
    /\ \A i \in DOMAIN invitations : GoodRow(invitations[i])
    /\ IsABag(inviteAudit)
    /\ work = [w \in Workers |-> work[w]]
    /\ \A w \in Workers : GoodRequest(work[w])
    /\ reconciling \subseteq joined

\* Nobody accepts with the keys of nobody.
LEMMA AcceptanceIsSomebody == \A a \in Acceptances : a # Nobody
BY InvitationsAssumption DEF Votes, Nobody

\* A step of a request changes the state of that request alone.
LEMMA GoesEffect ==
    ASSUME RowInvariant, NEW w \in Workers, NEW s, Goes(w, s)
    PROVE  /\ work' = [v \in Workers |-> work'[v]]
           /\ work'[w] = s
           /\ \A v \in Workers : v # w => work'[v] = work[v]
BY DEF RowInvariant, Goes

\* Entries of the chain put more keys on it, and remember which.
LEMMA EntryEffect ==
    ASSUME RowInvariant, AfterEntry
    PROVE  joined \subseteq joined' /\ reconciling' \subseteq joined'
BY DEF RowInvariant, AfterEntry

EnvironmentsShaped ==
    headSeq \in Nat /\ \A e \in DOMAIN environments : "deletedAt" \in DOMAIN environments[e]

\* A transition of the chain keeps every environment, deleted ones as deleted.
LEMMA ApplyKeepsEnvironments ==
    ASSUME NEW op, NEW c, NEW d, ConsensusRule(op, c), Apply(op, d, headSeq + 1)
    PROVE  /\ DOMAIN environments \subseteq DOMAIN environments'
           /\ EnvironmentsShaped =>
                 /\ \A e \in DOMAIN environments' : "deletedAt" \in DOMAIN environments'[e]
                 /\ \A e \in DOMAIN environments :
                       environments[e].deletedAt # 0 => environments'[e].deletedAt # 0
<1>1. CASE op.op = "create_environment"
  <2>1. op.env \notin DOMAIN environments
    BY <1>1 DEF ConsensusRule, CreateEnvironmentRule
  <2>2. environments' = EnvironmentsAfterCreate(op, headSeq + 1)
    BY <1>1 DEF Apply, ApplyCreateEnvironment
  <2>3. QED
    BY <2>1, <2>2 DEF EnvironmentsAfterCreate, WithKey, EnvironmentsShaped
<1>2. CASE op.op = "rotate_epoch"
  <2>1. environments' = EnvironmentsAfterRotate(op, headSeq + 1)
    BY <1>2 DEF Apply, ApplyRotateEpoch
  <2>2. DOMAIN environments' = DOMAIN environments
    BY <2>1 DEF EnvironmentsAfterRotate
  <2>3. ASSUME EnvironmentsShaped, NEW e \in DOMAIN environments
        PROVE  /\ "deletedAt" \in DOMAIN environments'[e]
               /\ environments'[e].deletedAt = environments[e].deletedAt
    BY <2>1, <2>3 DEF EnvironmentsAfterRotate, EnvironmentsShaped
  <2>4. QED
    BY <2>2, <2>3
<1>3. CASE op.op = "delete_environment"
  <2>1. environments' = [environments EXCEPT ![op.env].deletedAt = headSeq + 1]
    BY <1>3 DEF Apply, ApplyDeleteEnvironment
  <2>2. ASSUME EnvironmentsShaped, NEW e \in DOMAIN environments
        PROVE  /\ "deletedAt" \in DOMAIN environments'[e]
               /\ environments'[e].deletedAt \in {environments[e].deletedAt, headSeq + 1}
    BY <2>1, <2>2 DEF EnvironmentsShaped
  <2>3. EnvironmentsShaped => headSeq + 1 # 0
    BY DEF EnvironmentsShaped
  <2>4. DOMAIN environments' = DOMAIN environments
    BY <2>1
  <2>5. QED
    BY <2>2, <2>3, <2>4
<1>4. CASE op.op \notin {"create_environment", "rotate_epoch", "delete_environment"}
  <2>1. UNCHANGED environments
    BY <1>4 DEF Apply, ApplyAddMember, ApplyChangeRole, ApplyRemoveMember, ApplyAddDevice,
       ApplyRevokeDevice, ApplyGrantServer, ApplyRevokeServer, ApplyCheckpoint,
       ApplySetApprovalPolicy, envVars
  <2>2. QED
    BY <2>1 DEF EnvironmentsShaped
<1>5. QED
  BY <1>1, <1>2, <1>3, <1>4

ChainEntry ==
    Next \/ (\E d, op : Direct(d, op)) \/ (\E d, op, expires : Propose(d, op, expires))

\* So does every entry, which is the next one.
LEMMA EntryKeepsEnvironments ==
    ASSUME ChainEntry
    PROVE  /\ DOMAIN environments \subseteq DOMAIN environments'
           /\ headSeq' = headSeq + 1
           /\ EnvironmentsShaped =>
                 /\ EnvironmentsShaped'
                 /\ \A e \in DOMAIN environments :
                       environments[e].deletedAt # 0 => environments'[e].deletedAt # 0
<1> DEFINE Stay == /\ DOMAIN environments \subseteq DOMAIN environments'
                   /\ EnvironmentsShaped =>
                         /\ \A e \in DOMAIN environments' : "deletedAt" \in DOMAIN environments'[e]
                         /\ \A e \in DOMAIN environments :
                               environments[e].deletedAt # 0 => environments'[e].deletedAt # 0
<1>1. headSeq' = headSeq + 1
  BY DEF ChainEntry, Next, Direct, Propose, ApproveVote, ApproveComplete, Withdraw, Signs
<1>2. UNCHANGED environments => Stay
  BY DEF EnvironmentsShaped
<1>3. ASSUME NEW d, NEW op, Direct(d, op) PROVE Stay
  BY <1>3, ApplyKeepsEnvironments DEF Direct
<1>4. ASSUME NEW d, NEW op, NEW expires, Propose(d, op, expires) PROVE Stay
  BY <1>2, <1>4 DEF Propose, ApplyNothing, envVars
<1>5. ASSUME NEW d, NEW id, NEW now, ApproveComplete(d, id, now) PROVE Stay
  <2>1. PICK op : op = pendingProposals[id].inner
    OBVIOUS
  <2>2. \E proposer \in devices : ConsensusRule(op, proposer) /\ Apply(op, proposer, headSeq + 1)
    BY <1>5, <2>1 DEF ApproveComplete
  <2>3. QED
    BY <2>2, ApplyKeepsEnvironments
<1>6. ASSUME NEW d, NEW id, NEW now, ApproveVote(d, id, now) \/ Withdraw(d, id)
      PROVE  Stay
  BY <1>2, <1>6 DEF ApproveVote, Withdraw, ApplyNothing, envVars
<1>7. Stay
  BY <1>3, <1>4, <1>5, <1>6 DEF ChainEntry, Next
<1>8. QED
  BY <1>1, <1>7 DEF EnvironmentsShaped

\* When a request writes a row: the row it inserts, accepts or revokes.
Inserted(w) ==
    /\ work[w].at = "insert" /\ MayInsert(work[w].invite, work[w].now)
    /\ invitations' = WithKey(invitations, work[w].invite,
           [terms |-> work[w].terms, inviter |-> work[w].inviter, status |-> "pending",
            createdAt |-> work[w].now, expiresAt |-> work[w].now + INVITE_TTL_MS,
            acceptance |-> Nobody])
    /\ Audited("created", work[w].invite)

Accepted(w) ==
    /\ work[w].at = "accept" /\ Acceptable(work[w].invite, work[w].now)
    /\ invitations' = [invitations EXCEPT ![work[w].invite].status = "accepted",
                                          ![work[w].invite].acceptance = work[w].acceptance]
    /\ Audited("accepted", work[w].invite)

Revoked(w) ==
    /\ work[w].at = "revoke" /\ invitations[work[w].invite].status \in {"pending", "accepted"}
    /\ invitations' = [invitations EXCEPT ![work[w].invite].status = "revoked"]
    /\ Audited("revoked", work[w].invite)

Completed(keys) ==
    /\ keys \in reconciling /\ UNCHANGED inviteAudit
    /\ invitations' = [i \in DOMAIN invitations |->
           IF i \in Fulfilled(keys) THEN [invitations[i] EXCEPT !.status = "completed"]
                                    ELSE invitations[i]]

\* What steps do to the table, the clock, and the requests.
LEMMA RowSteps ==
    ASSUME RowInvariant, [InvitationsNext]_allVars
    PROVE  /\ clock' \in {clock, clock + 1} /\ joined \subseteq joined' /\ reconciling' \subseteq joined'
           /\ DOMAIN environments \subseteq DOMAIN environments'
           /\ \/ UNCHANGED rowVars
              \/ UNCHANGED clock /\ \E w \in Workers : Inserted(w) /\ Goes(w, Idle)
              \/ UNCHANGED clock /\ \E w \in Workers : Accepted(w) /\ Goes(w, Idle)
              \/ UNCHANGED clock /\ \E w \in Workers : Revoked(w) /\ Goes(w, Idle)
              \/ UNCHANGED <<clock, work>> /\ \E keys \in reconciling : Completed(keys)
<1> DEFINE Kept == /\ joined \subseteq joined' /\ reconciling' \subseteq joined'
                   /\ DOMAIN environments \subseteq DOMAIN environments'
           Goal == /\ clock' \in {clock, clock + 1} /\ Kept
                   /\ \/ UNCHANGED rowVars
                      \/ UNCHANGED clock /\ \E w \in Workers : Inserted(w) /\ Goes(w, Idle)
                      \/ UNCHANGED clock /\ \E w \in Workers : Accepted(w) /\ Goes(w, Idle)
                      \/ UNCHANGED clock /\ \E w \in Workers : Revoked(w) /\ Goes(w, Idle)
                      \/ UNCHANGED <<clock, work>> /\ \E keys \in reconciling : Completed(keys)
<1>0. reconciling \subseteq joined
  BY DEF RowInvariant
<1>1. ASSUME NEW w \in Workers, Requests(w) PROVE Goal
  <2>1. UNCHANGED <<clock, reconciling, joined, environments>>
    BY <1>1 DEF Requests, Issue, Insert, Accept, AcceptCas, ExplainAccept, Revoke, RevokeCas,
                ExplainRevoke, vars, envVars
  <2>2. Insert(w) => UNCHANGED rowVars \/ (Inserted(w) /\ Goes(w, Idle))
    BY DEF Insert, Inserted, Ends
  <2>3. AcceptCas(w) => UNCHANGED rowVars \/ (Accepted(w) /\ Goes(w, Idle))
    BY DEF AcceptCas, Accepted, Ends
  <2>4. RevokeCas(w) => UNCHANGED rowVars \/ (Revoked(w) /\ Goes(w, Idle))
    BY DEF RevokeCas, Revoked, Ends
  <2>5. \/ Insert(w) \/ AcceptCas(w) \/ RevokeCas(w)
        \/ UNCHANGED rowVars
    BY <1>1 DEF Requests, Issue, Accept, ExplainAccept, Revoke, ExplainRevoke
  <2>6. QED
    BY <1>0, <2>1, <2>2, <2>3, <2>4, <2>5
<1>2. ASSUME NEW u \in Adders, Adds(u) PROVE Goal
  <2>1. UNCHANGED <<clock, rowVars>>
    BY <1>2 DEF Adds, StartAdd, AppendAdd, ProposeAdd, RefuseAdd, ConflictAdd
  <2>2. UNCHANGED <<joined, reconciling>> \/ AfterEntry
    BY <1>2 DEF Adds, StartAdd, AppendAdd, ProposeAdd, RefuseAdd, ConflictAdd
  <2>3. UNCHANGED environments \/ ChainEntry
    BY <1>2 DEF Adds, StartAdd, AppendAdd, ProposeAdd, RefuseAdd, ConflictAdd, ChainEntry,
                vars, envVars
  <2>4. QED
    BY <1>0, <2>1, <2>2, <2>3, EntryEffect, EntryKeepsEnvironments
<1>3. ASSUME OtherEntry PROVE Goal
  BY <1>3, EntryEffect, EntryKeepsEnvironments DEF OtherEntry, ChainEntry
<1>4. ASSUME NEW keys \in reconciling, Reconcile(keys) \/ SkipReconcile(keys) PROVE Goal
  BY <1>0, <1>4 DEF Reconcile, SkipReconcile, Completed, rowVars, vars, envVars
<1>5. ASSUME Tick \/ UNCHANGED allVars PROVE Goal
  BY <1>0, <1>5 DEF Tick, allVars, inviteVars, vars, envVars
<1>6. QED
  BY <1>1, <1>2, <1>3, <1>4, <1>5 DEF InvitationsNext

\* A row stays, with its terms and times; it is pending at most as long as it was.
RowAdvances(row, new) ==
    /\ new.terms = row.terms /\ new.createdAt = row.createdAt /\ new.expiresAt = row.expiresAt
    /\ new.status = "pending" => row.status = "pending"
    /\ new.status = "accepted" => row.status \in {"pending", "accepted"}

\* Rows are only added, and advance.
LEMMA RowsAdvance ==
    ASSUME RowInvariant, [InvitationsNext]_allVars
    PROVE  /\ DOMAIN invitations \subseteq DOMAIN invitations'
           /\ \A i \in DOMAIN invitations : RowAdvances(invitations[i], invitations'[i])
<1>1. \A i \in DOMAIN invitations : GoodRow(invitations[i])
  BY DEF RowInvariant
<1>2. \A i \in DOMAIN invitations : RowAdvances(invitations[i], invitations[i])
  BY <1>1 DEF RowAdvances, GoodRow
<1>3. ASSUME UNCHANGED rowVars
      PROVE  /\ DOMAIN invitations \subseteq DOMAIN invitations'
             /\ \A i \in DOMAIN invitations : RowAdvances(invitations[i], invitations'[i])
  BY <1>2, <1>3 DEF rowVars
<1>4. ASSUME NEW w \in Workers, Inserted(w)
      PROVE  /\ DOMAIN invitations \subseteq DOMAIN invitations'
             /\ \A i \in DOMAIN invitations : RowAdvances(invitations[i], invitations'[i])
  BY <1>2, <1>4 DEF Inserted, MayInsert, WithKey
<1>5. ASSUME NEW w \in Workers, Accepted(w) \/ Revoked(w)
      PROVE  /\ DOMAIN invitations \subseteq DOMAIN invitations'
             /\ \A i \in DOMAIN invitations : RowAdvances(invitations[i], invitations'[i])
  BY <1>1, <1>5 DEF Accepted, Acceptable, Revoked, RowAdvances, GoodRow, RowFields
<1>6. ASSUME NEW keys \in reconciling, Completed(keys)
      PROVE  /\ DOMAIN invitations \subseteq DOMAIN invitations'
             /\ \A i \in DOMAIN invitations : RowAdvances(invitations[i], invitations'[i])
  BY <1>1, <1>6 DEF Completed, RowAdvances, GoodRow, RowFields
<1>7. QED
  BY <1>3, <1>4, <1>5, <1>6, RowSteps

\* What was good stays good while keys are only added to the chain.
LEMMA GoodRowKept ==
    ASSUME NEW row, GoodRow(row), joined \subseteq joined',
           DOMAIN environments \subseteq DOMAIN environments'
    PROVE  GoodRow(row)'
BY DEF GoodRow

\* The audit log gains exactly one row.
LEMMA AuditGains ==
    ASSUME NEW event, NEW i, Audited(event, i), IsABag(inviteAudit)
    PROVE  /\ IsABag(inviteAudit')
           /\ Recorded(event, i)' = Recorded(event, i) + 1
           /\ \A e, k : <<e, k>> # <<event, i>> => Recorded(e, k)' = Recorded(e, k)
<1>1. PICK x : x = [event |-> event, invite |-> i]
  OBVIOUS
<1>2. inviteAudit' = inviteAudit (+) SetToBag({x})
  BY <1>1 DEF Audited
<1>3. /\ IsABag(inviteAudit')
      /\ DOMAIN inviteAudit' = DOMAIN inviteAudit \cup {x}
      /\ inviteAudit'[x] = (IF x \in DOMAIN inviteAudit THEN inviteAudit[x] ELSE 0) + 1
      /\ \A y \in DOMAIN inviteAudit : y # x => inviteAudit'[y] = inviteAudit[y]
  BY <1>2 DEF SetToBag, IsABag, (+), BagToSet, BagIn
<1>4. \A e, k : <<e, k>> # <<event, i>> => [event |-> e, invite |-> k] # x
  BY <1>1
<1>5. Recorded(event, i)' = Recorded(event, i) + 1
  BY <1>1, <1>3 DEF Recorded, BagIn, BagToSet
<1>6. ASSUME NEW e, NEW k, <<e, k>> # <<event, i>> PROVE Recorded(e, k)' = Recorded(e, k)
  <2>1. PICK y : y = [event |-> e, invite |-> k]
    OBVIOUS
  <2>2. y # x
    BY <1>4, <1>6, <2>1
  <2>3. QED
    BY <1>3, <2>1, <2>2 DEF Recorded, BagIn, BagToSet
<1>7. QED
  BY <1>3, <1>5, <1>6

\* In the beginning there are no rows and no requests.
LEMMA RowInit == InvitationsInit => RowInvariant
<1> SUFFICES ASSUME InvitationsInit PROVE RowInvariant
  OBVIOUS
<1>1. clock \in Nat /\ reconciling \subseteq joined
  BY DEF InvitationsInit
<1>2. DOMAIN invitations = {} /\ invitations = [i \in DOMAIN invitations |-> invitations[i]]
  BY DEF InvitationsInit
<1>3. IsFiniteSet(DOMAIN invitations)
  BY <1>2, FS_EmptySet
<1>4. IsABag(inviteAudit)
  BY DEF InvitationsInit, EmptyBag, SetToBag, IsABag
<1>5. GoodRequest(Idle)
  BY DEF GoodRequest, Idle
<1>6. work = [w \in Workers |-> work[w]] /\ \A w \in Workers : work[w] = Idle
  BY DEF InvitationsInit
<1>7. QED
  BY <1>1, <1>2, <1>3, <1>4, <1>5, <1>6 DEF RowInvariant

\* A request that goes on has read what is there.
LEMMA RequestsGood ==
    ASSUME RowInvariant, [InvitationsNext]_allVars, NEW v \in Workers
    PROVE  GoodRequest(work[v])' /\ work' = [w \in Workers |-> work'[w]]
<1>1. /\ clock \in Nat /\ clock' \in Nat /\ clock <= clock'
      /\ DOMAIN environments \subseteq DOMAIN environments'
  BY RowSteps DEF RowInvariant
<1>2. /\ DOMAIN invitations \subseteq DOMAIN invitations'
      /\ \A i \in DOMAIN invitations : RowAdvances(invitations[i], invitations'[i])
  BY RowsAdvance
<1>3. \A w \in Workers : GoodRequest(work[w])
  BY DEF RowInvariant
<1>4. ASSUME NEW s, GoodRequest(s) PROVE GoodRequest(s)'
  <2>1. s.at = "insert" => s.now \in Nat /\ s.now <= clock'
    <3>1. SUFFICES ASSUME s.at = "insert" PROVE s.now \in Nat /\ s.now <= clock'
      OBVIOUS
    <3>2. s.now \in Nat /\ s.now <= clock
      BY <1>4, <3>1 DEF GoodRequest
    <3>3. clock' \in Nat /\ clock <= clock'
      BY <1>1
    <3>4. QED
      BY <1>1, <3>2, <3>3
  <2>2. s.at = "accept lost" => Gone(s.invite, s.now)'
    BY <1>2, <1>4 DEF GoodRequest, Gone, RowAdvances
  <2>3. s.at = "revoke lost" => invitations'[s.invite].status \notin {"pending", "accepted"}
    BY <1>2, <1>4 DEF GoodRequest, RowAdvances
  <2>4. QED
    BY <1>1, <1>2, <1>4, <2>1, <2>2, <2>3 DEF GoodRequest
<1>5. UNCHANGED work => GoodRequest(work[v])' /\ work' = [w \in Workers |-> work'[w]]
  <2>1. SUFFICES ASSUME UNCHANGED work PROVE GoodRequest(work[v])'
    BY <2>1 DEF RowInvariant
  <2>2. PICK t : t = work[v]
    OBVIOUS
  <2>3. GoodRequest(t)' /\ t = work'[v]
    BY <1>3, <1>4, <2>1, <2>2
  <2>4. QED
    BY <2>3 DEF GoodRequest, Gone
<1>6. ASSUME NEW w \in Workers, NEW s, Goes(w, s), GoodRequest(s)
      PROVE  GoodRequest(work[v])' /\ work' = [x \in Workers |-> work'[x]]
  <2>1. GoodRequest(s)'
    BY <1>4, <1>6
  <2>2. PICK t : t = work'[v]
    OBVIOUS
  <2>3. t = s \/ t = work[v]
    BY <1>6, <2>2, GoesEffect
  <2>4. GoodRequest(t)'
    BY <1>3, <1>4, <2>1, <2>3
  <2>5. QED
    BY <1>6, <2>2, <2>4, GoesEffect DEF GoodRequest, Gone
<1>7. GoodRequest(Idle)
  BY DEF GoodRequest, Idle
<1>9. ASSUME NEW w \in Workers, Requests(w)
      PROVE  GoodRequest(work[v])' /\ work' = [x \in Workers |-> work'[x]]
  <2>1. CASE \E i \in Invites, terms \in Terms, d \in devices : Issue(w, i, terms, d)
    <3>1. PICK i \in Invites, terms \in Terms, d \in devices : Issue(w, i, terms, d)
      BY <2>1
    <3>2. PICK s : s = [at |-> "insert", invite |-> i, terms |-> terms,
                        inviter |-> VoteOf(d), now |-> clock]
      OBVIOUS
    <3>3. Goes(w, s) /\ GoodRequest(s)
      BY <1>1, <3>1, <3>2 DEF Issue, CanIssue, LiveEnvironments, GoodRequest
    <3>4. QED
      BY <1>6, <3>3
  <2>2. CASE \E i \in DOMAIN invitations, a \in Acceptances : Accept(w, i, a)
    <3>1. PICK i \in DOMAIN invitations, a \in Acceptances : Accept(w, i, a)
      BY <2>2
    <3>2. PICK s : s = [at |-> "accept", invite |-> i, acceptance |-> a, now |-> clock]
      OBVIOUS
    <3>3. Goes(w, s) /\ GoodRequest(s)
      BY <1>1, <3>1, <3>2 DEF Accept, GoodRequest
    <3>4. QED
      BY <1>6, <3>3
  <2>3. CASE \E i \in DOMAIN invitations : Revoke(w, i)
    <3>1. PICK i \in DOMAIN invitations : Revoke(w, i)
      BY <2>3
    <3>2. PICK s : s = [at |-> "revoke", invite |-> i]
      OBVIOUS
    <3>3. Goes(w, s) /\ GoodRequest(s)
      BY <3>1, <3>2 DEF Revoke, GoodRequest
    <3>4. QED
      BY <1>6, <3>3
  <2>4. CASE AcceptCas(w)
    <3>1. PICK s : s = [at |-> "accept lost", invite |-> work[w].invite, now |-> work[w].now]
      OBVIOUS
    <3>2. ~Acceptable(work[w].invite, work[w].now) => GoodRequest(s)
      <4>1. GoodRequest(work[w]) /\ work[w].at = "accept"
        BY <1>3, <2>4 DEF AcceptCas
      <4>2. work[w].invite \in DOMAIN invitations
        BY <4>1 DEF GoodRequest
      <4>3. /\ invitations[work[w].invite].expiresAt \in Nat
            /\ work[w].now \in Nat
        BY <4>1, <4>2 DEF RowInvariant, GoodRow, GoodRequest
      <4>4. ~Acceptable(work[w].invite, work[w].now) => Gone(work[w].invite, work[w].now)
        BY <4>3 DEF Acceptable, Gone
      <4>5. s.at = "accept lost" /\ s.invite = work[w].invite /\ s.now = work[w].now
        BY <3>1
      <4>6. QED
        BY <4>2, <4>3, <4>4, <4>5 DEF GoodRequest, Gone
    <3>3. \/ ~Acceptable(work[w].invite, work[w].now) /\ Goes(w, s)
          \/ Goes(w, Idle)
      BY <2>4, <3>1 DEF AcceptCas, Ends
    <3>4. QED
      BY <1>6, <1>7, <3>2, <3>3
  <2>5. CASE RevokeCas(w)
    <3>1. PICK s : s = [at |-> "revoke lost", invite |-> work[w].invite]
      OBVIOUS
    <3>2. invitations[work[w].invite].status \notin {"pending", "accepted"} => GoodRequest(s)
      BY <1>3, <2>5, <3>1 DEF RevokeCas, GoodRequest
    <3>3. \/ invitations[work[w].invite].status \notin {"pending", "accepted"} /\ Goes(w, s)
          \/ Goes(w, Idle)
      BY <2>5, <3>1 DEF RevokeCas, Ends
    <3>4. QED
      BY <1>6, <1>7, <3>2, <3>3
  <2>6. CASE Insert(w) \/ ExplainAccept(w) \/ ExplainRevoke(w)
    <3>1. GoodRequest(work[w])
      BY <1>3
    <3>2. Goes(w, Idle)
      BY <2>6, <3>1 DEF Insert, ExplainAccept, ExplainRevoke, Ends, GoodRequest
    <3>3. QED
      BY <1>6, <1>7, <3>2
  <2>7. QED
    BY <1>9, <2>1, <2>2, <2>3, <2>4, <2>5, <2>6 DEF Requests
<1>10. ASSUME ~ \E w \in Workers : Requests(w) PROVE UNCHANGED work
  BY <1>10 DEF InvitationsNext, Adds, StartAdd, AppendAdd, ProposeAdd, RefuseAdd, ConflictAdd,
     OtherEntry, Reconcile, SkipReconcile, Tick, allVars, inviteVars
<1>11. QED
  BY <1>5, <1>9, <1>10

\* Every step leaves good rows and good requests.
LEMMA RowStep == RowInvariant /\ [InvitationsNext]_allVars => RowInvariant'
<1> SUFFICES ASSUME RowInvariant, [InvitationsNext]_allVars PROVE RowInvariant'
  OBVIOUS
<1> DEFINE Table ==
             /\ DOMAIN invitations \subseteq Invites /\ IsFiniteSet(DOMAIN invitations)
             /\ invitations = [i \in DOMAIN invitations |-> invitations[i]]
             /\ \A i \in DOMAIN invitations : GoodRow(invitations[i])
             /\ IsABag(inviteAudit)
<1>1. /\ clock' \in {clock, clock + 1} /\ joined \subseteq joined' /\ reconciling' \subseteq joined'
      /\ DOMAIN environments \subseteq DOMAIN environments'
      /\ clock \in Nat /\ clock' \in Nat
  BY RowSteps DEF RowInvariant
<1>2. \A i \in DOMAIN invitations : GoodRow(invitations[i])
  BY DEF RowInvariant
<1>3. /\ DOMAIN invitations \subseteq Invites /\ IsFiniteSet(DOMAIN invitations)
      /\ invitations = [i \in DOMAIN invitations |-> invitations[i]]
      /\ IsABag(inviteAudit)
  BY DEF RowInvariant
<1>4. \A row : GoodRow(row) => GoodRow(row)'
  BY <1>1, GoodRowKept
<1>5. ASSUME UNCHANGED rowVars PROVE Table'
  <2>1. \A i \in DOMAIN invitations : GoodRow(invitations[i])'
    <3>1. TAKE i \in DOMAIN invitations
    <3>2. PICK row : row = invitations[i]
      OBVIOUS
    <3>3. GoodRow(row)' /\ row = invitations'[i]
      BY <1>2, <1>4, <1>5, <3>2 DEF rowVars
    <3>4. QED
      BY <3>3 DEF GoodRow
  <2>2. QED
    BY <1>3, <1>5, <2>1 DEF rowVars
<1>6. ASSUME NEW changed \in DOMAIN invitations', NEW new, GoodRow(new),
             /\ invitations' = [i \in DOMAIN invitations |->
                                  IF i = changed THEN new ELSE invitations[i]]
             /\ IsABag(inviteAudit')
      PROVE  Table'
  <2>1. \A i \in DOMAIN invitations' : GoodRow(invitations[i])'
    <3>1. TAKE i \in DOMAIN invitations'
    <3>2. PICK row : row = invitations'[i]
      OBVIOUS
    <3>3. GoodRow(row)'
      BY <1>2, <1>4, <1>6, <3>2
    <3>4. QED
      BY <3>2, <3>3 DEF GoodRow
  <2>2. QED
    BY <1>3, <1>6, <2>1
<1>7. ASSUME NEW w \in Workers, Inserted(w) PROVE Table'
  <2>1. PICK new : new = [terms |-> work[w].terms, inviter |-> work[w].inviter,
                          status |-> "pending", createdAt |-> work[w].now,
                          expiresAt |-> work[w].now + INVITE_TTL_MS, acceptance |-> Nobody]
    OBVIOUS
  <2>2. PICK i : i = work[w].invite
    OBVIOUS
  <2>3. /\ i \in Invites /\ work[w].terms \in Terms /\ work[w].now \in Nat
        /\ work[w].terms.scope.ids \subseteq DOMAIN environments
    BY <1>7, <2>2 DEF RowInvariant, GoodRequest, Inserted
  <2>4. GoodRow(new)
    BY <2>1, <2>3, InvitationsAssumption DEF GoodRow, RowFields
  <2>5. invitations' = [k \in DOMAIN invitations \cup {i} |->
                          IF k = i THEN new ELSE invitations[k]]
    BY <1>7, <2>1, <2>2 DEF Inserted, WithKey
  <2>6. IsABag(inviteAudit')
    BY <1>3, <1>7, AuditGains DEF Inserted
  <2>7. IsFiniteSet(DOMAIN invitations')
    <3>1. DOMAIN invitations' = DOMAIN invitations \cup {i}
      BY <2>5
    <3>2. QED
      BY <1>3, <3>1, FS_AddElement
  <2>8. \A k \in DOMAIN invitations' : GoodRow(invitations[k])'
    <3>1. TAKE k \in DOMAIN invitations'
    <3>2. PICK row : row = invitations'[k]
      OBVIOUS
    <3>3. GoodRow(row)'
      BY <1>2, <1>4, <2>4, <2>5, <3>2
    <3>4. QED
      BY <3>2, <3>3 DEF GoodRow
  <2>9. QED
    BY <1>3, <2>3, <2>5, <2>6, <2>7, <2>8
<1>8. ASSUME NEW w \in Workers, Accepted(w) PROVE Table'
  <2>1. PICK i : i = work[w].invite
    OBVIOUS
  <2>2. i \in DOMAIN invitations /\ work[w].acceptance \in Acceptances
    BY <1>8, <2>1 DEF RowInvariant, GoodRequest, Accepted
  <2>3. PICK new : new = [invitations[i] EXCEPT !.status = "accepted",
                                               !.acceptance = work[w].acceptance]
    OBVIOUS
  <2>4. GoodRow(new)
    <3>1. GoodRow(invitations[i])
      BY <1>2, <2>2
    <3>2. work[w].acceptance # Nobody
      BY <2>2, AcceptanceIsSomebody
    <3>3. QED
      BY <2>2, <2>3, <3>1, <3>2 DEF GoodRow, RowFields
  <2>5. invitations' = [k \in DOMAIN invitations |-> IF k = i THEN new ELSE invitations[k]]
    BY <1>3, <1>8, <2>1, <2>2, <2>3 DEF Accepted
  <2>6. IsABag(inviteAudit')
    BY <1>3, <1>8, AuditGains DEF Accepted
  <2>7. QED
    BY <1>6, <2>2, <2>4, <2>5, <2>6
<1>9. ASSUME NEW w \in Workers, Revoked(w) PROVE Table'
  <2>1. PICK i : i = work[w].invite
    OBVIOUS
  <2>2. i \in DOMAIN invitations
    BY <1>9, <2>1 DEF RowInvariant, GoodRequest, Revoked
  <2>3. PICK new : new = [invitations[i] EXCEPT !.status = "revoked"]
    OBVIOUS
  <2>4. GoodRow(new)
    BY <1>2, <2>2, <2>3 DEF GoodRow, RowFields
  <2>5. invitations' = [k \in DOMAIN invitations |-> IF k = i THEN new ELSE invitations[k]]
    BY <1>3, <1>9, <2>1, <2>2, <2>3 DEF Revoked
  <2>6. IsABag(inviteAudit')
    BY <1>3, <1>9, AuditGains DEF Revoked
  <2>7. QED
    BY <1>6, <2>2, <2>4, <2>5, <2>6
<1>10. ASSUME NEW keys \in reconciling, Completed(keys) PROVE Table'
  <2>1. keys \in joined
    BY DEF RowInvariant
  <2>2. \A i \in DOMAIN invitations' : GoodRow(invitations[i])'
    <3>1. TAKE i \in DOMAIN invitations'
    <3>2. GoodRow(invitations[i]) /\ i \in DOMAIN invitations
      BY <1>2, <1>10 DEF Completed
    <3>3. PICK row : row = invitations'[i]
      OBVIOUS
    <3>4. GoodRow(row)
      BY <1>10, <2>1, <3>2, <3>3 DEF Completed, Fulfilled, GoodRow, RowFields
    <3>5. QED
      BY <1>4, <3>3, <3>4 DEF GoodRow
  <2>3. QED
    BY <1>3, <1>10, <2>2 DEF Completed
<1>11. Table'
  BY <1>5, <1>7, <1>8, <1>9, <1>10, RowSteps
<1>12. (\A w \in Workers : GoodRequest(work[w]))' /\ (work = [w \in Workers |-> work[w]])'
  <2>1. \A w \in Workers : GoodRequest(work[w])'
    BY RequestsGood
  <2>2. CASE Workers = {}
    <3>1. UNCHANGED work
      BY <2>2 DEF InvitationsNext, Adds, StartAdd, AppendAdd, ProposeAdd, RefuseAdd, ConflictAdd,
         OtherEntry, Reconcile, SkipReconcile, Tick, allVars, inviteVars
    <3>2. QED
      BY <2>1, <3>1 DEF RowInvariant
  <2>3. CASE Workers # {}
    BY <2>1, <2>3, RequestsGood
  <2>4. QED
    BY <2>2, <2>3
<1>13. QED
  BY <1>1, <1>11, <1>12 DEF RowInvariant

\* Whatever requests and runs do, rows and requests stay good: what a status says of the
\* acceptance and of the chain, and what a request may rely on (acceptCas, revokeCas).
THEOREM RowsStayGood == InvitationsSpec => []RowInvariant
BY RowInit, RowStep, PTL DEF InvitationsSpec

(***************************************************************************)
(* The audit log accounts for every transition.                            *)
(***************************************************************************)

\* What the audit log records of an invitation with this row.
RowAccounted(i, row) ==
    /\ Recorded("created", i) = 1
    /\ Recorded("accepted", i) = OnceIf(row.acceptance # Nobody)
    /\ Recorded("revoked", i) = OnceIf(row.status = "revoked")

\* What the audit log records of an invitation that is not there.
NothingRecorded(i) ==
    \A event \in {"created", "accepted", "revoked"} : Recorded(event, i) = 0

\* What a step records is what it does to the rows.
LEMMA AccountStep ==
    RowInvariant /\ InvitationsAccounted /\ [InvitationsNext]_allVars => InvitationsAccounted'
<1> SUFFICES ASSUME RowInvariant, InvitationsAccounted, [InvitationsNext]_allVars
             PROVE  InvitationsAccounted'
  OBVIOUS
<1> DEFINE Accounts ==
             /\ \A i \in Invites \ DOMAIN invitations : NothingRecorded(i)
             /\ \A i \in DOMAIN invitations : RowAccounted(i, invitations[i])
<1>1. Accounts
  BY DEF InvitationsAccounted, NothingRecorded, RowAccounted
<1>2. \A i \in DOMAIN invitations : GoodRow(invitations[i])
  BY DEF RowInvariant
<1>3. IsABag(inviteAudit)
  BY DEF RowInvariant
<1>4. ASSUME UNCHANGED inviteAudit, DOMAIN invitations' = DOMAIN invitations,
             NEW i \in Invites \ DOMAIN invitations'
      PROVE  NothingRecorded(i)'
  BY <1>1, <1>4 DEF NothingRecorded, Recorded
<1>5. ASSUME UNCHANGED inviteAudit, NEW i \in DOMAIN invitations \cap DOMAIN invitations',
             invitations'[i].acceptance = invitations[i].acceptance,
             (invitations'[i].status = "revoked") = (invitations[i].status = "revoked")
      PROVE  RowAccounted(i, invitations[i])'
  BY <1>1, <1>5 DEF RowAccounted, Recorded, OnceIf
<1>6. ASSUME UNCHANGED rowVars PROVE Accounts'
  BY <1>4, <1>5, <1>6 DEF rowVars
<1>7. ASSUME NEW keys \in reconciling, Completed(keys) PROVE Accounts'
  <2>1. UNCHANGED inviteAudit /\ DOMAIN invitations' = DOMAIN invitations
    BY <1>7 DEF Completed
  <2>2. \A i \in DOMAIN invitations :
           /\ invitations'[i].acceptance = invitations[i].acceptance
           /\ (invitations'[i].status = "revoked") = (invitations[i].status = "revoked")
    BY <1>2, <1>7 DEF Completed, Fulfilled, GoodRow, RowFields
  <2>3. QED
    BY <1>4, <1>5, <2>1, <2>2
\* One audit row more, of the invitation that changes.
<1>8. ASSUME NEW event \in {"created", "accepted", "revoked"}, NEW i \in Invites,
             Audited(event, i),
             \A k \in DOMAIN invitations' : k # i =>
                k \in DOMAIN invitations /\ invitations'[k] = invitations[k],
             DOMAIN invitations \subseteq DOMAIN invitations',
             i \in DOMAIN invitations', RowAccounted(i, invitations[i])'
      PROVE  Accounts'
  <2>1. \A e, k : k # i => Recorded(e, k)' = Recorded(e, k)
    BY <1>3, <1>8, AuditGains
  <2>2. ASSUME NEW k \in Invites \ DOMAIN invitations' PROVE NothingRecorded(k)'
    <3>1. k # i /\ NothingRecorded(k)
      BY <1>1, <1>8, <2>2
    <3>2. QED
      BY <2>1, <3>1 DEF NothingRecorded
  <2>3. ASSUME NEW k \in DOMAIN invitations', k # i PROVE RowAccounted(k, invitations[k])'
    <3>1. RowAccounted(k, invitations[k]) /\ invitations'[k] = invitations[k]
      BY <1>1, <1>8, <2>3
    <3>2. QED
      BY <2>1, <2>3, <3>1 DEF RowAccounted, OnceIf
  <2>4. QED
    BY <1>8, <2>2, <2>3
<1>9. ASSUME NEW w \in Workers, Inserted(w) PROVE Accounts'
  <2>1. PICK i : i = work[w].invite
    OBVIOUS
  <2>2. i \in Invites /\ i \notin DOMAIN invitations
    BY <1>9, <2>1 DEF RowInvariant, GoodRequest, Inserted, MayInsert
  <2>3. /\ DOMAIN invitations' = DOMAIN invitations \cup {i}
        /\ \A k \in DOMAIN invitations : invitations'[k] = invitations[k]
        /\ invitations'[i].status = "pending" /\ invitations'[i].acceptance = Nobody
    BY <1>9, <2>1, <2>2 DEF Inserted, WithKey
  <2>4. /\ Recorded("created", i)' = 1
        /\ Recorded("accepted", i)' = 0 /\ Recorded("revoked", i)' = 0
    <3>1. NothingRecorded(i)
      BY <1>1, <2>2
    <3>2. Audited("created", i)
      BY <1>9, <2>1 DEF Inserted
    <3>3. QED
      BY <1>3, <3>1, <3>2, AuditGains DEF NothingRecorded
  <2>5. RowAccounted(i, invitations[i])'
    BY <2>3, <2>4 DEF RowAccounted, OnceIf
  <2>6. Audited("created", i)
    BY <1>9, <2>1 DEF Inserted
  <2>7. QED
    BY <1>8, <2>2, <2>3, <2>5, <2>6
<1>10. ASSUME NEW w \in Workers, Accepted(w) PROVE Accounts'
  <2>1. PICK i : i = work[w].invite
    OBVIOUS
  <2>2. i \in Invites /\ i \in DOMAIN invitations /\ work[w].acceptance # Nobody
    BY <1>10, <2>1, AcceptanceIsSomebody DEF RowInvariant, GoodRequest, Accepted
  <2>3. invitations[i].status = "pending" /\ invitations[i].acceptance = Nobody
    BY <1>2, <1>10, <2>1, <2>2 DEF Accepted, Acceptable, GoodRow
  <2>4. /\ DOMAIN invitations' = DOMAIN invitations
        /\ \A k \in DOMAIN invitations : k # i => invitations'[k] = invitations[k]
    BY <1>10, <2>1, <2>2 DEF Accepted
  <2>5. invitations'[i].status = "accepted" /\ invitations'[i].acceptance # Nobody
    BY <1>2, <1>10, <2>1, <2>2 DEF Accepted, GoodRow, RowFields
  <2>6. Audited("accepted", i)
    BY <1>10, <2>1 DEF Accepted
  <2>7. /\ Recorded("created", i)' = 1
        /\ Recorded("accepted", i)' = 1 /\ Recorded("revoked", i)' = 0
    <3>1. RowAccounted(i, invitations[i])
      BY <1>1, <2>2
    <3>2. QED
      BY <1>3, <2>3, <2>6, <3>1, AuditGains DEF RowAccounted, OnceIf
  <2>8. RowAccounted(i, invitations[i])'
    BY <2>5, <2>7 DEF RowAccounted, OnceIf
  <2>9. QED
    BY <1>8, <2>2, <2>4, <2>6, <2>8
<1>11. ASSUME NEW w \in Workers, Revoked(w) PROVE Accounts'
  <2>1. PICK i : i = work[w].invite
    OBVIOUS
  <2>2. i \in Invites /\ i \in DOMAIN invitations /\ invitations[i].status # "revoked"
    BY <1>11, <2>1 DEF RowInvariant, GoodRequest, Revoked
  <2>3. /\ DOMAIN invitations' = DOMAIN invitations
        /\ \A k \in DOMAIN invitations : k # i => invitations'[k] = invitations[k]
    BY <1>11, <2>1, <2>2 DEF Revoked
  <2>4. invitations'[i].status = "revoked" /\ invitations'[i].acceptance = invitations[i].acceptance
    BY <1>2, <1>11, <2>1, <2>2 DEF Revoked, GoodRow, RowFields
  <2>5. Audited("revoked", i)
    BY <1>11, <2>1 DEF Revoked
  <2>6. /\ Recorded("created", i)' = 1 /\ Recorded("revoked", i)' = 1
        /\ Recorded("accepted", i)' = Recorded("accepted", i)
    <3>1. RowAccounted(i, invitations[i])
      BY <1>1, <2>2
    <3>2. QED
      BY <1>3, <2>2, <2>5, <3>1, AuditGains DEF RowAccounted, OnceIf
  <2>7. RowAccounted(i, invitations[i])'
    BY <1>1, <2>2, <2>4, <2>6 DEF RowAccounted, OnceIf
  <2>8. QED
    BY <1>8, <2>2, <2>3, <2>5, <2>7
<1>12. Accounts'
  BY <1>6, <1>7, <1>9, <1>10, <1>11, RowSteps
<1>13. RowInvariant'
  BY RowStep
<1>14. QED
  BY <1>12, <1>13 DEF InvitationsAccounted, NothingRecorded, RowAccounted, RowInvariant, GoodRow

\* The audit log of invitations accounts for every transition of a row and for nothing
\* else, and an invitation is completed only for keys that are on the chain
\* (guardedAuditInsert, acceptCas, revokeCas, completeAccepted).
THEOREM InvitationsAreAccounted == InvitationsSpec => []InvitationsAccounted
<1>1. InvitationsInit => InvitationsAccounted
  BY DEF InvitationsInit, InvitationsAccounted, Recorded, EmptyBag, SetToBag, BagIn, BagToSet
<1>2. QED
  BY <1>1, RowInit, RowStep, AccountStep, PTL DEF InvitationsSpec

(***************************************************************************)
(* The limits on issuing.                                                  *)
(***************************************************************************)

\* Fewer count no more.
LEMMA FewerCount ==
    ASSUME NEW S, NEW T, IsFiniteSet(S), T \subseteq S, NEW n \in Nat, Cardinality(S) <= n
    PROVE  Cardinality(T) <= n
BY FS_Subset, FS_CardinalityType

\* One more counts one more at most.
LEMMA OneMoreCounts ==
    ASSUME NEW S, NEW T, NEW x, IsFiniteSet(S), T \subseteq S \cup {x},
           NEW n \in Nat, Cardinality(S) < n
    PROVE  Cardinality(T) <= n
<1>1. PICK U : U = S \cup {x}
  OBVIOUS
<1>2. IsFiniteSet(U) /\ Cardinality(U) \in {Cardinality(S), Cardinality(S) + 1}
  BY <1>1, FS_AddElement
<1>3. Cardinality(S) \in Nat
  BY FS_CardinalityType
<1>4. Cardinality(U) <= n
  BY <1>2, <1>3
<1>5. QED
  BY <1>1, <1>2, <1>4, FewerCount

\* The invitations issued in a stretch of time as long as the window.
IssuedIn(t) == {i \in DOMAIN invitations : invitations[i].createdAt \in t .. t + INVITE_ISSUE_WINDOW_MS}

IssuanceInvariant ==
    /\ Cardinality(PendingInvites(clock)) <= MAX_PENDING_INVITES_PER_PROJECT
    /\ \A t \in Nat : Cardinality(IssuedIn(t)) <= INVITE_ISSUE_WINDOW_LIMIT

\* The limits are natural numbers.
LEMMA LimitsType ==
    /\ MAX_PENDING_INVITES_PER_PROJECT \in Nat /\ INVITE_ISSUE_WINDOW_LIMIT \in Nat
    /\ INVITE_ISSUE_WINDOW_MS \in Nat /\ INVITE_TTL_MS \in Nat
BY InvitationsAssumption

\* An invitation that is open later was open before; one that is inserted compared the
\* counts of its own time, which are no smaller than those of now.
LEMMA IssuanceStep ==
    RowInvariant /\ IssuanceInvariant /\ [InvitationsNext]_allVars => IssuanceInvariant'
<1> SUFFICES ASSUME RowInvariant, IssuanceInvariant, [InvitationsNext]_allVars
             PROVE  IssuanceInvariant'
  OBVIOUS
<1>1. /\ clock \in Nat /\ clock' \in Nat /\ clock <= clock'
      /\ IsFiniteSet(DOMAIN invitations)
      /\ \A i \in DOMAIN invitations : GoodRow(invitations[i])
  BY RowSteps DEF RowInvariant
<1>2. /\ DOMAIN invitations \subseteq DOMAIN invitations'
      /\ \A i \in DOMAIN invitations : RowAdvances(invitations[i], invitations'[i])
  BY RowsAdvance
<1>3. \A i \in DOMAIN invitations :
         /\ invitations[i].createdAt \in Nat /\ invitations[i].expiresAt \in Nat
         /\ invitations'[i].createdAt = invitations[i].createdAt
         /\ invitations'[i].expiresAt = invitations[i].expiresAt
         /\ invitations'[i].status = "pending" => invitations[i].status = "pending"
  BY <1>1, <1>2 DEF GoodRow, RowAdvances
<1>4. \A time : IsFiniteSet(PendingInvites(time)) /\ IsFiniteSet(IssuedIn(time))
                /\ IsFiniteSet(IssuedSince(time))
  <2>1. TAKE time
  <2>2. /\ PendingInvites(time) \subseteq DOMAIN invitations
        /\ IssuedIn(time) \subseteq DOMAIN invitations
        /\ IssuedSince(time) \subseteq DOMAIN invitations
    BY DEF PendingInvites, IssuedIn, IssuedSince
  <2>3. QED
    BY <1>1, <2>2, FS_Subset
<1>5. ASSUME DOMAIN invitations' = DOMAIN invitations PROVE IssuanceInvariant'
  <2>1. PendingInvites(clock)' \subseteq PendingInvites(clock)
    BY <1>1, <1>3, <1>5 DEF PendingInvites
  <2>2. Cardinality(PendingInvites(clock)') <= MAX_PENDING_INVITES_PER_PROJECT
    BY <1>4, <2>1, FewerCount, LimitsType DEF IssuanceInvariant
  <2>3. ASSUME NEW t \in Nat PROVE Cardinality(IssuedIn(t)') <= INVITE_ISSUE_WINDOW_LIMIT
    <3>1. IssuedIn(t)' \subseteq IssuedIn(t)
      BY <1>3, <1>5 DEF IssuedIn
    <3>2. QED
      BY <1>4, <3>1, FewerCount, LimitsType DEF IssuanceInvariant
  <2>4. QED
    BY <2>2, <2>3 DEF IssuanceInvariant
<1>6. ASSUME NEW w \in Workers, Inserted(w), UNCHANGED clock PROVE IssuanceInvariant'
  <2>1. PICK i, now : i = work[w].invite /\ now = work[w].now
    OBVIOUS
  <2>2. now \in Nat /\ now <= clock /\ i \notin DOMAIN invitations
    BY <1>6, <2>1 DEF RowInvariant, GoodRequest, Inserted, MayInsert
  <2>3. /\ DOMAIN invitations' = DOMAIN invitations \cup {i}
        /\ \A k \in DOMAIN invitations : invitations'[k] = invitations[k]
        /\ invitations'[i].createdAt = now
    BY <1>6, <2>1, <2>2 DEF Inserted, WithKey
  <2>4. Cardinality(PendingInvites(now)) < MAX_PENDING_INVITES_PER_PROJECT
    BY <1>6, <2>1 DEF Inserted, MayInsert
  <2>5. Cardinality(IssuedSince(WithinWindow(now))) < INVITE_ISSUE_WINDOW_LIMIT
    BY <1>6, <2>1 DEF Inserted, MayInsert
  <2>6. PendingInvites(clock)' \subseteq PendingInvites(now) \cup {i}
    BY <1>1, <1>3, <1>6, <2>2, <2>3 DEF PendingInvites
  <2>7. Cardinality(PendingInvites(clock)') <= MAX_PENDING_INVITES_PER_PROJECT
    BY <1>4, <2>4, <2>6, OneMoreCounts, LimitsType
  <2>8. ASSUME NEW t \in Nat PROVE Cardinality(IssuedIn(t)') <= INVITE_ISSUE_WINDOW_LIMIT
    <3>1. CASE now \in t .. t + INVITE_ISSUE_WINDOW_MS
      <4>1. WithinWindow(now) <= t /\ WithinWindow(now) \in Nat
        BY <2>2, <3>1, LimitsType DEF WithinWindow
      <4>2. IssuedIn(t)' \subseteq IssuedSince(WithinWindow(now)) \cup {i}
        BY <1>3, <2>3, <4>1, LimitsType DEF IssuedIn, IssuedSince
      <4>3. QED
        BY <1>4, <2>5, <4>2, OneMoreCounts, LimitsType
    <3>2. CASE now \notin t .. t + INVITE_ISSUE_WINDOW_MS
      <4>1. IssuedIn(t)' \subseteq IssuedIn(t)
        BY <2>3, <3>2 DEF IssuedIn
      <4>2. QED
        BY <1>4, <4>1, FewerCount, LimitsType DEF IssuanceInvariant
    <3>3. QED
      BY <3>1, <3>2
  <2>9. QED
    BY <2>7, <2>8 DEF IssuanceInvariant
<1>7. ASSUME \/ UNCHANGED rowVars
             \/ \E w \in Workers : Accepted(w) \/ Revoked(w)
             \/ \E keys \in reconciling : Completed(keys)
      PROVE  DOMAIN invitations' = DOMAIN invitations
  BY <1>7 DEF rowVars, Accepted, Revoked, Completed
<1>8. QED
  BY <1>5, <1>6, <1>7, RowSteps

\* However requests overlap and however old the time is they compare with, there are never
\* more open invitations than the cap, nor more issued in any stretch of time as long as
\* the window than its limit (conditionalInviteInsert).
THEOREM IssuanceStaysBounded == InvitationsSpec => []IssuanceBounded
<1>1. InvitationsInit => IssuanceInvariant
  <2> SUFFICES ASSUME InvitationsInit PROVE IssuanceInvariant
    OBVIOUS
  <2>1. PendingInvites(clock) = {} /\ \A t \in Nat : IssuedIn(t) = {}
    BY DEF InvitationsInit, PendingInvites, IssuedIn
  <2>2. QED
    BY <2>1, FS_EmptySet, LimitsType DEF IssuanceInvariant
<1>2. RowInvariant /\ IssuanceInvariant => IssuanceBounded
  BY DEF RowInvariant, IssuanceInvariant, IssuanceBounded, PendingInvites, IssuedIn
<1>3. QED
  BY <1>1, <1>2, RowInit, RowStep, IssuanceStep, PTL DEF InvitationsSpec

(***************************************************************************)
(* Whatever fails has its reason.                                          *)
(***************************************************************************)

\* What a run of `member add` knows of the head it signed on, and why it was refused.
GoodRun(run) ==
    /\ run.at \in {"append", "propose"} =>
          /\ run.op.op = "add_member" /\ run.op.role \in Roles \ {"owner"}
          /\ run.op.scope.ids \subseteq DOMAIN environments
          /\ run.head \in Nat /\ run.head <= headSeq
          /\ run.head = headSeq =>
                Addable(run.by, run.op)
                /\ (IsApprovalTarget(run.op, approvalPolicy) <=> run.at = "propose")
    /\ run.at = "refused" =>
          /\ run.op.scope.ids \subseteq DOMAIN environments
          /\ ~(run.op.scope.ids \subseteq LiveEnvironments)

RunInvariant ==
    /\ EnvironmentsShaped
    /\ adding = [u \in Adders |-> adding[u]]
    /\ \A u \in Adders : GoodRun(adding[u])

\* Every step is an entry of the chain or leaves the chain alone.
LEMMA ChainSteps == [InvitationsNext]_allVars => ChainEntry \/ UNCHANGED vars
<1>1. ASSUME NEW w \in Workers, Requests(w) PROVE UNCHANGED vars
  BY <1>1 DEF Requests, Issue, Insert, Accept, AcceptCas, ExplainAccept, Revoke, RevokeCas,
              ExplainRevoke
<1>2. ASSUME NEW u \in Adders, Adds(u) PROVE ChainEntry \/ UNCHANGED vars
  BY <1>2 DEF Adds, StartAdd, AppendAdd, ProposeAdd, RefuseAdd, ConflictAdd, ChainEntry
<1>3. QED
  BY <1>1, <1>2 DEF InvitationsNext, OtherEntry, ChainEntry, Reconcile, SkipReconcile, Tick, allVars

\* An entry leaves a run that has signed on an older head, and an environment that is
\* gone stays gone.
LEMMA GoodRunKept ==
    ASSUME EnvironmentsShaped, NEW run, GoodRun(run), ChainEntry \/ UNCHANGED vars
    PROVE  GoodRun(run)'
<1>1. CASE ChainEntry
  <2>1. /\ DOMAIN environments \subseteq DOMAIN environments'
        /\ headSeq' = headSeq + 1
        /\ \A e \in DOMAIN environments :
              environments[e].deletedAt # 0 => environments'[e].deletedAt # 0
    BY <1>1, EntryKeepsEnvironments
  <2>2. run.at \in {"append", "propose"} =>
           run.head \in Nat /\ run.head <= headSeq' /\ run.head # headSeq'
    BY <2>1 DEF GoodRun, EnvironmentsShaped
  <2>3. run.at = "refused" => ~(run.op.scope.ids \subseteq LiveEnvironments')
    BY <2>1 DEF GoodRun, LiveEnvironments
  <2>4. QED
    BY <2>1, <2>2, <2>3 DEF GoodRun
<1>2. CASE UNCHANGED vars
  <2>1. UNCHANGED <<members, devices, memberEncPubs, memberSigPubs, namedServerKeys,
                    environments, approvalPolicy, headSeq>>
    BY <1>2 DEF vars, memberVars, grantVars, envVars
  <2>2. (Addable(run.by, run.op) <=> Addable(run.by, run.op)')
    BY <2>1 DEF Addable, RegistersTakenKey, MayAdd, PermissionOf
  <2>3. LiveEnvironments' = LiveEnvironments
    BY <2>1 DEF LiveEnvironments
  <2>4. QED
    BY <2>1, <2>2, <2>3 DEF GoodRun, IsApprovalTarget
<1>3. QED
  BY <1>1, <1>2

\* What is signed on a view on which it is addable is good.
LEMMA SignedIsGood ==
    ASSUME NEW by, NEW op, NEW attempt, EnvironmentsShaped,
           op.op = "add_member", op.role \in Roles \ {"owner"},
           op.scope.ids \subseteq DOMAIN environments, Addable(by, op)
    PROVE  GoodRun(Signed(by, op, attempt))
<1>1. CASE IsApprovalTarget(op, approvalPolicy) /\ AlreadyPending(op)
  BY <1>1 DEF Signed, GoodRun, Idle
<1>2. CASE ~(IsApprovalTarget(op, approvalPolicy) /\ AlreadyPending(op))
  <2>1. PICK run : run = Signed(by, op, attempt)
    OBVIOUS
  <2>2. /\ run.by = by /\ run.op = op /\ run.head = headSeq
        /\ run.at = IF IsApprovalTarget(op, approvalPolicy) THEN "propose" ELSE "append"
    BY <1>2, <2>1 DEF Signed
  <2>3. GoodRun(run)
    BY <2>2 DEF GoodRun, EnvironmentsShaped
  <2>4. QED
    BY <2>1, <2>3
<1>3. QED
  BY <1>1, <1>2

\* The chain refuses an entry signed on its head only for an environment that is gone.
LEMMA RefusedForAScope ==
    ASSUME NEW run, GoodRun(run), run.at \in {"append", "propose"}, run.head = headSeq,
           ~\E d \in devices : /\ VoteOf(d) = run.by
                               /\ RoleRule(run.op, d)
                               /\ IsApprovalTarget(run.op, approvalPolicy) = (run.at = "propose")
                               /\ ConsensusRule(run.op, d)
    PROVE  ~(run.op.scope.ids \subseteq LiveEnvironments)
<1>1. /\ run.op.op = "add_member" /\ run.op.role \in Roles \ {"owner"}
      /\ Addable(run.by, run.op)
      /\ IsApprovalTarget(run.op, approvalPolicy) <=> run.at = "propose"
  BY DEF GoodRun
<1>2. IsApprovalTarget(run.op, approvalPolicy) = (run.at = "propose")
  BY <1>1 DEF IsApprovalTarget
<1>3. PICK d \in devices : /\ VoteOf(d) = run.by
                           /\ MayAdd(d, run.op)
                           /\ ScopeContains(PermissionOf(d).scope, run.op.scope)
  BY <1>1 DEF Addable
<1>4. RoleRule(run.op, d)
  <2>1. MinimumRole(run.op) = IF AtLeast(run.op.role, "admin") THEN "owner" ELSE "admin"
    BY <1>1 DEF MinimumRole
  <2>2. AtLeast("owner", "owner")
    BY DEF AtLeast, ROLE_RANK
  <2>3. QED
    BY <1>3, <2>1, <2>2 DEF RoleRule, MayAdd
<1>5. SUFFICES ASSUME run.op.scope.ids \subseteq LiveEnvironments PROVE FALSE
  OBVIOUS
<1>6. AddMemberRule(run.op, d)
  BY <1>1, <1>3, <1>5 DEF AddMemberRule, ScopeEnvironmentsRule, ScopeRoleRule, Addable
<1>7. ConsensusRule(run.op, d)
  BY <1>1, <1>6 DEF ConsensusRule
<1>8. QED
  BY <1>2, <1>3, <1>4, <1>7

\* A run goes on with what is addable on its view.
LEMMA RunStep ==
    RowInvariant /\ RunInvariant /\ [InvitationsNext]_allVars => RunInvariant'
<1> SUFFICES ASSUME RowInvariant, RunInvariant, [InvitationsNext]_allVars PROVE RunInvariant'
  OBVIOUS
<1>1. \A u \in Adders : GoodRun(adding[u])
  BY DEF RunInvariant
<1>2. ChainEntry \/ UNCHANGED vars
  BY ChainSteps
<1>3. \A run : GoodRun(run) => GoodRun(run)'
  BY <1>2, GoodRunKept DEF RunInvariant
<1>4. EnvironmentsShaped'
  <2>1. CASE ChainEntry
    BY <2>1, EntryKeepsEnvironments DEF RunInvariant
  <2>2. CASE UNCHANGED vars
    BY <2>2 DEF RunInvariant, EnvironmentsShaped, vars, envVars
  <2>3. QED
    BY <1>2, <2>1, <2>2
<1> DEFINE Good == /\ adding' = [u \in Adders |-> adding'[u]]
                   /\ \A u \in Adders : GoodRun(adding[u])'
<1>5. UNCHANGED adding => Good
  <2>1. SUFFICES ASSUME UNCHANGED adding, NEW u \in Adders PROVE GoodRun(adding[u])'
    BY <2>1 DEF RunInvariant
  <2>2. PICK run : run = adding[u]
    OBVIOUS
  <2>3. GoodRun(run)' /\ run = adding'[u]
    BY <1>1, <1>3, <2>1, <2>2
  <2>4. QED
    BY <2>3
<1>6. ASSUME NEW u \in Adders, NEW run, AddGoes(u, run), GoodRun(run) PROVE Good
  <2>1. /\ adding' = [v \in Adders |-> adding'[v]]
        /\ \A v \in Adders : adding'[v] = IF v = u THEN run ELSE adding[v]
    BY <1>6 DEF AddGoes, RunInvariant
  <2>2. ASSUME NEW v \in Adders PROVE GoodRun(adding[v])'
    <3>1. PICK next : next = adding'[v]
      OBVIOUS
    <3>2. GoodRun(next)
      BY <1>1, <1>6, <2>1, <3>1
    <3>3. GoodRun(next)'
      BY <1>3, <3>2
    <3>4. QED
      BY <3>1, <3>3
  <2>3. QED
    BY <2>1, <2>2
<1>7. GoodRun(Idle)
  BY DEF GoodRun, Idle
<1>8. ASSUME NEW u \in Adders, Adds(u) PROVE Good
  <2>1. CASE AppendAdd(u) \/ ProposeAdd(u)
    BY <1>6, <1>7, <2>1 DEF AppendAdd, ProposeAdd, AddEnds
  <2>2. CASE \E i \in DOMAIN invitations : StartAdd(u, i)
    <3>1. PICK i \in DOMAIN invitations : StartAdd(u, i)
      BY <2>2
    <3>2. PICK op : op = AddMemberOf(invitations[i])
      OBVIOUS
    <3>3. PICK d \in DevicesOf(u) : /\ Addable(VoteOf(d), op)
                                    /\ AddGoes(u, Signed(VoteOf(d), op, 1))
      BY <3>1, <3>2 DEF StartAdd
    <3>4. /\ invitations[i].terms \in Terms
          /\ invitations[i].terms.scope.ids \subseteq DOMAIN environments
      BY DEF RowInvariant, GoodRow
    <3>5. /\ op.op = "add_member" /\ op.role \in Roles \ {"owner"}
          /\ op.scope.ids \subseteq DOMAIN environments
      BY <3>2, <3>4, InvitationsAssumption DEF AddMemberOf
    <3>6. GoodRun(Signed(VoteOf(d), op, 1))
      BY <3>3, <3>5, SignedIsGood DEF RunInvariant
    <3>7. QED
      BY <1>6, <3>3, <3>6
  <2>3. CASE RefuseAdd(u)
    <3>1. PICK run : run = adding[u]
      OBVIOUS
    <3>2. GoodRun(run) /\ run.at \in {"append", "propose"}
      BY <1>1, <2>3, <3>1 DEF RefuseAdd, Sending
    <3>3. ~(run.op.scope.ids \subseteq LiveEnvironments)
      BY <2>3, <3>1, <3>2, RefusedForAScope DEF RefuseAdd
    <3>4. PICK next : next = [at |-> "refused", op |-> run.op]
      OBVIOUS
    <3>5. GoodRun(next)
      BY <3>2, <3>3, <3>4 DEF GoodRun
    <3>6. AddGoes(u, next)
      BY <2>3, <3>1, <3>4 DEF RefuseAdd
    <3>7. QED
      BY <1>6, <3>5, <3>6
  <2>4. CASE ConflictAdd(u)
    <3>1. PICK run : run = adding[u]
      OBVIOUS
    <3>2. GoodRun(run) /\ run.at \in {"append", "propose"}
      BY <1>1, <2>4, <3>1 DEF ConflictAdd, Sending
    <3>3. \/ AddGoes(u, Idle)
          \/ Recheck(run) /\ AddGoes(u, Signed(run.by, run.op, run.attempt + 1))
      BY <2>4, <3>1 DEF ConflictAdd, AddEnds
    <3>4. Recheck(run) => GoodRun(Signed(run.by, run.op, run.attempt + 1))
      BY <3>2, SignedIsGood DEF Recheck, GoodRun, RunInvariant
    <3>5. QED
      BY <1>6, <1>7, <3>3, <3>4
  <2>5. QED
    BY <1>8, <2>1, <2>2, <2>3, <2>4 DEF Adds
<1>9. ASSUME ~ \E u \in Adders : Adds(u) PROVE UNCHANGED adding
  <2>1. ASSUME NEW w \in Workers, Requests(w) PROVE UNCHANGED adding
    BY <2>1 DEF Requests, Issue, Insert, Accept, AcceptCas, ExplainAccept, Revoke, RevokeCas,
                ExplainRevoke
  <2>2. QED
    BY <1>9, <2>1 DEF InvitationsNext, OtherEntry, Reconcile, SkipReconcile, Tick, allVars, inviteVars
<1>10. QED
  BY <1>4, <1>5, <1>8, <1>9 DEF RunInvariant

\* A compare-and-set that changed nothing is always explained by what the row says
\* afterwards, and an add_member signed on the head is refused for a deleted environment
\* of its scope only, never for what the pre-checks look at (goneReasonOf, ensureAddable,
\* appendWithCas).
THEOREM FailuresAreExplained == InvitationsSpec => []FailuresExplained
<1>1. InvitationsInit => RunInvariant
  BY DEF InvitationsInit, Init, RunInvariant, EnvironmentsShaped, GoodRun, Idle
<1>2. RowInvariant /\ RunInvariant => FailuresExplained
  BY DEF RowInvariant, GoodRequest, RunInvariant, GoodRun, FailuresExplained
<1>3. QED
  BY <1>1, <1>2, RowInit, RowStep, RunStep, PTL DEF InvitationsSpec

=============================================================================
