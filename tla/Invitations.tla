------------------------------ MODULE Invitations ------------------------------
(***************************************************************************)
(* Invitations to a project: the rows in D1 (apps/server/src:               *)
(* handlers/handlers-invites.ts, db.package/invites.ts), the `member add`   *)
(* that turns an accepted one into a member of the chain (apps/cli/src:     *)
(* member.package, invite.package, chain-append.ts), and the completion the *)
(* worker does after the chain has taken the entry                          *)
(* (handlers/handlers-membership.ts).                                      *)
(*                                                                         *)
(* The chain is that of MembershipChain.  A D1 batch is one step; a request *)
(* keeps the time it read when it came in.  An id stands for its link key   *)
(* and issuance; signatures are right, so an acceptance is who accepts with *)
(* which keys.  A run of `member add` takes its view and the listing        *)
(* together; the confirmation of the fingerprint takes any time.  Left out: *)
(* the wraps a new member gets, pins, the fingerprint book, wording.        *)
(***************************************************************************)
EXTENDS MembershipChain, Bags

CONSTANTS
    Invites,                    \* invitation ids
    Terms,                      \* what may be offered: (role, scope)
    Acceptances,                \* who may accept with which keys
    Adders,                     \* people who run `member add`
    Workers,                    \* requests in progress at the same time
    INVITE_TTL_MS,
    INVITE_ISSUE_WINDOW_MS,
    INVITE_ISSUE_WINDOW_LIMIT,
    MAX_PENDING_INVITES_PER_PROJECT,
    MAX_APPEND_ATTEMPTS,
    MaxTime                     \* bound on the clock

ASSUME InvitationsAssumption ==
    /\ Terms \subseteq [role : Roles \ {"owner"}, scope : Scopes]
    /\ Acceptances \subseteq Votes
    /\ Adders \subseteq Users
    /\ {INVITE_TTL_MS, INVITE_ISSUE_WINDOW_MS, INVITE_ISSUE_WINDOW_LIMIT,
        MAX_PENDING_INVITES_PER_PROJECT, MAX_APPEND_ATTEMPTS, MaxTime} \subseteq Nat

VARIABLES
    clock,
    invitations,    \* rows of the invitations table, by id
    inviteAudit,    \* bag of the invite.* audit rows
    work,           \* what each request is doing
    adding,         \* what each run of `member add` is doing
    reconciling,    \* keys added to the chain whose invitations are still to be completed
    joined          \* history: keys that an add_member has put on the chain

rowVars    == <<invitations, inviteAudit>>
inviteVars == <<clock, rowVars, work, adding, reconciling, joined>>
allVars    == <<vars, inviteVars>>

Idle == [at |-> "idle"]

Nobody == [user |-> "nobody"]

Goes(w, state) == work' = [work EXCEPT ![w] = state]

Ends(w) == Goes(w, Idle)

AddGoes(u, state) == adding' = [adding EXCEPT ![u] = state]

AddEnds(u) == AddGoes(u, Idle)

Audited(event, i) == inviteAudit' = inviteAudit (+) SetToBag({[event |-> event, invite |-> i]})

(***************************************************************************)
(* Issuing.                                                                *)
(***************************************************************************)

\* requireProjectChainAdmin and the checks of the command before it signs.
CanIssue(d, terms) ==
    /\ AtLeast(PermissionOf(d).role, "admin")
    /\ terms.role = "admin" => PermissionOf(d).role = "owner"
    /\ terms.scope.ids \subseteq LiveEnvironments
    /\ ScopeContains(PermissionOf(d).scope, terms.scope)

Issue(w, i, terms, d) ==
    /\ work[w] = Idle
    /\ CanIssue(d, terms)
    /\ Goes(w, [at |-> "insert", invite |-> i, terms |-> terms,
                inviter |-> VoteOf(d), now |-> clock])
    /\ UNCHANGED <<vars, clock, rowVars, adding, reconciling, joined>>

PendingInvites(now) ==
    {i \in DOMAIN invitations : invitations[i].status = "pending" /\ invitations[i].expiresAt > now}

\* Variant: a row that is no longer pending is not counted.
IssuedPendingSince(time) ==
    {i \in DOMAIN invitations :
        invitations[i].createdAt >= time /\ invitations[i].status = "pending"}

IssuedSince(time) == {i \in DOMAIN invitations : invitations[i].createdAt >= time}

\* createdAt >= now - window, without leaving Nat.
WithinWindow(now) ==
    IF now > INVITE_ISSUE_WINDOW_MS THEN now - INVITE_ISSUE_WINDOW_MS ELSE 0

\* conditionalInviteInsert: both limits are judged by the statement that inserts; an id
\* that is taken is a conflict.
MayInsert(i, now) ==
    /\ i \notin DOMAIN invitations
    /\ Cardinality(PendingInvites(now)) < MAX_PENDING_INVITES_PER_PROJECT
    /\ Cardinality(IssuedSince(WithinWindow(now))) < INVITE_ISSUE_WINDOW_LIMIT

Insert(w) ==
    LET s == work[w] IN
    /\ s.at = "insert"
    /\ IF MayInsert(s.invite, s.now)
       THEN /\ invitations' = WithKey(invitations, s.invite,
                  [terms |-> s.terms, inviter |-> s.inviter, status |-> "pending",
                   createdAt |-> s.now, expiresAt |-> s.now + INVITE_TTL_MS,
                   acceptance |-> Nobody])
            /\ Audited("created", s.invite)
       ELSE UNCHANGED rowVars
    /\ Ends(w)
    /\ UNCHANGED <<vars, clock, adding, reconciling, joined>>

(***************************************************************************)
(* Accepting and revoking: a check, a compare-and-set with its audit row,   *)
(* and a second look when the compare-and-set has changed nothing.          *)
(***************************************************************************)

\* goneReasonOf.
Gone(i, now) == invitations[i].status # "pending" \/ invitations[i].expiresAt <= now

Accept(w, i, acceptance) ==
    /\ work[w] = Idle
    /\ ~Gone(i, clock)
    /\ Goes(w, [at |-> "accept", invite |-> i, acceptance |-> acceptance, now |-> clock])
    /\ UNCHANGED <<vars, clock, rowVars, adding, reconciling, joined>>

Acceptable(i, now) == invitations[i].status = "pending" /\ invitations[i].expiresAt > now

AcceptCas(w) ==
    LET s == work[w] IN
    /\ s.at = "accept"
    /\ IF Acceptable(s.invite, s.now)
       THEN /\ invitations' = [invitations EXCEPT ![s.invite].status = "accepted",
                                                  ![s.invite].acceptance = s.acceptance]
            /\ Audited("accepted", s.invite)
            /\ Ends(w)
       ELSE /\ Goes(w, [at |-> "accept lost", invite |-> s.invite, now |-> s.now])
            /\ UNCHANGED rowVars
    /\ UNCHANGED <<vars, clock, adding, reconciling, joined>>

\* The time is still that of the check; a loss nobody can explain is a defect.
ExplainAccept(w) ==
    /\ work[w].at = "accept lost"
    /\ IF Gone(work[w].invite, work[w].now) THEN Ends(w) ELSE Goes(w, [at |-> "died"])
    /\ UNCHANGED <<vars, clock, rowVars, adding, reconciling, joined>>

Revoke(w, i) ==
    /\ work[w] = Idle
    /\ Goes(w, [at |-> "revoke", invite |-> i])
    /\ UNCHANGED <<vars, clock, rowVars, adding, reconciling, joined>>

RevokeCas(w) ==
    LET i == work[w].invite IN
    /\ work[w].at = "revoke"
    /\ IF invitations[i].status \in {"pending", "accepted"}
       THEN /\ invitations' = [invitations EXCEPT ![i].status = "revoked"]
            /\ Audited("revoked", i)
            /\ Ends(w)
       ELSE /\ Goes(w, [at |-> "revoke lost", invite |-> i])
            /\ UNCHANGED rowVars
    /\ UNCHANGED <<vars, clock, adding, reconciling, joined>>

ExplainRevoke(w) ==
    /\ work[w].at = "revoke lost"
    /\ IF invitations[work[w].invite].status \in {"pending", "accepted"}
       THEN Goes(w, [at |-> "died"]) ELSE Ends(w)
    /\ UNCHANGED <<vars, clock, rowVars, adding, reconciling, joined>>

(***************************************************************************)
(* What the worker does once the chain has taken an entry.                 *)
(***************************************************************************)

\* An add_member that is applied, directly or by an approval, is to be reconciled.
AfterEntry ==
    IF applied'.operation.op = "add_member"
    THEN LET op   == applied'.operation
             keys == [user |-> op.target, enc |-> op.enc, sig |-> op.sig]
         IN  joined' = joined \cup {keys} /\ reconciling' = reconciling \cup {keys}
    ELSE UNCHANGED <<joined, reconciling>>

\* Entries from elsewhere.
OtherEntry ==
    /\ Next
    /\ AfterEntry
    /\ UNCHANGED <<clock, rowVars, work, adding>>

\* Variant: the keys of the acceptance are not compared.
FulfilledByPerson(keys) ==
    {i \in DOMAIN invitations :
        invitations[i].status = "accepted" /\ invitations[i].acceptance.user = keys.user}

Fulfilled(keys) ==
    {i \in DOMAIN invitations :
        invitations[i].status = "accepted" /\ invitations[i].acceptance = keys}

\* completeAccepted.
Reconcile(keys) ==
    /\ invitations' = [i \in DOMAIN invitations |->
           IF i \in Fulfilled(keys) THEN [invitations[i] EXCEPT !.status = "completed"]
                                    ELSE invitations[i]]
    /\ reconciling' = reconciling \ {keys}
    /\ UNCHANGED <<vars, clock, inviteAudit, work, adding, joined>>

\* The update fails, which is swallowed, or the worker dies before it.
SkipReconcile(keys) ==
    /\ reconciling' = reconciling \ {keys}
    /\ UNCHANGED <<vars, clock, rowVars, work, adding, joined>>

(***************************************************************************)
(* member add, by the person u with one of their devices.                  *)
(***************************************************************************)

AddMemberOf(row) ==
    [op |-> "add_member", target |-> row.acceptance.user, enc |-> row.acceptance.enc,
     sig |-> row.acceptance.sig, role |-> row.terms.role, scope |-> row.terms.scope]

\* The first half of ensureAddable, on the device that signs.
MayAdd(d, op) ==
    /\ AtLeast(PermissionOf(d).role, "admin")
    /\ AtLeast(op.role, "admin") => PermissionOf(d).role = "owner"

\* Variant: nothing is asked again on the fresh view but who signs.
AddableBySigner(v, op) == \E d \in devices : VoteOf(d) = v /\ MayAdd(d, op)

\* ensureAddable on the current head, when the keys are not those of a member already.
Addable(v, op) ==
    /\ op.target \notin DOMAIN members
    /\ ~RegistersTakenKey(op)
    /\ \E d \in devices : /\ VoteOf(d) = v
                          /\ MayAdd(d, op)
                          /\ ScopeContains(PermissionOf(d).scope, op.scope)

\* selectInvitation with an explicit id, and verifyIssuance.
Selectable(row) ==
    /\ row.status # "revoked"
    /\ row.acceptance # Nobody
    /\ IsLiveVote(row.inviter)

\* findPendingSame.
AlreadyPending(op) == \E id \in DOMAIN pendingProposals : pendingProposals[id].inner = op

\* An append or a proposal, signed on the view of now; nothing when the same proposal
\* is pending there.
Signed(v, op, attempt) ==
    LET protected == IsApprovalTarget(op, approvalPolicy) IN
    IF protected /\ AlreadyPending(op) THEN Idle
    ELSE [at |-> IF protected THEN "propose" ELSE "append",
          by |-> v, op |-> op, head |-> headSeq, attempt |-> attempt]

\* prepareMemberAdd, and the choice between an append and a proposal.
StartAdd(u, i) ==
    /\ adding[u].at \in {"idle", "refused"}
    /\ Selectable(invitations[i])
    /\ \E d \in DevicesOf(u) :
          LET op == AddMemberOf(invitations[i]) IN
          /\ Addable(VoteOf(d), op)
          /\ AddGoes(u, Signed(VoteOf(d), op, 1))
    /\ UNCHANGED <<vars, clock, rowVars, work, reconciling, joined>>

Sending(u) == adding[u].at \in {"append", "propose"}

\* The parent is the head and the chain takes the entry.
AppendAdd(u) ==
    /\ adding[u].at = "append"
    /\ adding[u].head = headSeq
    /\ \E d \in devices : VoteOf(d) = adding[u].by /\ Direct(d, adding[u].op)
    /\ AfterEntry
    /\ AddEnds(u)
    /\ UNCHANGED <<clock, rowVars, work>>

ProposeAdd(u) ==
    /\ adding[u].at = "propose"
    /\ adding[u].head = headSeq
    /\ \E d \in devices, expires \in Timestamps :
          VoteOf(d) = adding[u].by /\ Propose(d, adding[u].op, expires)
    /\ AfterEntry
    /\ AddEnds(u)
    /\ UNCHANGED <<clock, rowVars, work>>

\* The chain refuses the entry although its parent is the head.
RefuseAdd(u) ==
    LET run == adding[u] IN
    /\ Sending(u)
    /\ run.head = headSeq
    /\ ~\E d \in devices : /\ VoteOf(d) = run.by
                           /\ RoleRule(run.op, d)
                           /\ IsApprovalTarget(run.op, approvalPolicy) = (run.at = "propose")
                           /\ ConsensusRule(run.op, d)
    /\ AddGoes(u, [at |-> "refused", op |-> run.op])
    /\ UNCHANGED <<vars, clock, rowVars, work, reconciling, joined>>

\* ensureStillTarget and the pre-checks, on the view the conflict has fetched.
Recheck(run) ==
    /\ IsApprovalTarget(run.op, approvalPolicy) = (run.at = "propose")
    /\ Addable(run.by, run.op)

\* A head conflict: once more on the fresh view, or nothing left to append, or an error.
ConflictAdd(u) ==
    LET run == adding[u] IN
    /\ Sending(u)
    /\ run.head # headSeq
    /\ IF Recheck(run) /\ run.attempt < MAX_APPEND_ATTEMPTS
       THEN AddGoes(u, Signed(run.by, run.op, run.attempt + 1))
       ELSE AddEnds(u)
    /\ UNCHANGED <<vars, clock, rowVars, work, reconciling, joined>>

-----------------------------------------------------------------------------

Tick ==
    /\ clock < MaxTime
    /\ clock' = clock + 1
    /\ UNCHANGED <<vars, rowVars, work, adding, reconciling, joined>>

InvitationsInit ==
    /\ Init
    /\ clock = 1
    /\ invitations = [i \in {} |-> Idle]
    /\ inviteAudit = EmptyBag
    /\ work = [w \in Workers |-> Idle]
    /\ adding = [u \in Adders |-> Idle]
    /\ reconciling = {}
    /\ joined = {}

Requests(w) ==
    \/ \E i \in Invites, terms \in Terms, d \in devices : Issue(w, i, terms, d)
    \/ Insert(w)
    \/ \E i \in DOMAIN invitations, a \in Acceptances : Accept(w, i, a)
    \/ AcceptCas(w) \/ ExplainAccept(w)
    \/ \E i \in DOMAIN invitations : Revoke(w, i)
    \/ RevokeCas(w) \/ ExplainRevoke(w)

Adds(u) ==
    \/ \E i \in DOMAIN invitations : StartAdd(u, i)
    \/ AppendAdd(u) \/ ProposeAdd(u) \/ RefuseAdd(u) \/ ConflictAdd(u)

InvitationsNext ==
    \/ \E w \in Workers : Requests(w)
    \/ \E u \in Adders : Adds(u)
    \/ OtherEntry
    \/ \E keys \in reconciling : Reconcile(keys) \/ SkipReconcile(keys)
    \/ Tick

InvitationsSpec == InvitationsInit /\ [][InvitationsNext]_allVars

-----------------------------------------------------------------------------
(***************************************************************************)
(* Properties.                                                             *)
(***************************************************************************)

\* However requests overlap and however old the time is they compare with, never more
\* invitations are open than the cap, and no stretch of time as long as the window sees
\* more issued than its limit (conditionalInviteInsert: "never exceeding 30 in any
\* one-hour interval").
IssuanceBounded ==
    LET Counts(condition(_)) == Cardinality({i \in DOMAIN invitations : condition(invitations[i])})
        Open(row) == row.status = "pending" /\ row.expiresAt > clock
    IN  /\ Counts(Open) <= MAX_PENDING_INVITES_PER_PROJECT
        /\ \A t \in 0 .. clock :
              LET Within(row) == row.createdAt \in t .. t + INVITE_ISSUE_WINDOW_MS
              IN  Counts(Within) <= INVITE_ISSUE_WINDOW_LIMIT

Recorded(event, i) ==
    LET row == [event |-> event, invite |-> i]
    IN  IF BagIn(row, inviteAudit) THEN inviteAudit[row] ELSE 0

OnceIf(condition) == IF condition THEN 1 ELSE 0

\* The life of an invitation can be read from its audit rows: one for each transition
\* that happened and none for one that lost its race, so an acceptance is never replaced;
\* and only an invitation whose very keys an add_member has put on the chain is completed
\* (guardedAuditInsert, acceptCas, revokeCas, completeAccepted).
InvitationsAccounted ==
    /\ \A i \in Invites \ DOMAIN invitations :
          \A event \in {"created", "accepted", "revoked"} : Recorded(event, i) = 0
    /\ \A i \in DOMAIN invitations :
          LET row == invitations[i] IN
          /\ Recorded("created", i) = 1
          /\ Recorded("accepted", i) = OnceIf(row.acceptance # Nobody)
          /\ Recorded("revoked", i) = OnceIf(row.status = "revoked")
          /\ row.status \in {"accepted", "completed"} => row.acceptance # Nobody
          /\ row.status = "completed" => row.acceptance \in joined

\* Whatever fails has its reason.  A compare-and-set that changed nothing is explained by
\* what the row says afterwards, so no request dies over it; and an add_member signed on
\* the head is refused for nothing its pre-checks look at, only because its scope names an
\* environment deleted since the invitation (goneReasonOf, ensureAddable, appendWithCas).
FailuresExplained ==
    /\ \A w \in Workers : work[w].at # "died"
    /\ \A u \in Adders :
          adding[u].at = "refused" => ~(adding[u].op.scope.ids \subseteq LiveEnvironments)

=============================================================================
