------------------------------ MODULE CliSignIn ------------------------------
(***************************************************************************)
(* Sign-in of the command line through the browser, and the API tokens it   *)
(* ends with (apps/server/src/handlers/handlers-auth-cli.ts,                *)
(* auth.package/cli-flow.ts, auth.package/token.ts, db.package/cli-flows.ts,*)
(* db.package/tokens.ts).                                                   *)
(*                                                                         *)
(* A request is a sequence of D1 batches; a batch is one step, and batches  *)
(* of other requests come in between.  A request may die after any of them. *)
(* Flow tokens and the signed query of the browser are unforgeable and      *)
(* carry the expiry of the flow, so they are known by the flow.  A time     *)
(* that a request compares with was read up to MaxLag before the batch.     *)
(***************************************************************************)
EXTENDS Naturals, FiniteSets, Bags

CONSTANTS
    Flows, Users, Names,
    Workers,                    \* requests that are in progress at the same time
    CLI_FLOW_TTL,
    CLI_FLOW_DELETE_GRACE,
    MAX_CONCURRENT_CLI_FLOWS,
    MAX_TOKENS_PER_USER,
    MaxTime,                    \* bound on the clock
    MaxTickets,                 \* bound: arrivals of the browser that reach the database
    MaxLag,
    MaxPollTime                 \* the longest a poll takes from its check to its lookup

ASSUME SignInAssumption ==
    /\ {CLI_FLOW_TTL, CLI_FLOW_DELETE_GRACE, MAX_CONCURRENT_CLI_FLOWS, MAX_TOKENS_PER_USER,
        MaxTime, MaxTickets, MaxLag, MaxPollTime} \subseteq Nat
    /\ MaxPollTime <= CLI_FLOW_DELETE_GRACE
    /\ MaxLag <= CLI_FLOW_DELETE_GRACE

VARIABLES
    clock,
    nameOf,     \* flow -> the token name it was started with
    expiry,     \* flow -> when it expires, 0 when it is not started
    rows,       \* rows of cli_login_flows, by flow
    tickets,    \* how many approval tickets were drawn
    pages,      \* the approval pages shown: flow, ticket, the person signed in there
    tokens,     \* rows of api_tokens
    audit,      \* bag of audit events
    work,       \* what each request is doing
    consents,   \* history: <<flow, person>> whose page was approved
    decided,    \* history: flows that were approved or denied
    issued,     \* history: what every token was issued for
    deleted     \* history: ids of tokens that were revoked

flowVars    == <<nameOf, expiry, rows, tickets, pages, consents, decided>>
tokenVars   == <<tokens, audit, issued, deleted>>
vars        == <<clock, flowVars, tokenVars, work>>

Idle == [at |-> "idle"]

Init ==
    /\ clock = 1
    /\ nameOf \in [Flows -> Names]
    /\ expiry = [f \in Flows |-> 0]
    /\ rows = [f \in {} |-> Idle]
    /\ tickets = 0
    /\ pages = {}
    /\ tokens = {}
    /\ audit = EmptyBag
    /\ work = [w \in Workers |-> Idle]
    /\ consents = {}
    /\ decided = {}
    /\ issued = {}
    /\ deleted = {}

(* Times at which a request may have read the clock. *)
RecentTimes == {t \in 1 .. clock : t + MaxLag >= clock}

Goes(w, state) == work' = [work EXCEPT ![w] = state]

Ends(w) == Goes(w, Idle)

Audited(event) == audit' = audit (+) SetToBag({event})

(***************************************************************************)
(* The flow.                                                               *)
(***************************************************************************)

(* cliStart stores nothing. *)
Start(f) ==
    /\ expiry[f] = 0
    /\ expiry' = [expiry EXCEPT ![f] = clock + CLI_FLOW_TTL]
    /\ UNCHANGED <<clock, nameOf, rows, tickets, pages, consents, decided, tokenVars, work>>

(* The browser comes back from GitHub; the signed query is not expired.  The *)
(* exchange with GitHub takes any time.                                      *)
Arrive(w, f, u) ==
    /\ work[w] = Idle
    /\ expiry[f] > clock
    /\ Goes(w, [at |-> "admit", flow |-> f, user |-> u])
    /\ UNCHANGED <<clock, flowVars, tokenVars>>

PurgedAtExpiry(now) == {f \in DOMAIN rows : rows[f].expires <= now}

(* Rows are deleted once they are past their expiry and the grace. *)
Purged(now) == {f \in DOMAIN rows : rows[f].expires + CLI_FLOW_DELETE_GRACE <= now}

Unconsumed(flows) == {f \in flows : rows[f].status # "consumed"}

(* createOrMatch, first batch: the purge and the conditional insert.  Whether *)
(* the flow has expired since the check is not asked again.                   *)
Admit(w) ==
    /\ work[w].at = "admit"
    /\ tickets < MaxTickets
    /\ tickets' = tickets + 1
    /\ \E now \in RecentTimes :
       LET f    == work[w].flow
           kept == DOMAIN rows \ Purged(now)
       IN  IF f \notin kept /\ Cardinality(Unconsumed(kept)) < MAX_CONCURRENT_CLI_FLOWS
           THEN /\ rows' = [g \in kept \cup {f} |->
                       IF g = f THEN [status |-> "awaiting", user |-> work[w].user,
                                      ticket |-> tickets', expires |-> expiry[f]]
                       ELSE rows[g]]
                /\ pages' = pages \cup {[flow |-> f, ticket |-> tickets', user |-> work[w].user]}
                /\ Ends(w)
           ELSE /\ rows' = [g \in kept |-> rows[g]]
                /\ Goes(w, [at |-> "match", flow |-> f, user |-> work[w].user,
                            ticket |-> tickets', now |-> now])
                /\ UNCHANGED pages
    /\ UNCHANGED <<clock, nameOf, expiry, consents, decided, tokenVars>>

(* Only the person whom the row is for may have the page again. *)
Matches(f, u, now) ==
    /\ f \in DOMAIN rows
    /\ rows[f].user = u
    /\ rows[f].status = "awaiting" /\ rows[f].expires > now

(* createOrMatch, second batch: the ticket is replaced, or the arrival refused. *)
Match(w) ==
    LET state == work[w] IN
    /\ state.at = "match"
    /\ IF Matches(state.flow, state.user, state.now)
       THEN /\ rows' = [rows EXCEPT ![state.flow].ticket = state.ticket]
            /\ pages' = pages \cup
                  {[flow |-> state.flow, ticket |-> state.ticket, user |-> state.user]}
       ELSE UNCHANGED <<rows, pages>>
    /\ Ends(w)
    /\ UNCHANGED <<clock, nameOf, expiry, tickets, consents, decided, tokenVars>>

(* decideCas with the ticket of a page. *)
Decide(page, decision, now) ==
    LET f == page.flow IN
    /\ f \in DOMAIN rows
    /\ rows[f].status = "awaiting"
    /\ rows[f].ticket = page.ticket
    /\ rows[f].expires > now
    /\ rows' = [rows EXCEPT ![f].status = decision]
    /\ decided' = decided \cup {f}
    /\ IF decision = "approved"
       THEN /\ Audited([event |-> "login_succeeded", flow |-> f, user |-> rows[f].user])
            /\ consents' = consents \cup {<<f, page.user>>}
       ELSE UNCHANGED <<audit, consents>>
    /\ UNCHANGED <<clock, nameOf, expiry, tickets, pages, tokens, issued, deleted, work>>

(***************************************************************************)
(* The poll, which ends with the token.                                    *)
(***************************************************************************)

Answer(w, answer) == Goes(w, [at |-> "answered", answer |-> answer, late |-> work[w].late])

(* The flow token is checked; "late" remembers whether the flow was decided. *)
Poll(w, f) ==
    /\ work[w] = Idle
    /\ expiry[f] > clock
    /\ Goes(w, [at |-> "find", flow |-> f, began |-> clock, late |-> f \in decided])
    /\ UNCHANGED <<clock, flowVars, tokenVars>>

Find(w) ==
    LET f == work[w].flow IN
    /\ work[w].at = "find"
    /\ IF f \in DOMAIN rows
       THEN CASE rows[f].status = "awaiting" -> Answer(w, "pending")
              [] rows[f].status = "denied"   -> Answer(w, "denied")
              [] rows[f].status = "consumed" -> Answer(w, "rejected")
              [] rows[f].status = "approved" ->
                    Goes(w, [at |-> "consume", flow |-> f, user |-> rows[f].user,
                             late |-> work[w].late])
       ELSE Answer(w, "pending")
    /\ UNCHANGED <<clock, flowVars, tokenVars>>

ConsumableOnceFound(f) == f \in DOMAIN rows

Consumable(f) == f \in DOMAIN rows /\ rows[f].status = "approved"

(* consumeCas: one poll wins. *)
Consume(w) ==
    LET f == work[w].flow IN
    /\ work[w].at = "consume"
    /\ IF Consumable(f)
       THEN /\ rows' = [rows EXCEPT ![f].status = "consumed"]
            /\ Goes(w, [work[w] EXCEPT !.at = "rotate"])
       ELSE /\ Answer(w, "rejected")
            /\ UNCHANGED rows
    /\ UNCHANGED <<clock, nameOf, expiry, tickets, pages, consents, decided, tokenVars>>

TokensOf(u) == {t \in tokens : t.user = u}

SameName(w) == {t \in TokensOf(work[w].user) : t.name = nameOf[work[w].flow]}

NewToken(w) ==
    [id |-> Cardinality(issued) + 1, user |-> work[w].user, name |-> nameOf[work[w].flow]]

(* The token is stored, with its audit row and the id of the one it replaces. *)
Issues(w, replaced) ==
    /\ tokens' = (tokens \ replaced) \cup {NewToken(w)}
    /\ Audited([event |-> "token_created", id |-> NewToken(w).id,
                replaced |-> {t.id : t \in replaced}])
    /\ issued' = issued \cup {[id |-> NewToken(w).id, flow |-> work[w].flow, user |-> work[w].user]}
    /\ Answer(w, "approved")
    /\ UNCHANGED deleted

(* issueForUserWithinLimit: rotateExistingToken, createNewTokenWithinLimit and *)
(* rotateExistingToken again, a batch each.                                    *)
Rotate(w) ==
    /\ work[w].at = "rotate"
    /\ IF SameName(w) # {}
       THEN Issues(w, SameName(w))
       ELSE /\ Goes(w, [work[w] EXCEPT !.at = "create"])
            /\ UNCHANGED tokenVars
    /\ UNCHANGED <<clock, flowVars>>

NameFree(w) == SameName(w) = {}

MayCreate(w) == NameFree(w) /\ Cardinality(TokensOf(work[w].user)) < MAX_TOKENS_PER_USER

Create(w) ==
    /\ work[w].at = "create"
    /\ IF MayCreate(w)
       THEN Issues(w, {})
       ELSE /\ Goes(w, [work[w] EXCEPT !.at = "rotate again"])
            /\ UNCHANGED tokenVars
    /\ UNCHANGED <<clock, flowVars>>

RotateAgain(w) ==
    /\ work[w].at = "rotate again"
    /\ IF SameName(w) # {}
       THEN Issues(w, SameName(w))
       ELSE /\ Answer(w, "token limit")
            /\ UNCHANGED tokenVars
    /\ UNCHANGED <<clock, flowVars>>

(***************************************************************************)
(* Revocation, the clock, and the end of a request.                        *)
(***************************************************************************)

(* revokeById: the row is deleted, and audited by a statement of its own. *)
Revoke(w, t) ==
    /\ work[w] = Idle
    /\ tokens' = tokens \ {t}
    /\ deleted' = deleted \cup {t.id}
    /\ Goes(w, [at |-> "revoked", id |-> t.id])
    /\ UNCHANGED <<clock, flowVars, audit, issued>>

AuditRevocation(w) ==
    /\ work[w].at = "revoked"
    /\ Audited([event |-> "token_revoked", id |-> work[w].id])
    /\ Ends(w)
    /\ UNCHANGED <<clock, flowVars, tokens, issued, deleted>>

(* The request has answered, or it dies and nothing it did is undone. *)
End(w) ==
    /\ work[w] # Idle
    /\ Ends(w)
    /\ UNCHANGED <<clock, flowVars, tokenVars>>

Tick ==
    /\ clock < MaxTime
    /\ \A w \in Workers : work[w].at = "find" => clock < work[w].began + MaxPollTime
    /\ clock' = clock + 1
    /\ UNCHANGED <<flowVars, tokenVars, work>>

Next ==
    \/ \E f \in Flows : Start(f)
    \/ \E w \in Workers :
          \/ \E f \in Flows, u \in Users : Arrive(w, f, u)
          \/ Admit(w) \/ Match(w)
          \/ \E f \in Flows : Poll(w, f)
          \/ Find(w) \/ Consume(w) \/ Rotate(w) \/ Create(w) \/ RotateAgain(w)
          \/ \E t \in tokens : Revoke(w, t)
          \/ AuditRevocation(w)
          \/ End(w)
    \/ \E page \in pages, decision \in {"approved", "denied"}, now \in RecentTimes :
          Decide(page, decision, now)
    \/ Tick

Spec == Init /\ [][Next]_vars

(***************************************************************************)
(* Properties.                                                             *)
(***************************************************************************)

(* How many audit rows record this event. *)
Copies(event) == IF BagIn(event, audit) THEN audit[event] ELSE 0

(* A flow yields one token, however many polls race for it and whatever     *)
(* becomes of its row, and a token is for the person who approved the page  *)
(* of its flow, with one login on record (consumeCas, decideCas, and the    *)
(* ticket that only createOrMatch of the same person replaces).             *)
TokensFollowApprovals ==
    \A t \in issued :
        /\ \A s \in issued : s.flow = t.flow => s = t
        /\ <<t.flow, t.user>> \in consents
        /\ Copies([event |-> "login_succeeded", flow |-> t.flow, user |-> t.user]) = 1

(* Who polls after the flow was decided is never told to wait on: a row is   *)
(* kept long enough that "no row" means "not arrived yet" (cliPoll and       *)
(* CLI_FLOW_DELETE_GRACE_MS).                                                *)
PollsTruthful ==
    \A w \in Workers : work[w].at = "answered" /\ work[w].late => work[w].answer # "pending"

Replacements(id) ==
    {e \in BagToSet(audit) : e.event = "token_created" /\ id \in e.replaced}

(* A person has at most the allowed number of tokens and one of a name; and  *)
(* the audit log accounts for every token: its creation once, and its end    *)
(* once, as the one replaced by a later token or by revocation, which may    *)
(* be missing from the log and is never there twice (issueForUserWithinLimit,*)
(* revokeById).                                                              *)
TokensAccounted ==
    /\ \A u \in Users : Cardinality(TokensOf(u)) <= MAX_TOKENS_PER_USER
    /\ \A s, t \in tokens : s.user = t.user /\ s.name = t.name => s = t
    /\ \A i \in issued :
          LET alive == i.id \in {t.id : t \in tokens}
          IN  /\ Cardinality({e \in BagToSet(audit) :
                                e.event = "token_created" /\ e.id = i.id}) = 1
              /\ Cardinality(Replacements(i.id)) =
                    IF alive \/ i.id \in deleted THEN 0 ELSE 1
              /\ Copies([event |-> "token_revoked", id |-> i.id]) <=
                    IF i.id \in deleted THEN 1 ELSE 0
=============================================================================
