------------------------------ MODULE SignInProofs ------------------------------
(***************************************************************************)
(* Theorems about signing in from the command line: that polls are told the *)
(* truth, that a token is for the person who approved and only one is       *)
(* issued per flow, and that tokens and audit log account for each other.   *)
(*                                                                         *)
(* Three inductive invariants, one per theorem, over the types: what a      *)
(* decided flow leaves behind, who may still spend an approval, and which   *)
(* ids and audit rows exist.                                               *)
(***************************************************************************)
EXTENDS CliSignIn, FiniteSetTheorems, TLAPS

(***************************************************************************)
(* Types.                                                                  *)
(***************************************************************************)

Spending == {"rotate", "create", "rotate again"}

Rows == [status : {"awaiting", "approved", "denied", "consumed"}, user : Users,
         ticket : Nat, expires : Nat]

Pages == [flow : Flows, ticket : Nat, user : Users]

IdleWork     == [at : {"idle"}]
AdmitWork    == [at : {"admit"}, flow : Flows, user : Users]
MatchWork    == [at : {"match"}, flow : Flows, user : Users, ticket : Nat, now : Nat]
FindWork     == [at : {"find"}, flow : Flows, began : Nat, late : BOOLEAN]
ApprovedWork == [at : {"consume"} \cup Spending, flow : Flows, user : Users, late : BOOLEAN]
AnsweredWork ==
    [at : {"answered"}, late : BOOLEAN,
     answer : {"pending", "denied", "rejected", "approved", "token limit"}]
RevokedWork  == [at : {"revoked"}, id : Nat]

Works == IdleWork \cup AdmitWork \cup MatchWork \cup FindWork \cup ApprovedWork
            \cup AnsweredWork \cup RevokedWork

Typed ==
    /\ clock \in Nat
    /\ nameOf \in [Flows -> Names]
    /\ expiry \in [Flows -> Nat]
    /\ DOMAIN rows \subseteq Flows /\ rows \in [DOMAIN rows -> Rows]
    /\ tickets \in Nat
    /\ pages \subseteq Pages
    /\ tokens \subseteq [id : Nat, user : Users, name : Names]
    /\ IsABag(audit)
    /\ work \in [Workers -> Works]
    /\ consents \subseteq Flows \X Users
    /\ decided \subseteq Flows
    /\ issued \subseteq [id : Nat, flow : Flows, user : Users] /\ IsFiniteSet(issued)
    /\ deleted \subseteq Nat

\* What a request in a state is: the fields it has.
LEMMA WorkShapes ==
    ASSUME NEW s \in Works
    PROVE  /\ s.at = "idle" => s = Idle
           /\ s.at = "admit" => s \in AdmitWork
           /\ s.at = "match" => s \in MatchWork
           /\ s.at = "find" => s \in FindWork
           /\ s.at \in {"consume"} \cup Spending => s \in ApprovedWork
           /\ s.at = "answered" => s \in AnsweredWork
           /\ s.at = "revoked" => s \in RevokedWork
BY DEF Works, Idle, IdleWork, AdmitWork, MatchWork, FindWork, ApprovedWork, AnsweredWork,
       RevokedWork, Spending

\* A step of a request changes the state of that request alone.
LEMMA GoesEffect ==
    ASSUME Typed, NEW w \in Workers, NEW s, Goes(w, s)
    PROVE  /\ work'[w] = s
           /\ \A v \in Workers : v # w => work'[v] = work[v]
           /\ s \in Works => work' \in [Workers -> Works]
BY DEF Typed, Goes

\* An audit row adds one copy of its event, and changes no other.
LEMMA AuditStep ==
    ASSUME NEW x, Audited(x), IsABag(audit)
    PROVE  /\ IsABag(audit)'
           /\ Copies(x)' = Copies(x) + 1
           /\ \A y : y # x => Copies(y)' = Copies(y)
           /\ BagToSet(audit)' = BagToSet(audit) \cup {x}
BY DEF Copies, Audited, BagIn, SetToBag, IsABag, (+), BagToSet

\* An event has a natural number of copies.
LEMMA CopiesType == ASSUME NEW x, IsABag(audit) PROVE Copies(x) \in Nat
BY DEF Copies, IsABag, BagIn, BagToSet

\* The initial values have their types.
LEMMA TypedInit == Init => Typed
BY SignInAssumption, FS_EmptySet
DEF Init, Typed, Works, Idle, IdleWork, EmptyBag, IsABag, SetToBag

\* A new token is a token; storing it keeps the types.
LEMMA IssuesTyped ==
    ASSUME Typed, NEW w \in Workers, work[w].at \in Spending,
           NEW replaced \in SUBSET tokens, Issues(w, replaced), UNCHANGED <<clock, flowVars>>
    PROVE  Typed'
<1>1. work[w] \in ApprovedWork
  BY WorkShapes DEF Typed
<1>2. work[w].user \in Users /\ work[w].flow \in Flows /\ work[w].late \in BOOLEAN
  BY <1>1 DEF ApprovedWork
<1>3. Cardinality(issued) + 1 \in Nat
  BY FS_CardinalityType DEF Typed
<1>4. NewToken(w) \in [id : Nat, user : Users, name : Names]
  BY <1>2, <1>3 DEF NewToken, Typed
<1>5. tokens' \subseteq [id : Nat, user : Users, name : Names]
  BY <1>4 DEF Issues, Typed
<1>6. IsABag(audit)'
  BY AuditStep DEF Issues, Typed
<1>7. [at |-> "answered", answer |-> "approved", late |-> work[w].late] \in Works
  BY <1>2 DEF Works, AnsweredWork
<1>8. work' \in [Workers -> Works]
  BY <1>7, GoesEffect DEF Issues, Answer
<1>9. issued' \subseteq [id : Nat, flow : Flows, user : Users]
  BY <1>2, <1>3 DEF Issues, NewToken, Typed
<1>10. IsFiniteSet(issued')
  <2>1. PICK entry : issued' = issued \cup {entry}
    BY DEF Issues
  <2>2. QED
    BY <2>1, FS_AddElement DEF Typed
<1>11. QED
  BY <1>5, <1>6, <1>8, <1>9, <1>10 DEF Typed, flowVars, Issues

\* Every step keeps the types.
LEMMA TypedStep == Typed /\ [Next]_vars => Typed'
<1> SUFFICES ASSUME Typed, [Next]_vars PROVE Typed'
  OBVIOUS
<1> USE SignInAssumption
<1>1. ASSUME NEW f \in Flows, Start(f) PROVE Typed'
  BY <1>1 DEF Start, Typed, tokenVars
<1>2. ASSUME NEW w \in Workers, NEW f \in Flows, NEW u \in Users, Arrive(w, f, u) PROVE Typed'
  <2>1. [at |-> "admit", flow |-> f, user |-> u] \in Works
    BY DEF Works, AdmitWork
  <2>2. QED
    BY <1>2, <2>1, GoesEffect DEF Arrive, Typed, flowVars, tokenVars
<1>3. ASSUME NEW w \in Workers, Admit(w) PROVE Typed'
  <2>1. PICK now \in RecentTimes :
           LET f    == work[w].flow
               kept == DOMAIN rows \ Purged(now)
           IN  IF f \notin kept /\ Cardinality(Unconsumed(kept)) < MAX_CONCURRENT_CLI_FLOWS
               THEN /\ rows' = [g \in kept \cup {f} |->
                           IF g = f THEN [status |-> "awaiting", user |-> work[w].user,
                                          ticket |-> tickets', expires |-> expiry[f]]
                           ELSE rows[g]]
                    /\ pages' = pages \cup {[flow |-> f, ticket |-> tickets', user |-> work[w].user]}
                    /\ Ends(w)
               ELSE /\ rows' = [g \in kept |-> rows[g]]
                    /\ Goes(w, [at |-> "match", flow |-> f, user |-> work[w].user,
                                ticket |-> tickets', now |-> now])
                    /\ UNCHANGED pages
    BY <1>3 DEF Admit
  <2>2. work[w] \in AdmitWork
    BY <1>3, WorkShapes DEF Admit, Typed
  <2>3. work[w].flow \in Flows /\ work[w].user \in Users /\ tickets' \in Nat /\ now \in Nat
        /\ expiry[work[w].flow] \in Nat
    BY <1>3, <2>2 DEF AdmitWork, Admit, Typed, RecentTimes
  <2>4. /\ Idle \in Works
        /\ [at |-> "match", flow |-> work[w].flow, user |-> work[w].user,
            ticket |-> tickets', now |-> now] \in Works
    BY <2>3 DEF Works, Idle, IdleWork, MatchWork
  <2>5. work' \in [Workers -> Works]
    BY <2>1, <2>4, GoesEffect DEF Ends
  <2>6. DOMAIN rows' \subseteq Flows /\ rows' \in [DOMAIN rows' -> Rows]
    BY <2>1, <2>3 DEF Typed, Rows
  <2>7. pages' \subseteq Pages
    BY <2>1, <2>3 DEF Typed, Pages
  <2>8. QED
    BY <1>3, <2>3, <2>5, <2>6, <2>7 DEF Admit, Typed, tokenVars
<1>4. ASSUME NEW w \in Workers, Match(w) PROVE Typed'
  <2>1. work[w] \in MatchWork
    BY <1>4, WorkShapes DEF Match, Typed
  <2>2. work[w].flow \in Flows /\ work[w].user \in Users /\ work[w].ticket \in Nat
    BY <2>1 DEF MatchWork
  <2>3. Idle \in Works
    BY DEF Works, Idle, IdleWork
  <2>4. work' \in [Workers -> Works]
    BY <1>4, <2>3, GoesEffect DEF Match, Ends
  <2>5. DOMAIN rows' \subseteq Flows /\ rows' \in [DOMAIN rows' -> Rows]
    BY <1>4, <2>2 DEF Match, Typed, Rows, Matches
  <2>6. pages' \subseteq Pages
    BY <1>4, <2>2 DEF Match, Typed, Pages
  <2>7. QED
    BY <1>4, <2>4, <2>5, <2>6 DEF Match, Typed, tokenVars
<1>5. ASSUME NEW page \in pages, NEW decision \in {"approved", "denied"}, NEW now \in RecentTimes,
             Decide(page, decision, now)
      PROVE  Typed'
  <2>1. page \in Pages
    BY DEF Typed
  <2>2. page.flow \in Flows /\ page.user \in Users
    BY <2>1 DEF Pages
  <2>3. DOMAIN rows' \subseteq Flows /\ rows' \in [DOMAIN rows' -> Rows]
    BY <1>5, <2>2 DEF Decide, Typed, Rows
  <2>4. IsABag(audit)'
    BY <1>5, AuditStep DEF Decide, Typed
  <2>5. QED
    BY <1>5, <2>2, <2>3, <2>4 DEF Decide, Typed
<1>6. ASSUME NEW w \in Workers, NEW f \in Flows, Poll(w, f) PROVE Typed'
  <2>1. [at |-> "find", flow |-> f, began |-> clock, late |-> f \in decided] \in Works
    BY DEF Works, FindWork, Typed
  <2>2. QED
    BY <1>6, <2>1, GoesEffect DEF Poll, Typed, flowVars, tokenVars
<1>7. ASSUME NEW w \in Workers, Find(w) PROVE Typed'
  <2>1. work[w] \in FindWork
    BY <1>7, WorkShapes DEF Find, Typed
  <2>2. work[w].flow \in Flows /\ work[w].late \in BOOLEAN
    BY <2>1 DEF FindWork
  <2>3. \A answer \in {"pending", "denied", "rejected"} :
           [at |-> "answered", answer |-> answer, late |-> work[w].late] \in Works
    BY <2>2 DEF Works, AnsweredWork
  <2>4. work[w].flow \in DOMAIN rows =>
           /\ rows[work[w].flow].status \in {"awaiting", "approved", "denied", "consumed"}
           /\ rows[work[w].flow].user \in Users
    BY <2>2 DEF Typed, Rows
  <2>5. work[w].flow \in DOMAIN rows =>
           [at |-> "consume", flow |-> work[w].flow, user |-> rows[work[w].flow].user,
            late |-> work[w].late] \in Works
    BY <2>2, <2>4 DEF Works, ApprovedWork
  <2>6. work' \in [Workers -> Works]
    BY <1>7, <2>3, <2>4, <2>5, GoesEffect DEF Find, Answer
  <2>7. QED
    BY <1>7, <2>6 DEF Find, Typed, flowVars, tokenVars
<1>8. ASSUME NEW w \in Workers, Consume(w) PROVE Typed'
  <2>1. work[w] \in ApprovedWork
    BY <1>8, WorkShapes DEF Consume, Typed
  <2>2. work[w].flow \in Flows /\ work[w].late \in BOOLEAN
    BY <2>1 DEF ApprovedWork
  <2>3. /\ [work[w] EXCEPT !.at = "rotate"] \in Works
        /\ [at |-> "answered", answer |-> "rejected", late |-> work[w].late] \in Works
    BY <2>1, <2>2 DEF Works, ApprovedWork, AnsweredWork, Spending
  <2>4. work' \in [Workers -> Works]
    BY <1>8, <2>3, GoesEffect DEF Consume, Answer
  <2>5. DOMAIN rows' \subseteq Flows /\ rows' \in [DOMAIN rows' -> Rows]
    BY <1>8 DEF Consume, Typed, Rows, Consumable
  <2>6. QED
    BY <1>8, <2>4, <2>5 DEF Consume, Typed, tokenVars
<1>9. ASSUME NEW w \in Workers, Rotate(w) \/ Create(w) \/ RotateAgain(w) PROVE Typed'
  <2>1. work[w].at \in Spending
    BY <1>9 DEF Rotate, Create, RotateAgain, Spending
  <2>2. work[w] \in ApprovedWork
    BY <2>1, WorkShapes DEF Typed
  <2>3. CASE \E replaced \in SUBSET tokens : Issues(w, replaced)
    <3>1. UNCHANGED <<clock, flowVars>>
      BY <1>9 DEF Rotate, Create, RotateAgain
    <3>2. QED
      BY <2>1, <2>3, <3>1, IssuesTyped
  <2>4. CASE ~ \E replaced \in SUBSET tokens : Issues(w, replaced)
    <3>1. SameName(w) \in SUBSET tokens /\ {} \in SUBSET tokens
      BY DEF SameName, TokensOf
    <3>2. /\ UNCHANGED <<clock, flowVars, tokenVars>>
          /\ \/ Goes(w, [work[w] EXCEPT !.at = "create"])
             \/ Goes(w, [work[w] EXCEPT !.at = "rotate again"])
             \/ Answer(w, "token limit")
      BY <1>9, <2>4, <3>1 DEF Rotate, Create, RotateAgain
    <3>3. /\ [work[w] EXCEPT !.at = "create"] \in Works
          /\ [work[w] EXCEPT !.at = "rotate again"] \in Works
          /\ [at |-> "answered", answer |-> "token limit", late |-> work[w].late] \in Works
      BY <2>2 DEF Works, ApprovedWork, AnsweredWork, Spending
    <3>4. work' \in [Workers -> Works]
      BY <3>2, <3>3, GoesEffect DEF Answer
    <3>5. QED
      BY <3>2, <3>4 DEF Typed, flowVars, tokenVars
  <2>5. QED
    BY <2>3, <2>4
<1>10. ASSUME NEW w \in Workers, NEW t \in tokens, Revoke(w, t) PROVE Typed'
  <2>1. t.id \in Nat /\ [at |-> "revoked", id |-> t.id] \in Works
    BY DEF Typed, Works, RevokedWork
  <2>2. QED
    BY <1>10, <2>1, GoesEffect DEF Revoke, Typed, flowVars
<1>11. ASSUME NEW w \in Workers, AuditRevocation(w) \/ End(w) PROVE Typed'
  <2>1. Idle \in Works
    BY DEF Works, Idle, IdleWork
  <2>2. IsABag(audit)'
    BY <1>11, AuditStep DEF AuditRevocation, End, tokenVars, Typed
  <2>3. QED
    BY <1>11, <2>1, <2>2, GoesEffect DEF AuditRevocation, End, Ends, Typed, flowVars, tokenVars
<1>12. ASSUME Tick PROVE Typed'
  BY <1>12 DEF Tick, Typed, flowVars, tokenVars
<1>13. ASSUME UNCHANGED vars PROVE Typed'
  BY <1>13 DEF vars, Typed, flowVars, tokenVars
<1>14. QED
  BY <1>1, <1>2, <1>3, <1>4, <1>5, <1>6, <1>7, <1>8, <1>9, <1>10, <1>11, <1>12, <1>13 DEF Next

\* The types hold throughout.
LEMMA TypedInvariant == Spec => []Typed
BY TypedInit, TypedStep, PTL DEF Spec

\* Whoever remembers that the flow was decided is right.
LEMMA LateField ==
    ASSUME NEW s, NEW f, NEW began, NEW S,
           s = [at |-> "find", flow |-> f, began |-> began, late |-> f \in S], s.late
    PROVE  f \in S
OBVIOUS

\* What a request becomes that polls: answered, or on its way to the token.
IsAnswered(w, answer) ==
    work'[w].at = "answered" /\ work'[w].answer = answer /\ work'[w].late = work[w].late

IsApproved(w, at, u) ==
    /\ work'[w].at = at /\ work'[w].flow = work[w].flow
    /\ work'[w].user = u /\ work'[w].late = work[w].late

\* A poll is answered, or has found an approval to consume.
LEMMA FindCases ==
    ASSUME Typed, NEW w \in Workers, Find(w)
    PROVE  /\ work[w] \in FindWork /\ UNCHANGED <<clock, flowVars, tokenVars>>
           /\ \A v \in Workers : v # w => work'[v] = work[v]
           /\ \/ \E answer \in {"pending", "denied", "rejected"} : IsAnswered(w, answer)
              \/ /\ work[w].flow \in DOMAIN rows /\ rows[work[w].flow].status = "approved"
                 /\ IsApproved(w, "consume", rows[work[w].flow].user)
<1>1. work[w].flow \in DOMAIN rows =>
         rows[work[w].flow].status \in {"awaiting", "approved", "denied", "consumed"}
  BY DEF Typed, Rows
<1>2. work[w] \in FindWork
  BY WorkShapes DEF Find, Typed
<1>3. \/ \E answer \in {"pending", "denied", "rejected"} : Answer(w, answer)
      \/ /\ work[w].flow \in DOMAIN rows /\ rows[work[w].flow].status = "approved"
         /\ Goes(w, [at |-> "consume", flow |-> work[w].flow,
                     user |-> rows[work[w].flow].user, late |-> work[w].late])
  BY <1>1, <1>2 DEF Find
<1>4. QED
  BY <1>2, <1>3, GoesEffect DEF Find, Answer, IsAnswered, IsApproved

\* Consuming an approval starts the issuance, or is refused.
LEMMA ConsumeCases ==
    ASSUME Typed, NEW w \in Workers, Consume(w)
    PROVE  /\ work[w] \in ApprovedWork /\ work[w].at = "consume"
           /\ UNCHANGED <<clock, nameOf, expiry, tickets, pages, consents, decided, tokenVars>>
           /\ \A v \in Workers : v # w => work'[v] = work[v]
           /\ \/ /\ Consumable(work[w].flow)
                 /\ rows' = [rows EXCEPT ![work[w].flow].status = "consumed"]
                 /\ IsApproved(w, "rotate", work[w].user)
              \/ IsAnswered(w, "rejected") /\ UNCHANGED rows
<1>1. work[w] \in ApprovedWork /\ work[w].at = "consume"
  BY WorkShapes DEF Consume, Typed
<1>2. [work[w] EXCEPT !.at = "rotate"]
         = [at |-> "rotate", flow |-> work[w].flow, user |-> work[w].user, late |-> work[w].late]
  BY <1>1 DEF ApprovedWork
<1>3. QED
  BY <1>1, <1>2, GoesEffect DEF Consume, Answer, IsAnswered, IsApproved

\* An issuance goes on to its next batch, gives up, or stores the token.
LEMMA SpendingCases ==
    ASSUME Typed, NEW w \in Workers, Rotate(w) \/ Create(w) \/ RotateAgain(w)
    PROVE  /\ work[w] \in ApprovedWork /\ work[w].at \in Spending
           /\ UNCHANGED <<clock, flowVars>>
           /\ \A v \in Workers : v # w => work'[v] = work[v]
           /\ \/ /\ UNCHANGED tokenVars
                 /\ \/ \E at \in Spending : IsApproved(w, at, work[w].user)
                    \/ IsAnswered(w, "token limit")
              \/ /\ IsAnswered(w, "approved")
                 /\ \/ SameName(w) # {} /\ Issues(w, SameName(w))
                    \/ MayCreate(w) /\ Issues(w, {})
<1>1. work[w] \in ApprovedWork /\ work[w].at \in Spending
  BY WorkShapes DEF Rotate, Create, RotateAgain, Typed, Spending
<1>2. \A at \in Spending :
         [work[w] EXCEPT !.at = at]
            = [at |-> at, flow |-> work[w].flow, user |-> work[w].user, late |-> work[w].late]
  BY <1>1 DEF ApprovedWork
<1>3. \/ /\ \E at \in Spending :
               Goes(w, [at |-> at, flow |-> work[w].flow, user |-> work[w].user,
                        late |-> work[w].late])
         /\ UNCHANGED tokenVars
      \/ Answer(w, "token limit") /\ UNCHANGED tokenVars
      \/ Answer(w, "approved") /\ ( \/ SameName(w) # {} /\ Issues(w, SameName(w))
                                    \/ MayCreate(w) /\ Issues(w, {}))
  BY <1>1, <1>2 DEF Rotate, Create, RotateAgain, Spending, Issues
<1>4. UNCHANGED <<clock, flowVars>>
  BY DEF Rotate, Create, RotateAgain
<1>5. QED
  <2>1. \A v \in Workers : v # w => work'[v] = work[v]
    BY <1>3, GoesEffect DEF Answer
  <2>2. ASSUME NEW at \in Spending,
               Goes(w, [at |-> at, flow |-> work[w].flow, user |-> work[w].user,
                        late |-> work[w].late])
        PROVE  IsApproved(w, at, work[w].user)
    BY <2>2, GoesEffect DEF IsApproved
  <2>3. ASSUME NEW answer, Answer(w, answer) PROVE IsAnswered(w, answer)
    BY <2>3, GoesEffect DEF Answer, IsAnswered
  <2>4. QED
    BY <1>1, <1>3, <1>4, <2>1, <2>2, <2>3

\* Where the remaining steps of a request leave it.
LEMMA OtherStates ==
    ASSUME Typed, NEW w \in Workers
    PROVE  /\ Admit(w) \/ Match(w) =>
                 /\ work'[w].at \in {"idle", "match"}
                 /\ \A v \in Workers : v # w => work'[v] = work[v]
           /\ \A f \in Flows : \A u \in Users : Arrive(w, f, u) =>
                 /\ work'[w].at = "admit"
                 /\ \A v \in Workers : v # w => work'[v] = work[v]
           /\ \A f \in Flows : Poll(w, f) =>
                 work'[w].at = "find" /\ \A v \in Workers : v # w => work'[v] = work[v]
           /\ \A t \in tokens : Revoke(w, t) =>
                 work'[w].at = "revoked" /\ \A v \in Workers : v # w => work'[v] = work[v]
           /\ AuditRevocation(w) \/ End(w) =>
                 work'[w].at = "idle" /\ \A v \in Workers : v # w => work'[v] = work[v]
<1>1. ASSUME NEW f \in Flows, NEW u \in Users, Arrive(w, f, u)
      PROVE  work'[w].at = "admit" /\ \A v \in Workers : v # w => work'[v] = work[v]
  BY <1>1, GoesEffect DEF Arrive
<1>2. ASSUME NEW f \in Flows, Poll(w, f)
      PROVE  work'[w].at = "find" /\ \A v \in Workers : v # w => work'[v] = work[v]
  BY <1>2, GoesEffect DEF Poll
<1>3. ASSUME NEW t \in tokens, Revoke(w, t)
      PROVE  work'[w].at = "revoked" /\ \A v \in Workers : v # w => work'[v] = work[v]
  BY <1>3, GoesEffect DEF Revoke
<1>4. ASSUME AuditRevocation(w) \/ End(w)
      PROVE  work'[w].at = "idle" /\ \A v \in Workers : v # w => work'[v] = work[v]
  BY <1>4, GoesEffect DEF AuditRevocation, End, Ends, Idle
<1>5. ASSUME Admit(w)
      PROVE  /\ work'[w].at \in {"idle", "match"}
             /\ \A v \in Workers : v # w => work'[v] = work[v]
  <2>1. Goes(w, Idle)
        \/ \E now \in RecentTimes :
              Goes(w, [at |-> "match", flow |-> work[w].flow, user |-> work[w].user,
                       ticket |-> tickets', now |-> now])
    BY <1>5 DEF Admit, Ends
  <2>2. CASE Goes(w, Idle)
    BY <2>2, GoesEffect DEF Idle
  <2>3. ASSUME NEW now, Goes(w, [at |-> "match", flow |-> work[w].flow, user |-> work[w].user,
                                 ticket |-> tickets', now |-> now])
        PROVE  /\ work'[w].at \in {"idle", "match"}
               /\ \A v \in Workers : v # w => work'[v] = work[v]
    BY <2>3, GoesEffect
  <2>4. QED
    BY <2>1, <2>2, <2>3
<1>6. ASSUME Match(w)
      PROVE  work'[w].at = "idle" /\ \A v \in Workers : v # w => work'[v] = work[v]
  <2>1. Goes(w, Idle)
    BY <1>6 DEF Match, Ends
  <2>2. QED
    BY <2>1, GoesEffect DEF Idle
<1>7. QED
  BY <1>1, <1>2, <1>3, <1>4, <1>5, <1>6

(***************************************************************************)
(* Polls are told the truth.                                               *)
(*                                                                         *)
(* "Undecided" is no longer enough of an answer once a flow was decided, so *)
(* a decided flow has its row until the grace after its expiry is over, and *)
(* a poll that began before the expiry looks the row up before that.        *)
(***************************************************************************)

\* A row carries the expiry of its flow, and nobody starts that flow again.
RowsCarryExpiry ==
    \A f \in DOMAIN rows : rows[f].expires = expiry[f] /\ expiry[f] > 0

\* A decided flow keeps its row, decided, until the grace is over.
DecidedKept ==
    \A f \in decided :
        /\ expiry[f] > 0
        /\ \/ f \in DOMAIN rows /\ rows[f].status # "awaiting"
           \/ expiry[f] + CLI_FLOW_DELETE_GRACE <= clock

\* What a request in progress knows of its flow.
RequestTimely(s) ==
    /\ s.at = "admit" => expiry[s.flow] > 0
    /\ s.at = "find" =>
          /\ s.began < expiry[s.flow] /\ s.began <= clock /\ clock <= s.began + MaxPollTime
          /\ s.late => s.flow \in decided
    /\ s.at = "answered" /\ s.late => s.answer # "pending"

PollInvariant ==
    /\ RowsCarryExpiry
    /\ DecidedKept
    /\ \A w \in Workers : RequestTimely(work[w])

\* A flow is not decided twice: its grace is longer than a clock reading is old.
LEMMA DecidedOnce ==
    ASSUME Typed, PollInvariant, NEW page \in pages, NEW decision, NEW now \in RecentTimes,
           Decide(page, decision, now)
    PROVE  page.flow \notin decided
<1> SUFFICES ASSUME page.flow \in decided PROVE FALSE
  OBVIOUS
<1>1. page.flow \in DOMAIN rows /\ rows[page.flow].status = "awaiting"
      /\ rows[page.flow].expires > now
  BY DEF Decide
<1>2. expiry[page.flow] > now
  BY <1>1 DEF PollInvariant, RowsCarryExpiry
<1>3. expiry[page.flow] + CLI_FLOW_DELETE_GRACE <= clock
  BY <1>1 DEF PollInvariant, DecidedKept
<1>4. now + MaxLag >= clock /\ now \in Nat
  BY DEF RecentTimes, Typed
<1>5. expiry[page.flow] \in Nat /\ clock \in Nat
  BY <1>1 DEF Typed
<1>6. QED
  BY <1>2, <1>3, <1>4, <1>5, SignInAssumption

\* A step that leaves flows and clock alone needs only look at its own request.
LEMMA RequestAlone ==
    ASSUME PollInvariant, NEW w \in Workers, UNCHANGED <<clock, expiry, decided>>,
           \A v \in Workers : v # w => work'[v] = work[v], RequestTimely(work[w])'
    PROVE  \A v \in Workers : RequestTimely(work[v])'
<1> SUFFICES ASSUME NEW v \in Workers, v # w PROVE RequestTimely(work[v])'
  OBVIOUS
<1>1. QED
  BY DEF RequestTimely, PollInvariant

\* Every step keeps the invariant of the polls.
LEMMA PollStep == Typed /\ PollInvariant /\ [Next]_vars => PollInvariant'
<1> SUFFICES ASSUME Typed, PollInvariant, [Next]_vars PROVE PollInvariant'
  OBVIOUS
<1> USE SignInAssumption
<1>1. ASSUME NEW f \in Flows, Start(f) PROVE PollInvariant'
  <2>1. expiry[f] = 0 /\ expiry' = [expiry EXCEPT ![f] = clock + CLI_FLOW_TTL]
        /\ UNCHANGED <<clock, rows, decided, work>>
    BY <1>1 DEF Start
  <2>2. \A g \in Flows : expiry[g] > 0 => expiry'[g] = expiry[g]
    BY <2>1 DEF Typed
  <2>3. RowsCarryExpiry'
    BY <2>1, <2>2 DEF PollInvariant, RowsCarryExpiry, Typed
  <2>4. DecidedKept'
    BY <2>1, <2>2 DEF PollInvariant, DecidedKept, Typed
  <2>5. ASSUME NEW w \in Workers PROVE RequestTimely(work[w])'
    <3>1. CASE work[w].at = "admit"
      <4>1. work[w].flow \in Flows
        BY <3>1, WorkShapes DEF Typed, AdmitWork
      <4>2. QED
        BY <2>1, <2>2, <3>1, <4>1 DEF PollInvariant, RequestTimely
    <3>2. CASE work[w].at = "find"
      <4>1. work[w].flow \in Flows /\ work[w].began \in Nat
        BY <3>2, WorkShapes DEF Typed, FindWork
      <4>2. QED
        BY <2>1, <2>2, <3>2, <4>1 DEF PollInvariant, RequestTimely, Typed
    <3>3. CASE work[w].at \notin {"admit", "find"}
      BY <2>1, <3>3 DEF PollInvariant, RequestTimely
    <3>4. QED
      BY <3>1, <3>2, <3>3
  <2>6. QED
    BY <2>3, <2>4, <2>5 DEF PollInvariant
<1>2. ASSUME NEW w \in Workers, NEW f \in Flows, NEW u \in Users, Arrive(w, f, u)
      PROVE  PollInvariant'
  <2>1. UNCHANGED <<clock, expiry, rows, decided>>
    BY <1>2 DEF Arrive, flowVars
  <2>2. work'[w] = [at |-> "admit", flow |-> f, user |-> u]
        /\ \A v \in Workers : v # w => work'[v] = work[v]
    BY <1>2, GoesEffect DEF Arrive
  <2>3. RequestTimely(work[w])'
    BY <1>2, <2>1, <2>2 DEF Arrive, RequestTimely, Typed
  <2>4. \A v \in Workers : RequestTimely(work[v])'
    BY <2>1, <2>2, <2>3, RequestAlone
  <2>5. QED
    BY <2>1, <2>4 DEF PollInvariant, RowsCarryExpiry, DecidedKept
<1>3. ASSUME NEW w \in Workers, Admit(w) PROVE PollInvariant'
  <2> DEFINE f == work[w].flow
  <2>1. PICK now \in RecentTimes :
           LET kept == DOMAIN rows \ Purged(now)
           IN  \/ /\ f \notin kept
                  /\ rows' = [g \in kept \cup {f} |->
                        IF g = f THEN [status |-> "awaiting", user |-> work[w].user,
                                       ticket |-> tickets', expires |-> expiry[f]]
                        ELSE rows[g]]
                  /\ Ends(w)
               \/ /\ rows' = [g \in kept |-> rows[g]]
                  /\ Goes(w, [at |-> "match", flow |-> f, user |-> work[w].user,
                              ticket |-> tickets', now |-> now])
    BY <1>3 DEF Admit
  <2>2. f \in Flows /\ expiry[f] > 0
    BY <1>3, WorkShapes DEF Admit, Typed, AdmitWork, PollInvariant, RequestTimely
  <2>3. UNCHANGED <<clock, expiry, decided>>
    BY <1>3 DEF Admit
  <2>4. now \in Nat /\ now <= clock
    BY DEF RecentTimes, Typed
  <2>5. RowsCarryExpiry'
    BY <2>1, <2>2, <2>3 DEF PollInvariant, RowsCarryExpiry
  <2>6. \A g \in DOMAIN rows : g \in Purged(now) => expiry[g] + CLI_FLOW_DELETE_GRACE <= clock
    <3> SUFFICES ASSUME NEW g \in DOMAIN rows, g \in Purged(now)
                 PROVE  expiry[g] + CLI_FLOW_DELETE_GRACE <= clock
      OBVIOUS
    <3>1. expiry[g] \in Nat
      BY DEF Typed
    <3>2. QED
      BY <2>4, <3>1 DEF Purged, PollInvariant, RowsCarryExpiry, Typed
  <2>7. DecidedKept'
    BY <2>1, <2>3, <2>6 DEF PollInvariant, DecidedKept
  <2>8. \A v \in Workers : RequestTimely(work[v])'
    <3>1. (work'[w].at = "idle" \/ work'[w].at = "match")
          /\ \A v \in Workers : v # w => work'[v] = work[v]
      BY <2>1, GoesEffect DEF Ends, Idle
    <3>2. RequestTimely(work[w])'
      BY <3>1 DEF RequestTimely
    <3>3. QED
      BY <2>3, <3>1, <3>2, RequestAlone
  <2>9. QED
    BY <2>5, <2>7, <2>8 DEF PollInvariant
<1>4. ASSUME NEW w \in Workers, Match(w) PROVE PollInvariant'
  <2>1. /\ UNCHANGED <<clock, expiry, decided>> /\ DOMAIN rows' = DOMAIN rows
        /\ \A g \in DOMAIN rows : rows'[g].expires = rows[g].expires
                                  /\ rows'[g].status = rows[g].status
    BY <1>4 DEF Match, Matches, Typed, Rows
  <2>2. \A v \in Workers : RequestTimely(work[v])'
    <3>1. work'[w].at = "idle" /\ \A v \in Workers : v # w => work'[v] = work[v]
      BY <1>4, GoesEffect DEF Match, Ends, Idle
    <3>2. RequestTimely(work[w])'
      BY <3>1 DEF RequestTimely
    <3>3. QED
      BY <2>1, <3>1, <3>2, RequestAlone
  <2>3. QED
    BY <2>1, <2>2 DEF PollInvariant, RowsCarryExpiry, DecidedKept
<1>5. ASSUME NEW page \in pages, NEW decision \in {"approved", "denied"}, NEW now \in RecentTimes,
             Decide(page, decision, now)
      PROVE  PollInvariant'
  <2>1. /\ page.flow \in DOMAIN rows /\ DOMAIN rows' = DOMAIN rows
        /\ rows'[page.flow].status = decision
        /\ \A g \in DOMAIN rows : /\ rows'[g].expires = rows[g].expires
                                  /\ g # page.flow => rows'[g] = rows[g]
        /\ decided' = decided \cup {page.flow}
        /\ UNCHANGED <<clock, expiry, work>>
    BY <1>5 DEF Decide, Typed, Rows
  <2>2. RowsCarryExpiry'
    BY <2>1 DEF PollInvariant, RowsCarryExpiry
  <2>3. DecidedKept'
    BY <2>1 DEF PollInvariant, DecidedKept, RowsCarryExpiry
  <2>4. \A v \in Workers : RequestTimely(work[v])'
    BY <2>1 DEF PollInvariant, RequestTimely
  <2>5. QED
    BY <2>2, <2>3, <2>4 DEF PollInvariant
<1>6. ASSUME NEW w \in Workers, NEW f \in Flows, Poll(w, f) PROVE PollInvariant'
  <2>1. UNCHANGED <<clock, expiry, rows, decided>>
    BY <1>6 DEF Poll, flowVars
  <2>2. /\ work'[w].at = "find" /\ work'[w].flow = f /\ work'[w].began = clock
        /\ work'[w].late => f \in decided
    <3>1. work'[w] = [at |-> "find", flow |-> f, began |-> clock, late |-> f \in decided]
      BY <1>6, GoesEffect DEF Poll
    <3>2. work'[w].late => f \in decided
      BY <3>1, LateField
    <3>3. work'[w].at = "find" /\ work'[w].flow = f /\ work'[w].began = clock
      BY <3>1
    <3>4. QED
      BY <3>2, <3>3
  <2>3. RequestTimely(work[w])'
    BY <1>6, <2>1, <2>2 DEF Poll, RequestTimely, Typed
  <2>4. \A v \in Workers : RequestTimely(work[v])'
    BY <1>6, <2>1, <2>3, OtherStates, RequestAlone
  <2>5. QED
    BY <2>1, <2>4 DEF PollInvariant, RowsCarryExpiry, DecidedKept
<1>7. ASSUME NEW w \in Workers, Find(w) PROVE PollInvariant'
  <2> DEFINE f == work[w].flow
  <2>1. UNCHANGED <<clock, expiry, rows, decided>>
    BY <1>7 DEF Find, flowVars
  <2>2. work[w] \in FindWork /\ RequestTimely(work[w])
    BY <1>7, WorkShapes DEF Find, Typed, PollInvariant
  <2>3. f \in Flows /\ expiry[f] \in Nat /\ clock \in Nat /\ work[w].began \in Nat
    BY <2>2 DEF FindWork, Typed
  <2>4. work[w].late => f \in DOMAIN rows /\ rows[f].status # "awaiting"
    <3> SUFFICES ASSUME work[w].late PROVE f \in DOMAIN rows /\ rows[f].status # "awaiting"
      OBVIOUS
    <3>1. f \in decided /\ work[w].began < expiry[f] /\ clock <= work[w].began + MaxPollTime
      BY <1>7, <2>2 DEF Find, RequestTimely
    <3>2. ~ (expiry[f] + CLI_FLOW_DELETE_GRACE <= clock)
      BY <2>3, <3>1
    <3>3. QED
      BY <3>1, <3>2 DEF PollInvariant, DecidedKept
  <2>5. RequestTimely(work[w])'
    <3>1. f \in DOMAIN rows => rows[f].status \in {"awaiting", "approved", "denied", "consumed"}
      BY DEF Typed, Rows
    <3>2. work'[w].at = "consume" \/ (work'[w].at = "answered" /\ work'[w].late = work[w].late)
      BY <1>7, FindCases DEF IsAnswered, IsApproved
    <3>3. work'[w].at = "answered" /\ work[w].late => work'[w].answer # "pending"
      <4> SUFFICES ASSUME work[w].late, work'[w].at = "answered"
                   PROVE  work'[w].answer # "pending"
        OBVIOUS
      <4>1. \/ Answer(w, "denied") \/ Answer(w, "rejected")
            \/ Goes(w, [at |-> "consume", flow |-> f, user |-> rows[f].user,
                        late |-> work[w].late])
        BY <1>7, <2>4, <3>1 DEF Find
      <4>2. QED
        BY <4>1, GoesEffect DEF Answer
    <3>4. QED
      BY <3>2, <3>3 DEF RequestTimely
  <2>6. \A v \in Workers : RequestTimely(work[v])'
    BY <1>7, <2>1, <2>5, FindCases, RequestAlone
  <2>7. QED
    BY <2>1, <2>6 DEF PollInvariant, RowsCarryExpiry, DecidedKept
<1>8. ASSUME NEW w \in Workers, Consume(w) PROVE PollInvariant'
  <2>1. /\ UNCHANGED <<clock, expiry, decided>> /\ DOMAIN rows' = DOMAIN rows
        /\ \A g \in DOMAIN rows : /\ rows'[g].expires = rows[g].expires
                                  /\ rows[g].status # "awaiting" => rows'[g].status # "awaiting"
    BY <1>8 DEF Consume, Consumable, Typed, Rows
  <2>2. RequestTimely(work[w])'
    BY <1>8, ConsumeCases DEF RequestTimely, IsAnswered, IsApproved
  <2>3. \A v \in Workers : RequestTimely(work[v])'
    BY <1>8, <2>1, <2>2, ConsumeCases, RequestAlone
  <2>4. QED
    BY <2>1, <2>3 DEF PollInvariant, RowsCarryExpiry, DecidedKept
<1>9. ASSUME NEW w \in Workers, Rotate(w) \/ Create(w) \/ RotateAgain(w) PROVE PollInvariant'
  <2>1. UNCHANGED <<clock, expiry, rows, decided>>
    BY <1>9, SpendingCases DEF flowVars
  <2>2. RequestTimely(work[w])'
    BY <1>9, SpendingCases DEF RequestTimely, Spending, IsAnswered, IsApproved
  <2>3. \A v \in Workers : RequestTimely(work[v])'
    BY <1>9, <2>1, <2>2, SpendingCases, RequestAlone
  <2>4. QED
    BY <2>1, <2>3 DEF PollInvariant, RowsCarryExpiry, DecidedKept
<1>10. ASSUME NEW w \in Workers,
              AuditRevocation(w) \/ End(w) \/ \E t \in tokens : Revoke(w, t)
       PROVE  PollInvariant'
  <2>1. UNCHANGED <<clock, expiry, rows, decided>>
    BY <1>10 DEF AuditRevocation, End, Revoke, flowVars
  <2>2. work'[w].at \in {"idle", "revoked"} /\ \A v \in Workers : v # w => work'[v] = work[v]
    BY <1>10, OtherStates
  <2>3. RequestTimely(work[w])'
    BY <2>2 DEF RequestTimely
  <2>4. \A v \in Workers : RequestTimely(work[v])'
    BY <2>1, <2>2, <2>3, RequestAlone
  <2>5. QED
    BY <2>1, <2>4 DEF PollInvariant, RowsCarryExpiry, DecidedKept
<1>11. ASSUME Tick PROVE PollInvariant'
  <2>1. clock' = clock + 1 /\ UNCHANGED <<expiry, rows, decided, work>>
    BY <1>11 DEF Tick, flowVars
  <2>2. RowsCarryExpiry'
    BY <2>1 DEF PollInvariant, RowsCarryExpiry
  <2>3. DecidedKept'
    BY <2>1 DEF PollInvariant, DecidedKept, Typed
  <2>4. ASSUME NEW w \in Workers PROVE RequestTimely(work[w])'
    <3>1. CASE work[w].at = "find"
      <4>1. work[w].began \in Nat
        BY <3>1, WorkShapes DEF Typed, FindWork
      <4>2. clock < work[w].began + MaxPollTime
        BY <1>11, <3>1 DEF Tick
      <4>3. QED
        BY <2>1, <3>1, <4>1, <4>2 DEF PollInvariant, RequestTimely, Typed
    <3>2. CASE work[w].at # "find"
      BY <2>1, <3>2 DEF PollInvariant, RequestTimely
    <3>3. QED
      BY <3>1, <3>2
  <2>5. QED
    BY <2>2, <2>3, <2>4 DEF PollInvariant
<1>12. ASSUME UNCHANGED vars PROVE PollInvariant'
  BY <1>12 DEF vars, flowVars, PollInvariant, RowsCarryExpiry, DecidedKept, RequestTimely
<1>13. QED
  BY <1>1, <1>2, <1>3, <1>4, <1>5, <1>6, <1>7, <1>8, <1>9, <1>10, <1>11, <1>12 DEF Next

\* A poll that began after the decision is never told to wait on: the row is
\* kept long enough that "no row" means "not arrived yet" (cliPoll,
\* CLI_FLOW_DELETE_GRACE_MS).
THEOREM PollsAreTruthful == Spec => []PollsTruthful
<1>1. Init => PollInvariant
  BY DEF Init, PollInvariant, RowsCarryExpiry, DecidedKept, RequestTimely, Idle
<1>2. PollInvariant => PollsTruthful
  BY DEF PollInvariant, RequestTimely, PollsTruthful
<1>3. QED
  BY <1>1, <1>2, TypedInvariant, PollStep, PTL DEF Spec

(***************************************************************************)
(* Tickets.                                                                *)
(*                                                                         *)
(* A ticket is drawn once.  It is on the page of one person, and when it is *)
(* also on a row, that row is for the same person.                         *)
(***************************************************************************)

\* A drawn ticket that is on no page yet belongs to one request.
TicketsDrawnOnce ==
    \A w \in Workers : work[w].at = "match" =>
        /\ work[w].ticket <= tickets
        /\ \A p \in pages : p.ticket # work[w].ticket
        /\ \A v \in Workers : work[v].at = "match" /\ work[v].ticket = work[w].ticket => v = w

\* The page with the ticket of a row was shown to the person of the row.
PageOfRow ==
    \A f \in DOMAIN rows : \A p \in pages :
        p.flow = f /\ p.ticket = rows[f].ticket => p.user = rows[f].user

TicketInvariant ==
    /\ \A p \in pages : p.ticket <= tickets
    /\ TicketsDrawnOnce
    /\ PageOfRow

\* What neither draws a ticket nor shows a page keeps the tickets in order.
LEMMA TicketsKept ==
    ASSUME Typed, TicketInvariant, UNCHANGED <<tickets, pages>>,
           \A f \in DOMAIN rows' : f \in DOMAIN rows /\ rows'[f].ticket = rows[f].ticket
                                   /\ rows'[f].user = rows[f].user,
           \A w \in Workers : work'[w].at = "match" => work'[w] = work[w]
    PROVE  TicketInvariant'
<1>1. (\A p \in pages : p.ticket <= tickets)' /\ PageOfRow'
  BY DEF TicketInvariant, PageOfRow
<1>2. TicketsDrawnOnce'
  BY DEF TicketInvariant, TicketsDrawnOnce
<1>3. QED
  BY <1>1, <1>2 DEF TicketInvariant

\* Every step keeps the tickets in order.
LEMMA TicketStep == Typed /\ TicketInvariant /\ [Next]_vars => TicketInvariant'
<1> SUFFICES ASSUME Typed, TicketInvariant, [Next]_vars PROVE TicketInvariant'
  OBVIOUS
<1>1. ASSUME NEW w \in Workers, Admit(w) PROVE TicketInvariant'
  <2> DEFINE f == work[w].flow
             u == work[w].user
  <2>1. PICK now \in RecentTimes :
           LET kept == DOMAIN rows \ Purged(now)
           IN  \/ /\ rows' = [g \in kept \cup {f} |->
                        IF g = f THEN [status |-> "awaiting", user |-> u,
                                       ticket |-> tickets', expires |-> expiry[f]]
                        ELSE rows[g]]
                  /\ pages' = pages \cup {[flow |-> f, ticket |-> tickets', user |-> u]}
                  /\ Goes(w, Idle)
               \/ /\ rows' = [g \in kept |-> rows[g]]
                  /\ Goes(w, [at |-> "match", flow |-> f, user |-> u,
                              ticket |-> tickets', now |-> now])
                  /\ UNCHANGED pages
    BY <1>1 DEF Admit, Ends
  <2>2. tickets' = tickets + 1 /\ tickets \in Nat
    BY <1>1 DEF Admit, Typed
  <2>3. \A p \in pages : p.ticket \in Nat /\ p.ticket <= tickets
    BY DEF TicketInvariant, Typed, Pages
  <2>4. ASSUME NEW v \in Workers, work[v].at = "match"
        PROVE  work[v].ticket \in Nat /\ work[v].ticket <= tickets
    BY <2>4, WorkShapes DEF TicketInvariant, TicketsDrawnOnce, Typed, MatchWork
  <2>5. (\A p \in pages : p.ticket <= tickets)'
    BY <2>1, <2>2, <2>3
  <2>6. CASE pages' = pages \cup {[flow |-> f, ticket |-> tickets', user |-> u]} /\ Goes(w, Idle)
             /\ rows' = [g \in (DOMAIN rows \ Purged(now)) \cup {f} |->
                            IF g = f THEN [status |-> "awaiting", user |-> u,
                                           ticket |-> tickets', expires |-> expiry[f]]
                            ELSE rows[g]]
    <3>1. PageOfRow'
      BY <2>2, <2>3, <2>6 DEF PageOfRow, TicketInvariant
    <3>2. \A v \in Workers : work'[v].at = "match" => v # w /\ work'[v] = work[v]
      BY <2>6, GoesEffect DEF Idle
    <3>3. TicketsDrawnOnce'
      BY <2>2, <2>3, <2>4, <2>6, <3>2 DEF TicketsDrawnOnce, TicketInvariant
    <3>4. QED
      BY <2>5, <3>1, <3>3 DEF TicketInvariant
  <2>7. CASE UNCHANGED pages /\ rows' = [g \in DOMAIN rows \ Purged(now) |-> rows[g]]
             /\ Goes(w, [at |-> "match", flow |-> f, user |-> u, ticket |-> tickets', now |-> now])
    <3>1. PageOfRow'
      BY <2>7 DEF PageOfRow, TicketInvariant
    <3>2. work'[w].at = "match" /\ work'[w].ticket = tickets'
          /\ \A v \in Workers : v # w => work'[v] = work[v]
      BY <2>7, GoesEffect
    <3>3. TicketsDrawnOnce'
      <4> SUFFICES ASSUME NEW v \in Workers, work'[v].at = "match"
                   PROVE  /\ work'[v].ticket <= tickets'
                          /\ \A p \in pages' : p.ticket # work'[v].ticket
                          /\ \A x \in Workers : work'[x].at = "match"
                                /\ work'[x].ticket = work'[v].ticket => x = v
        BY DEF TicketsDrawnOnce
      <4>1. CASE v = w
        BY <2>2, <2>3, <2>4, <2>7, <3>2, <4>1
      <4>2. CASE v # w
        BY <2>2, <2>3, <2>4, <2>7, <3>2, <4>2 DEF TicketsDrawnOnce, TicketInvariant
      <4>3. QED
        BY <4>1, <4>2
    <3>4. QED
      BY <2>5, <3>1, <3>3 DEF TicketInvariant
  <2>8. QED
    BY <2>1, <2>6, <2>7
<1>2. ASSUME NEW w \in Workers, Match(w) PROVE TicketInvariant'
  <2> DEFINE f == work[w].flow
             n == work[w].ticket
  <2>1. work[w].at = "match" /\ tickets' = tickets /\ Goes(w, Idle)
    BY <1>2 DEF Match, Ends
  <2>2. \A v \in Workers : work'[v].at = "match" => v # w /\ work'[v] = work[v]
    BY <2>1, GoesEffect DEF Idle
  <2>3. CASE Matches(f, work[w].user, work[w].now)
    <3>1. /\ rows' = [rows EXCEPT ![f].ticket = n]
          /\ pages' = pages \cup {[flow |-> f, ticket |-> n, user |-> work[w].user]}
      BY <1>2, <2>3 DEF Match
    <3>2. f \in DOMAIN rows /\ rows[f].user = work[w].user
      BY <2>3 DEF Matches
    <3>3. /\ DOMAIN rows' = DOMAIN rows /\ rows'[f].ticket = n /\ rows'[f].user = rows[f].user
          /\ \A g \in DOMAIN rows : g # f => rows'[g] = rows[g]
      BY <3>1, <3>2 DEF Typed, Rows
    <3>4. PageOfRow'
      BY <2>1, <3>1, <3>2, <3>3 DEF PageOfRow, TicketInvariant, TicketsDrawnOnce
    <3>5. (\A p \in pages : p.ticket <= tickets)' /\ TicketsDrawnOnce'
      BY <2>1, <2>2, <3>1 DEF TicketsDrawnOnce, TicketInvariant
    <3>6. QED
      BY <3>4, <3>5 DEF TicketInvariant
  <2>4. CASE ~ Matches(f, work[w].user, work[w].now)
    <3>1. UNCHANGED <<rows, pages>>
      BY <1>2, <2>4 DEF Match
    <3>2. QED
      BY <2>1, <2>2, <3>1, TicketsKept
  <2>5. QED
    BY <2>3, <2>4
<1>3. ASSUME NEW page \in pages, NEW decision \in {"approved", "denied"}, NEW now \in RecentTimes,
             Decide(page, decision, now)
      PROVE  TicketInvariant'
  <2>1. /\ UNCHANGED <<tickets, pages, work>> /\ DOMAIN rows' = DOMAIN rows
        /\ \A f \in DOMAIN rows : rows'[f].ticket = rows[f].ticket /\ rows'[f].user = rows[f].user
    BY <1>3 DEF Decide, Typed, Rows
  <2>2. QED
    BY <2>1, TicketsKept
<1>4. ASSUME NEW w \in Workers, Consume(w) PROVE TicketInvariant'
  <2>1. /\ UNCHANGED <<tickets, pages>> /\ DOMAIN rows' = DOMAIN rows
        /\ \A f \in DOMAIN rows : rows'[f].ticket = rows[f].ticket /\ rows'[f].user = rows[f].user
    BY <1>4 DEF Consume, Consumable, Typed, Rows
  <2>2. \A v \in Workers : work'[v].at = "match" => work'[v] = work[v]
    BY <1>4, ConsumeCases DEF IsAnswered, IsApproved
  <2>3. QED
    BY <2>1, <2>2, TicketsKept
<1>5. ASSUME NEW w \in Workers, Rotate(w) \/ Create(w) \/ RotateAgain(w) PROVE TicketInvariant'
  <2>1. \A v \in Workers : work'[v].at = "match" => work'[v] = work[v]
    BY <1>5, SpendingCases DEF Spending, IsAnswered, IsApproved
  <2>2. UNCHANGED <<tickets, pages, rows>>
    BY <1>5, SpendingCases DEF flowVars
  <2>3. QED
    BY <2>1, <2>2, TicketsKept
<1>6. ASSUME NEW w \in Workers,
             \/ \E f \in Flows, u \in Users : Arrive(w, f, u)
             \/ \E f \in Flows : Poll(w, f)
             \/ \E t \in tokens : Revoke(w, t)
             \/ AuditRevocation(w)
             \/ End(w)
      PROVE  TicketInvariant'
  <2>1. UNCHANGED <<tickets, pages, rows>>
    BY <1>6 DEF Arrive, Poll, Revoke, AuditRevocation, End, flowVars
  <2>2. \A v \in Workers : work'[v].at = "match" => work'[v] = work[v]
    BY <1>6, OtherStates
  <2>3. QED
    BY <2>1, <2>2, TicketsKept
<1>7. ASSUME NEW w \in Workers, Find(w) PROVE TicketInvariant'
  <2>1. UNCHANGED <<tickets, pages, rows>>
    BY <1>7 DEF Find, flowVars
  <2>2. \A v \in Workers : work'[v].at = "match" => work'[v] = work[v]
    BY <1>7, FindCases DEF IsAnswered, IsApproved
  <2>3. QED
    BY <2>1, <2>2, TicketsKept
<1>8. ASSUME Tick \/ UNCHANGED vars \/ \E f \in Flows : Start(f) PROVE TicketInvariant'
  BY <1>8, TicketsKept DEF Tick, vars, flowVars, Start
<1>9. QED
  BY <1>1, <1>2, <1>3, <1>4, <1>5, <1>6, <1>7, <1>8 DEF Next

(***************************************************************************)
(* Tokens follow approvals.                                                *)
(*                                                                         *)
(* An approval is on record for whoever may spend it: for an approved row,  *)
(* for a request that found one, and for a token.  Only one of the row, the *)
(* requests past the consumption and the tokens can be what holds it.      *)
(***************************************************************************)

Login(f, u) == [event |-> "login_succeeded", flow |-> f, user |-> u]

\* The person has approved the flow, and that is on record once.
Approved(f, u) == f \in decided /\ <<f, u>> \in consents /\ Copies(Login(f, u)) = 1

\* The request has consumed the approval of the flow and not yet answered.
Spends(w, f) == work[w].at \in Spending /\ work[w].flow = f

Unspent(f) ==
    /\ \A w \in Workers : ~ Spends(w, f)
    /\ \A t \in issued : t.flow # f

RowsApproved ==
    \A f \in DOMAIN rows :
        /\ rows[f].status # "awaiting" => f \in decided
        /\ rows[f].status = "approved" => Approved(f, rows[f].user) /\ Unspent(f)

RequestsApproved ==
    \A w \in Workers : work[w].at \in {"consume"} \cup Spending =>
        Approved(work[w].flow, work[w].user)

TokensApproved == \A t \in issued : Approved(t.flow, t.user)

\* One request or one token holds an approval that was consumed.
OneSpender ==
    /\ \A v, w \in Workers : \A f \in Flows : Spends(v, f) /\ Spends(w, f) => v = w
    /\ \A w \in Workers : \A t \in issued : ~ Spends(w, t.flow)
    /\ \A s, t \in issued : s.flow = t.flow => s = t

\* There is no login on record before the decision.
LoginsDecided == \A f \in Flows : \A u \in Users : f \notin decided => Copies(Login(f, u)) = 0

ApprovalInvariant ==
    /\ RowsApproved
    /\ RequestsApproved
    /\ TokensApproved
    /\ OneSpender
    /\ LoginsDecided

\* An audit row that is not of a login leaves the logins as they are.
LEMMA LoginsUnaffected ==
    ASSUME Typed, NEW x, x.event # "login_succeeded", Audited(x), NEW f, NEW u
    PROVE  Copies(Login(f, u))' = Copies(Login(f, u))
<1>1. x # Login(f, u)
  BY DEF Login
<1>2. IsABag(audit)
  BY DEF Typed
<1>3. QED
  BY <1>1, <1>2, AuditStep

\* The decision of a flow adds the one login of the person of its row.
LEMMA DecideEffect ==
    ASSUME Typed, PollInvariant, ApprovalInvariant, TicketInvariant,
           NEW page \in pages, NEW decision \in {"approved", "denied"}, NEW now \in RecentTimes,
           Decide(page, decision, now)
    PROVE  /\ page.flow \in DOMAIN rows /\ page.flow \in Flows /\ page.flow \notin decided
           /\ decision = "approved" => Approved(page.flow, rows[page.flow].user)'
           /\ \A f \in Flows : \A u \in Users : f # page.flow =>
                 Copies(Login(f, u))' = Copies(Login(f, u))
<1> DEFINE r == page.flow
<1>1. r \in DOMAIN rows /\ r \in Flows /\ r \notin decided
  BY DecidedOnce DEF Decide, Typed
<1>2. page.user = rows[r].user /\ rows[r].user \in Users
  BY <1>1 DEF Decide, TicketInvariant, PageOfRow, Typed, Rows
<1>3. CASE decision = "denied"
  BY <1>1, <1>3 DEF Decide, Copies
<1>4. CASE decision = "approved"
  <2>1. /\ Audited(Login(r, rows[r].user)) /\ consents' = consents \cup {<<r, page.user>>}
        /\ decided' = decided \cup {r}
    BY <1>4 DEF Decide, Login
  <2>2. rows' = [rows EXCEPT ![r].status = decision]
    BY DEF Decide
  <2>3. rows'[r].user = rows[r].user
    BY <1>1, <2>2 DEF Typed, Rows
  <2>4. Copies(Login(r, rows[r].user)) = 0
    BY <1>1, <1>2 DEF ApprovalInvariant, LoginsDecided
  <2>5. Copies(Login(r, rows[r].user))' = 1
    <3>1. IsABag(audit)
      BY DEF Typed
    <3>2. QED
      BY <2>1, <2>3, <2>4, <3>1, AuditStep DEF Copies
  <2>6. ASSUME NEW f \in Flows, NEW u \in Users, f # r
        PROVE  Copies(Login(f, u))' = Copies(Login(f, u))
    <3>1. Login(f, u) # Login(r, rows[r].user)
      BY <2>6 DEF Login
    <3>2. IsABag(audit)
      BY DEF Typed
    <3>3. QED
      BY <2>1, <3>1, <3>2, AuditStep
  <2>7. QED
    BY <1>1, <1>2, <2>1, <2>3, <2>5, <2>6 DEF Approved
<1>5. QED
  BY <1>3, <1>4

\* What is approved stays approved, with one login; and logins follow decisions.
LEMMA ApprovalsStay ==
    ASSUME Typed, PollInvariant, ApprovalInvariant, TicketInvariant, [Next]_vars
    PROVE  /\ \A f \in Flows : \A u \in Users : Approved(f, u) => Approved(f, u)'
           /\ LoginsDecided'
<1> DEFINE LoginsStay == \A f \in Flows : \A u \in Users :
                            Copies(Login(f, u))' = Copies(Login(f, u))
           Grows == decided \subseteq decided' /\ consents \subseteq consents'
<1>1. ASSUME LoginsStay, Grows
      PROVE  /\ \A f \in Flows : \A u \in Users : Approved(f, u) => Approved(f, u)'
             /\ LoginsDecided'
  BY <1>1 DEF Approved, ApprovalInvariant, LoginsDecided
<1>2. ASSUME NEW page \in pages, NEW decision \in {"approved", "denied"}, NEW now \in RecentTimes,
             Decide(page, decision, now)
      PROVE  /\ \A f \in Flows : \A u \in Users : Approved(f, u) => Approved(f, u)'
             /\ LoginsDecided'
  <2>1. decided' = decided \cup {page.flow} /\ consents \subseteq consents'
    BY <1>2 DEF Decide
  <2>2. QED
    BY <1>2, <2>1, DecideEffect DEF Approved, ApprovalInvariant, LoginsDecided
<1>3. ASSUME UNCHANGED audit PROVE LoginsStay
  BY <1>3 DEF Copies
<1>4. ASSUME NEW w \in Workers, Rotate(w) \/ Create(w) \/ RotateAgain(w) PROVE LoginsStay /\ Grows
  <2>1. ASSUME NEW replaced, Issues(w, replaced) PROVE LoginsStay
    <3> DEFINE x == [event |-> "token_created", id |-> NewToken(w).id,
                     replaced |-> {t.id : t \in replaced}]
    <3>1. Audited(x)
      BY <2>1 DEF Issues
    <3>2. x.event # "login_succeeded"
      OBVIOUS
    <3> HIDE DEF x
    <3>3. QED
      BY <3>1, <3>2, LoginsUnaffected
  <2>2. Grows
    BY <1>4, SpendingCases DEF flowVars
  <2>3. UNCHANGED audit \/ \E replaced : Issues(w, replaced)
    BY <1>4, SpendingCases DEF tokenVars
  <2>4. QED
    BY <1>3, <2>1, <2>2, <2>3
<1>5. ASSUME NEW w \in Workers, AuditRevocation(w) PROVE LoginsStay /\ Grows
  <2> DEFINE x == [event |-> "token_revoked", id |-> work[w].id]
  <2>1. Audited(x) /\ Grows
    BY <1>5 DEF AuditRevocation, flowVars
  <2>2. x.event # "login_succeeded"
    OBVIOUS
  <2> HIDE DEF x
  <2>3. LoginsStay
    BY <2>1, <2>2, LoginsUnaffected
  <2>4. QED
    BY <2>1, <2>3
<1>6. ASSUME NEW w \in Workers,
             \/ \E f \in Flows, u \in Users : Arrive(w, f, u)
             \/ Admit(w) \/ Match(w) \/ Find(w) \/ Consume(w) \/ End(w)
             \/ \E f \in Flows : Poll(w, f)
             \/ \E t \in tokens : Revoke(w, t)
      PROVE  UNCHANGED audit /\ Grows
  BY <1>6 DEF Arrive, Admit, Match, Find, Consume, End, Poll, Revoke, flowVars, tokenVars
<1>7. ASSUME Tick \/ UNCHANGED vars \/ \E f \in Flows : Start(f) PROVE UNCHANGED audit /\ Grows
  BY <1>7 DEF Tick, vars, flowVars, tokenVars, Start
<1>8. QED
  BY <1>1, <1>2, <1>3, <1>4, <1>5, <1>6, <1>7 DEF Next

\* A request that does not begin to spend takes nothing from who may.
LEMMA SpendersKept ==
    ASSUME RequestsApproved, TokensApproved, OneSpender, UNCHANGED issued,
           \A f \in Flows : \A u \in Users : Approved(f, u) => Approved(f, u)',
           Typed,
           \A w \in Workers : work'[w].at \in {"consume"} \cup Spending => work'[w] = work[w]
    PROVE  /\ RequestsApproved' /\ TokensApproved' /\ OneSpender'
           /\ \A f \in Flows : Unspent(f) => Unspent(f)'
<1>1. ASSUME NEW w \in Workers, work'[w].at \in {"consume"} \cup Spending
      PROVE  Approved(work[w].flow, work[w].user)'
  <2>1. work'[w] = work[w] /\ work[w] \in ApprovedWork
    BY <1>1, WorkShapes DEF Typed
  <2>2. QED
    BY <1>1, <2>1 DEF RequestsApproved, ApprovedWork, Approved
<1>2. RequestsApproved'
  BY <1>1 DEF RequestsApproved
<1>3. TokensApproved'
  BY DEF TokensApproved, Typed, Approved
<1>4. \A w \in Workers : \A f \in Flows : Spends(w, f)' => Spends(w, f)
  BY DEF Spends
<1>5. OneSpender'
  BY <1>4 DEF OneSpender, Typed, Spends
<1>6. QED
  BY <1>2, <1>3, <1>4, <1>5 DEF Unspent

\* An issued token takes over the approval from the request that spends it.
LEMMA IssuesSpends ==
    ASSUME Typed, RequestsApproved, TokensApproved, OneSpender,
           NEW w \in Workers, work[w] \in ApprovedWork, work[w].at \in Spending,
           NEW replaced, Issues(w, replaced), IsAnswered(w, "approved"),
           \A v \in Workers : v # w => work'[v] = work[v],
           \A f \in Flows : \A u \in Users : Approved(f, u) => Approved(f, u)'
    PROVE  /\ RequestsApproved' /\ TokensApproved' /\ OneSpender'
           /\ \A f \in Flows : Unspent(f) => Unspent(f)'
<1>1. PICK t : issued' = issued \cup {t} /\ t.flow = work[w].flow /\ t.user = work[w].user
  <2>1. PICK n : issued' = issued \cup {[id |-> n, flow |-> work[w].flow, user |-> work[w].user]}
    BY DEF Issues
  <2>2. WITNESS [id |-> n, flow |-> work[w].flow, user |-> work[w].user]
  <2>3. QED
    BY <2>1
<1>2. work[w].flow \in Flows /\ work[w].user \in Users
  BY DEF ApprovedWork
<1>3. TokensApproved'
  <2>1. Approved(t.flow, t.user)'
    BY <1>1, <1>2 DEF RequestsApproved
  <2>2. \A s \in issued : Approved(s.flow, s.user)'
    BY DEF TokensApproved, Typed
  <2>3. QED
    BY <1>1, <2>1, <2>2 DEF TokensApproved
<1>4. work'[w].at = "answered"
  BY DEF IsAnswered
<1>5. RequestsApproved'
  <2> SUFFICES ASSUME NEW v \in Workers, work'[v].at \in {"consume"} \cup Spending
               PROVE  Approved(work[v].flow, work[v].user)'
    BY DEF RequestsApproved
  <2>1. v # w /\ work'[v] = work[v]
    BY <1>4 DEF Spending
  <2>2. work[v] \in ApprovedWork
    BY <2>1, WorkShapes DEF Typed
  <2>3. QED
    BY <2>1, <2>2 DEF RequestsApproved, ApprovedWork, Approved
<1>6. \A v \in Workers : \A f \in Flows : Spends(v, f)' => v # w /\ Spends(v, f)
  BY <1>4 DEF Spends, Spending
<1>7. Spends(w, work[w].flow)
  BY DEF Spends
<1>8. OneSpender'
  <2>1. \A v, x \in Workers : \A f \in Flows : Spends(v, f)' /\ Spends(x, f)' => v = x
    BY <1>6 DEF OneSpender
  <2>2. \A v \in Workers : \A s \in issued' : ~ Spends(v, s.flow)'
    BY <1>1, <1>2, <1>6, <1>7 DEF OneSpender, Typed
  <2>3. \A r, s \in issued' : r.flow = s.flow => r = s
    BY <1>1, <1>7 DEF OneSpender
  <2>4. QED
    BY <2>1, <2>2, <2>3 DEF OneSpender, Spends
<1>9. \A f \in Flows : Unspent(f) => Unspent(f)'
  BY <1>1, <1>6, <1>7 DEF Unspent
<1>10. QED
  BY <1>3, <1>5, <1>8, <1>9

\* Every step keeps the invariant of the approvals.
LEMMA ApprovalStep ==
    Typed /\ PollInvariant /\ TicketInvariant /\ ApprovalInvariant /\ [Next]_vars
        => ApprovalInvariant'
<1> SUFFICES ASSUME Typed, PollInvariant, TicketInvariant, ApprovalInvariant, [Next]_vars
             PROVE  ApprovalInvariant'
  OBVIOUS
<1> DEFINE SpendersStay == /\ RequestsApproved' /\ TokensApproved' /\ OneSpender'
                           /\ \A f \in Flows : Unspent(f) => Unspent(f)'
<1> USE DEF ApprovalInvariant
<1>1. /\ \A f \in Flows : \A u \in Users : Approved(f, u) => Approved(f, u)'
      /\ LoginsDecided'
  BY ApprovalsStay
<1>2. \A f \in DOMAIN rows : f \in Flows /\ rows[f].user \in Users
  BY DEF Typed, Rows
\* A step after which the rows that are there say of their status what they said before.
<1>3. ASSUME \A f \in DOMAIN rows' : rows'[f].status # "awaiting" =>
                /\ f \in DOMAIN rows /\ rows'[f].user = rows[f].user
                /\ rows'[f].status = rows[f].status,
             DOMAIN rows' \subseteq Flows, decided' = decided, SpendersStay
      PROVE  ApprovalInvariant'
  <2>1. ASSUME NEW f \in DOMAIN rows', rows'[f].status = "approved"
        PROVE  Approved(f, rows[f].user)' /\ Unspent(f)'
    <3>1. f \in DOMAIN rows /\ rows'[f].user = rows[f].user /\ rows[f].status = "approved"
      BY <1>3, <2>1
    <3>2. Approved(f, rows[f].user) /\ Unspent(f)
      BY <3>1 DEF RowsApproved
    <3>3. QED
      BY <1>1, <1>2, <1>3, <3>1, <3>2 DEF Approved
  <2>2. RowsApproved'
    BY <1>3, <2>1 DEF RowsApproved
  <2>3. QED
    BY <1>1, <1>3, <2>2
<1>4. ASSUME NEW w \in Workers, Admit(w) PROVE ApprovalInvariant'
  <2>1. \A v \in Workers : work'[v].at \in {"consume"} \cup Spending => work'[v] = work[v]
    BY <1>4, OtherStates DEF Spending
  <2>2. SpendersStay
    BY <1>1, <1>4, <2>1, SpendersKept DEF Admit, tokenVars
  <2>3. work[w].flow \in Flows
    BY <1>4, WorkShapes DEF Admit, Typed, AdmitWork
  <2>4. /\ DOMAIN rows' \subseteq Flows
        /\ \A f \in DOMAIN rows' : rows'[f].status # "awaiting" =>
                /\ f \in DOMAIN rows /\ rows'[f].user = rows[f].user
                /\ rows'[f].status = rows[f].status
    BY <1>2, <1>4, <2>3 DEF Admit
  <2>5. QED
    BY <1>3, <1>4, <2>2, <2>4 DEF Admit
<1>5. ASSUME NEW w \in Workers, Match(w) PROVE ApprovalInvariant'
  <2>1. \A v \in Workers : work'[v].at \in {"consume"} \cup Spending => work'[v] = work[v]
    BY <1>5, OtherStates DEF Spending
  <2>2. SpendersStay
    BY <1>1, <1>5, <2>1, SpendersKept DEF Match, tokenVars
  <2>3. /\ DOMAIN rows' \subseteq Flows
        /\ \A f \in DOMAIN rows' : /\ f \in DOMAIN rows /\ rows'[f].user = rows[f].user
                                   /\ rows'[f].status = rows[f].status
    BY <1>2, <1>5 DEF Match, Matches, Typed, Rows
  <2>4. QED
    BY <1>3, <1>5, <2>2, <2>3 DEF Match
<1>6. ASSUME NEW page \in pages, NEW decision \in {"approved", "denied"}, NEW now \in RecentTimes,
             Decide(page, decision, now)
      PROVE  ApprovalInvariant'
  <2> DEFINE r == page.flow
  <2>1. /\ r \in DOMAIN rows /\ r \in Flows /\ r \notin decided
        /\ decision = "approved" => Approved(r, rows[r].user)'
    BY <1>6, DecideEffect
  <2>2. /\ DOMAIN rows' = DOMAIN rows /\ rows'[r].status = decision
        /\ \A f \in DOMAIN rows : f # r => rows'[f] = rows[f]
        /\ decided' = decided \cup {r} /\ UNCHANGED <<work, issued>>
    BY <1>6, <2>1 DEF Decide, Typed, Rows
  <2>3. SpendersStay
    BY <1>1, <2>2, SpendersKept
  <2>4. Unspent(r)
    <3>1. \A w \in Workers : ~ Spends(w, r)
      BY <2>1 DEF Spends, RequestsApproved, Approved
    <3>2. \A t \in issued : t.flow # r
      BY <2>1 DEF TokensApproved, Approved
    <3>3. QED
      BY <3>1, <3>2 DEF Unspent
  <2>5. ASSUME NEW f \in DOMAIN rows, f # r, rows[f].status = "approved"
        PROVE  Approved(f, rows[f].user)' /\ Unspent(f)'
    BY <1>1, <1>2, <2>2, <2>3, <2>5 DEF RowsApproved, Approved
  <2>6. RowsApproved'
    BY <1>2, <2>1, <2>2, <2>3, <2>4, <2>5 DEF RowsApproved
  <2>7. QED
    BY <1>1, <2>3, <2>6
<1>7. ASSUME NEW w \in Workers, Find(w) PROVE ApprovalInvariant'
  <2>1. UNCHANGED <<rows, decided, issued>>
    BY <1>7, FindCases DEF flowVars, tokenVars
  <2>2. CASE work'[w].at = "answered"
    <3>1. \A v \in Workers : work'[v].at \in {"consume"} \cup Spending => work'[v] = work[v]
      BY <1>7, <2>2, FindCases DEF Spending
    <3>2. SpendersStay
      BY <1>1, <2>1, <3>1, SpendersKept
    <3>3. QED
      BY <1>2, <1>3, <2>1, <3>2
  <2>3. CASE work[w].flow \in DOMAIN rows /\ rows[work[w].flow].status = "approved"
             /\ IsApproved(w, "consume", rows[work[w].flow].user)
    <3>1. Approved(work[w].flow, rows[work[w].flow].user)'
      BY <1>1, <1>2, <2>1, <2>3 DEF RowsApproved, IsApproved, Approved
    <3>2. ASSUME NEW v \in Workers, v # w, work'[v].at \in {"consume"} \cup Spending
          PROVE  Approved(work[v].flow, work[v].user)'
      <4>1. work'[v] = work[v] /\ work[v] \in ApprovedWork
        BY <1>7, <3>2, FindCases, WorkShapes DEF Typed
      <4>2. QED
        BY <1>1, <3>2, <4>1 DEF RequestsApproved, ApprovedWork, Approved
    <3>3. RequestsApproved'
      BY <2>1, <2>3, <3>1, <3>2 DEF RequestsApproved, IsApproved, Approved
    <3>4. \A v \in Workers : \A f \in Flows : Spends(v, f)' => Spends(v, f)
      BY <1>7, <2>3, FindCases DEF Spends, IsApproved, Spending
    <3>5. TokensApproved'
      BY <1>1, <2>1 DEF TokensApproved, Typed, Approved
    <3>6. OneSpender'
      BY <2>1, <3>4 DEF OneSpender, Typed, Spends
    <3>7. SpendersStay
      BY <2>1, <3>3, <3>4, <3>5, <3>6 DEF Unspent
    <3>8. QED
      BY <1>2, <1>3, <2>1, <3>7
  <2>4. QED
    BY <1>7, <2>2, <2>3, FindCases DEF IsAnswered
<1>8. ASSUME NEW w \in Workers, Consume(w) PROVE ApprovalInvariant'
  <2> DEFINE r == work[w].flow
  <2>1. /\ work[w] \in ApprovedWork /\ work[w].at = "consume" /\ UNCHANGED <<decided, issued>>
        /\ \A v \in Workers : v # w => work'[v] = work[v]
    BY <1>8, ConsumeCases DEF tokenVars
  <2>2. CASE IsAnswered(w, "rejected") /\ UNCHANGED rows
    <3>1. \A v \in Workers : work'[v].at \in {"consume"} \cup Spending => work'[v] = work[v]
      BY <2>1, <2>2 DEF IsAnswered, Spending
    <3>2. SpendersStay
      BY <1>1, <2>1, <3>1, SpendersKept
    <3>3. QED
      BY <1>2, <1>3, <2>1, <2>2, <3>2
  <2>3. CASE /\ Consumable(r) /\ rows' = [rows EXCEPT ![r].status = "consumed"]
             /\ IsApproved(w, "rotate", work[w].user)
    <3>1. /\ r \in DOMAIN rows /\ rows[r].status = "approved" /\ DOMAIN rows' = DOMAIN rows
          /\ rows'[r].status = "consumed"
          /\ \A f \in DOMAIN rows : f # r => rows'[f] = rows[f]
      BY <2>3 DEF Consumable, Typed, Rows
    <3>2. r \in Flows /\ work[w].user \in Users /\ r \in decided /\ Unspent(r)
      BY <1>2, <2>1, <3>1 DEF RowsApproved, ApprovedWork
    <3>3. Approved(work[w].flow, work[w].user)'
      BY <1>1, <2>1, <2>3, <3>2 DEF RequestsApproved, IsApproved, Approved
    <3>4. ASSUME NEW v \in Workers, v # w, work'[v].at \in {"consume"} \cup Spending
          PROVE  Approved(work[v].flow, work[v].user)'
      <4>1. work'[v] = work[v] /\ work[v] \in ApprovedWork
        BY <2>1, <3>4, WorkShapes DEF Typed
      <4>2. QED
        BY <1>1, <3>4, <4>1 DEF RequestsApproved, ApprovedWork, Approved
    <3>5. RequestsApproved'
      BY <2>3, <3>3, <3>4 DEF RequestsApproved, IsApproved, Approved
    <3>6. \A v \in Workers : \A f \in Flows :
             Spends(v, f)' => (v = w /\ f = r) \/ (v # w /\ Spends(v, f))
      BY <2>1, <2>3 DEF Spends, IsApproved
    <3>7. TokensApproved'
      BY <1>1, <2>1 DEF TokensApproved, Typed, Approved
    <3>8. OneSpender'
      <4>1. \A v, x \in Workers : \A f \in Flows : Spends(v, f)' /\ Spends(x, f)' => v = x
        BY <3>2, <3>6 DEF OneSpender, Unspent
      <4>2. \A v \in Workers : \A t \in issued' : ~ Spends(v, t.flow)'
        BY <2>1, <3>2, <3>6 DEF OneSpender, Unspent, Typed
      <4>3. \A s, t \in issued' : s.flow = t.flow => s = t
        BY <2>1 DEF OneSpender
      <4>4. QED
        BY <4>1, <4>2, <4>3 DEF OneSpender, Spends
    <3>9. \A f \in Flows : f # r /\ Unspent(f) => Unspent(f)'
      BY <2>1, <3>6 DEF Unspent
    <3>10. ASSUME NEW f \in DOMAIN rows', rows'[f].status = "approved"
           PROVE  Approved(f, rows[f].user)' /\ Unspent(f)'
      <4>1. f # r /\ rows'[f] = rows[f] /\ f \in DOMAIN rows
        BY <3>1, <3>10
      <4>2. Approved(f, rows[f].user) /\ Unspent(f)
        BY <3>10, <4>1 DEF RowsApproved
      <4>3. QED
        BY <1>1, <1>2, <3>9, <4>1, <4>2 DEF Approved
    <3>11. RowsApproved'
      BY <2>1, <3>1, <3>2, <3>10 DEF RowsApproved
    <3>12. QED
      BY <1>1, <3>5, <3>7, <3>8, <3>11
  <2>4. QED
    BY <1>8, <2>2, <2>3, ConsumeCases
<1>9. ASSUME NEW w \in Workers, Rotate(w) \/ Create(w) \/ RotateAgain(w)
      PROVE  ApprovalInvariant'
  <2>1. /\ work[w] \in ApprovedWork /\ work[w].at \in Spending /\ UNCHANGED <<rows, decided>>
        /\ \A v \in Workers : v # w => work'[v] = work[v]
    BY <1>9, SpendingCases DEF flowVars
  <2>2. CASE UNCHANGED tokenVars /\ IsAnswered(w, "token limit")
    <3>1. \A v \in Workers : work'[v].at \in {"consume"} \cup Spending => work'[v] = work[v]
      BY <2>1, <2>2 DEF IsAnswered, Spending
    <3>2. SpendersStay
      BY <1>1, <2>2, <3>1, SpendersKept DEF tokenVars
    <3>3. QED
      BY <1>2, <1>3, <2>1, <3>2
  <2>3. CASE UNCHANGED tokenVars /\ \E at \in Spending : IsApproved(w, at, work[w].user)
    <3>1. \A v \in Workers : \A f \in Flows : Spends(v, f)' <=> Spends(v, f)
      BY <2>1, <2>3 DEF Spends, IsApproved
    <3>2. work'[w].flow = work[w].flow /\ work'[w].user = work[w].user
      BY <2>3 DEF IsApproved
    <3>3. ASSUME NEW v \in Workers, work'[v].at \in {"consume"} \cup Spending
          PROVE  Approved(work[v].flow, work[v].user)'
      <4>1. /\ work'[v].flow = work[v].flow /\ work'[v].user = work[v].user
            /\ work[v] \in ApprovedWork
        BY <2>1, <3>2, <3>3, WorkShapes DEF Typed
      <4>2. work[v].at \in {"consume"} \cup Spending
        BY <4>1 DEF ApprovedWork
      <4>3. QED
        BY <1>1, <4>1, <4>2 DEF RequestsApproved, ApprovedWork, Approved
    <3>4. RequestsApproved'
      BY <3>3 DEF RequestsApproved
    <3>5. TokensApproved'
      BY <1>1, <2>3 DEF TokensApproved, Typed, Approved, tokenVars
    <3>6. OneSpender'
      BY <2>3, <3>1 DEF OneSpender, Typed, Spends, tokenVars
    <3>7. SpendersStay
      BY <2>3, <3>1, <3>4, <3>5, <3>6 DEF Unspent, tokenVars
    <3>8. QED
      BY <1>2, <1>3, <2>1, <3>7
  <2>4. CASE IsAnswered(w, "approved") /\ \E replaced : Issues(w, replaced)
    <3>1. SpendersStay
      BY <1>1, <2>1, <2>4, IssuesSpends
    <3>2. QED
      BY <1>2, <1>3, <2>1, <3>1
  <2>5. QED
    BY <1>9, <2>2, <2>3, <2>4, SpendingCases
<1>10. ASSUME NEW w \in Workers,
              \/ \E f \in Flows, u \in Users : Arrive(w, f, u)
              \/ \E f \in Flows : Poll(w, f)
              \/ \E t \in tokens : Revoke(w, t)
              \/ AuditRevocation(w)
              \/ End(w)
       PROVE  ApprovalInvariant'
  <2>1. UNCHANGED <<rows, decided, issued>>
    BY <1>10 DEF Arrive, Poll, Revoke, AuditRevocation, End, flowVars, tokenVars
  <2>2. \A v \in Workers : work'[v].at \in {"consume"} \cup Spending => work'[v] = work[v]
    BY <1>10, OtherStates DEF Spending
  <2>3. SpendersStay
    BY <1>1, <2>1, <2>2, SpendersKept
  <2>4. QED
    BY <1>2, <1>3, <2>1, <2>3
<1>11. ASSUME Tick \/ UNCHANGED vars \/ \E f \in Flows : Start(f) PROVE ApprovalInvariant'
  <2>1. UNCHANGED <<rows, decided, issued, work>>
    BY <1>11 DEF Tick, vars, flowVars, tokenVars, Start
  <2>2. SpendersStay
    BY <1>1, <2>1, SpendersKept
  <2>3. QED
    BY <1>2, <1>3, <2>1, <2>2
<1>12. QED
  BY <1>4, <1>5, <1>6, <1>7, <1>8, <1>9, <1>10, <1>11 DEF Next

\* One token per flow, for the person who approved its page, with one login on
\* record, however many polls race and whatever becomes of the row (decideCas,
\* consumeCas, createOrMatch).
THEOREM TokensAreApproved == Spec => []TokensFollowApprovals
<1> DEFINE Inv == Typed /\ PollInvariant /\ TicketInvariant /\ ApprovalInvariant
<1>1. Init => PollInvariant /\ TicketInvariant /\ ApprovalInvariant
  <2> SUFFICES ASSUME Init PROVE PollInvariant /\ TicketInvariant /\ ApprovalInvariant
    OBVIOUS
  <2>1. PollInvariant
    BY DEF Init, PollInvariant, RowsCarryExpiry, DecidedKept, RequestTimely, Idle
  <2>2. TicketInvariant
    BY DEF Init, TicketInvariant, TicketsDrawnOnce, PageOfRow, Idle
  <2>3. RowsApproved /\ RequestsApproved /\ TokensApproved /\ OneSpender
    BY DEF Init, RowsApproved, RequestsApproved, TokensApproved, OneSpender, Idle, Spending, Spends
  <2>4. LoginsDecided
    BY DEF Init, LoginsDecided, Copies, EmptyBag, SetToBag, BagIn, BagToSet
  <2>5. QED
    BY <2>1, <2>2, <2>3, <2>4 DEF ApprovalInvariant
<1>2. Inv /\ [Next]_vars => Inv'
  BY TypedStep, PollStep, TicketStep, ApprovalStep
<1>3. Typed /\ ApprovalInvariant => TokensFollowApprovals
  BY DEF ApprovalInvariant, TokensApproved, OneSpender, Approved, Login, TokensFollowApprovals
<1>4. QED
  BY <1>1, <1>2, <1>3, TypedInit, PTL DEF Spec

(***************************************************************************)
(* Tokens are accounted for.                                               *)
(*                                                                         *)
(* The audit log is read by id: what it says of the creation, replacement   *)
(* and revocation of every id that was ever issued, and of no other.       *)
(***************************************************************************)

Ids(S) == {t.id : t \in S}

Creations(n) == {e \in BagToSet(audit) : e.event = "token_created" /\ e.id = n}

Revocation(n) == [event |-> "token_revoked", id |-> n]

\* Tokens are known by their ids, of which the next one is new.
IdsInOrder ==
    /\ \A i \in issued : i.id <= Cardinality(issued)
    /\ Ids(tokens) \subseteq Ids(issued) /\ deleted \subseteq Ids(issued)
    /\ \A s, t \in tokens : s.id = t.id => s = t
    /\ \A t \in tokens : t.id \notin deleted

OneOfAName == \A s, t \in tokens : s.user = t.user /\ s.name = t.name => s = t

WithinLimit ==
    \A u \in Users : IsFiniteSet(TokensOf(u)) /\ Cardinality(TokensOf(u)) <= MAX_TOKENS_PER_USER

CreationsRecorded ==
    \A n \in Nat : IF n \in Ids(issued) THEN \E e : Creations(n) = {e} ELSE Creations(n) = {}

\* An id that is gone without a revocation is gone by one replacement.
ReplacementsRecorded ==
    \A n \in Nat : IF n \in Ids(issued) \ (Ids(tokens) \cup deleted)
                   THEN \E e : Replacements(n) = {e} ELSE Replacements(n) = {}

RevocationsRecorded ==
    /\ \A n \in Nat : Copies(Revocation(n)) <= IF n \in deleted THEN 1 ELSE 0
    /\ \A w \in Workers : work[w].at = "revoked" =>
          /\ work[w].id \in deleted /\ Copies(Revocation(work[w].id)) = 0
          /\ \A v \in Workers : work[v].at = "revoked" /\ work[v].id = work[w].id => v = w

AccountInvariant ==
    /\ IdsInOrder
    /\ OneOfAName
    /\ WithinLimit
    /\ CreationsRecorded
    /\ ReplacementsRecorded
    /\ RevocationsRecorded

\* A request that is not about a revocation does not touch the account of them.
LEMMA RevocationsKept ==
    ASSUME Typed, RevocationsRecorded, UNCHANGED <<deleted>>,
           \A n \in Nat : Copies(Revocation(n))' = Copies(Revocation(n)),
           \A w \in Workers : work'[w].at = "revoked" => work'[w] = work[w]
    PROVE  RevocationsRecorded'
<1>1. \A w \in Workers : work[w].at = "revoked" => work[w].id \in Nat
  BY WorkShapes DEF Typed, RevokedWork
<1>2. \A w \in Workers : work'[w].at = "revoked" =>
          /\ work[w].at = "revoked" /\ work'[w].id = work[w].id /\ work[w].id \in Nat
          /\ Copies(Revocation(work[w].id))' = 0
  <2> SUFFICES ASSUME NEW w \in Workers, work'[w].at = "revoked"
               PROVE  /\ work[w].at = "revoked" /\ work'[w].id = work[w].id /\ work[w].id \in Nat
                      /\ Copies(Revocation(work[w].id))' = 0
    OBVIOUS
  <2>1. work'[w] = work[w] /\ work[w].id \in Nat
    BY <1>1
  <2>2. PICK n \in Nat : n = work[w].id /\ n = work'[w].id
    BY <2>1
  <2>3. Copies(Revocation(n))' = Copies(Revocation(n)) /\ Copies(Revocation(n)) = 0
    BY <2>1, <2>2 DEF RevocationsRecorded
  <2>4. QED
    BY <2>1, <2>2, <2>3
<1>3. QED
  BY <1>1, <1>2 DEF RevocationsRecorded

\* A step that leaves tokens and audit log alone leaves the account alone.
LEMMA AccountKept ==
    ASSUME Typed, AccountInvariant, UNCHANGED tokenVars,
           \A w \in Workers : work'[w].at = "revoked" => work'[w] = work[w]
    PROVE  AccountInvariant'
<1>1. /\ IdsInOrder' /\ OneOfAName' /\ WithinLimit'
      /\ CreationsRecorded' /\ ReplacementsRecorded'
  BY DEF AccountInvariant, tokenVars, IdsInOrder, Ids, OneOfAName, WithinLimit, TokensOf,
         CreationsRecorded, Creations, ReplacementsRecorded, Replacements
<1>2. \A n \in Nat : Copies(Revocation(n))' = Copies(Revocation(n))
  BY DEF tokenVars, Copies, Revocation
<1>3. RevocationsRecorded'
  BY <1>2, RevocationsKept DEF AccountInvariant, tokenVars
<1>4. QED
  BY <1>1, <1>3 DEF AccountInvariant

\* A person's tokens after one of them is replaced or a free place is taken.
LEMMA LimitKept ==
    ASSUME Typed, OneOfAName, WithinLimit, NEW w \in Workers, work[w] \in ApprovedWork,
           Issues(w, SameName(w)), UNCHANGED <<nameOf>>,
           SameName(w) = {} => Cardinality(TokensOf(work[w].user)) < MAX_TOKENS_PER_USER
    PROVE  WithinLimit'
<1>1. PICK u \in Users : u = work[w].user
  BY DEF ApprovedWork
<1>2. PICK new : new = NewToken(w) /\ new.user = u
  <2>1. NewToken(w).user = u
    BY <1>1 DEF NewToken
  <2>2. QED
    BY <2>1
<1>3. /\ IsFiniteSet(TokensOf(u)) /\ Cardinality(TokensOf(u)) \in Nat
      /\ Cardinality(TokensOf(u)) <= MAX_TOKENS_PER_USER /\ MAX_TOKENS_PER_USER \in Nat
  BY FS_CardinalityType, SignInAssumption DEF WithinLimit
<1>4. tokens' = (tokens \ SameName(w)) \cup {new}
  BY <1>2 DEF Issues
<1>5. SameName(w) \subseteq TokensOf(u)
  BY <1>1 DEF SameName
<1>6. TokensOf(u)' = (TokensOf(u) \ SameName(w)) \cup {new}
  BY <1>2, <1>4 DEF TokensOf
<1>7. \A v \in Users : v # u => TokensOf(v)' = TokensOf(v)
  BY <1>2, <1>4, <1>5 DEF TokensOf
<1>8. IsFiniteSet(TokensOf(u)') /\ Cardinality(TokensOf(u)') <= MAX_TOKENS_PER_USER
  <2>1. CASE SameName(w) = {}
    <3>1. TokensOf(u)' = TokensOf(u) \cup {new} /\ Cardinality(TokensOf(u)) < MAX_TOKENS_PER_USER
      BY <1>1, <1>6, <2>1
    <3>2. /\ IsFiniteSet(TokensOf(u) \cup {new})
          /\ \/ Cardinality(TokensOf(u) \cup {new}) = Cardinality(TokensOf(u))
             \/ Cardinality(TokensOf(u) \cup {new}) = Cardinality(TokensOf(u)) + 1
      BY <1>3, FS_AddElement
    <3>3. QED
      BY <1>3, <3>1, <3>2
  <2>2. ASSUME NEW s \in SameName(w)
        PROVE  IsFiniteSet(TokensOf(u)') /\ Cardinality(TokensOf(u)') <= MAX_TOKENS_PER_USER
    <3>1. SameName(w) = {s}
      BY <2>2 DEF OneOfAName, SameName, TokensOf
    <3> DEFINE S == TokensOf(u) \ {s}
    <3>2. s \in TokensOf(u) /\ TokensOf(u)' = S \cup {new}
      BY <1>5, <1>6, <3>1
    <3>3. IsFiniteSet(S) /\ Cardinality(S) = Cardinality(TokensOf(u)) - 1
      BY <1>3, <3>2, FS_RemoveElement
    <3>4. /\ IsFiniteSet(S \cup {new})
          /\ \/ Cardinality(S \cup {new}) = Cardinality(S)
             \/ Cardinality(S \cup {new}) = Cardinality(S) + 1
      BY <3>3, FS_AddElement
    <3>5. QED
      BY <1>3, <3>2, <3>3, <3>4
  <2>3. QED
    BY <2>1, <2>2
<1>9. QED
  BY <1>7, <1>8 DEF WithinLimit

\* A token that is issued is accounted for, and so is the one it replaces.
LEMMA IssuesAccounted ==
    ASSUME Typed, AccountInvariant, NEW w \in Workers, work[w] \in ApprovedWork,
           Issues(w, SameName(w)), IsAnswered(w, "approved"), UNCHANGED <<nameOf>>,
           \A v \in Workers : v # w => work'[v] = work[v],
           SameName(w) = {} => Cardinality(TokensOf(work[w].user)) < MAX_TOKENS_PER_USER
    PROVE  AccountInvariant'
<1> USE DEF AccountInvariant
<1>1. PICK n \in Nat : n = Cardinality(issued) + 1
  BY FS_CardinalityType DEF Typed
<1>2. PICK new : /\ new = NewToken(w) /\ new.id = n /\ new.user = work[w].user
                 /\ new.name = nameOf[work[w].flow]
  <2>1. /\ NewToken(w).id = n /\ NewToken(w).user = work[w].user
        /\ NewToken(w).name = nameOf[work[w].flow]
    BY <1>1 DEF NewToken
  <2>2. QED
    BY <2>1
<1>3. PICK R : R = SameName(w) /\ R \subseteq tokens
  BY DEF SameName, TokensOf
<1>4. PICK x : /\ x = [event |-> "token_created", id |-> n, replaced |-> Ids(R)]
               /\ Audited(x)
  BY <1>2, <1>3 DEF Issues, Ids
<1>5. x.event = "token_created" /\ x.id = n /\ x.replaced = Ids(R)
  BY <1>4
<1>6. tokens' = (tokens \ R) \cup {new} /\ deleted' = deleted
  BY <1>2, <1>3 DEF Issues
<1>7. n \notin Ids(issued)
  BY <1>1, FS_CardinalityType DEF IdsInOrder, Ids, Typed
<1>8. PICK entry : issued' = issued \cup {entry} /\ entry.id = n
  <2>1. [id |-> n, flow |-> work[w].flow, user |-> work[w].user].id = n
    OBVIOUS
  <2>2. issued' = issued \cup {[id |-> n, flow |-> work[w].flow, user |-> work[w].user]}
    BY <1>2 DEF Issues
  <2>3. QED
    BY <2>1, <2>2
<1>9. Ids(issued)' = Ids(issued) \cup {n}
  BY <1>8 DEF Ids
<1>10. Ids(tokens)' = (Ids(tokens) \ Ids(R)) \cup {n}
  BY <1>2, <1>3, <1>6 DEF Ids, IdsInOrder
<1>11. BagToSet(audit)' = BagToSet(audit) \cup {x}
       /\ \A m \in Nat : Copies(Revocation(m))' = Copies(Revocation(m))
  <2>1. \A m \in Nat : Revocation(m) # x
    BY <1>5 DEF Revocation
  <2>2. IsABag(audit)
    BY DEF Typed
  <2>3. QED
    BY <1>4, <2>1, <2>2, AuditStep
<1>12. IdsInOrder'
  <2>1. Cardinality(issued') = Cardinality(issued) + 1
    <3>1. entry \notin issued
      BY <1>7, <1>8 DEF Ids
    <3>2. QED
      BY <1>8, <3>1, FS_AddElement DEF Typed
  <2>2. \A i \in issued' : i.id <= Cardinality(issued')
    <3>1. Cardinality(issued) \in Nat /\ Cardinality(issued') = n
      BY <1>1, <2>1, FS_CardinalityType DEF Typed
    <3>2. \A i \in issued : i.id \in Nat /\ i.id <= Cardinality(issued)
      BY DEF IdsInOrder, Typed
    <3>3. QED
      BY <1>1, <1>8, <3>1, <3>2
  <2>3. Ids(tokens)' \subseteq Ids(issued)' /\ deleted' \subseteq Ids(issued)'
    BY <1>6, <1>9, <1>10 DEF IdsInOrder
  <2>4. \A s, t \in tokens' : s.id = t.id => s = t
    BY <1>2, <1>6, <1>7 DEF IdsInOrder, Ids
  <2>5. \A t \in tokens' : t.id \notin deleted'
    BY <1>2, <1>6, <1>7 DEF IdsInOrder, Ids
  <2>6. QED
    BY <2>2, <2>3, <2>4, <2>5 DEF IdsInOrder
<1>13. OneOfAName'
  BY <1>2, <1>3, <1>6 DEF OneOfAName, SameName, TokensOf
<1>14. WithinLimit'
  BY LimitKept
<1>15. CreationsRecorded'
  <2>1. Creations(n)' = Creations(n) \cup {x} /\ Creations(n) = {}
    BY <1>5, <1>7, <1>11 DEF Creations, CreationsRecorded
  <2>2. \A m \in Nat : m # n => Creations(m)' = Creations(m)
    BY <1>5, <1>11 DEF Creations
  <2>3. QED
    BY <1>9, <2>1, <2>2 DEF CreationsRecorded
<1>16. ReplacementsRecorded'
  <2>1. Ids(R) \subseteq Ids(tokens) \cap Ids(issued) /\ Ids(R) \cap deleted = {}
    BY <1>3 DEF Ids, IdsInOrder
  <2>2. ASSUME NEW m \in Nat, m \in Ids(R)
        PROVE  /\ m \in (Ids(issued) \ (Ids(tokens) \cup deleted))'
               /\ Replacements(m)' = {x}
    <3>1. Replacements(m) = {}
      BY <2>1, <2>2 DEF ReplacementsRecorded
    <3>2. Replacements(m)' = {x}
      BY <1>5, <1>11, <2>2, <3>1 DEF Replacements
    <3>3. QED
      BY <1>6, <1>7, <1>9, <1>10, <2>1, <2>2, <3>2
  <2>3. ASSUME NEW m \in Nat, m \notin Ids(R)
        PROVE  /\ Replacements(m)' = Replacements(m)
               /\ m \in (Ids(issued) \ (Ids(tokens) \cup deleted))'
                    <=> m \in Ids(issued) \ (Ids(tokens) \cup deleted)
    <3>1. Replacements(m)' = Replacements(m)
      BY <1>5, <1>11, <2>3 DEF Replacements
    <3>2. QED
      BY <1>6, <1>7, <1>9, <1>10, <2>3, <3>1
  <2>4. QED
    BY <2>2, <2>3 DEF ReplacementsRecorded
<1>17. RevocationsRecorded'
  <2>1. \A v \in Workers : work'[v].at = "revoked" => work'[v] = work[v]
    BY DEF IsAnswered
  <2>2. QED
    BY <1>6, <1>11, <2>1, RevocationsKept
<1>18. QED
  BY <1>12, <1>13, <1>14, <1>15, <1>16, <1>17

\* The row of a login says nothing of tokens.
LEMMA LoginsOutOfAccount ==
    ASSUME Typed, AccountInvariant, UNCHANGED <<tokens, issued, deleted, work>>,
           NEW x, x.event = "login_succeeded", Audited(x)
    PROVE  AccountInvariant'
<1>1. BagToSet(audit)' = BagToSet(audit) \cup {x}
      /\ \A n \in Nat : Copies(Revocation(n))' = Copies(Revocation(n))
  <2>1. IsABag(audit) /\ \A n \in Nat : Revocation(n) # x
    BY DEF Typed, Revocation
  <2>2. QED
    BY <2>1, AuditStep
<1>2. \A n \in Nat : Creations(n)' = Creations(n) /\ Replacements(n)' = Replacements(n)
  BY <1>1 DEF Creations, Replacements
<1>3. /\ IdsInOrder' /\ OneOfAName' /\ WithinLimit'
      /\ CreationsRecorded' /\ ReplacementsRecorded'
  BY <1>2 DEF AccountInvariant, IdsInOrder, Ids, OneOfAName, WithinLimit, TokensOf,
              CreationsRecorded, ReplacementsRecorded
<1>4. RevocationsRecorded'
  BY <1>1, RevocationsKept DEF AccountInvariant
<1>5. QED
  BY <1>3, <1>4 DEF AccountInvariant

\* A revoked token is accounted for, before and after it is audited.
LEMMA RevokeAccounted ==
    ASSUME Typed, AccountInvariant, NEW w \in Workers, NEW t \in tokens, Revoke(w, t)
    PROVE  AccountInvariant'
<1> USE DEF AccountInvariant
<1>1. PICK n \in Nat : n = t.id
  BY DEF Typed
<1>2. /\ tokens' = tokens \ {t} /\ deleted' = deleted \cup {n}
      /\ UNCHANGED <<audit, issued>>
  BY <1>1 DEF Revoke
<1>3. n \in Ids(tokens) /\ n \in Ids(issued) /\ n \notin deleted
  BY <1>1 DEF Ids, IdsInOrder
<1>4. Ids(tokens)' = Ids(tokens) \ {n} /\ Ids(issued)' = Ids(issued)
  BY <1>1, <1>2 DEF Ids, IdsInOrder
<1>5. IdsInOrder'
  BY <1>2, <1>3, <1>4 DEF IdsInOrder, Ids
<1>6. OneOfAName'
  BY <1>2 DEF OneOfAName
<1>7. WithinLimit'
  <2> SUFFICES ASSUME NEW u \in Users
               PROVE  /\ IsFiniteSet(TokensOf(u)')
                      /\ Cardinality(TokensOf(u)') <= MAX_TOKENS_PER_USER
    BY DEF WithinLimit
  <2>1. TokensOf(u)' \subseteq TokensOf(u)
    BY <1>2 DEF TokensOf
  <2>2. /\ IsFiniteSet(TokensOf(u)') /\ Cardinality(TokensOf(u)') <= Cardinality(TokensOf(u))
        /\ Cardinality(TokensOf(u)') \in Nat /\ Cardinality(TokensOf(u)) \in Nat
    BY <2>1, FS_Subset, FS_CardinalityType DEF WithinLimit
  <2>3. QED
    BY <2>2, SignInAssumption DEF WithinLimit
<1>8. CreationsRecorded'
  BY <1>2, <1>4 DEF CreationsRecorded, Creations
<1>9. ReplacementsRecorded'
  BY <1>2, <1>3, <1>4 DEF ReplacementsRecorded, Replacements
<1>10. RevocationsRecorded'
  <2>1. work'[w].at = "revoked" /\ work'[w].id = n
        /\ \A v \in Workers : v # w => work'[v] = work[v]
    BY <1>1, GoesEffect DEF Revoke
  <2>2. \A m \in Nat : Copies(Revocation(m))' = Copies(Revocation(m))
    BY <1>2 DEF Copies, Revocation
  <2>3. Copies(Revocation(n)) = 0
    BY <1>3, CopiesType DEF RevocationsRecorded, Typed
  <2>4. \A m \in Nat : Copies(Revocation(m))' <= IF m \in deleted' THEN 1 ELSE 0
    BY <1>2, <2>2, <2>3 DEF RevocationsRecorded
  <2>5. ASSUME NEW v \in Workers, work'[v].at = "revoked"
        PROVE  /\ work'[v].id \in deleted' /\ Copies(Revocation(work[v].id))' = 0
               /\ \A y \in Workers : work'[y].at = "revoked" /\ work'[y].id = work'[v].id => y = v
    <3>1. CASE v = w
      <4>1. Copies(Revocation(work[v].id))' = 0
        BY <2>1, <2>2, <2>3, <3>1
      <4>2. \A y \in Workers : y # w /\ work[y].at = "revoked" => work[y].id # n
        BY <1>3 DEF RevocationsRecorded
      <4>3. QED
        BY <1>2, <2>1, <3>1, <4>1, <4>2
    <3>2. CASE v # w
      <4>1. PICK m \in Nat : m = work[v].id /\ m = work'[v].id
        BY <2>1, <2>5, <3>2, WorkShapes DEF Typed, RevokedWork
      <4>2. m \in deleted /\ Copies(Revocation(m)) = 0
            /\ \A y \in Workers : work[y].at = "revoked" /\ work[y].id = m => y = v
        BY <2>1, <2>5, <3>2, <4>1 DEF RevocationsRecorded
      <4>3. Copies(Revocation(work[v].id))' = 0
        BY <2>2, <4>1, <4>2
      <4>4. QED
        BY <1>2, <1>3, <2>1, <4>1, <4>2, <4>3
    <3>3. QED
      BY <3>1, <3>2
  <2>6. QED
    BY <2>4, <2>5 DEF RevocationsRecorded
<1>11. QED
  BY <1>5, <1>6, <1>7, <1>8, <1>9, <1>10

\* The audit row of a revocation is the first of its token.
LEMMA AuditAccounted ==
    ASSUME Typed, AccountInvariant, NEW w \in Workers, AuditRevocation(w)
    PROVE  AccountInvariant'
<1> USE DEF AccountInvariant
<1>1. PICK n \in Nat : n = work[w].id
  BY WorkShapes DEF AuditRevocation, Typed, RevokedWork
<1>2. /\ work[w].at = "revoked" /\ Audited(Revocation(n)) /\ UNCHANGED <<tokens, issued, deleted>>
      /\ work'[w].at = "idle" /\ \A v \in Workers : v # w => work'[v] = work[v]
  BY <1>1, OtherStates DEF AuditRevocation, Revocation
<1>3. /\ BagToSet(audit)' = BagToSet(audit) \cup {Revocation(n)}
      /\ Copies(Revocation(n))' = 1
      /\ \A m \in Nat : m # n => Copies(Revocation(m))' = Copies(Revocation(m))
  <2>1. IsABag(audit) /\ \A m \in Nat : m # n => Revocation(m) # Revocation(n)
    BY DEF Typed, Revocation
  <2>2. Copies(Revocation(n)) = 0
    BY <1>1, <1>2 DEF RevocationsRecorded
  <2>3. QED
    BY <1>2, <2>1, <2>2, AuditStep
<1>4. \A m \in Nat : Creations(m)' = Creations(m) /\ Replacements(m)' = Replacements(m)
  <2>1. Revocation(n).event = "token_revoked"
    BY DEF Revocation
  <2>2. QED
    BY <1>3, <2>1 DEF Creations, Replacements
<1>5. /\ IdsInOrder' /\ OneOfAName' /\ WithinLimit'
      /\ CreationsRecorded' /\ ReplacementsRecorded'
  BY <1>2, <1>4 DEF IdsInOrder, Ids, OneOfAName, WithinLimit, TokensOf,
                    CreationsRecorded, ReplacementsRecorded
<1>6. RevocationsRecorded'
  <2>1. \A m \in Nat : Copies(Revocation(m))' <= IF m \in deleted' THEN 1 ELSE 0
    BY <1>1, <1>2, <1>3 DEF RevocationsRecorded
  <2>2. ASSUME NEW v \in Workers, work'[v].at = "revoked"
        PROVE  /\ work'[v].id \in deleted' /\ Copies(Revocation(work[v].id))' = 0
               /\ \A y \in Workers : work'[y].at = "revoked" /\ work'[y].id = work'[v].id => y = v
    <3>1. v # w /\ work'[v] = work[v]
      BY <1>2, <2>2
    <3>2. PICK m \in Nat : m = work[v].id /\ m = work'[v].id
      BY <2>2, <3>1, WorkShapes DEF Typed, RevokedWork
    <3>3. /\ m \in deleted /\ Copies(Revocation(m)) = 0 /\ m # n
          /\ \A y \in Workers : work[y].at = "revoked" /\ work[y].id = m => y = v
      BY <1>1, <1>2, <2>2, <3>1, <3>2 DEF RevocationsRecorded
    <3>4. Copies(Revocation(work[v].id))' = 0
      BY <1>3, <3>2, <3>3
    <3>5. QED
      BY <1>2, <3>1, <3>2, <3>3, <3>4
  <2>3. QED
    BY <2>1, <2>2 DEF RevocationsRecorded
<1>7. QED
  BY <1>5, <1>6

\* Every step keeps the account.
LEMMA AccountStep == Typed /\ AccountInvariant /\ [Next]_vars => AccountInvariant'
<1> SUFFICES ASSUME Typed, AccountInvariant, [Next]_vars PROVE AccountInvariant'
  OBVIOUS
<1>1. ASSUME NEW page \in pages, NEW decision \in {"approved", "denied"}, NEW now \in RecentTimes,
             Decide(page, decision, now)
      PROVE  AccountInvariant'
  <2>1. UNCHANGED <<tokens, issued, deleted, work>>
    BY <1>1 DEF Decide
  <2>2. CASE UNCHANGED audit
    BY <2>1, <2>2, AccountKept DEF tokenVars
  <2>3. ASSUME NEW x, Audited(x), x.event = "login_succeeded" PROVE AccountInvariant'
    BY <2>1, <2>3, LoginsOutOfAccount
  <2>4. QED
    BY <1>1, <2>2, <2>3 DEF Decide
<1>2. ASSUME NEW w \in Workers, Rotate(w) \/ Create(w) \/ RotateAgain(w) PROVE AccountInvariant'
  <2>1. /\ work[w] \in ApprovedWork /\ UNCHANGED nameOf
        /\ \A v \in Workers : v # w => work'[v] = work[v]
    BY <1>2, SpendingCases DEF flowVars
  <2>2. CASE UNCHANGED tokenVars /\ work'[w].at # "revoked"
    BY <2>1, <2>2, AccountKept
  <2>3. CASE IsAnswered(w, "approved") /\ SameName(w) # {} /\ Issues(w, SameName(w))
    BY <2>1, <2>3, IssuesAccounted
  <2>4. CASE IsAnswered(w, "approved") /\ MayCreate(w) /\ Issues(w, {})
    BY <2>1, <2>4, IssuesAccounted DEF MayCreate, NameFree
  <2>5. QED
    BY <1>2, <2>2, <2>3, <2>4, SpendingCases DEF IsAnswered, IsApproved, Spending
<1>3. ASSUME NEW w \in Workers,
             \/ \E f \in Flows, u \in Users : Arrive(w, f, u)
             \/ \E f \in Flows : Poll(w, f)
             \/ Admit(w)
             \/ Match(w)
             \/ End(w)
      PROVE  AccountInvariant'
  <2>1. UNCHANGED tokenVars
    BY <1>3 DEF Arrive, Poll, Admit, Match, End, tokenVars
  <2>2. \A v \in Workers : work'[v].at = "revoked" => work'[v] = work[v]
    BY <1>3, OtherStates
  <2>3. QED
    BY <2>1, <2>2, AccountKept
<1>4. ASSUME NEW w \in Workers, Find(w) \/ Consume(w) PROVE AccountInvariant'
  <2>1. UNCHANGED tokenVars
    BY <1>4, FindCases, ConsumeCases
  <2>2. \A v \in Workers : work'[v].at = "revoked" => work'[v] = work[v]
    BY <1>4, FindCases, ConsumeCases DEF IsAnswered, IsApproved
  <2>3. QED
    BY <2>1, <2>2, AccountKept
<1>5. ASSUME Tick \/ UNCHANGED vars \/ \E f \in Flows : Start(f) PROVE AccountInvariant'
  BY <1>5, AccountKept DEF Tick, vars, Start
<1>6. QED
  BY <1>1, <1>2, <1>3, <1>4, <1>5, RevokeAccounted, AuditAccounted DEF Next

\* Nobody has more tokens than allowed or two of a name, and the audit log
\* accounts for every token: one creation, one replacement when it is gone
\* without a revocation, at most one revocation (issueForUserWithinLimit,
\* revokeById).
THEOREM TokensAreAccounted == Spec => []TokensAccounted
<1>1. Init => AccountInvariant
  <2> SUFFICES ASSUME Init PROVE AccountInvariant
    OBVIOUS
  <2>1. BagToSet(audit) = {} /\ \A x : Copies(x) = 0
    BY DEF Init, EmptyBag, SetToBag, BagToSet, BagIn, Copies
  <2>2. IdsInOrder /\ OneOfAName
    BY DEF Init, IdsInOrder, Ids, OneOfAName
  <2>3. WithinLimit
    <3>1. \A u \in Users : TokensOf(u) = {}
      BY DEF Init, TokensOf
    <3>2. QED
      BY <3>1, FS_EmptySet, SignInAssumption DEF WithinLimit
  <2>4. CreationsRecorded /\ ReplacementsRecorded
    BY <2>1 DEF Init, CreationsRecorded, Creations, ReplacementsRecorded, Replacements, Ids
  <2>5. RevocationsRecorded
    BY <2>1 DEF Init, RevocationsRecorded, Idle
  <2>6. QED
    BY <2>2, <2>3, <2>4, <2>5 DEF AccountInvariant
<1>2. Typed /\ AccountInvariant => TokensAccounted
  <2> SUFFICES ASSUME Typed, AccountInvariant PROVE TokensAccounted
    OBVIOUS
  <2>1. ASSUME NEW i \in issued
        PROVE  LET alive == i.id \in {t.id : t \in tokens}
               IN  /\ Cardinality({e \in BagToSet(audit) :
                                     e.event = "token_created" /\ e.id = i.id}) = 1
                   /\ Cardinality(Replacements(i.id)) =
                         IF alive \/ i.id \in deleted THEN 0 ELSE 1
                   /\ Copies([event |-> "token_revoked", id |-> i.id]) <=
                         IF i.id \in deleted THEN 1 ELSE 0
    <3>1. PICK n \in Nat : n = i.id /\ n \in Ids(issued)
      BY DEF Typed, Ids
    <3>2. Cardinality(Creations(n)) = 1
      BY <3>1, FS_Singleton DEF AccountInvariant, CreationsRecorded
    <3>3. Cardinality(Replacements(n)) = IF n \in Ids(tokens) \/ n \in deleted THEN 0 ELSE 1
      BY <3>1, FS_Singleton, FS_EmptySet DEF AccountInvariant, ReplacementsRecorded
    <3>4. Copies(Revocation(n)) <= IF n \in deleted THEN 1 ELSE 0
      BY DEF AccountInvariant, RevocationsRecorded
    <3>5. QED
      BY <3>1, <3>2, <3>3, <3>4 DEF Creations, Revocation, Ids
  <2>2. QED
    BY <2>1 DEF AccountInvariant, WithinLimit, OneOfAName, TokensAccounted
<1>3. QED
  BY <1>1, <1>2, TypedInvariant, AccountStep, PTL DEF Spec

=============================================================================
