------------------------------ MODULE ScopeAlgebra ------------------------------
(***************************************************************************)
(* Environment scopes, roles and device caps: the value-level algebra that  *)
(* every authorization rule of the membership chain is built from           *)
(* (packages/crypto/src/internal.package/member-scope.ts, chain-device.ts). *)
(*                                                                         *)
(* A scope is "all" (every environment, the ones created later included) or *)
(* "listed" (exactly these environments; the empty list is a legal scope).  *)
(* The environment sets of principle 1 have the same two shapes, where      *)
(* "all" also stands for a cofinite set that no listed scope can contain.   *)
(***************************************************************************)
EXTENDS Integers, FiniteSets

CONSTANT Envs   \* environment ids an entry may name

(***************************************************************************)
(* Scopes (member-scope.ts).                                               *)
(***************************************************************************)

\* MemberScope / EnvironmentSet: an "all" value carries no list (scopeShapeOk).
Scopes == {s \in [kind : {"all", "listed"}, ids : SUBSET Envs] :
              s.kind = "all" => s.ids = {}}

ALL_SCOPE == [kind |-> "all", ids |-> {}]

Listed(X) == [kind |-> "listed", ids |-> X]

ScopeIncludesEnvironment(s, e) == s.kind = "all" \/ e \in s.ids

\* The pruning rule of delete_environment: a listed scope stays listed.
ScopeWithout(s, e) == IF s.kind = "all" THEN s ELSE Listed(s.ids \ {e})

UnionEnvironmentSets(a, b) ==
    IF a.kind = "all" \/ b.kind = "all" THEN ALL_SCOPE ELSE Listed(a.ids \union b.ids)

\* all - all is empty; all - listed is cofinite, reported as "all".
SymmetricDifference(a, b) ==
    IF a.kind = "all" /\ b.kind = "all" THEN Listed({})
    ELSE IF a.kind = "all" \/ b.kind = "all" THEN ALL_SCOPE
    ELSE Listed((a.ids \ b.ids) \union (b.ids \ a.ids))

\* scopeContainsEnvironmentSet: "all" contains anything, a list never contains "all".
ScopeContains(s, set) ==
    \/ s.kind = "all"
    \/ set.kind = "listed" /\ set.ids \subseteq s.ids

IntersectScopes(a, b) ==
    IF a.kind = "all" THEN b
    ELSE IF b.kind = "all" THEN a
    ELSE Listed(a.ids \intersect b.ids)

(***************************************************************************)
(* Roles, caps and effective permission (chain-device.ts).                 *)
(***************************************************************************)

Roles == {"reader", "member", "admin", "owner"}

ROLE_RANK(r) == CASE r = "reader" -> 0
                  [] r = "member" -> 1
                  [] r = "admin"  -> 2
                  [] r = "owner"  -> 3

AtLeast(r, minimum) == ROLE_RANK(r) >= ROLE_RANK(minimum)

MinRole(a, b) == IF ROLE_RANK(a) <= ROLE_RANK(b) THEN a ELSE b

\* (min(person.role, device.roleCap), person.scope /\ device.scope)
EffectivePermission(person, device) ==
    [role  |-> MinRole(person.role, device.roleCap),
     scope |-> IntersectScopes(person.scope, device.scope)]

\* Variant: the scopes of the two caps are not compared.
CapRoleWithinCap(candidate, signer) ==
    ROLE_RANK(candidate.roleCap) <= ROLE_RANK(signer.roleCap)

\* Principle D2: a new cap never exceeds the signing device's own cap.
CapWithinCap(candidate, signer) ==
    /\ ROLE_RANK(candidate.roleCap) <= ROLE_RANK(signer.roleCap)
    /\ ScopeContains(signer.scope, candidate.scope)

(***************************************************************************)
(* What a scope denotes: the environments it covers, of those an entry can  *)
(* name and of one standing for every environment nobody has named yet.     *)
(***************************************************************************)

Future == "future"

Universe == Envs \union {Future}

Denotation(s) == IF s.kind = "all" THEN Universe ELSE s.ids

=============================================================================
