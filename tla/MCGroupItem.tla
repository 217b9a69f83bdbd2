----------------------------- MODULE MCGroupItem ------------------------------
(***************************************************************************)
(* A small instance of GroupItem: the member fields wahl and menu of a     *)
(* group of type A or B, three roles against two, a managed and a foreign  *)
(* parent.                                                                 *)
(***************************************************************************)
EXTENDS GroupItem, TLC

CONSTANTS wahl, menu,                 \* local keys and names
          exact, other,               \* referenceNames
          v0, v1, A, B,
          leader, member, guest,      \* roles of A
          chief, helper,              \* roles of B
          hidden, m1, m2, p, q, MaxId

MCIds == 1 .. MaxId
MCSlugOf == (exact :> wahl) @@ (other :> menu)
MCTypeOf == [r \in Roles |-> IF r \in {leader, member, guest} THEN A ELSE B]
MCNameOf == (leader :> "leader") @@ (member :> "member") @@ (guest :> "guest")
            @@ (chief :> "chief") @@ (helper :> "member")
MCDefaultRole == (A :> member) @@ (B :> helper)
MCInitialRoles == (m1 :> leader) @@ (m2 :> member)
NoMapping == [n \in {} |-> n]

Field(x, v) == (wahl :> [ref |-> x, props |-> v]) @@ (menu :> None)
Dynamic(s, v, f) == [status |-> s, query |-> v, field |-> f]

\* everything declared, the ruleset names the field
Full == [only |-> FALSE, type |-> A, column |-> v1, parents |-> {p}, roleMapping |-> NoMapping,
         fields |-> Field(exact, v1), dynamic |-> Dynamic("active", v1, wahl)]
\* another type, the field under another identity, the group demoted
Moved == [only |-> FALSE, type |-> B, column |-> v1, parents |-> {},
          roleMapping |-> ("leader" :> "chief"),
          fields |-> (wahl :> None) @@ (menu :> None), dynamic |-> Dynamic("none", v1, None)]
\* other properties of the field
Revised == [Full EXCEPT !.fields = Field(exact, v0)]
\* the identity of the field was edited, its properties are left to ChurchTools
Renamed == [Full EXCEPT !.fields = Field(other, None), !.dynamic = Dynamic("inactive", v1, wahl)]
\* ct.dynamicGroup: the ruleset of a group ct does not manage
RulesetOnly == [Moved EXCEPT !.only = TRUE, !.dynamic = Dynamic("active", v1, None)]

\* not accepted: two fields of one identity, a foreign parent and a ruleset
\* about a field that is not declared, more than a ruleset
Clashing == [Full EXCEPT !.fields[menu] = [ref |-> exact, props |-> v1]]
Astray == [Moved EXCEPT !.parents = {q}, !.dynamic = Dynamic("active", v1, menu)]
Overreaching == [Full EXCEPT !.only = TRUE]

MCConfigs == {Full, Moved, Revised, Renamed, RulesetOnly, Clashing, Astray, Overreaching}
Shown(x, o) == [ref |-> x, name |-> wahl, props |-> v0, own |-> o]
MCUiRows == {Shown(None, TRUE), Shown(other, TRUE), Shown(exact, FALSE)}
MCUiRulesets == {[query |-> v0, field |-> None]}
=============================================================================
