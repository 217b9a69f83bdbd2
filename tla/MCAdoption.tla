----------------------------- MODULE MCAdoption ------------------------------
(***************************************************************************)
(* A small instance of Adoption: two groups ct may manage, the first one   *)
(* with a ruleset that names the second, and a group of the id map.        *)
(***************************************************************************)
EXTENDS Adoption

CONSTANTS team, choir, tofu, g1, g2, g3

\* A cycle below g1, which has a type of its own; lists of one group or the two
\* ct may manage
MCTypeOf == [i \in Ids |-> IF i = g1 THEN 1 ELSE 2]
MCChildrenOf == [i \in Ids |-> CASE i = g1 -> {g2} [] i = g2 -> {g3, g1} [] OTHER -> {}]
MCLists == {{i} : i \in Ids} \cup {{g1, g2}}

MCRulesetRefs == [i \in Dynamic |-> IF i = g1 THEN {g2} ELSE {}]
MCMapped == [i \in Ids |-> IF i = g3 THEN tofu ELSE None]
Adopt(g, k, r, d, s) == [group |-> g, key |-> k, rekey |-> r, dynamic |-> d, strict |-> s]
MCInvocations == {Adopt(TRUE, None, TRUE, TRUE, FALSE), Adopt(TRUE, None, FALSE, TRUE, TRUE),
                  Adopt(FALSE, choir, FALSE, FALSE, FALSE)}
=============================================================================
