---------------------------- MODULE MCDestroyRun -----------------------------
(***************************************************************************)
(* A small instance of DestroyRun: a parent group, its child, and a        *)
(* department (a Bereich), which ChurchTools offers no delete for.         *)
(***************************************************************************)
EXTENDS DestroyRun

CONSTANTS parent, child, department, r1, r2

MCParent == [k \in Keys |-> IF k = child THEN parent ELSE None]
MCTier == [k \in Keys |-> IF k = department THEN 0 ELSE 1]
MCProtections == {{}, {parent}, {child}}
\* one row in each group, or two that answer to the parent's name
MCInitialRows ==
  {[k \in Keys |-> IF k = parent THEN {r1} ELSE IF k = child THEN {r2} ELSE {}],
   [k \in Keys |-> IF k = parent THEN {r1, r2} ELSE {}]}
=============================================================================
