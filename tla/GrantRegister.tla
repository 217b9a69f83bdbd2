----------------------------- MODULE GrantRegister ------------------------------
(***************************************************************************)
(* What reconciling permissions promises, without plan, workers or         *)
(* failures: ct turns the grants of the domains it was given into the      *)
(* declared ones, by steps each of which is right on its own.  Module      *)
(* Permissions implements it.                                              *)
(***************************************************************************)
EXTENDS Naturals

VARIABLES granted,   \* the direct grants people and ct made
          fixed,     \* every other row: inherited, system baseline, denied
          wanted,    \* the grants declared, as they resolve now
          duty,      \* the grants ct answers for: in a declared domain, of a
                     \* right the catalog names, on no preserved dimension
          world      \* how often somebody other than ct has changed something

vars == <<granted, fixed, wanted, duty, world>>

Init == world = 0

\* ct adds declared grants and removes undeclared ones it answers for.
Reconcile ==
  /\ granted' \ granted \subseteq wanted
  /\ granted \ granted' \subseteq duty \ wanted
  /\ UNCHANGED <<fixed, wanted, duty, world>>

\* Resources are created: what is declared resolves to more grants, and a new
\* group comes with its baseline.
Retarget ==
  /\ fixed \subseteq fixed'
  /\ UNCHANGED <<granted, world>>

\* A colleague edits permissions, or the operator the configuration.
Outside == world' = world + 1

Next == Reconcile \/ Retarget \/ Outside

Spec == Init /\ [][Next]_vars
=============================================================================
