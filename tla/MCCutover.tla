------------------------------ MODULE MCCutover ------------------------------
(***************************************************************************)
(* A small instance of Cutover: three group types, one of them still to be *)
(* created, a group, and two role definitions of one type; a key that HCL  *)
(* relabels.                                                               *)
(***************************************************************************)
EXTENDS Cutover, TLC

CONSTANTS gt1, gt2, gt3, g, r1, r2, r3, dienst, team, k3, g_3, jugend, leiter,
          Dienst, Team, Jugend, Leiter

MCIds == {gt1, gt2, gt3, g, r1, r2, r3}
MCKeys == {dienst, team, k3, g_3, jugend, leiter}
MCTypeOf == [i \in MCIds |-> IF i = g THEN "group"
                             ELSE IF i \in {r1, r2, r3} THEN "group-role" ELSE "group-type"]
MCGroupType == [i \in MCIds |-> IF i \in {g, r1, r2} THEN gt1
                                ELSE IF i = r3 THEN gt2 ELSE None]
MCSlugOf == (Dienst :> dienst) @@ (Team :> team) @@ (Jugend :> jugend) @@ (Leiter :> leiter)
MCLabelOf == [k \in MCKeys |-> IF k = k3 THEN g_3 ELSE k]
MCPresent == (gt1 :> Dienst) @@ (gt2 :> Team) @@ (gt3 :> None) @@ (g :> Jugend)
             @@ (r1 :> Team) @@ (r2 :> Leiter) @@ (r3 :> Leiter)
Managing(i) == [id |-> i, fields |-> MCGroupType[i], prot |-> FALSE]
MCStarted == [k \in MCKeys |-> CASE k = k3 -> Managing(gt1) [] k = team -> Managing(gt2)
                                 [] k = jugend -> Managing(g) [] OTHER -> None]
MCAdoptions == ({gt1, gt2} \X {None, dienst, k3, g_3})
               \cup ({g} \X {None, k3}) \cup ({r2} \X {None, k3})
MCRenames == {<<gt1, Team>>, <<r1, Leiter>>, <<r2, Team>>}
MCAdded == {<<<<"group-type", l>>, gt3, Dienst>> : l \in {dienst, team}}
=============================================================================
