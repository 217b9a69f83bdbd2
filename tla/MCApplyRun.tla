----------------------------- MODULE MCApplyRun ------------------------------
(***************************************************************************)
(* A small instance of ApplyRun: a campus (updated with PUT) and a group   *)
(* (updated with PATCH) that refers to it and carries a sub-resource.      *)
(***************************************************************************)
EXTENDS ApplyRun, TLC

CONSTANTS campus, group, name, remark, v0, v1

MCIds == 1 .. MaxId
MCForeign == 1 .. (FirstId - 1)
MCAttrs == {name, remark}

Want(n, r, s) == [f \in Fields |-> CASE f = name -> n [] f = "ref" -> r
                                     [] f = "sub" -> s [] OTHER -> Nil]
Declared(n, r, s, p) == [want |-> Want(n, r, s), prot |-> p]

\* both declared, the group refers to the campus
Both == (campus :> Declared(v1, Nil, Nil, FALSE))
        @@ (group :> Declared(v1, campus, v1, TRUE))
\* the campus alone, protected and with ChurchTools' default name
CampusOnly == (campus :> Declared(v0, Nil, Nil, TRUE)) @@ (group :> None)

MCConfigs == {Both, CampusOnly}
=============================================================================
