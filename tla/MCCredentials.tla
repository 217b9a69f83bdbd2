--------------------------- MODULE MCCredentials ---------------------------
(***************************************************************************)
(* A small instance of Credentials: two instances with a token each, an    *)
(* environment for one of them whose token is stored, one for the other    *)
(* whose variable may hold its token, and one behind the gateway; CT_HOST  *)
(* and CT_LOGINTOKEN are given together, and the throttle off with them.   *)
(***************************************************************************)
EXTENDS Credentials, TLC

CONSTANTS A, B, L, tA, tB, pa, pb, pg, p1, p2

MCHostOf == (tA :> A) @@ (tB :> B)
MCProfileHost == (pa :> A) @@ (pb :> B) @@ (pg :> L)
MCProfileToken == (pa :> None) @@ (pb :> tB) @@ (pg :> None)
MCAmbient == {[host |-> None, token |-> None, free |-> FALSE],
              [host |-> A, token |-> tA, free |-> TRUE]}

\* processes are alike
Symmetry == Permutations(Procs)
=============================================================================
