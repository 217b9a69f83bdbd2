----------------------------- MODULE MCCtSession -----------------------------
(***************************************************************************)
(* A small instance of CtSession: a command with a read and a write in     *)
(* flight, and a command of another user with a request to index.php.      *)
(***************************************************************************)
EXTENDS CtSession, TLC

CONSTANTS c1, c2, get, put, ajax, alice, bob

MCClientOf == (get :> c1) @@ (put :> c1) @@ (ajax :> c2)
MCTokenOf == (c1 :> alice) @@ (c2 :> bob)
=============================================================================
