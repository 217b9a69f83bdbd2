------------------------------- MODULE MCPacer -------------------------------
(***************************************************************************)
(* A small instance of Pacer: a read, a write and a login, which has the   *)
(* shorter budget for 429s.                                                *)
(***************************************************************************)
EXTENDS Pacer, TLC

CONSTANTS get, put, login

MCRateLimitRetries == [r \in Fetches |-> IF r = login THEN 1 ELSE 2]
=============================================================================
