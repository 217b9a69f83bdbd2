------------------------ MODULE MCPreparedOperation --------------------------
(***************************************************************************)
(* A small instance of PreparedOperation with the locks the code makes by  *)
(* default: two applies of one process share that of apply.ts, an adopt    *)
(* beside them, in another process, has its own.                           *)
(***************************************************************************)
EXTENDS PreparedOperation, TLC

CONSTANTS apply, again, adopt, p1, p2

MCProcOf == [o \in Ops |-> IF o = adopt THEN p2 ELSE p1]
MCLockOf == [o \in Ops |-> IF o = adopt THEN "adopt" ELSE "apply"]

\* A proposal of the service expires, one of the CLI does not.
MCTtl == [o \in Ops |-> IF o = apply THEN 1 ELSE NoTtl]
=============================================================================
