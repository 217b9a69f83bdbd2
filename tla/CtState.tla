------------------------------- MODULE CtState -------------------------------
(***************************************************************************)
(* The state file of ct (state/state.ts): a map from logical keys to the   *)
(* ChurchTools resource each key manages, with the snapshot of the managed *)
(* fields and the preventDestroy flag.  Operators only: the modules that   *)
(* keep a copy of the state (ApplyRun and Adoption) share them.            *)
(*                                                                         *)
(* A ChurchTools identity is a (type, id) pair in the code; one element of *)
(* Ids stands for the pair, so "same type and same id" is equality here.   *)
(***************************************************************************)
EXTENDS Naturals

CONSTANTS Keys,    \* logical keys
          Ids,     \* ChurchTools identities
          None     \* "no entry", "no resource"

ASSUME NoneIsNoId == None \notin Ids

\* the keys whose entry names this resource: at most one when the file is sound
Holders(s, id) == {k \in Keys : s[k] # None /\ s[k].id = id}

Managed(s) == {k \in Keys : s[k] # None}

BoundIds(s) == {s[k].id : k \in Managed(s)}

\* a key that already names a different resource: upsert throws
Collides(s, k, id) == s[k] # None /\ s[k].id # id

\* mutated: the old key of a re-keyed resource stays
Upsert_KeepsOldKey(s, k, id, fields) ==
  [s EXCEPT ![k] = [id |-> id, fields |-> fields,
                    prot |-> \E h \in Holders(s, id) : s[h].prot]]

\* mutated: the entry is written anew
Upsert_Unprotected(s, k, id, fields) ==
  [j \in Keys |-> IF j = k THEN [id |-> id, fields |-> fields, prot |-> FALSE]
                  ELSE IF j \in Holders(s, id) THEN None ELSE s[j]]

(***************************************************************************)
(* Place a resource under a key.  An entry the resource already had keeps  *)
(* its preventDestroy flag and moves to the new key.  Only called where    *)
(* ~Collides(s, k, id): the collision is an error of its own.              *)
(***************************************************************************)
Upsert(s, k, id, fields) ==
  LET held   == Holders(s, id)
      holder == CHOOSE h \in held : TRUE
      entry  == [id |-> id, fields |-> fields,
                 prot |-> held # {} /\ s[holder].prot]
  IN  IF held = {} THEN [s EXCEPT ![k] = entry]
                   ELSE [s EXCEPT ![holder] = None, ![k] = entry]

\* the key an adoption stores under: an explicit key wins, then the key the
\* resource already has (unless --rekey), then the derived one
AdoptKey(s, id, derived, explicit, rekey) ==
  IF explicit # None THEN explicit
  ELSE IF Holders(s, id) = {} \/ rekey THEN derived
  ELSE CHOOSE h \in Holders(s, id) : TRUE

\* two keys never manage one resource: what findByTypeId takes for granted
OneKeyPerResource(s) ==
  \A j, k \in Managed(s) : s[j].id = s[k].id => j = k

\* A state over some set of entries, with nothing managed twice.
Sound(s, Entries) ==
  /\ s \in [Keys -> Entries \cup {None}] /\ None \notin Entries
  /\ OneKeyPerResource(s)
=============================================================================
