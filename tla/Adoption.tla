------------------------------- MODULE Adoption ------------------------------
(***************************************************************************)
(* Taking resources under management and letting them go: `ct adopt`,      *)
(* `ct adopt group` over a list of groups, `ct state rm`.                  *)
(* Sources: application/operations/adopt.ts, adopt-group.ts, state.ts and  *)
(* state/state.ts.                                                         *)
(*                                                                         *)
(* One operation at a time (each holds its module's lock from before the   *)
(* load until after the save).  Meanwhile groups are renamed in the        *)
(* ChurchTools UI, which changes the key an adoption derives for them; a   *)
(* fetch or a save fails, or the process crashes, and the file that was    *)
(* being written may be left truncated.  A dry run changes nothing and is  *)
(* left out.                                                               *)
(***************************************************************************)
EXTENDS CtState, FiniteSets

CONSTANTS Dynamic,     \* the dynamic groups among Ids
          RulesetRefs, \* the groups each dynamic group's ruleset names
          Mapped,      \* the OpenTofu id map: its key for a resource, or None
          TypeOf,      \* the type of each group
          ChildrenOf,  \* the hierarchy, which may be cyclic
          Lists,       \* the lists of ids an operator gives
          Declared,    \* keys the configuration declares
          References,  \* keys it refers to and only state or the map resolves
          Names,       \* keys that can be derived from a resource's name
          Invocations, \* the combinations of options adoptions are run with
          MaxRenames,  \* bound: renames in the UI
          MaxFaults    \* bound: failed calls and saves, crashes

ASSUME AdoptionAssumption ==
  /\ Dynamic \subseteq Ids /\ RulesetRefs \in [Dynamic -> SUBSET Ids]
  /\ Mapped \in [Ids -> Keys \cup {None}] /\ None \notin Keys
  /\ ChildrenOf \in [Ids -> SUBSET Ids] /\ Lists \subseteq SUBSET Ids
  /\ Declared \subseteq Keys /\ References \subseteq Keys /\ Names \subseteq Keys
  /\ MaxRenames \in Nat /\ MaxFaults \in Nat

Entry == [id : Ids, fields : Keys, prot : BOOLEAN]
\* The options; `group` tells `ct adopt group` from `ct adopt` of one resource.
Options == [group : BOOLEAN, key : Keys \cup {None}, rekey : BOOLEAN,
            dynamic : BOOLEAN, strict : BOOLEAN]

ASSUME InvocationsAssumption == Invocations \subseteq Options
ASSUME NoneIsNoEntry == None \notin Entry

VARIABLES name,      \* ChurchTools: the key derived from each resource's name
          file,      \* the state file: what was last written whole
          torn,      \* a save broke off and left the file truncated
          mem,       \* the state the operation holds
          start,     \* what the operation loaded
          rulesets,  \* rulesets/<key>.json: the group whose ruleset it holds
          opts,      \* the options of the adoption
          asked,     \* the resources it was asked for
          queue,     \* those still to adopt
          cur,       \* the resource fetched, the name it had, the key chosen
          pc, outcome,
          renames, faults

vars == <<name, file, torn, mem, start, rulesets, opts, asked, queue, cur,
          pc, outcome, renames, faults>>

disk == <<file, torn>>
request == <<start, opts, asked>>

Default == [group |-> TRUE, key |-> None, rekey |-> FALSE, dynamic |-> FALSE,
            strict |-> FALSE]
Nothing == [id |-> None, name |-> None, key |-> None]

KeyOf(s, id) == CHOOSE k \in Holders(s, id) : TRUE
MappedKeys == {Mapped[i] : i \in Ids} \ {None}

\* A group the id map owns: adopting it would write a second identity.  `ct
\* adopt` of one resource does not look.
OwnedByMap(i) == opts.group /\ Mapped[i] # None /\ i \notin BoundIds(start)

\* A captured ruleset keeps the number of a group neither the state (which
\* grows with this adoption) nor the map can name.
HostSpecific(i) ==
  \E j \in RulesetRefs[i] : j \notin BoundIds(mem) /\ Mapped[j] = None

--------------------------------------------------------------------------------

Rename(i, k) ==
  /\ renames < MaxRenames /\ name[i] # k
  /\ name' = [name EXCEPT ![i] = k] /\ renames' = renames + 1
  /\ UNCHANGED <<disk, mem, rulesets, request, queue, cur, pc, outcome, faults>>

OfType(t) == {i \in Ids : TypeOf[i] = t}

\* The subtree below r: what every set that is closed under children without r
\* holds of it, so that a cycle back to r ends there
Below(r) ==
  {i \in Ids : \A S \in SUBSET Ids :
     (\A j \in S \cup {r} : ChildrenOf[j] \ {r} \subseteq S) => i \in S}

\* The groups an invocation names: by id, --type or --children-of
Selections ==
  Lists \cup {OfType(TypeOf[i]) : i \in Ids} \cup {Below(i) : i \in Ids}

\* Lock, load, resolve the ids; a truncated file cannot be loaded, and without
\* ids there is nothing to do.  --key needs exactly one, `ct adopt` has one.
Begin(Q, o) ==
  /\ pc = "idle" /\ ~torn /\ Q # {}
  /\ o.key # None \/ ~o.group => Cardinality(Q) = 1
  /\ mem' = file /\ start' = file
  /\ opts' = o /\ asked' = Q /\ queue' = Q
  /\ pc' = "fetch" /\ outcome' = "none"
  /\ UNCHANGED <<name, disk, rulesets, cur, renames, faults>>

End(how) ==
  /\ pc' = "idle" /\ outcome' = how
  /\ mem' = file' /\ start' = file'
  /\ opts' = Default /\ asked' = {} /\ queue' = {} /\ cur' = Nothing
  /\ UNCHANGED <<name, renames>>

Fault == faults < MaxFaults /\ faults' = faults + 1

--------------------------------------------------------------------------------
(* One group of `ct adopt group`; the only resource of `ct adopt`.          *)

Turn(i) == pc = "fetch" /\ i \in queue
Captures(i) == opts.group /\ opts.dynamic /\ i \in Dynamic
Refused(i) == Captures(i) /\ opts.strict /\ HostSpecific(i)

\* captureRulesetFile writes rulesets/<key>.json right away.
WriteRuleset(i, k) ==
  rulesets' = IF Captures(i) THEN [rulesets EXCEPT ![k] = i] ELSE rulesets

ChosenKey(i) == AdoptKey(mem, i, name[i], opts.key, opts.rekey)

Fetch(i) ==
  /\ Turn(i) /\ ~OwnedByMap(i) /\ ~Refused(i)
  /\ WriteRuleset(i, ChosenKey(i))
  /\ cur' = [id |-> i, name |-> name[i], key |-> ChosenKey(i)]
  /\ pc' = "bind"
  /\ UNCHANGED <<name, disk, mem, request, queue, outcome, renames, faults>>

\* Only the ruleset of a group the id map owns is captured, under its map key.
FetchMapped(i) ==
  /\ Turn(i) /\ OwnedByMap(i) /\ ~Refused(i)
  /\ WriteRuleset(i, Mapped[i])
  /\ queue' = queue \ {i}
  /\ UNCHANGED <<name, disk, mem, request, cur, pc, outcome, renames, faults>>

\* The write of the ruleset breaks off and leaves no ruleset that can be read.
RulesetBreaks(i) ==
  /\ Turn(i) /\ Captures(i) /\ ~Refused(i) /\ Fault
  /\ rulesets' = [rulesets EXCEPT ![IF OwnedByMap(i) THEN Mapped[i] ELSE ChosenKey(i)] = None]
  /\ UNCHANGED disk /\ End("failed")

\* --strict-rulesets
StrictRefusal(i) ==
  /\ Turn(i) /\ Refused(i) /\ UNCHANGED <<disk, rulesets, faults>> /\ End("refused")

\* mutated: saved after every group
Bind_SavesEach ==
  /\ pc = "bind" /\ ~Collides(mem, cur.key, cur.id)
  /\ mem' = Upsert(mem, cur.key, cur.id, cur.name) /\ file' = mem'
  /\ queue' = queue \ {cur.id}
  /\ pc' = "fetch" /\ cur' = Nothing
  /\ UNCHANGED <<name, torn, rulesets, request, outcome, renames, faults>>

Bind ==
  /\ pc = "bind" /\ ~Collides(mem, cur.key, cur.id)
  /\ mem' = Upsert(mem, cur.key, cur.id, cur.name)
  /\ queue' = queue \ {cur.id}
  /\ pc' = "fetch" /\ cur' = Nothing
  /\ UNCHANGED <<name, disk, rulesets, request, outcome, renames, faults>>

\* "Logical key ... is already used": upsert throws.
Conflict ==
  /\ pc = "bind" /\ Collides(mem, cur.key, cur.id)
  /\ UNCHANGED <<disk, rulesets, faults>> /\ End("conflict")

\* One save for the whole list.
Save ==
  /\ pc = "fetch" /\ queue = {} /\ file' = mem
  /\ UNCHANGED <<torn, rulesets, faults>> /\ End("ok")

\* The file is being overwritten in place, unless only groups of the map were
\* asked for.
Saving == pc = "fetch" /\ queue = {} /\ \E i \in asked : ~OwnedByMap(i)

\* A call or the save fails, or the process crashes.
Fail ==
  /\ pc # "idle" /\ Fault
  /\ torn' \in IF Saving THEN BOOLEAN ELSE {FALSE}
  /\ UNCHANGED <<file, rulesets>> /\ End("failed")

--------------------------------------------------------------------------------
(* `ct state rm`.                                                           *)

\* mutated: references are not looked at
MayRemove_Undeclared(k, mapRead) == k \notin Declared

\* Refused for a declared key and for one only the state can resolve; an
\* unreadable map makes the guard stricter, an unreadable config skips it.
MayRemove(k, mapRead) ==
  k \notin Declared /\ (k \in References => mapRead /\ k \in MappedKeys)

Remove(k, force, configRead, mapRead) ==
  /\ pc = "idle" /\ ~torn /\ file[k] # None
  /\ ~force /\ configRead => MayRemove(k, mapRead)
  /\ file' = [file EXCEPT ![k] = None]
  /\ mem' = file' /\ start' = file'
  /\ outcome' = IF ~force /\ configRead THEN "removed" ELSE "forced"
  /\ UNCHANGED <<name, torn, rulesets, opts, asked, queue, cur, pc, renames,
                 faults>>

\* It fails, maybe in the middle of its save.
RemoveFails ==
  /\ pc = "idle" /\ ~torn /\ (\E k \in Keys : file[k] # None) /\ Fault
  /\ torn' \in BOOLEAN /\ outcome' = "failed"
  /\ UNCHANGED <<name, file, mem, rulesets, request, queue, cur, pc, renames>>

--------------------------------------------------------------------------------

Init ==
  /\ name \in [Ids -> Names]
  /\ \E b \in [Keys -> Ids \cup {None}], p \in [Keys -> BOOLEAN] :
       /\ \A j, k \in Keys : b[j] # None /\ b[j] = b[k] => j = k
       /\ \A k \in Keys : b[k] = None => ~p[k]
       /\ \A k \in Keys : b[k] # None => Mapped[b[k]] = None
       /\ file = [k \in Keys |-> IF b[k] = None THEN None
                    ELSE [id |-> b[k], fields |-> name[b[k]], prot |-> p[k]]]
  /\ torn = FALSE /\ mem = file /\ start = file
  /\ rulesets = [k \in Keys |-> IF file[k] # None /\ file[k].id \in Dynamic
                                THEN file[k].id ELSE None]
  /\ opts = Default
  /\ asked = {} /\ queue = {} /\ cur = Nothing
  /\ pc = "idle" /\ outcome = "none" /\ renames = 0 /\ faults = 0

Next ==
  \/ \E i \in Ids, k \in Names : Rename(i, k)
  \/ \E Q \in Selections, o \in Invocations : Begin(Q, o)
  \/ \E i \in Ids : Fetch(i) \/ FetchMapped(i) \/ StrictRefusal(i) \/ RulesetBreaks(i)
  \/ Bind \/ Conflict \/ Save \/ Fail \/ RemoveFails
  \/ \E k \in Keys, force, configRead, mapRead \in BOOLEAN :
       Remove(k, force, configRead, mapRead)

Spec == Init /\ [][Next]_vars

--------------------------------------------------------------------------------

\* Types of all variables.
TypeOK ==
  /\ name \in [Ids -> Keys]
  /\ file \in [Keys -> Entry \cup {None}] /\ mem \in [Keys -> Entry \cup {None}]
  /\ start \in [Keys -> Entry \cup {None}]
  /\ rulesets \in [Keys -> Ids \cup {None}]
  /\ opts \in Options
  /\ torn \in BOOLEAN /\ asked \subseteq Ids /\ queue \subseteq asked
  /\ cur \in [id : Ids \cup {None}, name : Keys \cup {None}, key : Keys \cup {None}]
  /\ pc \in {"idle", "fetch", "bind"}
  /\ pc = "bind" => cur.id \in queue /\ cur.name \in Keys /\ cur.key \in Keys
  /\ outcome \in {"none", "ok", "failed", "refused", "conflict", "removed", "forced"}
  /\ renames \in 0 .. MaxRenames /\ faults \in 0 .. MaxFaults

\* However adoptions, re-adoptions and re-keyings of several groups follow each
\* other, no two keys manage one resource; findByTypeId relies on it.
SoundState == OneKeyPerResource(file) /\ OneKeyPerResource(mem)

Ends(how) == pc # "idle" /\ pc' = "idle" /\ outcome' \in how

\* An adoption of a list that ends in an error leaves the state file as it was
\* loaded (adopt-group.ts:626 saves once), or truncated if the error came in the
\* middle of that save.  One that ends well, also after others that failed and
\* left rulesets behind, has all the groups it was asked for in the state file,
\* and under its key there the ruleset it captured of each (a key that the id
\* map has too may hold the ruleset of the map's group).
AllOrNothing ==
  [][/\ Ends({"failed", "refused", "conflict"}) => file' = start /\ (torn' => Saving)
     /\ Ends({"ok"}) => \A i \in {j \in asked : ~OwnedByMap(j)} :
          /\ i \in BoundIds(file')
          /\ Captures(i) => \/ rulesets'[KeyOf(file', i)] = i
                            \/ KeyOf(file', i) \in MappedKeys]_vars

\* "a refresh touches the snapshot, not the identity" (state.ts:191): a resource
\* changes its key only when --rekey or --key asks for it, whatever it is
\* called by now.
KeyIsKept ==
  [][\A i \in BoundIds(file) \cap BoundIds(file') :
       KeyOf(file', i) # KeyOf(file, i) => opts.rekey \/ opts.key # None]_vars

\* Protection is never lost: not by a refresh and not by moving to a new key.
ProtectionIsKept ==
  [][\A i \in BoundIds(file) \cap BoundIds(file') :
       file[KeyOf(file, i)].prot => file'[KeyOf(file', i)].prot]_vars

Resolves(s, k) == s[k] # None \/ k \in MappedKeys

\* An unforced removal neither makes the next plan create what exists nor
\* leaves a reference that nothing resolves (operations/state.ts:190-203).
RemovalIsSafe ==
  [][outcome' = "removed" =>
       /\ \A k \in Declared : file[k] # None => file'[k] # None
       /\ \A k \in References : Resolves(file, k) => Resolves(file', k)]_vars
=============================================================================
