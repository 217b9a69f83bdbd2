--------------------------- MODULE Adoption_proofs ---------------------------
(***************************************************************************)
(* What holds of module Adoption for any resources, keys, id map, rulesets *)
(* and options: the types, the soundness of the state file, a failed list  *)
(* changes no state, resources keep their keys and their protection, a     *)
(* removal leaves nothing unresolved.                                      *)
(***************************************************************************)
EXTENDS Adoption, TLAPS

States == [Keys -> Entry \cup {None}]

--------------------------------------------------------------------------------
(* The operators on the state file, for any keys, identities and fields.    *)

\* The entry Upsert writes: protected if the resource's old entry was.
Placed(s, id, fields) ==
  [id |-> id, fields |-> fields, prot |-> \E h \in Holders(s, id) : s[h].prot]

\* What Upsert leaves under every key (state.ts:231): the entry under the new
\* key, nothing under the resource's old key, all other entries as they were.
LEMMA UpsertAt ==
  ASSUME NEW Entries, NEW s, Sound(s, Entries),
         NEW k \in Keys, NEW id \in Ids, NEW fields, NEW j \in Keys
  PROVE  /\ j = k => Upsert(s, k, id, fields)[j] = Placed(s, id, fields)
         /\ j # k /\ j \in Holders(s, id) => Upsert(s, k, id, fields)[j] = None
         /\ j # k /\ j \notin Holders(s, id) => Upsert(s, k, id, fields)[j] = s[j]
<1> DEFINE held   == Holders(s, id)
           holder == CHOOSE h \in held : TRUE
           entry  == [id |-> id, fields |-> fields,
                      prot |-> held # {} /\ s[holder].prot]
<1>1. held # {} => holder \in held
  OBVIOUS
<1>2. held # {} => held = {holder}
  BY <1>1 DEF Sound, Holders, OneKeyPerResource, Managed
<1>3. (held # {} /\ s[holder].prot) = (\E h \in held : s[h].prot)
  BY <1>1, <1>2
<1>4. held \subseteq Keys
  BY DEF Holders
<1>5. CASE held = {}
  <2>1. Upsert(s, k, id, fields) = [s EXCEPT ![k] = entry]
    BY <1>5 DEF Upsert
  <2> QED BY <2>1, <1>3, <1>5 DEF Sound, Placed
<1>6. CASE held # {}
  <2>1. Upsert(s, k, id, fields) = [s EXCEPT ![holder] = None, ![k] = entry]
    BY <1>6 DEF Upsert
  <2>2. holder \in Keys /\ (j \in held <=> j = holder)
    BY <1>2, <1>4, <1>6
  <2> QED BY <2>1, <2>2, <1>3 DEF Sound, Placed
<1> QED BY <1>5, <1>6

\* Upsert is a state again.
LEMMA UpsertType ==
  ASSUME NEW Entries, NEW s, Sound(s, Entries),
         NEW k \in Keys, NEW id \in Ids, NEW fields,
         \A p \in BOOLEAN : [id |-> id, fields |-> fields, prot |-> p] \in Entries
  PROVE  Upsert(s, k, id, fields) \in [Keys -> Entries \cup {None}]
<1> DEFINE after == Upsert(s, k, id, fields)
<1>1. after = [j \in Keys |-> after[j]]
  BY DEF Upsert, Sound
<1>2. ASSUME NEW j \in Keys PROVE after[j] \in Entries \cup {None}
  <2>1. s[j] \in Entries \cup {None}
    BY DEF Sound
  <2>2. Placed(s, id, fields) \in Entries
    BY DEF Placed
  <2>3. j = k => after[j] \in Entries
    BY <2>2, UpsertAt
  <2>4. j # k => after[j] \in {None, s[j]}
    BY UpsertAt
  <2> QED BY <2>1, <2>3, <2>4
<1> QED BY <1>1, <1>2

\* Whatever key a resource is placed under, no resource gets a second key.
LEMMA UpsertSound ==
  ASSUME NEW Entries, NEW s, Sound(s, Entries),
         NEW k \in Keys, NEW id \in Ids, NEW fields
  PROVE  OneKeyPerResource(Upsert(s, k, id, fields))
<1> DEFINE after == Upsert(s, k, id, fields)
<1>1. ASSUME NEW j \in Keys, after[j] # None, j # k
      PROVE  after[j] = s[j] /\ s[j].id # id
  BY <1>1, UpsertAt DEF Holders
<1>2. after[k].id = id
  <2>1. after[k] = Placed(s, id, fields)
    BY UpsertAt
  <2> QED BY <2>1 DEF Placed
<1> QED BY <1>1, <1>2 DEF OneKeyPerResource, Managed, Sound

\* Where the key is free or the resource's own, Upsert loses no resource and no
\* protection, and moves nothing but the resource it places.
LEMMA UpsertKeeps ==
  ASSUME NEW Entries, NEW s, Sound(s, Entries),
         NEW k \in Keys, NEW id \in Ids, NEW fields,
         \A p \in BOOLEAN : [id |-> id, fields |-> fields, prot |-> p] \in Entries,
         ~Collides(s, k, id), NEW j \in Managed(s)
  PROVE  \E h \in Managed(Upsert(s, k, id, fields)) :
           /\ Upsert(s, k, id, fields)[h].id = s[j].id
           /\ s[j].prot => Upsert(s, k, id, fields)[h].prot
           /\ h = IF s[j].id = id THEN k ELSE j
<1> DEFINE after == Upsert(s, k, id, fields)
<1>1. CASE s[j].id = id
  <2>1. after[k] = Placed(s, id, fields)
    BY UpsertAt
  <2>2. j \in Holders(s, id)
    BY <1>1 DEF Holders, Managed
  <2>3. after[k].id = id /\ (s[j].prot => after[k].prot)
    BY <2>1, <2>2 DEF Placed
  <2>4. Placed(s, id, fields) \in Entries
    BY DEF Placed
  <2>5. k \in Managed(after)
    BY <2>1, <2>4 DEF Managed, Sound
  <2> QED BY <1>1, <2>3, <2>5
<1>2. CASE s[j].id # id
  <2>1. j # k /\ j \in Keys /\ j \notin Holders(s, id)
    BY <1>2 DEF Collides, Managed, Holders
  <2>2. after[j] = s[j]
    BY <2>1, UpsertAt
  <2> QED BY <1>2, <2>1, <2>2 DEF Managed
<1> QED BY <1>1, <1>2

\* The key chosen for an adoption is a key, if the derived one is.
LEMMA AdoptKeyIsKey ==
  ASSUME NEW s, NEW id, NEW derived \in Keys, NEW explicit \in Keys \cup {None},
         NEW rekey \in BOOLEAN
  PROVE  AdoptKey(s, id, derived, explicit, rekey) \in Keys
<1>1. Holders(s, id) # {} => (CHOOSE h \in Holders(s, id) : TRUE) \in Holders(s, id)
  OBVIOUS
<1> QED BY <1>1 DEF AdoptKey, Holders

--------------------------------------------------------------------------------
(* Types and soundness are one invariant: an Upsert into a sound state.     *)

Inv == TypeOK /\ SoundState

LEMMA InvGives ==
  Inv => Sound(file, Entry) /\ Sound(mem, Entry)
BY NoneIsNoEntry DEF Inv, TypeOK, SoundState, Sound

\* What an adoption writes is sound.
LEMMA BindInv ==
  ASSUME Inv, Bind
  PROVE  mem' \in States /\ OneKeyPerResource(mem')
<1>1. cur.id \in Ids /\ cur.name \in Keys /\ cur.key \in Keys
  BY DEF Inv, TypeOK, Bind
<1>2. \A p \in BOOLEAN : [id |-> cur.id, fields |-> cur.name, prot |-> p] \in Entry
  BY <1>1 DEF Entry
<1>3. mem' = Upsert(mem, cur.key, cur.id, cur.name) /\ Sound(mem, Entry)
  BY InvGives DEF Bind
<1>4. mem' \in States
  BY <1>1, <1>2, <1>3, UpsertType DEF States
<1>5. OneKeyPerResource(mem')
  BY <1>1, <1>3, UpsertSound
<1> QED BY <1>4, <1>5

\* What state rm writes is sound.
LEMMA RemoveInv ==
  ASSUME Inv, NEW k \in Keys, NEW force \in BOOLEAN, NEW configRead \in BOOLEAN,
         NEW mapRead \in BOOLEAN, Remove(k, force, configRead, mapRead)
  PROVE  file' \in States /\ OneKeyPerResource(file')
<1>1. file' = [file EXCEPT ![k] = None] /\ file \in States
  BY DEF Inv, TypeOK, States, Remove
<1>2. file' \in States
  BY <1>1 DEF States
<1>3. \A j \in Managed(file') : j \in Managed(file) /\ file'[j] = file[j]
  BY <1>1 DEF Managed, States
<1> QED BY <1>2, <1>3 DEF Inv, SoundState, OneKeyPerResource

\* An invocation names groups and nothing else.
LEMMA SelectionsAreGroups == \A Q \in Selections : Q \subseteq Ids
BY AdoptionAssumption DEF Selections, OfType, Below

LEMMA DefaultIsOption == Default \in Options
BY DEF Default, Options

LEMMA ChosenKeyIsKey ==
  ASSUME TypeOK, NEW i \in Ids
  PROVE  ChosenKey(i) \in Keys
<1>1. name[i] \in Keys /\ opts.key \in Keys \cup {None} /\ opts.rekey \in BOOLEAN
  BY DEF TypeOK, Options
<1> QED BY <1>1, AdoptKeyIsKey DEF ChosenKey

LEMMA InvStep == Inv /\ [Next]_vars => Inv'
<1> SUFFICES ASSUME Inv, [Next]_vars PROVE Inv'
  OBVIOUS
<1>0. TypeOK /\ SoundState
  BY DEF Inv
<1> USE AdoptionAssumption, InvocationsAssumption DEF disk, request, Fault
<1>1. ASSUME NEW i \in Ids, NEW k \in Names, Rename(i, k) PROVE Inv'
  BY <1>0, <1>1 DEF Rename, Inv, TypeOK, SoundState
<1>2. ASSUME NEW Q \in Selections, NEW o \in Invocations, Begin(Q, o) PROVE Inv'
  BY <1>0, <1>2, SelectionsAreGroups DEF Begin, Inv, TypeOK, SoundState
<1>3. ASSUME NEW i \in Ids, Fetch(i) PROVE Inv'
  <2> DEFINE key == ChosenKey(i)
  <2>1. key \in Keys
    BY <1>0, ChosenKeyIsKey
  <2>2. rulesets' \in [Keys -> Ids \cup {None}]
    BY <1>0, <1>3, <2>1 DEF Fetch, WriteRuleset, TypeOK
  <2>3. cur' = [id |-> i, name |-> name[i], key |-> key] /\ i \in queue
    BY <1>3 DEF Fetch, Turn
  <2>4. name[i] \in Keys
    BY <1>0 DEF TypeOK
  <2>5. cur' \in [id : Ids \cup {None}, name : Keys \cup {None}, key : Keys \cup {None}]
        /\ cur'.id = i /\ cur'.name \in Keys /\ cur'.key \in Keys
    BY <2>1, <2>3, <2>4
  <2>6. UNCHANGED <<name, file, torn, mem, start, opts, asked, queue, outcome,
                    renames, faults>> /\ pc' = "bind"
    BY <1>3 DEF Fetch
  <2> QED BY <1>0, <2>2, <2>3, <2>5, <2>6 DEF Inv, TypeOK, SoundState
<1>4. ASSUME NEW i \in Ids, FetchMapped(i) PROVE Inv'
  <2>1. Mapped[i] \in Keys
    BY <1>4 DEF FetchMapped, OwnedByMap
  <2>2. rulesets' \in [Keys -> Ids \cup {None}]
    BY <1>0, <1>4, <2>1 DEF FetchMapped, WriteRuleset, TypeOK
  <2> QED BY <1>0, <1>4, <2>2 DEF FetchMapped, Turn, Inv, TypeOK, SoundState
<1>5. ASSUME NEW i \in Ids, StrictRefusal(i) PROVE Inv'
  BY <1>0, <1>5, DefaultIsOption
     DEF StrictRefusal, End, Nothing, Inv, TypeOK, SoundState
<1>6. CASE Bind
  <2>1. cur' = Nothing /\ pc' = "fetch" /\ cur.id \in Ids
    BY <1>0, <1>6 DEF Bind, TypeOK
  <2>2. UNCHANGED <<name, file, torn, start, rulesets, opts, asked, outcome, renames, faults>>
        /\ queue' = queue \ {cur.id}
    BY <1>6 DEF Bind
  <2> QED BY <1>0, <1>6, <2>1, <2>2, BindInv DEF Nothing, States, Inv, TypeOK, SoundState
<1>7. CASE Conflict
  BY <1>0, <1>7, DefaultIsOption DEF Conflict, End, Nothing, Inv, TypeOK, SoundState
<1>8. CASE Save
  BY <1>0, <1>8, DefaultIsOption DEF Save, End, Nothing, Inv, TypeOK, SoundState
<1>9. CASE Fail
  <2>1. torn' \in BOOLEAN
    BY <1>9 DEF Fail
  <2>2. faults' \in 0 .. MaxFaults
    BY <1>0, <1>9 DEF Fail, TypeOK
  <2>3. /\ pc' = "idle" /\ outcome' = "failed" /\ mem' = file' /\ start' = file'
        /\ opts' = Default /\ asked' = {} /\ queue' = {} /\ cur' = Nothing
        /\ UNCHANGED <<file, rulesets, name, renames>>
    BY <1>9 DEF Fail, End
  <2> QED BY <1>0, <2>1, <2>2, <2>3, DefaultIsOption DEF Nothing, Inv, TypeOK, SoundState
<1>10. ASSUME NEW k \in Keys, NEW force \in BOOLEAN, NEW configRead \in BOOLEAN,
              NEW mapRead \in BOOLEAN, Remove(k, force, configRead, mapRead)
       PROVE  Inv'
  <2>1. file' \in States /\ OneKeyPerResource(file')
    BY <1>10, RemoveInv
  <2> QED BY <1>0, <1>10, <2>1 DEF Remove, States, Inv, TypeOK, SoundState
<1>11. CASE UNCHANGED vars
  BY <1>0, <1>11 DEF vars, Inv, TypeOK, SoundState
<1>12. ASSUME NEW i \in Ids, RulesetBreaks(i) PROVE Inv'
  <2>1. ChosenKey(i) \in Keys /\ (OwnedByMap(i) => Mapped[i] \in Keys)
    BY <1>0, ChosenKeyIsKey DEF OwnedByMap
  <2>2. rulesets' \in [Keys -> Ids \cup {None}]
    BY <1>0, <1>12, <2>1 DEF RulesetBreaks, TypeOK
  <2> QED BY <1>0, <1>12, <2>2, DefaultIsOption
          DEF RulesetBreaks, End, Nothing, Inv, TypeOK, SoundState
<1>13. CASE RemoveFails
  BY <1>0, <1>13 DEF RemoveFails, Inv, TypeOK, SoundState
<1> QED
  BY <1>1, <1>2, <1>3, <1>4, <1>5, <1>6, <1>7, <1>8, <1>9, <1>10, <1>11, <1>12, <1>13 DEF Next

LEMMA InitInv == Init => Inv
<1> SUFFICES ASSUME Init PROVE Inv
  OBVIOUS
<1> USE AdoptionAssumption, NoneIsNoEntry
<1>1. PICK b \in [Keys -> Ids \cup {None}], p \in [Keys -> BOOLEAN] :
        /\ \A j, k \in Keys : b[j] # None /\ b[j] = b[k] => j = k
        /\ file = [k \in Keys |-> IF b[k] = None THEN None
                     ELSE [id |-> b[k], fields |-> name[b[k]], prot |-> p[k]]]
  BY DEF Init
<1>2. ASSUME NEW k \in Keys, b[k] # None
      PROVE  /\ [id |-> b[k], fields |-> name[b[k]], prot |-> p[k]] \in Entry
             /\ file[k].id = b[k]
  BY <1>1, <1>2 DEF Init, Entry
<1>3. file \in States
  BY <1>1, <1>2 DEF States
<1>4. OneKeyPerResource(file)
  <2> SUFFICES ASSUME NEW j \in Keys, NEW k \in Keys, file[j] # None, file[k] # None,
                      file[j].id = file[k].id
               PROVE  j = k
    BY DEF OneKeyPerResource, Managed
  <2>1. b[j] # None /\ b[k] # None
    BY <1>1
  <2>2. b[j] = b[k]
    BY <1>2, <2>1
  <2> QED BY <1>1, <2>1, <2>2
<1>5. rulesets \in [Keys -> Ids \cup {None}]
  <2>1. rulesets = [k \in Keys |-> IF file[k] # None /\ file[k].id \in Dynamic
                                   THEN file[k].id ELSE None]
    BY DEF Init
  <2> QED BY <2>1
<1>6. /\ mem = file /\ start = file /\ name \in [Ids -> Keys]
      /\ torn = FALSE /\ opts = Default /\ asked = {} /\ queue = {} /\ cur = Nothing
      /\ pc = "idle" /\ outcome = "none" /\ renames = 0 /\ faults = 0
  BY DEF Init
<1>7. cur \in [id : Ids \cup {None}, name : Keys \cup {None}, key : Keys \cup {None}]
  BY <1>6 DEF Nothing
<1>8. renames \in 0 .. MaxRenames /\ faults \in 0 .. MaxFaults
  BY <1>6
<1>9. SoundState
  BY <1>4, <1>6 DEF SoundState
<1> HIDE AdoptionAssumption, NoneIsNoEntry
<1>10. TypeOK
  BY <1>3, <1>5, <1>6, <1>7, <1>8, DefaultIsOption DEF States, TypeOK
<1> QED BY <1>9, <1>10 DEF Inv

LEMMA InvAlways == Spec => []Inv
BY InitInv, InvStep, PTL DEF Spec

\* The types hold in every reachable state.
THEOREM Typed == Spec => []TypeOK
<1>1. Inv => TypeOK
  BY DEF Inv
<1> QED BY <1>1, InvAlways, PTL

\* upsert moves a re-keyed resource and refuses a taken key, so whatever
\* sequence of adoptions and removals ran, no resource has two keys
\* (state.ts:231).
THEOREM AlwaysSound == Spec => []SoundState
<1>1. Inv => SoundState
  BY DEF Inv
<1> QED BY <1>1, InvAlways, PTL

--------------------------------------------------------------------------------
(* The copy an operation holds, compared with the file.                     *)

\* Nothing but the operation itself changes the file, and what it has done to
\* its copy so far lost no resource and no protection, and no key unless it was
\* told to.
Faithful ==
  /\ start = file
  /\ pc # "idle" => ~torn
  /\ pc = "bind" =>
       cur.key = AdoptKey(mem, cur.id, cur.name, opts.key, opts.rekey)
  /\ \A k \in Managed(file) : \E j \in Managed(mem) :
       /\ mem[j].id = file[k].id
       /\ file[k].prot => mem[j].prot
       /\ opts.rekey \/ opts.key # None \/ j = k

LEMMA BindFaithful ==
  ASSUME Inv, Faithful, Bind
  PROVE  Faithful'
<1> DEFINE kept(j) == IF mem[j].id = cur.id THEN cur.key ELSE j
<1>1. cur.id \in Ids /\ cur.name \in Keys /\ cur.key \in Keys
  BY DEF Inv, TypeOK, Bind
<1>2. \A p \in BOOLEAN : [id |-> cur.id, fields |-> cur.name, prot |-> p] \in Entry
  BY <1>1 DEF Entry
<1>3. /\ mem' = Upsert(mem, cur.key, cur.id, cur.name) /\ Sound(mem, Entry)
      /\ ~Collides(mem, cur.key, cur.id)
  BY InvGives DEF Bind
<1>4. ASSUME NEW j \in Managed(mem)
      PROVE  /\ kept(j) \in Managed(mem') /\ mem'[kept(j)].id = mem[j].id
             /\ mem[j].prot => mem'[kept(j)].prot
  BY <1>1, <1>2, <1>3, UpsertKeeps
<1>5. ASSUME NEW j \in Managed(mem), ~opts.rekey, opts.key = None
      PROVE  kept(j) = j
  <2> SUFFICES ASSUME mem[j].id = cur.id PROVE cur.key = j
    OBVIOUS
  <2>1. j \in Holders(mem, cur.id)
    BY DEF Holders, Managed
  <2>2. cur.key = CHOOSE h \in Holders(mem, cur.id) : TRUE
    BY <1>5, <2>1 DEF Faithful, AdoptKey, Bind
  <2>3. cur.key \in Holders(mem, cur.id)
    BY <2>1, <2>2
  <2> QED BY <2>1, <2>3 DEF Holders, Managed, Inv, SoundState, OneKeyPerResource
<1>6. UNCHANGED <<file, torn, start, opts>> /\ pc = "bind" /\ pc' = "fetch"
  BY DEF Bind, disk, request
<1>7. ASSUME NEW k \in Managed(file)
      PROVE  \E j \in Managed(mem') : /\ mem'[j].id = file[k].id
                                      /\ file[k].prot => mem'[j].prot
                                      /\ opts.rekey \/ opts.key # None \/ j = k
  <2>1. PICK j \in Managed(mem) : /\ mem[j].id = file[k].id
                                  /\ file[k].prot => mem[j].prot
                                  /\ opts.rekey \/ opts.key # None \/ j = k
    BY DEF Faithful
  <2>2. opts.rekey \/ opts.key # None \/ kept(j) = k
    BY <2>1, <1>5
  <2> QED BY <2>1, <2>2, <1>4
<1> QED BY <1>6, <1>7 DEF Faithful, Managed

LEMMA FaithfulStep == Inv /\ Faithful /\ [Next]_vars => Faithful'
<1> SUFFICES ASSUME Inv, Faithful, [Next]_vars PROVE Faithful'
  OBVIOUS
<1> USE DEF disk, request, ChosenKey
\* where the copy is the file again, there is nothing to show
<1>0. ASSUME start' = file', mem' = file', pc' = "idle" \/ (pc' = "fetch" /\ ~torn')
      PROVE  Faithful'
  BY <1>0 DEF Faithful, Managed
<1>1. ASSUME NEW i \in Ids, Fetch(i) PROVE Faithful'
  <2>1. cur'.key = AdoptKey(mem, cur'.id, cur'.name, opts.key, opts.rekey)
    BY <1>1 DEF Fetch
  <2>2. /\ UNCHANGED <<start, file, torn, mem, opts>> /\ pc = "fetch" /\ pc' = "bind"
    BY <1>1 DEF Fetch, Turn
  <2>3. AdoptKey(mem, cur'.id, cur'.name, opts.key, opts.rekey)
          = AdoptKey(mem', cur'.id, cur'.name, opts'.key, opts'.rekey)
    BY <2>2
  <2> QED BY <2>1, <2>2, <2>3 DEF Faithful, Managed
<1>2. ASSUME NEW i \in Ids, FetchMapped(i) PROVE Faithful'
  BY <1>2 DEF FetchMapped, Turn, Faithful, Managed
<1>3. CASE Bind
  BY <1>3, BindFaithful
<1>4. ASSUME NEW i \in Ids, NEW k \in Names, Rename(i, k) PROVE Faithful'
  BY <1>4 DEF Rename, Faithful, AdoptKey, Holders, Managed
<1>5. CASE UNCHANGED vars
  BY <1>5 DEF vars, Faithful, AdoptKey, Holders, Managed
<1>6. ASSUME NEW Q \in Selections, NEW o \in Invocations, Begin(Q, o)
      PROVE  Faithful'
  BY <1>0, <1>6 DEF Begin
<1>7. ASSUME NEW i \in Ids, StrictRefusal(i) PROVE Faithful'
  BY <1>0, <1>7 DEF StrictRefusal, End
<1>8. CASE Conflict
  BY <1>0, <1>8 DEF Conflict, End
<1>9. CASE Save
  BY <1>0, <1>9 DEF Save, End
<1>10. CASE Fail
  BY <1>0, <1>10 DEF Fail, End
<1>11. ASSUME NEW k \in Keys, NEW force \in BOOLEAN, NEW configRead \in BOOLEAN,
              NEW mapRead \in BOOLEAN, Remove(k, force, configRead, mapRead)
       PROVE  Faithful'
  BY <1>0, <1>11 DEF Remove
<1>12. ASSUME NEW i \in Ids, RulesetBreaks(i) PROVE Faithful'
  BY <1>0, <1>12 DEF RulesetBreaks, End
<1>13. CASE RemoveFails
  BY <1>13 DEF RemoveFails, Faithful, Managed
<1> QED
  BY <1>1, <1>2, <1>3, <1>4, <1>5, <1>6, <1>7, <1>8, <1>9, <1>10, <1>11, <1>12, <1>13 DEF Next

LEMMA FaithfulAlways == Spec => [](Inv /\ Faithful)
<1>1. Init => Faithful
  BY DEF Init, Faithful, Managed
<1> QED BY <1>1, InvAlways, FaithfulStep, PTL DEF Spec

--------------------------------------------------------------------------------
(* What a step may never do.                                                *)

\* In a sound state a managed resource's key is the one KeyOf finds.
LEMMA KeyOfManaged ==
  ASSUME NEW s, OneKeyPerResource(s), NEW k \in Managed(s)
  PROVE  s[k].id \in BoundIds(s) /\ KeyOf(s, s[k].id) = k
<1>1. k \in Holders(s, s[k].id)
  BY DEF Holders, Managed
<1>2. KeyOf(s, s[k].id) \in Holders(s, s[k].id)
  BY <1>1 DEF KeyOf
<1> QED BY <1>1, <1>2 DEF Holders, Managed, OneKeyPerResource, BoundIds

LEMMA KeyOfBound ==
  ASSUME NEW s, NEW i \in BoundIds(s)
  PROVE  KeyOf(s, i) \in Managed(s) /\ s[KeyOf(s, i)].id = i
<1>1. PICK k \in Managed(s) : s[k].id = i
  BY DEF BoundIds
<1>2. k \in Holders(s, i)
  BY <1>1 DEF Holders, Managed
<1>3. KeyOf(s, i) \in Holders(s, i)
  BY <1>2 DEF KeyOf
<1> QED BY <1>3 DEF Holders, Managed

\* The groups an adoption is done with are in its copy, and the ruleset of each is
\* under its key; where the next group was about to be placed under that key and
\* has overwritten it, only the conflict is left.
Handled ==
  pc # "idle" =>
    /\ pc = "bind" => /\ ~OwnedByMap(cur.id)
                      /\ Captures(cur.id) => rulesets[cur.key] = cur.id
    /\ \A i \in asked \ queue : ~OwnedByMap(i) => \E k \in Managed(mem) :
         /\ mem[k].id = i
         /\ Captures(i) => \/ rulesets[k] = i \/ k \in MappedKeys
                           \/ pc = "bind" /\ cur.key = k

LEMMA BindHandled ==
  ASSUME Inv, Handled, Bind
  PROVE  Handled'
<1>1. /\ cur.id \in queue /\ cur.id \in Ids /\ cur.name \in Keys /\ cur.key \in Keys
      /\ queue \subseteq asked
  BY AdoptionAssumption DEF Inv, TypeOK, Bind
<1>2. \A p \in BOOLEAN : [id |-> cur.id, fields |-> cur.name, prot |-> p] \in Entry
  BY <1>1 DEF Entry
<1>3. /\ mem' = Upsert(mem, cur.key, cur.id, cur.name) /\ Sound(mem, Entry)
      /\ ~Collides(mem, cur.key, cur.id)
  BY InvGives DEF Bind
<1>4. /\ pc = "bind" /\ pc' = "fetch" /\ queue' = queue \ {cur.id}
      /\ UNCHANGED <<rulesets, start, opts, asked>>
  BY DEF Bind, disk, request
<1>5. cur.key \in Managed(mem') /\ mem'[cur.key].id = cur.id
  <2>1. mem'[cur.key] = Placed(mem, cur.id, cur.name)
    BY <1>1, <1>3, UpsertAt
  <2>2. Placed(mem, cur.id, cur.name) \in Entry
    BY <1>2 DEF Placed
  <2> QED BY <1>1, <2>1, <2>2, NoneIsNoEntry DEF Managed, Placed
<1>6. ASSUME NEW i \in asked' \ queue', ~OwnedByMap(i)
      PROVE  \E k \in Managed(mem') :
               /\ mem'[k].id = i
               /\ Captures(i) => rulesets'[k] = i \/ k \in MappedKeys
  <2>1. CASE i = cur.id
    BY <1>4, <1>5, <2>1 DEF Handled
  <2>2. CASE i # cur.id
    <3>1. PICK k \in Managed(mem) :
            /\ mem[k].id = i
            /\ Captures(i) => \/ rulesets[k] = i \/ k \in MappedKeys
                              \/ pc = "bind" /\ cur.key = k
      BY <1>4, <1>6, <2>2 DEF Handled
    <3>2. cur.key # k
      BY <1>3, <2>2, <3>1 DEF Collides, Managed
    <3>3. k \in Managed(mem') /\ mem'[k].id = i
      BY <1>1, <1>2, <1>3, <2>2, <3>1, UpsertKeeps
    <3> QED BY <1>4, <3>1, <3>2, <3>3
  <2> QED BY <2>1, <2>2
<1>7. \A i \in asked : Captures(i)' = Captures(i) /\ OwnedByMap(i)' = OwnedByMap(i)
  BY <1>4 DEF Captures, OwnedByMap
<1> QED BY <1>4, <1>6, <1>7 DEF Handled

LEMMA HandledStep == Inv /\ Handled /\ [Next]_vars => Handled'
<1> SUFFICES ASSUME Inv, Handled, [Next]_vars PROVE Handled'
  OBVIOUS
<1> USE DEF disk, request
<1>0. ASSUME pc' = "idle" PROVE Handled'
  BY <1>0 DEF Handled
<1>1. ASSUME NEW i \in Ids, Fetch(i) PROVE Handled'
  <2>1. /\ pc = "fetch" /\ pc' = "bind" /\ cur'.id = i /\ cur'.key = ChosenKey(i)
        /\ ~OwnedByMap(i) /\ UNCHANGED <<mem, start, opts, asked, queue>>
        /\ rulesets' = IF Captures(i) THEN [rulesets EXCEPT ![ChosenKey(i)] = i] ELSE rulesets
    BY <1>1 DEF Fetch, Turn, WriteRuleset
  <2>2. ChosenKey(i) \in Keys /\ rulesets \in [Keys -> Ids \cup {None}]
    BY ChosenKeyIsKey DEF Inv, TypeOK
  <2>3. Captures(i) => rulesets'[cur'.key] = i
    BY <2>1, <2>2
  <2>4. \A k \in Keys : k # cur'.key => rulesets'[k] = rulesets[k]
    BY <2>1, <2>2
  <2>5. \A j \in Ids : Captures(j)' = Captures(j) /\ OwnedByMap(j)' = OwnedByMap(j)
    BY <2>1 DEF Captures, OwnedByMap
  <2>6. asked \subseteq Ids /\ Managed(mem) \subseteq Keys
    BY DEF Inv, TypeOK, Managed
  <2>7. ASSUME NEW j \in asked \ queue, ~OwnedByMap(j)
        PROVE  \E k \in Managed(mem) :
                 /\ mem[k].id = j
                 /\ Captures(j) => rulesets'[k] = j \/ k \in MappedKeys \/ cur'.key = k
    <3>1. PICK k \in Managed(mem) : /\ mem[k].id = j
                                    /\ Captures(j) => rulesets[k] = j \/ k \in MappedKeys
      BY <2>1, <2>7 DEF Handled
    <3> QED BY <2>4, <2>6, <3>1
  <2> QED BY <2>1, <2>3, <2>5, <2>6, <2>7 DEF Handled, Managed
<1>2. ASSUME NEW i \in Ids, FetchMapped(i) PROVE Handled'
  <2>1. /\ pc = "fetch" /\ UNCHANGED <<mem, start, opts, asked, pc, cur>>
        /\ queue' = queue \ {i} /\ OwnedByMap(i) /\ Mapped[i] \in MappedKeys
        /\ rulesets' = IF Captures(i) THEN [rulesets EXCEPT ![Mapped[i]] = i] ELSE rulesets
    BY <1>2, AdoptionAssumption DEF FetchMapped, Turn, WriteRuleset, OwnedByMap, MappedKeys
  <2>2. \A k \in Keys : k \notin MappedKeys => rulesets'[k] = rulesets[k]
    BY <2>1 DEF Inv, TypeOK
  <2>3. \A j \in Ids : Captures(j)' = Captures(j) /\ OwnedByMap(j)' = OwnedByMap(j)
    BY <2>1 DEF Captures, OwnedByMap
  <2>4. asked \subseteq Ids /\ Managed(mem) \subseteq Keys
    BY DEF Inv, TypeOK, Managed
  <2> QED BY <2>1, <2>2, <2>3, <2>4 DEF Handled, Managed
<1>3. CASE Bind
  BY <1>3, BindHandled
<1>4. ASSUME NEW i \in Ids, NEW k \in Names, Rename(i, k) PROVE Handled'
  BY <1>4 DEF Rename, Handled, Captures, OwnedByMap, Managed
<1>5. CASE UNCHANGED vars
  BY <1>5 DEF vars, Handled, Captures, OwnedByMap, Managed
<1>6. ASSUME NEW Q \in Selections, NEW o \in Invocations, Begin(Q, o) PROVE Handled'
  BY <1>6 DEF Begin, Handled
<1>7. ASSUME NEW i \in Ids, StrictRefusal(i) \/ RulesetBreaks(i) PROVE Handled'
  BY <1>0, <1>7 DEF StrictRefusal, RulesetBreaks, End
<1>8. CASE Conflict \/ Save \/ Fail
  BY <1>0, <1>8 DEF Conflict, Save, Fail, End
<1>9. CASE RemoveFails \/ \E k \in Keys, force, configRead, mapRead \in BOOLEAN :
                            Remove(k, force, configRead, mapRead)
  BY <1>0, <1>9 DEF Remove, RemoveFails
<1> QED
  BY <1>1, <1>2, <1>3, <1>4, <1>5, <1>6, <1>7, <1>8, <1>9 DEF Next

LEMMA HandledAlways == Spec => []Handled
<1>1. Init => Handled
  BY DEF Init, Handled
<1> QED BY <1>1, InvAlways, HandledStep, PTL DEF Spec

\* One save for the whole list (adopt-group.ts:626): an error leaves the file as
\* it was loaded, or truncated if it came in that save; an adoption that ends
\* well has every group in the state file and its ruleset under its key there.
THEOREM FailedListChangesNothing == Spec => AllOrNothing
<1> DEFINE Bad  == Ends({"failed", "refused", "conflict"})
           Good == Ends({"ok"})
<1>1. ASSUME Inv, Faithful, [Next]_vars, Bad
      PROVE  file' = start /\ (torn' => Saving)
  <2> USE DEF Ends, disk, request
  <2>1. start = file
    BY <1>1 DEF Faithful
  <2>2. pc # "idle" /\ pc' = "idle" /\ outcome' # "ok"
    BY <1>1
  <2>3. CASE Fail
    BY <2>1, <2>3 DEF Fail
  <2>4. CASE Conflict \/ \E i \in Ids : StrictRefusal(i) \/ RulesetBreaks(i)
    <3>1. UNCHANGED disk
      BY <2>4 DEF Conflict, StrictRefusal, RulesetBreaks
    <3>2. ~torn
      BY <1>1, <2>2 DEF Faithful
    <3> QED BY <2>1, <3>1, <3>2
  <2> QED BY <1>1, <2>2, <2>3, <2>4
          DEF Next, Rename, Begin, Fetch, FetchMapped, Bind, Save, Remove, RemoveFails,
              End, vars
<1>2. ASSUME Inv, Handled, [Next]_vars, Good
      PROVE  \A i \in {j \in asked : ~OwnedByMap(j)} :
               /\ i \in BoundIds(file')
               /\ Captures(i) => \/ rulesets'[KeyOf(file', i)] = i
                                 \/ KeyOf(file', i) \in MappedKeys
  <2>1. pc # "idle" /\ pc' = "idle" /\ outcome' = "ok"
    BY <1>2 DEF Ends
  <2>2. Save
    BY <1>2, <2>1 DEF Next, Rename, Begin, Fetch, FetchMapped, StrictRefusal, RulesetBreaks,
                      Bind, Conflict, Fail, Remove, RemoveFails, End, vars
  <2>3. pc = "fetch" /\ queue = {} /\ file' = mem /\ rulesets' = rulesets
    BY <2>2 DEF Save
  <2> SUFFICES ASSUME NEW i \in asked, ~OwnedByMap(i)
               PROVE  /\ i \in BoundIds(file')
                      /\ Captures(i) => \/ rulesets'[KeyOf(file', i)] = i
                                        \/ KeyOf(file', i) \in MappedKeys
    OBVIOUS
  <2>4. PICK k \in Managed(mem) : /\ mem[k].id = i
                                  /\ Captures(i) => rulesets[k] = i \/ k \in MappedKeys
    BY <1>2, <2>3 DEF Handled
  <2>5. i \in BoundIds(mem) /\ KeyOf(mem, i) = k
    BY <1>2, <2>4, KeyOfManaged DEF Inv, SoundState
  <2> QED BY <2>3, <2>4, <2>5
<1> QED BY <1>1, <1>2, FaithfulAlways, HandledAlways, PTL DEF Spec, AllOrNothing

\* A step that changes the file writes the adoption's copy or removes one key.
LEMMA FileChanges ==
  ASSUME [Next]_vars
  PROVE  \/ file' = file
         \/ Save /\ file' = mem
         \/ \E k \in Keys : file' = [file EXCEPT ![k] = None]
BY DEF Next, Rename, Begin, Fetch, FetchMapped, StrictRefusal, RulesetBreaks, Bind,
       Conflict, Save, Fail, Remove, RemoveFails, End, disk, vars

\* A resource that stays managed keeps its protection, and its key unless the
\* adoption was told otherwise.
LEMMA IdentityStep ==
  ASSUME Inv, Faithful, [Next]_vars, NEW i \in BoundIds(file) \cap BoundIds(file')
  PROVE  /\ KeyOf(file', i) # KeyOf(file, i) => opts.rekey \/ opts.key # None
         /\ file[KeyOf(file, i)].prot => file'[KeyOf(file', i)].prot
<1> DEFINE k == KeyOf(file, i)
<1>1. k \in Managed(file) /\ file[k].id = i
  BY KeyOfBound
<1>2. OneKeyPerResource(file) /\ OneKeyPerResource(mem) /\ file \in States
  BY DEF Inv, SoundState, TypeOK, States
<1>3. CASE file' = file
  BY <1>3
<1>4. CASE Save /\ file' = mem
  <2>1. PICK j \in Managed(mem) : /\ mem[j].id = i
                                  /\ file[k].prot => mem[j].prot
                                  /\ opts.rekey \/ opts.key # None \/ j = k
    BY <1>1 DEF Faithful
  <2>2. KeyOf(mem, i) = j
    BY <1>2, <2>1, KeyOfManaged
  <2>3. KeyOf(file', i) = j /\ file'[j] = mem[j]
    BY <1>4, <2>2
  <2> QED BY <2>1, <2>3
<1>5. ASSUME NEW r \in Keys, file' = [file EXCEPT ![r] = None]
      PROVE  KeyOf(file', i) = k /\ file'[k] = file[k]
  <2>1. PICK j \in Managed(file') : file'[j].id = i
    BY DEF BoundIds
  <2>2. j \in Managed(file) /\ file'[j] = file[j]
    BY <1>2, <1>5, <2>1 DEF Managed, States
  <2>3. j = k
    BY <1>1, <1>2, <2>1, <2>2 DEF OneKeyPerResource
  <2>4. ASSUME NEW h \in Holders(file', i) PROVE h = k
    BY <1>1, <1>2, <1>5, <2>4 DEF Holders, Managed, States, OneKeyPerResource
  <2>5. KeyOf(file', i) \in Holders(file', i)
    BY <2>1 DEF KeyOf, Holders, Managed
  <2> QED BY <2>2, <2>3, <2>4, <2>5
<1> QED BY <1>3, <1>4, <1>5, FileChanges

\* chooseAdoptKey: a refresh touches the snapshot, not the identity, whatever
\* the resource is called by now (state.ts:203).
THEOREM RefreshKeepsTheKey == Spec => KeyIsKept
<1>1. Inv /\ Faithful /\ [Next]_vars
        => [\A i \in BoundIds(file) \cap BoundIds(file') :
              KeyOf(file', i) # KeyOf(file, i) => opts.rekey \/ opts.key # None]_vars
  BY IdentityStep
<1> QED BY <1>1, FaithfulAlways, PTL DEF Spec, KeyIsKept

\* upsert carries preventDestroy over, to a new key as well (state.ts:251).
THEOREM ProtectionSurvives == Spec => ProtectionIsKept
<1>1. Inv /\ Faithful /\ [Next]_vars
        => [\A i \in BoundIds(file) \cap BoundIds(file') :
              file[KeyOf(file, i)].prot => file'[KeyOf(file', i)].prot]_vars
  BY IdentityStep
<1> QED BY <1>1, FaithfulAlways, PTL DEF Spec, ProtectionIsKept

\* removeStateEntry's guards (operations/state.ts:190-203): an unforced removal
\* leaves every declared key managed and every reference resolvable.
THEOREM RemovalGuarded == Spec => RemovalIsSafe
<1>1. Inv /\ [Next]_vars
        => [outcome' = "removed" =>
              /\ \A k \in Declared : file[k] # None => file'[k] # None
              /\ \A k \in References : Resolves(file, k) => Resolves(file', k)]_vars
  <2> SUFFICES ASSUME Inv, [Next]_vars, outcome' = "removed"
               PROVE  /\ \A k \in Declared : file[k] # None => file'[k] # None
                      /\ \A k \in References : Resolves(file, k) => Resolves(file', k)
    OBVIOUS
  <2>1. CASE file' = file
    BY <2>1 DEF Resolves
  <2>2. ASSUME NEW r \in Keys, NEW force \in BOOLEAN, NEW configRead \in BOOLEAN,
               NEW mapRead \in BOOLEAN, Remove(r, force, configRead, mapRead)
        PROVE  /\ \A k \in Declared : file[k] # None => file'[k] # None
               /\ \A k \in References : Resolves(file, k) => Resolves(file', k)
    <3>1. MayRemove(r, mapRead) /\ file' = [file EXCEPT ![r] = None]
      BY <2>2 DEF Remove
    <3>2. \A k \in Keys : k # r => file'[k] = file[k]
      BY <3>1 DEF Inv, TypeOK
    <3> QED BY <3>1, <3>2, AdoptionAssumption DEF MayRemove, Resolves
  <2>3. file' = file \/ \E r \in Keys, force, configRead, mapRead \in BOOLEAN :
                          Remove(r, force, configRead, mapRead)
    BY DEF Next, Rename, Begin, Fetch, FetchMapped, StrictRefusal, RulesetBreaks, Bind,
           Conflict, Save, Fail, RemoveFails, End, disk, vars
  <2> QED BY <2>1, <2>2, <2>3
<1> QED BY <1>1, FaithfulAlways, PTL DEF Spec, RemovalIsSafe
=============================================================================
