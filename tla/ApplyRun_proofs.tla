--------------------------- MODULE ApplyRun_proofs ---------------------------
(***************************************************************************)
(* What holds of module ApplyRun for any configurations, keys, fields,     *)
(* values and any number of faults and edits: the types, the soundness of  *)
(* the state file, how far the file may lag behind the work, what apply    *)
(* may touch, and what a run leaves for the next one to find: pending      *)
(* references that resolve, resources no key manages, completed work.      *)
(***************************************************************************)
EXTENDS ApplyRun, FiniteSetTheorems, TLAPS

States   == [Keys -> Entry \cup {None}]
Live     == [Ids -> Res \cup {None}]
Outcomes == {"none", "aborted", "nochange", "ok", "failed", "crashed"}
Changes  == [Fields -> Values \cup Ids \cup {Nil, Pending}]
Snapshots == [Plain -> Values \cup Ids \cup {Nil}]

--------------------------------------------------------------------------------
(* The inductive invariant.                                                 *)

\* ChurchTools hands out every identity once: what exists, and what the state
\* names, is older than the next one.
Fresh ==
  /\ \A i \in Ids : live[i] # None => i < nextId
  /\ \A i \in BoundIds(disk) \cup BoundIds(mem) : i < nextId

\* What a plan item carries, whether or not the plan is being executed.
ItemsFit ==
  \A k \in Planned(plan) :
    /\ \A f \in Fields \ {"ref"} : plan[k].changes[f] # Pending
    /\ plan[k].action = "update" => plan[k].id \in Ids /\ plan[k].actual # None

\* An operation in progress: its configuration is the one that was planned, and
\* an item that is still to come has its state entry as planned.
InProgress ==
  pc # "idle" =>
    /\ remaining \subseteq Planned(plan)
    /\ \A k \in Planned(plan) : plan[k].changes["ref"] = Pending
                                  => RefOf(config, k) \in Keys
    /\ \A k \in remaining : plan[k].action = "update"
                              => mem[k] # None /\ mem[k].id = plan[k].id

\* The item being written has an entry in the copy of the state.
CurrentBound ==
  pc \in {"save1", "syn", "save2"} =>
    cur \in Keys /\ plan[cur] # None /\ mem[cur] # None

Inv == /\ TypeOK /\ SoundState /\ LagsByOneItem
       /\ Fresh /\ ItemsFit /\ InProgress /\ CurrentBound

LEMMA FieldsFacts ==
  /\ "ref" \in Fields /\ "sub" \in Fields /\ "ref" \in Plain
  /\ Plain \subseteq Fields /\ Attrs \subseteq Fields
  /\ Fields = Attrs \cup {"ref", "sub"}
BY DEF Fields, Plain

LEMMA InvSound == Inv => Sound(disk, Entry) /\ Sound(mem, Entry)
BY ValuesAssumption DEF Inv, TypeOK, SoundState, Sound

\* An entry of a state has the fields of an entry.
LEMMA EntryOf ==
  ASSUME NEW s \in States, NEW k \in Keys, s[k] # None
  PROVE  /\ s[k] \in Entry /\ s[k].id \in Ids /\ s[k].fields \in Snapshots
         /\ s[k].prot \in BOOLEAN
BY DEF States, Entry, Snapshots

\* An item of the plan has the fields of an item.
LEMMA ItemOf ==
  ASSUME TypeOK, NEW k \in Planned(plan)
  PROVE  /\ k \in Keys /\ plan[k] \in Item /\ plan[k].changes \in Changes
         /\ plan[k].prot \in BOOLEAN /\ plan[k].actual \in Res \cup {None}
         /\ plan[k].id \in Ids \cup {None}
BY DEF TypeOK, Planned, Item, Changes

--------------------------------------------------------------------------------
(* Planning.                                                                *)

\* A declared resource's fields, references resolved: only a reference can be
\* pending, and then the configuration names its target.
LEMMA DesiredType ==
  ASSUME TypeOK, NEW k \in Keys, config[k] # None
  PROVE  /\ Desired(config, k) \in Changes
         /\ \A f \in Fields \ {"ref"} : Desired(config, k)[f] # Pending
         /\ Desired(config, k)["ref"] = Pending => RefOf(config, k) \in Keys
<1> DEFINE want == config[k].want
<1> USE FieldsFacts
<1>1. config \in Configs /\ config[k] \in Decl
  BY ConfigsAssumption DEF TypeOK
<1>2. want \in [Fields -> Values \cup Keys \cup {Nil}]
  BY <1>1 DEF Decl
<1>3. ASSUME NEW f \in Fields \ {"ref"} PROVE want[f] \in Values \cup {Nil}
  BY <1>1, ConfigsAssumption
<1>4. want["ref"] # Nil => want["ref"] \in Keys /\ RefOf(config, k) \in Keys
  BY <1>1, <1>2, ConfigsAssumption DEF RefOf
<1>5. ASSUME NEW t \in Keys PROVE Resolve(t) \in Ids \cup {Pending}
  BY EntryOf DEF Resolve, TypeOK, States
<1>6. Desired(config, k) =
        [want EXCEPT !["ref"] = IF want["ref"] = Nil THEN Nil ELSE Resolve(want["ref"])]
  BY DEF Desired
<1>7. \A f \in Fields \ {"ref"} : Desired(config, k)[f] = want[f]
  BY <1>2, <1>6
<1>8. Desired(config, k)["ref"] =
        IF want["ref"] = Nil THEN Nil ELSE Resolve(want["ref"])
  BY <1>2, <1>6
<1>9. Desired(config, k) \in Changes
  <2>1. Desired(config, k) = [f \in Fields |-> Desired(config, k)[f]]
    BY <1>2, <1>6
  <2>2. \A f \in Fields : Desired(config, k)[f] \in Values \cup Ids \cup {Nil, Pending}
    BY <1>3, <1>4, <1>5, <1>7, <1>8
  <2> QED BY <2>1, <2>2 DEF Changes
<1>10. \A f \in Fields \ {"ref"} : Desired(config, k)[f] # Pending
  BY <1>3, <1>7, ValuesAssumption
<1> QED BY <1>4, <1>8, <1>9, <1>10, ValuesAssumption

\* What the fields of a plan item say of the configuration and the instance.
LEMMA PlanItemIs ==
  ASSUME NEW k, config[k] # None \/ PlanItem(config, k) # None
  PROVE  LET item == PlanItem(config, k) IN
         /\ item.actual = Actual(k)
         /\ config[k] = None => item.changes = NoChange
                                /\ item.action \notin {"create", "update"}
         /\ config[k] # None => item.action \in {"create", "update", "noop"}
         /\ config[k] # None /\ Actual(k) = None =>
              /\ item.action = "create" /\ item.changes = Desired(config, k)
              /\ disk[k] # None => item.note = "recreate"
         /\ config[k] # None /\ Actual(k) # None =>
              /\ item.changes = Diff(Desired(config, k), Actual(k))
              /\ item.action = IF item.changes # NoChange THEN "update" ELSE "noop"
<1> DEFINE item     == PlanItem(config, k)
           declared == config[k] # None
           managed  == disk[k] # None
           actual   == Actual(k)
           changes  == IF ~declared THEN NoChange
                       ELSE IF actual = None THEN Desired(config, k)
                       ELSE Diff(Desired(config, k), actual)
           action   == IF declared
                       THEN IF actual = None THEN "create"
                            ELSE IF changes # NoChange THEN "update" ELSE "noop"
                       ELSE IF actual = None THEN "noop" ELSE "delete"
           note     == IF managed /\ actual = None
                       THEN IF declared THEN "recreate" ELSE "stale" ELSE ""
           id       == IF action = "create" \/ ~managed THEN None ELSE disk[k].id
           prot     == declared /\ config[k].prot
<1>1. item = [action |-> action, note |-> note, changes |-> changes, id |-> id,
              actual |-> actual, prot |-> prot]
  BY DEF PlanItem
<1>2. /\ item.changes = changes /\ item.action = action /\ item.note = note
      /\ item.actual = actual
  <2> HIDE DEF actual, changes, action, note, id, prot
  <2> QED BY <1>1
<1> HIDE DEF item
<1> QED BY <1>2 DEF item

\* Every item computePlan makes, as the execution relies on it.
LEMMA PlanItemFits ==
  ASSUME TypeOK, NEW k \in Keys, config[k] # None \/ PlanItem(config, k) # None
  PROVE  LET item == PlanItem(config, k) IN
         /\ item \in Item
         /\ \A f \in Fields \ {"ref"} : item.changes[f] # Pending
         /\ item.changes["ref"] = Pending => RefOf(config, k) \in Keys
         /\ item.action = "update" => /\ item.id \in Ids /\ item.actual # None
                                      /\ disk[k] # None /\ item.id = disk[k].id
<1> DEFINE item     == PlanItem(config, k)
           declared == config[k] # None
           managed  == disk[k] # None
           actual   == Actual(k)
           changes  == IF ~declared THEN NoChange
                       ELSE IF actual = None THEN Desired(config, k)
                       ELSE Diff(Desired(config, k), actual)
           action   == IF declared
                       THEN IF actual = None THEN "create"
                            ELSE IF changes # NoChange THEN "update" ELSE "noop"
                       ELSE IF actual = None THEN "noop" ELSE "delete"
           note     == IF managed /\ actual = None
                       THEN IF declared THEN "recreate" ELSE "stale" ELSE ""
           id       == IF action = "create" \/ ~managed THEN None ELSE disk[k].id
           prot     == declared /\ config[k].prot
<1> USE FieldsFacts
<1>1. item = [action |-> action, note |-> note, changes |-> changes, id |-> id,
              actual |-> actual, prot |-> prot]
  BY DEF PlanItem
<1>2. disk[k] # None => disk[k].id \in Ids
  BY EntryOf DEF TypeOK, States
<1>3. actual \in Res \cup {None} /\ (actual # None => managed)
  BY <1>2 DEF Actual, TypeOK
<1>4. /\ changes \in Changes
      /\ \A f \in Fields \ {"ref"} : changes[f] # Pending
      /\ changes["ref"] = Pending => RefOf(config, k) \in Keys
  <2>1. CASE ~declared
    BY <2>1, ValuesAssumption DEF NoChange, Changes
  <2>2. CASE declared /\ actual = None
    BY <2>2, DesiredType
  <2>3. CASE declared /\ actual # None
    <3>1. changes = [f \in Fields |-> IF Desired(config, k)[f] # actual[f]
                                      THEN Desired(config, k)[f] ELSE Nil]
      BY <2>3 DEF Diff
    <3>2. \A f \in Fields : changes[f] = Nil \/ changes[f] = Desired(config, k)[f]
      BY <3>1
    <3>3. Desired(config, k) \in Changes
      BY <2>3, DesiredType
    <3>4. changes \in Changes
      BY <3>1, <3>2, <3>3 DEF Changes
    <3>5. \A f \in Fields \ {"ref"} : changes[f] # Pending
      BY <2>3, <3>2, DesiredType, ValuesAssumption
    <3>6. changes["ref"] = Pending => RefOf(config, k) \in Keys
      BY <2>3, <3>2, DesiredType, ValuesAssumption
    <3> QED BY <3>4, <3>5, <3>6
  <2> QED BY <2>1, <2>2, <2>3
<1>5. prot \in BOOLEAN
  OBVIOUS
<1>6. id \in Ids \cup {None} /\ action \in {"create", "update", "noop", "delete"}
      /\ note \in {"", "recreate", "stale"}
  BY <1>2
<1>7. item \in Item
  <2> HIDE DEF actual, changes, action, note, id, prot
  <2>1. actual \in Res \cup {None} /\ changes \in Changes
    BY <1>3, <1>4
  <2>2. [action |-> action, note |-> note, changes |-> changes, id |-> id,
         actual |-> actual, prot |-> prot] \in Item
    BY <2>1, <1>5, <1>6 DEF Item, Changes
  <2> QED BY <1>1, <2>2
<1>8. action = "update" => actual # None
  OBVIOUS
<1>9. action = "update" => id \in Ids /\ disk[k] # None /\ id = disk[k].id
  BY <1>2, <1>3, <1>8
<1>10. /\ item.changes = changes /\ item.action = action /\ item.id = id
       /\ item.actual = actual
  <2> HIDE DEF actual, changes, action, note, id, prot
  <2> QED BY <1>1
<1> HIDE DEF actual, changes, action, note, id, prot, item
<1>11. item.action = "update" => /\ item.id \in Ids /\ item.actual # None
                                 /\ disk[k] # None /\ item.id = disk[k].id
  BY <1>8, <1>9, <1>10
<1>12. /\ \A f \in Fields \ {"ref"} : item.changes[f] # Pending
       /\ item.changes["ref"] = Pending => RefOf(config, k) \in Keys
  BY <1>4, <1>10
<1> QED BY <1>7, <1>11, <1>12 DEF item

\* A declared resource always has an item.
LEMMA DeclaredPlanned ==
  ASSUME TypeOK, NEW k \in Keys, config[k] # None
  PROVE  PlanItem(config, k) # None
BY PlanItemFits, ValuesAssumption

--------------------------------------------------------------------------------
(* Writing an item.                                                         *)

\* What a write sends has no pending reference left.
LEMMA ResolvedType ==
  ASSUME Inv, pc = "run", NEW k \in remaining, ~Unresolvable(k)
  PROVE  Resolved(k) \in Res /\ k \in Planned(plan) /\ k \in Keys
<1> DEFINE changes == plan[k].changes
<1>1. k \in Planned(plan) /\ k \in Keys
  BY DEF Inv, InProgress, Planned
<1>2. changes \in Changes
  BY <1>1, ItemOf DEF Inv
<1>3. ASSUME changes["ref"] = Pending
      PROVE  mem[RefOf(config, k)].id \in Ids
  <2>1. RefOf(config, k) \in Keys
    BY <1>1, <1>3 DEF Inv, InProgress
  <2>2. mem[RefOf(config, k)] # None
    BY <1>3 DEF Unresolvable
  <2> QED BY <2>1, <2>2, EntryOf DEF Inv, TypeOK, States
<1>4. Resolved(k) = [changes EXCEPT !["ref"] = IF changes["ref"] = Pending
                                               THEN mem[RefOf(config, k)].id
                                               ELSE changes["ref"]]
  BY DEF Resolved
<1>5. \A f \in Fields \ {"ref"} : changes[f] \in Values \cup Ids \cup {Nil}
  BY <1>1, <1>2 DEF Changes, Inv, ItemsFit
<1>6. changes["ref"] # Pending => changes["ref"] \in Values \cup Ids \cup {Nil}
  BY <1>2, FieldsFacts DEF Changes
<1>7. Resolved(k) = [f \in Fields |-> IF f # "ref" THEN changes[f]
                       ELSE IF changes["ref"] = Pending
                            THEN mem[RefOf(config, k)].id ELSE changes["ref"]]
  BY <1>2, <1>4 DEF Changes
<1>8. Resolved(k) \in Res
  BY <1>3, <1>5, <1>6, <1>7 DEF Res
<1> QED BY <1>1, <1>8

\* The fields recorded with a write.
LEMMA SnapshotType ==
  ASSUME Inv, pc = "run", NEW k \in remaining, ~Unresolvable(k),
         plan[k].action \in {"create", "update"}
  PROVE  Snapshot(k) \in Snapshots
<1>1. Resolved(k) \in Res /\ k \in Planned(plan)
  BY ResolvedType
<1>2. CASE plan[k].action = "create"
  BY <1>1, <1>2, FieldsFacts DEF Snapshot, Columns, Snapshots, Res
<1>3. CASE plan[k].action = "update"
  <2>1. plan[k].actual \in Res
    BY <1>1, <1>3, ItemOf DEF Inv, ItemsFit
  <2>2. Columns(plan[k].actual) \in Snapshots
    BY <2>1, FieldsFacts DEF Columns, Snapshots, Res
  <2>3. Snapshot(k) = Merge(Columns(plan[k].actual), Resolved(k))
    BY <1>3 DEF Snapshot
  <2>4. DOMAIN Columns(plan[k].actual) = Plain
    BY DEF Columns
  <2> QED BY <1>1, <2>2, <2>3, <2>4, FieldsFacts DEF Merge, Snapshots, Res
<1> QED BY <1>2, <1>3

\* A created resource.
LEMMA NewResType ==
  ASSUME Inv, pc = "run", NEW k \in remaining, ~Unresolvable(k)
  PROVE  NewRes(k) \in Res
<1>1. Resolved(k) \in Res
  BY ResolvedType
<1>2. Blank \in Res /\ DOMAIN Blank = Fields
  BY FieldsFacts, ValuesAssumption DEF Blank, Res
<1>3. Merge(Blank, Resolved(k)) \in Res
  BY <1>1, <1>2 DEF Merge, Res
<1> QED BY <1>3 DEF NewRes, Res

\* An updated resource.
LEMMA WrittenType ==
  ASSUME Inv, pc = "run", NEW k \in remaining, plan[k].action = "update",
         ~Unresolvable(k), ~Gone(k)
  PROVE  Written(k) \in Res /\ plan[k].id \in Ids
<1> DEFINE old == live[plan[k].id]
           new == IF k \in PutKeys THEN Snapshot(k)
                  ELSE Merge(Columns(old), Resolved(k))
<1>1. Resolved(k) \in Res /\ k \in Planned(plan)
  BY ResolvedType
<1>2. plan[k].id \in Ids /\ old \in Res
  BY <1>1 DEF Inv, ItemsFit, TypeOK, Gone
<1>3. new \in Snapshots
  <2>1. Snapshot(k) \in Snapshots
    BY SnapshotType
  <2>2. Columns(old) \in Snapshots /\ DOMAIN Columns(old) = Plain
    BY <1>2, FieldsFacts DEF Columns, Snapshots, Res
  <2>3. Merge(Columns(old), Resolved(k)) \in Snapshots
    BY <1>1, <2>2, FieldsFacts DEF Merge, Snapshots, Res
  <2> QED BY <2>1, <2>3
<1>4. Written(k) = [f \in Fields |-> IF f \in Plain THEN new[f] ELSE old[f]]
  BY DEF Written
<1> HIDE DEF new
<1> QED BY <1>2, <1>3, <1>4 DEF Snapshots, Res

\* Where no other key has the resource, Upsert changes the one entry.
LEMMA UpsertOne ==
  ASSUME NEW s, Sound(s, Entry), NEW k \in Keys, NEW id \in Ids,
         Holders(s, id) \subseteq {k}, NEW fields \in Snapshots
  PROVE  \E p \in BOOLEAN :
           Upsert(s, k, id, fields) = [s EXCEPT ![k] = [id |-> id, fields |-> fields, prot |-> p]]
<1> DEFINE held   == Holders(s, id)
           holder == CHOOSE h \in held : TRUE
           p      == held # {} /\ s[holder].prot
           entry  == [id |-> id, fields |-> fields, prot |-> p]
<1>1. CASE held = {}
  <2>1. p = FALSE /\ Upsert(s, k, id, fields) = [s EXCEPT ![k] = entry]
    BY <1>1 DEF Upsert
  <2> QED BY <2>1
<1>2. CASE held # {}
  <2>1. held = {k} /\ holder = k
    BY <1>2
  <2>2. s[k] \in Entry
    BY <2>1 DEF Holders, Sound
  <2>3. p \in BOOLEAN
    BY <1>2, <2>1, <2>2 DEF Entry
  <2>4. Upsert(s, k, id, fields) = [s EXCEPT ![holder] = None, ![k] = entry]
    BY <1>2 DEF Upsert
  <2>5. Upsert(s, k, id, fields) = [s EXCEPT ![k] = entry]
    BY <2>1, <2>4
  <2> HIDE DEF p
  <2> QED BY <2>3, <2>5
<1> QED BY <1>1, <1>2

\* Binding an identity no other key has changes the one entry.
LEMMA BindAt ==
  ASSUME NEW s, Sound(s, Entry), NEW k \in Keys, NEW id \in Ids,
         Holders(s, id) \subseteq {k},
         Snapshot(k) \in Snapshots, plan[k].prot \in BOOLEAN
  PROVE  /\ Bind(s, k, id) \in States /\ OneKeyPerResource(Bind(s, k, id))
         /\ Bind(s, k, id)[k] # None /\ Bind(s, k, id)[k].id = id
         /\ Bind(s, k, id)[k].fields = Snapshot(k)
         /\ \A j \in Keys \ {k} : Bind(s, k, id)[j] = s[j]
<1> DEFINE up == Upsert(s, k, id, Snapshot(k))
<1>1. \A p \in BOOLEAN : [id |-> id, fields |-> Snapshot(k), prot |-> p] \in Entry
  BY DEF Entry, Snapshots
<1>2. PICK p \in BOOLEAN :
        up = [s EXCEPT ![k] = [id |-> id, fields |-> Snapshot(k), prot |-> p]]
  BY UpsertOne
<1>3. up \in States /\ \A j \in Keys \ {k} : up[j] = s[j]
  BY <1>1, <1>2 DEF Sound, States
<1>4. up[k] \in Entry /\ up[k].id = id /\ up[k].fields = Snapshot(k)
  BY <1>1, <1>2 DEF Sound
<1>5. Bind(s, k, id) = [up EXCEPT ![k] = [up[k] EXCEPT !.prot = plan[k].prot]]
  BY DEF Bind
<1>6. [up[k] EXCEPT !.prot = plan[k].prot] \in Entry
      /\ [up[k] EXCEPT !.prot = plan[k].prot].id = id
      /\ [up[k] EXCEPT !.prot = plan[k].prot].fields = Snapshot(k)
  BY <1>4 DEF Entry
<1>7. Bind(s, k, id) \in States
  BY <1>3, <1>5, <1>6 DEF States
<1>8. /\ Bind(s, k, id)[k] # None /\ Bind(s, k, id)[k].id = id
      /\ Bind(s, k, id)[k].fields = Snapshot(k)
  BY <1>3, <1>5, <1>6, ValuesAssumption DEF States
<1>9. \A j \in Keys \ {k} : Bind(s, k, id)[j] = s[j]
  BY <1>3, <1>5 DEF States
<1>10. OneKeyPerResource(Bind(s, k, id))
  <2> SUFFICES ASSUME NEW i \in Managed(Bind(s, k, id)), NEW j \in Managed(Bind(s, k, id)),
                      Bind(s, k, id)[i].id = Bind(s, k, id)[j].id
               PROVE  i = j
    BY DEF OneKeyPerResource
  <2>1. \A h \in Managed(Bind(s, k, id)) \ {k} :
          h \in Managed(s) /\ Bind(s, k, id)[h].id = s[h].id /\ s[h].id # id
    BY <1>9 DEF Managed, Holders
  <2> QED BY <1>8, <2>1 DEF Sound, OneKeyPerResource
<1> QED BY <1>7, <1>8, <1>9, <1>10

--------------------------------------------------------------------------------
(* The steps.                                                               *)

\* ChurchTools after a step: well typed, and what exists is older than nextId.
WorldFits(lv, n) ==
  /\ lv \in Live /\ n \in FirstId .. MaxId + 1
  /\ \A i \in Ids : lv[i] # None => i < n

\* what a state names are identities
LEMMA BoundAreIds ==
  ASSUME NEW s \in States
  PROVE  BoundIds(s) \subseteq Ids /\ Ids \subseteq Nat
BY EntryOf, BoundsAssumption DEF BoundIds, Managed

\* However an operation ends, the copy dies and the file stays.
LEMMA EndInv ==
  ASSUME Inv, NEW how \in Outcomes, End(how),
         UNCHANGED <<config, configs, edits, disk, plan, quiet>>,
         WorldFits(live', nextId'), nextId' >= nextId,
         torn' \in BOOLEAN, faults' \in 0 .. MaxFaults
  PROVE  Inv'
<1>1. disk \in States /\ OneKeyPerResource(disk)
  BY DEF Inv, TypeOK, SoundState, States
<1>2. mem' = disk /\ disk' = disk /\ pc' = "idle" /\ plan' = plan
  BY DEF End
<1>3. TypeOK'
  BY <1>1 DEF Inv, TypeOK, End, WorldFits, Live, Outcomes, States
<1>4. SoundState'
  BY <1>1, <1>2 DEF SoundState
<1>5. LagsByOneItem'
  BY <1>2 DEF LagsByOneItem
<1>6. Fresh'
  <2>1. nextId \in Nat /\ nextId' \in Nat
    BY BoundsAssumption DEF Inv, TypeOK, WorldFits
  <2>2. \A i \in BoundIds(disk) : i \in Nat /\ i < nextId
    BY <1>1, BoundAreIds DEF Inv, Fresh
  <2>3. \A i \in BoundIds(disk) : i < nextId'
    BY <2>1, <2>2
  <2> QED BY <1>2, <2>3 DEF Fresh, WorldFits
<1>7. ItemsFit' /\ InProgress' /\ CurrentBound'
  BY <1>2 DEF Inv, ItemsFit, InProgress, CurrentBound, Planned
<1> QED BY <1>3, <1>4, <1>5, <1>6, <1>7 DEF Inv

\* A write that was answered: the item's entry is bound, nothing else moves.
LEMMA WriteInv ==
  ASSUME Inv, pc = "run", NEW k \in remaining, NEW id \in Ids, NEW s,
         Sound(s, Entry), Holders(s, id) \subseteq {k},
         \A j \in Keys \ {k} : s[j] = mem[j],
         ~Unresolvable(k), plan[k].action \in {"create", "update"},
         mem' = Bind(s, k, id), remaining' = remaining \ {k}, cur' = k,
         pc' = "save1",
         UNCHANGED <<config, configs, edits, disk, torn, plan, outcome, quiet, faults>>,
         WorldFits(live', nextId'), nextId' >= nextId, id < nextId'
  PROVE  Inv'
<1>1. k \in Keys /\ k \in Planned(plan) /\ Snapshot(k) \in Snapshots
  BY ResolvedType, SnapshotType
<1>2. plan[k].prot \in BOOLEAN
  BY <1>1, ItemOf DEF Inv
<1>3. /\ mem' \in States /\ OneKeyPerResource(mem')
      /\ mem'[k] # None /\ mem'[k].id = id
      /\ \A j \in Keys \ {k} : mem'[j] = s[j]
  BY <1>1, <1>2, BindAt
<1>4. \A j \in Keys \ {k} : mem'[j] = mem[j]
  BY <1>3
<1>5. disk = mem /\ disk \in States /\ mem \in States
  BY DEF Inv, LagsByOneItem, TypeOK, States
<1>6. TypeOK'
  BY <1>1, <1>3 DEF Inv, TypeOK, WorldFits, Live, States
<1>7. SoundState'
  BY <1>3 DEF Inv, SoundState
<1>8. LagsByOneItem'
  BY <1>4, <1>5 DEF LagsByOneItem
<1>9. Fresh'
  <2>1. nextId \in Nat /\ nextId' \in Nat
    BY BoundsAssumption DEF Inv, TypeOK, WorldFits
  <2>2. \A i \in BoundIds(disk) : i \in Nat /\ i < nextId
    BY <1>5, BoundAreIds DEF Inv, Fresh
  <2>3. BoundIds(mem') \subseteq BoundIds(mem) \cup {id}
    BY <1>3, <1>4 DEF BoundIds, Managed
  <2>4. \A i \in BoundIds(disk) \cup BoundIds(mem') : i < nextId'
    BY <1>5, <2>1, <2>2, <2>3
  <2> QED BY <2>4 DEF Fresh, WorldFits
<1>10. ItemsFit'
  BY DEF Inv, ItemsFit, Planned
<1>11. InProgress'
  <2>1. \A j \in remaining' : j # k /\ j \in Keys /\ mem'[j] = mem[j]
    BY <1>4 DEF Inv, TypeOK
  <2> QED BY <2>1 DEF Inv, InProgress, Planned, RefOf
<1>12. CurrentBound'
  BY <1>1, <1>3 DEF CurrentBound, Planned
<1> QED BY <1>6, <1>7, <1>8, <1>9, <1>10, <1>11, <1>12 DEF Inv

\* ChurchTools as it is fits.
LEMMA WorldNow ==
  Inv => /\ WorldFits(live, nextId)
         /\ nextId \in Nat /\ nextId >= nextId
BY BoundsAssumption DEF Inv, Fresh, TypeOK, WorldFits, Live

\* A POST.
LEMMA PostFits ==
  ASSUME Inv, pc = "run", NEW k \in remaining, ~Unresolvable(k), Post(k)
  PROVE  /\ WorldFits(live', nextId') /\ nextId' >= nextId
         /\ nextId \in Ids /\ nextId < nextId'
<1>1. nextId \in Nat /\ nextId >= 1 /\ nextId <= MaxId /\ nextId' = nextId + 1
  BY BoundsAssumption DEF Inv, TypeOK, Post
<1>2. nextId \in Ids /\ nextId' \in FirstId .. MaxId + 1
  BY <1>1, BoundsAssumption DEF Inv, TypeOK
<1>3. k \in Keys /\ NewRes(k) \in Res
  BY ResolvedType, NewResType
<1>4. live' \in Live
  BY <1>2, <1>3 DEF Inv, TypeOK, Post, Live
<1>5. ASSUME NEW i \in Ids, live'[i] # None PROVE i < nextId'
  <2>1. CASE i = nextId
    BY <1>1, <2>1
  <2>2. CASE i # nextId
    <3>1. live[i] # None
      BY <1>2, <1>5, <2>2 DEF Post, Inv, TypeOK
    <3>2. i < nextId /\ i \in Nat
      BY <3>1, BoundsAssumption DEF Inv, Fresh
    <3> QED BY <1>1, <3>2
  <2> QED BY <2>1, <2>2
<1> QED BY <1>1, <1>2, <1>4, <1>5 DEF WorldFits

\* A PUT or PATCH.
LEMMA PutFits ==
  ASSUME Inv, pc = "run", NEW k \in remaining, plan[k].action = "update",
         ~Broken(k), PutOrPatch(k), UNCHANGED nextId
  PROVE  /\ WorldFits(live', nextId') /\ nextId' >= nextId
         /\ \A i \in Ids : live'[i] # live[i] =>
              i = plan[k].id /\ live[i] # None /\ live'[i] # None
<1>1. CASE ~HasColumnChange(k)
  BY <1>1, WorldNow DEF PutOrPatch
<1>2. CASE HasColumnChange(k)
  <2>1. ~Unresolvable(k) /\ ~Gone(k)
    BY <1>2 DEF Broken
  <2>2. Written(k) \in Res /\ plan[k].id \in Ids /\ Written(k) # None
    BY <2>1, WrittenType, ValuesAssumption
  <2>3. live' = [live EXCEPT ![plan[k].id] = Written(k)] /\ live \in Live
    BY <1>2 DEF PutOrPatch, Inv, TypeOK, Live
  <2>4. live' \in Live
    BY <2>2, <2>3 DEF Live
  <2>5. \A i \in Ids : live'[i] # live[i] =>
              i = plan[k].id /\ live[i] # None /\ live'[i] # None
    BY <2>1, <2>2, <2>3 DEF Live, Gone
  <2> QED BY <2>4, <2>5, WorldNow DEF WorldFits
<1> QED BY <1>1, <1>2

\* A write of the sub-resource.
LEMMA SubFits ==
  ASSUME Inv, pc = "syn", SubWrite, UNCHANGED nextId
  PROVE  /\ WorldFits(live', nextId') /\ nextId' >= nextId
         /\ \A i \in Ids : live'[i] # live[i] =>
              i = SubId /\ live[i] # None /\ live'[i] # None
<1>1. CASE ~(SubChanged /\ live[SubId] # None)
  BY <1>1, WorldNow DEF SubWrite
<1>2. CASE SubChanged /\ live[SubId] # None
  <2>1. cur \in Keys /\ plan[cur] # None /\ mem[cur] # None
    BY DEF Inv, CurrentBound
  <2>2. SubId \in Ids
    BY <2>1, EntryOf DEF SubId, Inv, TypeOK, States
  <2>3. live[SubId] \in Res /\ live \in Live
    BY <1>2, <2>2 DEF Inv, TypeOK, Live
  <2>4. plan[cur].changes["sub"] \in Values \cup Ids \cup {Nil}
    <3>1. cur \in Planned(plan) /\ plan[cur].changes \in Changes
      BY <2>1, ItemOf DEF Inv, Planned
    <3> QED BY <3>1, FieldsFacts DEF Inv, ItemsFit, Changes
  <2> DEFINE new == [live[SubId] EXCEPT !["sub"] = plan[cur].changes["sub"]]
  <2>5. new \in Res /\ new # None
    BY <2>3, <2>4, ValuesAssumption DEF Res
  <2>6. live' = [live EXCEPT ![SubId] = new]
    BY <1>2 DEF SubWrite
  <2> HIDE DEF new
  <2>7. live' \in Live
    BY <2>2, <2>3, <2>5, <2>6 DEF Live
  <2>8. \A i \in Ids : live'[i] # live[i] =>
              i = SubId /\ live[i] # None /\ live'[i] # None
    BY <1>2, <2>2, <2>3, <2>5, <2>6 DEF Live
  <2> QED BY <2>7, <2>8, WorldNow DEF WorldFits
<1> QED BY <1>1, <1>2

\* What a fault costs.
LEMMA FaultFits ==
  ASSUME Inv, faults < MaxFaults, faults' = faults + 1
  PROVE  faults' \in 0 .. MaxFaults
BY BoundsAssumption DEF Inv, TypeOK

\* The operator's steps.
LEMMA OperatorStep == Inv /\ Operator => Inv'
<1> SUFFICES ASSUME Inv, Operator PROVE Inv'
  OBVIOUS
<1> USE DEF envVars, opVars
<1>1. ASSUME NEW c \in Configs, EditConfig(c) PROVE Inv'
  <2>1. configs' \in 0 .. MaxConfigs /\ config' \in Configs
    BY <1>1, BoundsAssumption DEF EditConfig, Inv, TypeOK
  <2>2. pc' = "idle" /\ quiet' \in BOOLEAN
    BY <1>1 DEF EditConfig
  <2>3. UNCHANGED <<live, nextId, disk, torn, mem, plan, remaining, cur, pc,
                    outcome, edits, faults>>
    BY <1>1 DEF EditConfig
  <2> QED BY <2>1, <2>2, <2>3
          DEF Inv, TypeOK, SoundState, LagsByOneItem, Fresh, ItemsFit, InProgress,
              CurrentBound, Planned
<1>2. CASE Prepare
  <2>1. /\ mem' = disk /\ plan' = [k \in Keys |-> PlanItem(config, k)]
        /\ remaining' = Planned(plan') /\ pc' = "planned" /\ cur' = Nil
        /\ UNCHANGED <<config, configs, edits, live, nextId, disk, torn, faults>>
        /\ outcome' = "none" /\ quiet' = TRUE
    BY <1>2 DEF Prepare
  <2>2. ASSUME NEW k \in Keys, plan'[k] # None
        PROVE  /\ plan'[k] \in Item
               /\ \A f \in Fields \ {"ref"} : plan'[k].changes[f] # Pending
               /\ plan'[k].changes["ref"] = Pending => RefOf(config, k) \in Keys
               /\ plan'[k].action = "update" =>
                    /\ plan'[k].id \in Ids /\ plan'[k].actual # None
                    /\ disk[k] # None /\ plan'[k].id = disk[k].id
    BY <2>1, <2>2, PlanItemFits DEF Inv
  <2>3. plan' \in [Keys -> Item \cup {None}]
    BY <2>1, <2>2
  <2>4. remaining' \subseteq Keys
    BY <2>1 DEF Planned
  <2>5. TypeOK'
    BY <2>1, <2>3, <2>4 DEF Inv, TypeOK
  <2>6. SoundState' /\ LagsByOneItem' /\ Fresh'
    BY <2>1 DEF Inv, SoundState, LagsByOneItem, Fresh
  <2>7. ItemsFit' /\ InProgress' /\ CurrentBound'
    BY <2>1, <2>2 DEF ItemsFit, InProgress, CurrentBound, Planned, RefOf
  <2> QED BY <2>5, <2>6, <2>7 DEF Inv
<1>3. CASE Abandon \/ ExecuteEmpty
  <2>1. PICK how \in Outcomes : End(how)
    BY <1>3 DEF Abandon, ExecuteEmpty, Outcomes
  <2>2. UNCHANGED <<config, configs, edits, disk, plan, quiet, live, nextId,
                    torn, faults>>
    BY <1>3 DEF Abandon, ExecuteEmpty
  <2>3. torn' \in BOOLEAN /\ faults' \in 0 .. MaxFaults
    BY <2>2 DEF Inv, TypeOK
  <2>4. WorldFits(live', nextId') /\ nextId' >= nextId
    BY <2>2, WorldNow
  <2> QED BY <2>1, <2>2, <2>3, <2>4, EndInv
<1>4. CASE Execute
  BY <1>4 DEF Execute, Inv, TypeOK, SoundState, LagsByOneItem, Fresh, ItemsFit,
              InProgress, CurrentBound, Planned, RefOf
<1> QED BY <1>1, <1>2, <1>3, <1>4 DEF Operator

\* The colleagues' steps.
LEMMA UiStep == Inv /\ Ui => Inv'
<1> SUFFICES ASSUME Inv, Ui PROVE Inv'
  OBVIOUS
<1>1. /\ UNCHANGED <<config, nextId, disk, torn, mem, plan, remaining, cur, pc,
                     outcome, configs, faults>>
      /\ edits < MaxEdits /\ edits' = edits + 1 /\ quiet' = FALSE
  BY DEF Ui, UiEdit, UiDelete, opVars
<1>2. edits' \in 0 .. MaxEdits
  BY <1>1, BoundsAssumption DEF Inv, TypeOK
<1>3. live' \in Live /\ \A i \in Ids : live'[i] # None => live[i] # None
  <2>1. ASSUME NEW i \in Ids, NEW a \in Attrs, NEW v \in Values, UiEdit(i, a, v)
        PROVE  live' \in Live /\ \A j \in Ids : live'[j] # None => live[j] # None
    <3>1. live[i] \in Res /\ a \in Fields /\ live[i] # None
      BY <2>1, FieldsFacts DEF UiEdit, Inv, TypeOK
    <3>2. [live[i] EXCEPT ![a] = v] \in Res
      BY <3>1 DEF Res
    <3>3. live' = [live EXCEPT ![i] = [live[i] EXCEPT ![a] = v]]
      BY <2>1 DEF UiEdit
    <3> QED BY <3>1, <3>2, <3>3 DEF Inv, TypeOK, Live
  <2>2. ASSUME NEW i \in Ids, UiDelete(i)
        PROVE  live' \in Live /\ \A j \in Ids : live'[j] # None => live[j] # None
    BY <2>2 DEF UiDelete, Inv, TypeOK, Live
  <2> QED BY <2>1, <2>2 DEF Ui
<1>4. TypeOK'
  BY <1>1, <1>2, <1>3 DEF Inv, TypeOK, Live
<1>5. Fresh'
  BY <1>1, <1>3 DEF Inv, Fresh
<1> QED BY <1>1, <1>4, <1>5 DEF Inv, SoundState, LagsByOneItem, ItemsFit, InProgress,
                                CurrentBound, Planned, RefOf

\* A create drops the entry of its key: no other key has the new identity.
LEMMA CreateOn ==
  ASSUME Inv, NEW k \in Keys, nextId \in Ids
  PROVE  LET s == [mem EXCEPT ![k] = None] IN
         /\ Sound(s, Entry) /\ Holders(s, nextId) \subseteq {k}
         /\ \A j \in Keys \ {k} : s[j] = mem[j]
<1> DEFINE s == [mem EXCEPT ![k] = None]
<1>1. Sound(mem, Entry)
  BY InvSound
<1>2. Sound(s, Entry)
  <2>1. s \in [Keys -> Entry \cup {None}]
    BY <1>1 DEF Sound
  <2>2. \A j \in Managed(s) : j \in Managed(mem) /\ s[j] = mem[j]
    BY <1>1 DEF Managed, Sound
  <2> QED BY <1>1, <2>1, <2>2 DEF Sound, OneKeyPerResource
<1>3. \A j \in Keys \ {k} : s[j] = mem[j]
  BY <1>1 DEF Sound
<1>4. Holders(s, nextId) \subseteq {k}
  <2> SUFFICES ASSUME NEW j \in Keys, j # k, s[j] # None, s[j].id = nextId
               PROVE  FALSE
    BY DEF Holders
  <2>1. nextId \in BoundIds(mem)
    BY <1>3 DEF BoundIds, Managed
  <2>2. nextId < nextId
    BY <2>1 DEF Inv, Fresh
  <2> QED BY <2>2, WorldNow
<1> QED BY <1>2, <1>3, <1>4

\* A create binds an identity no entry names.
LEMMA CreateInv ==
  ASSUME Inv, NEW k \in Keys, Create(k)
  PROVE  Inv'
<1> DEFINE s == [mem EXCEPT ![k] = None]
<1>1. pc = "run" /\ k \in remaining /\ ~Unresolvable(k) /\ Post(k)
  BY DEF Create, At, Ready
<1>2. /\ WorldFits(live', nextId') /\ nextId' >= nextId
      /\ nextId \in Ids /\ nextId < nextId'
  BY <1>1, PostFits
<1>3. /\ Sound(s, Entry) /\ Holders(s, nextId) \subseteq {k}
      /\ \A j \in Keys \ {k} : s[j] = mem[j]
  BY <1>2, CreateOn
<1>4. /\ mem' = Bind(s, k, nextId) /\ remaining' = remaining \ {k} /\ cur' = k
      /\ pc' = "save1" /\ plan[k].action \in {"create", "update"}
      /\ UNCHANGED <<config, configs, edits, disk, torn, plan, outcome, quiet, faults>>
  BY DEF Create, envVars
<1> HIDE DEF s
<1> QED BY <1>1, <1>2, <1>3, <1>4, WriteInv

\* An update binds the identity its own entry names.
LEMMA UpdateInv ==
  ASSUME Inv, NEW k \in Keys, Update(k)
  PROVE  Inv'
<1>1. /\ pc = "run" /\ k \in remaining /\ plan[k].action = "update" /\ ~Broken(k)
      /\ ~Unresolvable(k) /\ PutOrPatch(k) /\ UNCHANGED nextId
  BY DEF Update, At, Ready, Broken
<1>2. WorldFits(live', nextId') /\ nextId' >= nextId
  BY <1>1, PutFits
<1>3. /\ mem[k] # None /\ mem[k].id = plan[k].id /\ plan[k].id \in Ids
  BY <1>1 DEF Inv, InProgress, ItemsFit
<1>4. Sound(mem, Entry)
  BY InvSound
<1>5. Holders(mem, plan[k].id) \subseteq {k}
  BY <1>3, <1>4 DEF Holders, Sound, OneKeyPerResource, Managed
<1>6. plan[k].id < nextId'
  <2>1. plan[k].id \in BoundIds(mem)
    BY <1>3 DEF BoundIds, Managed
  <2> QED BY <1>1, <2>1 DEF Inv, Fresh
<1>7. /\ mem' = Bind(mem, k, plan[k].id) /\ remaining' = remaining \ {k} /\ cur' = k
      /\ pc' = "save1"
      /\ UNCHANGED <<config, configs, edits, disk, torn, plan, outcome, quiet, faults>>
  BY DEF Update, envVars
<1> QED BY <1>1, <1>2, <1>3, <1>4, <1>5, <1>6, <1>7, WriteInv

\* The flag alone.
LEMMA MirrorKeeps ==
  ASSUME Inv, NEW k \in Keys, Mirror(k)
  PROVE  /\ pc = "run" /\ k \in remaining /\ k \in Planned(plan)
         /\ plan[k].action = "noop" /\ disk = mem
         /\ mem' \in States /\ \A j \in Keys : (mem'[j] # None <=> mem[j] # None)
         /\ \A j \in Keys : mem[j] # None => /\ mem'[j].id = mem[j].id
                                             /\ mem'[j].fields = mem[j].fields
         /\ remaining' = remaining \ {k} /\ cur' = k /\ pc' = "save2"
         /\ UNCHANGED <<config, configs, edits, live, nextId, disk, torn, plan,
                        outcome, quiet, faults>>
<1>1. pc = "run" /\ k \in remaining /\ k \in Planned(plan) /\ mem[k] # None
      /\ plan[k].action = "noop"
  BY DEF Mirror, At, Ready, OutOfDate, Inv, InProgress
<1>2. disk = mem /\ mem \in States /\ plan[k].prot \in BOOLEAN
  BY <1>1, ItemOf DEF Inv, LagsByOneItem, TypeOK, States
<1>3. /\ mem' = [mem EXCEPT ![k] = [mem[k] EXCEPT !.prot = plan[k].prot]]
      /\ remaining' = remaining \ {k} /\ cur' = k /\ pc' = "save2"
      /\ UNCHANGED <<config, configs, edits, live, nextId, disk, torn, plan,
                     outcome, quiet, faults>>
  BY DEF Mirror, envVars
<1>4. LET e == [mem[k] EXCEPT !.prot = plan[k].prot] IN
      e \in Entry /\ e.id = mem[k].id /\ e.fields = mem[k].fields
  <2>1. mem[k] \in Entry
    BY <1>1, <1>2, EntryOf
  <2> QED BY <1>2, <2>1 DEF Entry
<1>5. /\ mem' \in States /\ \A j \in Keys : (mem'[j] # None <=> mem[j] # None)
      /\ \A j \in Keys : mem[j] # None => /\ mem'[j].id = mem[j].id
                                          /\ mem'[j].fields = mem[j].fields
  BY <1>1, <1>2, <1>3, <1>4, ValuesAssumption DEF States
<1> QED BY <1>1, <1>2, <1>3, <1>5

\* The no-op branch changes a flag.
LEMMA MirrorInv ==
  ASSUME Inv, NEW k \in Keys, Mirror(k)
  PROVE  Inv'
<1>1. /\ pc = "run" /\ k \in remaining /\ k \in Planned(plan) /\ disk = mem
      /\ mem[k] # None /\ mem \in States /\ mem' \in States
      /\ \A j \in Keys : (mem'[j] # None <=> mem[j] # None)
      /\ \A j \in Keys : mem[j] # None => mem'[j].id = mem[j].id
      /\ remaining' = remaining \ {k} /\ cur' = k /\ pc' = "save2"
      /\ UNCHANGED <<config, configs, edits, live, nextId, disk, torn, plan,
                     outcome, quiet, faults>>
  BY MirrorKeeps DEF Mirror, OutOfDate, Inv, TypeOK, States
<1>2. \A j \in Keys \ {k} : mem'[j] = mem[j]
  BY <1>1 DEF Mirror, States
<1>3. Managed(mem') = Managed(mem) /\ BoundIds(mem') = BoundIds(mem)
  BY <1>1 DEF Managed, BoundIds
<1>4. TypeOK'
  BY <1>1 DEF Inv, TypeOK, States
<1>5. SoundState'
  BY <1>1, <1>3 DEF Inv, SoundState, OneKeyPerResource, Managed
<1>6. Fresh'
  BY <1>1, <1>3 DEF Inv, Fresh
<1>7. LagsByOneItem'
  BY <1>1, <1>2 DEF LagsByOneItem
<1>8. ItemsFit' /\ CurrentBound'
  BY <1>1 DEF Inv, TypeOK, ItemsFit, CurrentBound, Planned
<1>9. InProgress'
  <2>1. \A j \in remaining' : j # k /\ j \in Keys /\ mem'[j] = mem[j]
    BY <1>1, <1>2 DEF Inv, TypeOK
  <2> QED BY <1>1, <2>1 DEF Inv, InProgress, Planned, RefOf
<1> QED BY <1>4, <1>5, <1>6, <1>7, <1>8, <1>9 DEF Inv

\* The steps of the process.
LEMMA WorkStep == Inv /\ Work => Inv'
<1> SUFFICES ASSUME Inv, Work PROVE Inv'
  OBVIOUS
<1>1. ASSUME NEW k \in Keys, Skip(k) PROVE Inv'
  <2>1. UNCHANGED <<config, configs, edits, live, nextId, disk, torn, mem, plan,
                    cur, pc, outcome, quiet, faults>>
        /\ remaining' = remaining \ {k}
    BY <1>1 DEF Skip, envVars
  <2> QED BY <2>1 DEF Inv, TypeOK, SoundState, LagsByOneItem, Fresh, ItemsFit,
                      InProgress, CurrentBound, Planned, RefOf
<1>2. ASSUME NEW k \in Keys, ItemError(k) PROVE Inv'
  <2>1. /\ End("failed") /\ "failed" \in Outcomes
        /\ UNCHANGED <<config, configs, edits, disk, plan, quiet, live, nextId,
                       torn, faults>>
    BY <1>2 DEF ItemError, envVars, Outcomes
  <2>2. torn' \in BOOLEAN /\ faults' \in 0 .. MaxFaults
    BY <2>1 DEF Inv, TypeOK
  <2>3. WorldFits(live', nextId') /\ nextId' >= nextId
    BY <2>1, WorldNow
  <2> QED BY <2>1, <2>2, <2>3, EndInv
<1>3. CASE Save("save1", "syn") \/ Save("save2", "run")
  <2>1. /\ disk' = mem /\ pc' \in {"syn", "run"} /\ cur' \in {cur, Nil}
        /\ pc' = "syn" => cur' = cur /\ pc = "save1"
        /\ pc \in {"save1", "save2"}
        /\ UNCHANGED <<config, configs, edits, live, nextId, torn, mem, plan,
                       remaining, outcome, quiet, faults>>
    BY <1>3 DEF Save, envVars
  <2> QED BY <2>1 DEF Inv, TypeOK, SoundState, LagsByOneItem, Fresh, ItemsFit,
                      InProgress, CurrentBound, Planned, RefOf
<1>4. CASE ApplySynthetic
  <2>1. /\ pc = "syn" /\ SubWrite /\ pc' = "save2"
        /\ UNCHANGED <<config, configs, edits, nextId, disk, torn, mem, plan,
                       remaining, cur, outcome, quiet, faults>>
    BY <1>4 DEF ApplySynthetic, envVars
  <2>2. WorldFits(live', nextId')
    BY <2>1, SubFits
  <2> QED BY <2>1, <2>2
          DEF Inv, TypeOK, SoundState, LagsByOneItem, Fresh, ItemsFit, InProgress,
              CurrentBound, Planned, RefOf, WorldFits, Live
<1>5. CASE SyntheticGone \/ Finish
  <2>1. PICK how \in Outcomes : End(how)
    BY <1>5 DEF SyntheticGone, Finish, Outcomes
  <2>2. UNCHANGED <<config, configs, edits, disk, plan, quiet, live, nextId,
                    torn, faults>>
    BY <1>5 DEF SyntheticGone, Finish, envVars
  <2>3. torn' \in BOOLEAN /\ faults' \in 0 .. MaxFaults
    BY <2>2 DEF Inv, TypeOK
  <2>4. WorldFits(live', nextId') /\ nextId' >= nextId
    BY <2>2, WorldNow
  <2> QED BY <2>1, <2>2, <2>3, <2>4, EndInv
<1> QED BY <1>1, <1>2, <1>3, <1>4, <1>5, CreateInv, UpdateInv, MirrorInv
        DEF Work, ItemStep

\* The faults.
LEMMA FaultyStep == Inv /\ Faulty => Inv'
<1> SUFFICES ASSUME Inv, Faulty PROVE Inv'
  OBVIOUS
<1>1. /\ \E how \in Outcomes : End(how)
      /\ faults < MaxFaults /\ faults' = faults + 1
      /\ UNCHANGED <<config, configs, edits, disk, plan, quiet>>
  BY DEF Faulty, CreateLost, UpdateLost, WriteRejected, SyntheticFails, SaveFails,
         Crash, Failure, Outcomes, envVars
<1>2. faults' \in 0 .. MaxFaults
  BY <1>1, FaultFits
<1>3. torn' \in BOOLEAN
  BY ValuesAssumption
     DEF Faulty, CreateLost, UpdateLost, WriteRejected, SyntheticFails, SaveFails,
         Crash, Saving, Inv, TypeOK
<1>4. WorldFits(live', nextId') /\ nextId' >= nextId
  <2>1. CASE UNCHANGED <<live, nextId>>
    BY <2>1, WorldNow
  <2>2. ASSUME NEW k \in Keys, CreateLost(k)
        PROVE  WorldFits(live', nextId') /\ nextId' >= nextId
    BY <2>2, PostFits DEF CreateLost, At, Ready
  <2>3. ASSUME NEW k \in Keys, UpdateLost(k)
        PROVE  WorldFits(live', nextId') /\ nextId' >= nextId
    BY <2>3, PutFits DEF UpdateLost, At, Ready
  <2>4. CASE SyntheticFails /\ SubWrite
    BY <2>4, SubFits DEF SyntheticFails
  <2> QED BY <2>1, <2>2, <2>3, <2>4
          DEF Faulty, WriteRejected, SyntheticFails, SaveFails, Crash
<1> QED BY <1>1, <1>2, <1>3, <1>4, EndInv

LEMMA InvStep == Inv /\ [Next]_vars => Inv'
<1>1. Inv /\ UNCHANGED vars => Inv'
  BY DEF vars, Inv, TypeOK, SoundState, LagsByOneItem, Fresh, ItemsFit, InProgress,
         CurrentBound, Planned, RefOf
<1> QED BY <1>1, OperatorStep, UiStep, WorkStep, FaultyStep DEF Next

LEMMA InitInv == Init => Inv
<1> SUFFICES ASSUME Init PROVE Inv
  OBVIOUS
<1> USE FieldsFacts
<1>1. Foreign \subseteq Ids /\ Ids \subseteq Nat /\ \A i \in Foreign : i < FirstId
  BY BoundsAssumption
<1>2. Blank \in Res /\ Columns(Blank) \in Snapshots
  BY ValuesAssumption DEF Blank, Columns, Res, Snapshots
<1>3. PICK b \in [Keys -> Foreign \cup {None}] :
        /\ \A j, k \in Keys : b[j] # None /\ b[j] = b[k] => j = k
        /\ disk = Adopted(b)
  BY DEF Init
<1>4. ASSUME NEW k \in Keys, disk[k] # None
      PROVE  disk[k] \in Entry /\ disk[k].id = b[k] /\ b[k] \in Foreign
  <2>1. b[k] \in Foreign
    BY <1>3, <1>4 DEF Adopted
  <2>2. disk[k] = [id |-> b[k], fields |-> Columns(Blank), prot |-> FALSE]
    BY <1>3, <1>4 DEF Adopted
  <2>3. [id |-> b[k], fields |-> Columns(Blank), prot |-> FALSE] \in Entry
    BY <1>1, <1>2, <2>1 DEF Entry, Snapshots
  <2> QED BY <2>1, <2>2, <2>3
<1>5. disk \in States
  BY <1>3, <1>4 DEF States, Adopted
<1>6. OneKeyPerResource(disk)
  BY <1>3, <1>4, NoneIsNoId, <1>1 DEF OneKeyPerResource, Managed
<1>7. \A i \in BoundIds(disk) : i \in Foreign
  BY <1>4 DEF BoundIds, Managed
<1>8. live \in Live /\ \A i \in Ids : live[i] # None => i \in Foreign
  BY <1>2 DEF Init, Live
<1>9. mem = disk /\ pc = "idle" /\ nextId = FirstId /\ plan = [k \in Keys |-> None]
  BY DEF Init
<1>10. TypeOK
  <2>1. FirstId \in FirstId .. MaxId + 1
    <3>1. CASE FirstId = 1
      BY <3>1, BoundsAssumption
    <3>2. CASE FirstId > 1
      <4>1. FirstId - 1 \in 1 .. MaxId
        BY <3>2, BoundsAssumption
      <4> QED BY <4>1, BoundsAssumption
    <3> QED BY <3>1, <3>2, BoundsAssumption
  <2>2. /\ configs \in 0 .. MaxConfigs /\ edits \in 0 .. MaxEdits
        /\ faults \in 0 .. MaxFaults
    BY BoundsAssumption DEF Init
  <2>3. plan \in [Keys -> Item \cup {None}]
    BY DEF Init
  <2> QED BY <1>5, <1>8, <1>9, <2>1, <2>2, <2>3 DEF Init, TypeOK, States, Live
<1>11. SoundState /\ LagsByOneItem
  BY <1>6, <1>9 DEF SoundState, LagsByOneItem
<1>12. Fresh
  BY <1>1, <1>7, <1>8, <1>9 DEF Fresh
<1>13. ItemsFit /\ InProgress /\ CurrentBound
  BY <1>9 DEF ItemsFit, InProgress, CurrentBound, Planned
<1> QED BY <1>10, <1>11, <1>12, <1>13 DEF Inv

LEMMA InvAlways == Spec => []Inv
BY InitInv, InvStep, PTL DEF Spec

--------------------------------------------------------------------------------
(* What follows.                                                            *)

\* The types hold in every reachable state.
THEOREM Typed == Spec => []TypeOK
<1>1. Inv => TypeOK
  BY DEF Inv
<1> QED BY <1>1, InvAlways, PTL

\* No resource is managed under two keys, whatever was created, recreated and
\* updated, and wherever a run stopped (state.ts:231, execute.ts:235).
THEOREM AlwaysSound == Spec => []SoundState
<1>1. Inv => SoundState
  BY DEF Inv
<1> QED BY <1>1, InvAlways, PTL

\* The state is saved after every action (execute.ts:238): whenever the process
\* dies, the file lacks at most the entry of the item being written.
THEOREM OneActionLost == Spec => []LagsByOneItem
<1>1. Inv => LagsByOneItem
  BY DEF Inv
<1> QED BY <1>1, InvAlways, PTL

\* One step of the property below.
LEMMA TouchStep ==
  ASSUME Inv, [Next]_vars, ByCt, NEW i \in Ids, Touched(i)
  PROVE  /\ live'[i] # None
         /\ \/ live[i] = None /\ i = nextId
            \/ live[i] # None /\ i \in BoundIds(mem)
<1>1. ASSUME NEW k \in Keys, Create(k) \/ CreateLost(k)
      PROVE  live'[i] # None /\ live[i] = None /\ i = nextId
  <2>1. pc = "run" /\ k \in remaining /\ ~Unresolvable(k) /\ Post(k)
    BY <1>1 DEF Create, CreateLost, At, Ready
  <2>2. i = nextId /\ live'[i] = NewRes(k)
    BY <2>1 DEF Post, Touched, Inv, TypeOK
  <2>3. NewRes(k) # None
    BY <2>1, NewResType, ValuesAssumption
  <2>4. live[i] = None
    BY <2>2, WorldNow DEF Inv, Fresh
  <2> QED BY <2>2, <2>3, <2>4
<1>2. ASSUME NEW k \in Keys, Update(k) \/ UpdateLost(k)
      PROVE  live'[i] # None /\ live[i] # None /\ i \in BoundIds(mem)
  <2>1. /\ pc = "run" /\ k \in remaining /\ plan[k].action = "update" /\ ~Broken(k)
        /\ PutOrPatch(k) /\ UNCHANGED nextId
    BY <1>2 DEF Update, UpdateLost, At, Ready
  <2>2. i = plan[k].id /\ live[i] # None /\ live'[i] # None
    BY <2>1, PutFits DEF Touched
  <2>3. mem[k] # None /\ mem[k].id = i
    BY <2>1, <2>2 DEF Inv, InProgress
  <2> QED BY <2>2, <2>3 DEF BoundIds, Managed
<1>3. CASE (ApplySynthetic \/ SyntheticFails) /\ SubWrite
  <2>1. pc = "syn" /\ UNCHANGED nextId
    BY <1>3 DEF ApplySynthetic, SyntheticFails
  <2>2. i = SubId /\ live[i] # None /\ live'[i] # None
    BY <1>3, <2>1, SubFits DEF Touched
  <2>3. cur \in Keys /\ mem[cur] # None /\ mem[cur].id = i
    BY <2>1, <2>2 DEF Inv, CurrentBound, SubId
  <2> QED BY <2>2, <2>3 DEF BoundIds, Managed
<1>4. ~Ui
  <2>1. edits \in Nat
    BY BoundsAssumption DEF Inv, TypeOK
  <2> QED BY <2>1 DEF Ui, UiEdit, UiDelete, ByCt
<1>5. live' # live
  BY DEF Touched
<1>6. ~Operator
  BY <1>5 DEF Operator, EditConfig, Prepare, Abandon, ExecuteEmpty, Execute
<1>7. CASE Work
  BY <1>1, <1>2, <1>3, <1>5, <1>7
     DEF Work, ItemStep, Skip, Mirror, ItemError, Save, ApplySynthetic,
         SyntheticGone, Finish
<1>8. CASE Faulty
  BY <1>1, <1>2, <1>3, <1>5, <1>8
     DEF Faulty, WriteRejected, SyntheticFails, SaveFails, Crash
<1> QED BY <1>4, <1>5, <1>6, <1>7, <1>8 DEF Next, vars

\* apply writes to the resources its state binds and creates others under new
\* identities; it deletes nothing (execute.ts:150, 224, 280).
THEOREM TouchesOnlyItsOwn == Spec => OnlyManagedTouched
<1>1. Inv /\ [Next]_vars
        => [ByCt => \A i \in Ids : Touched(i) =>
              /\ live'[i] # None
              /\ \/ live[i] = None /\ i = nextId
                 \/ live[i] # None /\ i \in BoundIds(mem)]_vars
  BY TouchStep
<1> QED BY <1>1, InvAlways, PTL DEF Spec, OnlyManagedTouched

--------------------------------------------------------------------------------
(* How far the work has come.                                               *)

\* The target of a pending reference is a create that is still to come, or is
\* bound by now.
PendingTargets ==
  pc # "idle" =>
    \A k \in Planned(plan) : plan[k].changes["ref"] = Pending =>
      LET t == RefOf(config, k) IN
      IF t \in remaining THEN plan[t].action = "create" ELSE mem[t] # None

\* An entry that a create is going to replace names a resource that is gone.
StaleIsGone ==
  pc # "idle" =>
    \A k \in remaining : plan[k].action = "create" /\ mem[k] # None =>
      plan[k].note = "recreate" /\ live[mem[k].id] = None

\* The item being written is not one of those to come.
CurrentDone == pc \in {"save1", "syn", "save2"} => cur \notin remaining

Progress == PendingTargets /\ StaleIsGone /\ CurrentDone

\* The entry an item's write leaves, and what it leaves alone.
Wrote(k, id) ==
  /\ pc = "run" /\ k \in remaining /\ k \in Planned(plan) /\ k \in Keys
  /\ plan[k].action \in {"create", "update"} /\ ~Unresolvable(k)
  /\ id \in Ids /\ mem' \in States
  /\ mem'[k] # None /\ mem'[k].id = id /\ mem'[k].fields = Snapshot(k)
  /\ \A j \in Keys \ {k} : mem'[j] = mem[j]
  /\ remaining' = remaining \ {k} /\ cur' = k /\ pc' = "save1"
  /\ disk = mem /\ disk' = mem /\ mem \in States
  /\ UNCHANGED <<config, configs, edits, torn, plan, outcome, quiet, faults>>
  /\ \A i \in Ids \ {id} : live'[i] = live[i]
  /\ \A j \in Keys \ {k} : mem[j] # None => mem[j].id \in Ids \ {id}

\* A create binds the identity ChurchTools handed out.
LEMMA CreateWrote ==
  ASSUME Inv, NEW k \in Keys, Create(k)
  PROVE  /\ Wrote(k, nextId) /\ plan[k].action = "create" /\ ~Waits(k)
         /\ live'[nextId] = NewRes(k) /\ NewRes(k) # None
         /\ live[nextId] = None /\ nextId \notin BoundIds(mem)
<1> DEFINE s == [mem EXCEPT ![k] = None]
<1>1. /\ pc = "run" /\ k \in remaining /\ ~Waits(k) /\ ~Unresolvable(k) /\ Post(k)
      /\ plan[k].action = "create"
      /\ mem' = Bind(s, k, nextId) /\ remaining' = remaining \ {k}
      /\ cur' = k /\ pc' = "save1"
      /\ UNCHANGED <<config, configs, edits, disk, torn, plan, outcome, quiet, faults>>
  BY DEF Create, At, Ready, envVars
<1>2. nextId \in Ids /\ nextId \in Nat
  BY <1>1, PostFits, WorldNow
<1>3. /\ Sound(s, Entry) /\ Holders(s, nextId) \subseteq {k}
      /\ \A j \in Keys \ {k} : s[j] = mem[j]
  BY <1>2, CreateOn
<1>4. k \in Planned(plan) /\ Snapshot(k) \in Snapshots /\ plan[k].prot \in BOOLEAN
  <2>1. k \in Planned(plan) /\ Snapshot(k) \in Snapshots
    BY <1>1, ResolvedType, SnapshotType
  <2> QED BY <2>1, ItemOf DEF Inv
<1> HIDE DEF s
<1>5. /\ mem' \in States /\ mem'[k] # None /\ mem'[k].id = nextId
      /\ mem'[k].fields = Snapshot(k) /\ \A j \in Keys \ {k} : mem'[j] = mem[j]
  BY <1>1, <1>2, <1>3, <1>4, BindAt
<1>6. disk = mem /\ mem \in States
  BY <1>1 DEF Inv, LagsByOneItem, TypeOK, States
<1>7. /\ live' = [live EXCEPT ![nextId] = NewRes(k)] /\ live \in Live
      /\ NewRes(k) # None
  BY <1>1, NewResType, ValuesAssumption DEF Post, Inv, TypeOK, Live
<1>8. live'[nextId] = NewRes(k) /\ \A i \in Ids \ {nextId} : live'[i] = live[i]
  BY <1>2, <1>7 DEF Live
<1>9. nextId \notin BoundIds(mem) /\ live[nextId] = None
  BY <1>2 DEF Inv, Fresh
<1>10. \A j \in Keys \ {k} : mem[j] # None => mem[j].id \in Ids \ {nextId}
  <2> SUFFICES ASSUME NEW j \in Keys \ {k}, mem[j] # None
               PROVE  mem[j].id \in Ids /\ mem[j].id # nextId
    OBVIOUS
  <2>1. mem[j].id \in Ids /\ mem[j].id \in BoundIds(mem)
    BY <1>6, EntryOf DEF BoundIds, Managed
  <2> QED BY <1>9, <2>1
<1> QED BY <1>1, <1>2, <1>4, <1>5, <1>6, <1>7, <1>8, <1>9, <1>10 DEF Wrote

\* An update binds the identity its entry has, and its columns land on what is
\* there now.
LEMMA UpdateWrote ==
  ASSUME Inv, NEW k \in Keys, Update(k)
  PROVE  /\ Wrote(k, plan[k].id) /\ plan[k].action = "update" /\ ~Waits(k)
         /\ mem[k] # None /\ mem[k].id = plan[k].id /\ ~Broken(k)
         /\ PutOrPatch(k) /\ UNCHANGED nextId
<1>1. /\ pc = "run" /\ k \in remaining /\ ~Waits(k) /\ plan[k].action = "update"
      /\ ~Broken(k) /\ ~Unresolvable(k) /\ PutOrPatch(k) /\ UNCHANGED nextId
      /\ mem' = Bind(mem, k, plan[k].id) /\ remaining' = remaining \ {k}
      /\ cur' = k /\ pc' = "save1"
      /\ UNCHANGED <<config, configs, edits, disk, torn, plan, outcome, quiet, faults>>
  BY DEF Update, At, Ready, Broken, envVars
<1>2. k \in Planned(plan) /\ Snapshot(k) \in Snapshots /\ plan[k].prot \in BOOLEAN
  <2>1. k \in Planned(plan) /\ Snapshot(k) \in Snapshots
    BY <1>1, ResolvedType, SnapshotType
  <2> QED BY <2>1, ItemOf DEF Inv
<1>3. mem[k] # None /\ mem[k].id = plan[k].id /\ plan[k].id \in Ids
  BY <1>1, <1>2 DEF Inv, InProgress, ItemsFit
<1>4. Sound(mem, Entry) /\ disk = mem /\ mem \in States
  BY <1>1, InvSound DEF Inv, LagsByOneItem, TypeOK, States
<1>5. \A j \in Keys \ {k} : mem[j] # None => mem[j].id \in Ids \ {plan[k].id}
  <2> SUFFICES ASSUME NEW j \in Keys \ {k}, mem[j] # None
               PROVE  mem[j].id \in Ids /\ mem[j].id # plan[k].id
    OBVIOUS
  <2>1. mem[j].id \in Ids
    BY <1>4, EntryOf
  <2> QED BY <1>3, <1>4, <2>1 DEF Sound, OneKeyPerResource, Managed
<1>6. Holders(mem, plan[k].id) \subseteq {k}
  BY <1>5 DEF Holders
<1>7. /\ mem' \in States /\ mem'[k] # None /\ mem'[k].id = plan[k].id
      /\ mem'[k].fields = Snapshot(k) /\ \A j \in Keys \ {k} : mem'[j] = mem[j]
  BY <1>1, <1>2, <1>3, <1>4, <1>6, BindAt
<1>8. \A i \in Ids \ {plan[k].id} : live'[i] = live[i]
  BY <1>1, PutFits
<1> QED BY <1>1, <1>2, <1>3, <1>4, <1>5, <1>7, <1>8 DEF Wrote

\* However an operation ends, the file is what counts from then on.
LEMMA EndsIdle ==
  ASSUME Inv, NEW how, End(how)
  PROVE  /\ pc' = "idle" /\ mem' = disk /\ UNCHANGED <<remaining, cur>> /\ Progress'
BY DEF End, Progress, PendingTargets, StaleIsGone, CurrentDone

\* A write keeps the identities of the other entries, and that of its own
\* unless the plan recreates the resource.
LEMMA KeepsIdentity ==
  ASSUME Inv, StaleIsGone, NEW k \in Keys, Create(k) \/ Update(k),
         NEW j \in Keys, mem[j] # None,
         ~(j \in Planned(plan) /\ plan[j].note = "recreate")
  PROVE  mem'[j] # None /\ mem'[j].id = mem[j].id
<1>1. CASE j # k
  BY <1>1, CreateWrote, UpdateWrote DEF Wrote
<1>2. CASE j = k /\ Update(k)
  BY <1>2, UpdateWrote DEF Wrote
<1>3. CASE j = k /\ Create(k)
  BY <1>3, CreateWrote DEF Wrote, StaleIsGone
<1> QED BY <1>1, <1>2, <1>3

\* A write of an item.
LEMMA WriteProgress ==
  ASSUME Inv, Progress, NEW k \in Keys, Create(k) \/ Update(k)
  PROVE  Progress'
<1>1. PICK id \in Ids : /\ Wrote(k, id)
                        /\ \A i \in Ids : live[i] = None /\ i # id => live'[i] = None
  BY CreateWrote, UpdateWrote DEF Wrote
<1>2. PendingTargets'
  <2> SUFFICES ASSUME NEW j \in Planned(plan), plan[j].changes["ref"] = Pending
               PROVE  LET t == RefOf(config, j) IN
                      IF t \in remaining' THEN plan[t].action = "create"
                                          ELSE mem'[t] # None
    BY <1>1 DEF PendingTargets, Wrote, Planned, RefOf
  <2> DEFINE t == RefOf(config, j)
  <2>1. t \in Keys
    BY <1>1 DEF Inv, InProgress, Wrote
  <2>2. t \in remaining => plan[t].action = "create"
    BY <1>1 DEF Progress, PendingTargets, Wrote
  <2>3. t \notin remaining => mem[t] # None
    BY <1>1 DEF Progress, PendingTargets, Wrote
  <2> QED BY <1>1, <2>1, <2>2, <2>3 DEF Wrote
<1>3. StaleIsGone'
  <2> SUFFICES ASSUME NEW j \in remaining \ {k}, plan[j].action = "create", mem[j] # None
               PROVE  plan[j].note = "recreate" /\ live'[mem[j].id] = None
    BY <1>1 DEF StaleIsGone, Wrote, Inv, TypeOK
  <2>1. plan[j].note = "recreate" /\ live[mem[j].id] = None /\ j \in Keys
    BY <1>1 DEF Progress, StaleIsGone, Wrote, Inv, TypeOK
  <2>2. mem[j].id \in Ids \ {id}
    BY <1>1, <2>1 DEF Wrote
  <2> QED BY <1>1, <2>1, <2>2
<1>4. CurrentDone'
  BY <1>1 DEF CurrentDone, Wrote
<1> QED BY <1>2, <1>3, <1>4 DEF Progress

\* What a plan knows of pending references and of entries to be replaced.
LEMMA PreparedProgress ==
  ASSUME Inv, Prepare
  PROVE  Progress'
<1>1. /\ mem' = disk /\ plan' = [k \in Keys |-> PlanItem(config, k)]
      /\ remaining' = Planned(plan') /\ pc' = "planned"
      /\ UNCHANGED <<config, live, disk>>
  BY DEF Prepare, envVars
<1>2. ASSUME NEW k \in Planned(plan'), plan'[k].changes["ref"] = Pending
      PROVE  LET t == RefOf(config, k) IN
             t \in Planned(plan') /\ plan'[t].action = "create"
  <2> DEFINE t == RefOf(config, k)
  <2>1. k \in Keys /\ plan'[k] = PlanItem(config, k) /\ PlanItem(config, k) # None
    BY <1>1 DEF Planned
  <2>2. config[k] # None /\ Desired(config, k)["ref"] = Pending
    <3>1. PlanItem(config, k).changes["ref"] = Pending /\ Pending # Nil
      BY <1>2, <2>1, ValuesAssumption
    <3>2. NoChange["ref"] = Nil
      BY FieldsFacts DEF NoChange
    <3>3. config[k] # None
      BY <2>1, <3>1, <3>2, PlanItemIs
    <3>4. CASE Actual(k) = None
      BY <2>1, <3>1, <3>3, <3>4, PlanItemIs
    <3>5. CASE Actual(k) # None
      <4>1. Diff(Desired(config, k), Actual(k))["ref"] = Pending
        BY <2>1, <3>1, <3>3, <3>5, PlanItemIs
      <4> QED BY <3>1, <3>3, <4>1, FieldsFacts DEF Diff
    <3> QED BY <3>3, <3>4, <3>5
  <2>3. config \in Configs /\ config[k] \in Decl
    BY <2>1, <2>2, ConfigsAssumption DEF Inv, TypeOK
  <2>4. t \in Keys /\ disk[t] = None /\ config[t] # None
    <3>1. Desired(config, k)["ref"] =
            IF config[k].want["ref"] = Nil THEN Nil ELSE Resolve(config[k].want["ref"])
      BY <2>3, FieldsFacts DEF Desired, Decl
    <3>2. t = config[k].want["ref"] /\ t # Nil /\ Resolve(t) = Pending
      BY <2>2, <3>1, ValuesAssumption DEF RefOf
    <3>3. t \in Keys /\ config[t] # None
      BY <2>1, <2>3, <3>2, ConfigsAssumption
    <3>4. disk[t] # None => disk[t].id \in Ids
      BY <3>3, EntryOf DEF Inv, TypeOK, States
    <3> QED BY <3>2, <3>3, <3>4, ValuesAssumption DEF Resolve
  <2>5. Actual(t) = None
    BY <2>4 DEF Actual
  <2>6. PlanItem(config, t) # None
    BY <2>4, DeclaredPlanned DEF Inv
  <2>7. PlanItem(config, t).action = "create" /\ plan'[t] = PlanItem(config, t)
    BY <1>1, <2>4, <2>5, <2>6, PlanItemIs
  <2> QED BY <2>4, <2>6, <2>7 DEF Planned
<1>3. ASSUME NEW k \in Planned(plan'), plan'[k].action = "create", disk[k] # None
      PROVE  plan'[k].note = "recreate" /\ live[disk[k].id] = None
  <2>1. k \in Keys /\ plan'[k] = PlanItem(config, k) /\ PlanItem(config, k) # None
    BY <1>1 DEF Planned
  <2>2. config[k] # None /\ Actual(k) = None
    BY <1>3, <2>1, PlanItemIs
  <2>3. plan'[k].note = "recreate"
    BY <1>3, <2>1, <2>2, PlanItemIs
  <2> QED BY <1>3, <2>2, <2>3 DEF Actual
<1> QED BY <1>1, <1>2, <1>3 DEF Progress, PendingTargets, StaleIsGone, CurrentDone

\* Colleagues change what exists and remove it; they do not bring it back.
LEMMA UiKeeps ==
  ASSUME Inv, Ui
  PROVE  /\ UNCHANGED <<config, nextId, disk, torn, mem, plan, remaining, cur, pc,
                        outcome, configs, faults>>
         /\ quiet' = FALSE
         /\ \A i \in Ids : live'[i] # None => live[i] # None
BY DEF Ui, UiEdit, UiDelete, opVars, Inv, TypeOK

\* Skipping an item.
LEMMA SkipKeeps ==
  ASSUME Inv, NEW k \in Keys, Skip(k)
  PROVE  /\ pc = "run" /\ k \in remaining /\ k \in Planned(plan)
         /\ plan[k].action \in {"noop", "delete"} /\ disk = mem
         /\ remaining' = remaining \ {k}
         /\ UNCHANGED <<config, configs, edits, live, nextId, disk, torn, mem, plan,
                        cur, pc, outcome, quiet, faults>>
BY DEF Skip, At, Ready, envVars, Inv, InProgress, LagsByOneItem

\* A save.
LEMMA SaveKeeps ==
  ASSUME Inv, Save("save1", "syn") \/ Save("save2", "run")
  PROVE  /\ disk' = mem
         /\ \/ pc = "save1" /\ pc' = "syn" /\ cur' = cur
            \/ pc = "save2" /\ pc' = "run" /\ cur' = Nil
         /\ UNCHANGED <<config, configs, edits, live, nextId, torn, mem, plan,
                        remaining, outcome, quiet, faults>>
BY DEF Save, envVars

\* The write of the sub-resource.
LEMMA SyntheticKeeps ==
  ASSUME Inv, ApplySynthetic
  PROVE  /\ pc = "syn" /\ pc' = "save2" /\ disk = mem /\ SubWrite
         /\ (SubChanged => live[SubId] # None)
         /\ \A i \in Ids : live'[i] # live[i] =>
              i = SubId /\ live[i] # None /\ live'[i] # None
         /\ UNCHANGED <<config, configs, edits, nextId, disk, torn, mem, plan,
                        remaining, cur, outcome, quiet, faults>>
BY SubFits DEF ApplySynthetic, envVars, Inv, LagsByOneItem

\* The ways an operation ends without a fault: the copy of the state is the file.
LEMMA EndsClean ==
  ASSUME Inv,
         \/ Abandon \/ ExecuteEmpty \/ SyntheticGone \/ Finish
         \/ \E k \in Keys : ItemError(k)
  PROVE  /\ \E how \in Outcomes : End(how)
         /\ disk = mem
         /\ UNCHANGED <<config, configs, edits, live, nextId, disk, torn, plan, quiet,
                        faults>>
BY DEF Abandon, ExecuteEmpty, SyntheticGone, Finish, ItemError, At, Outcomes, envVars,
       Inv, LagsByOneItem

\* A fault ends the operation.
LEMMA EndsFaulty ==
  ASSUME Inv, Faulty
  PROVE  /\ \E how \in Outcomes : End(how)
         /\ faults' = faults + 1
         /\ UNCHANGED <<config, configs, edits, disk, plan, quiet>>
BY DEF Faulty, CreateLost, UpdateLost, WriteRejected, SyntheticFails, SaveFails,
       Crash, Failure, Outcomes, envVars

LEMMA InitProgress == Init => Progress
BY DEF Init, Progress, PendingTargets, StaleIsGone, CurrentDone

LEMMA ProgressStep == Inv /\ Progress /\ [Next]_vars => Progress'
<1> SUFFICES ASSUME Inv, Progress, [Next]_vars PROVE Progress'
  OBVIOUS
<1> USE DEF Progress, PendingTargets, StaleIsGone, CurrentDone
<1>1. CASE UNCHANGED vars
  BY <1>1 DEF vars, Planned, RefOf
<1>2. CASE \E c \in Configs : EditConfig(c)
  BY <1>2 DEF EditConfig, opVars
<1>3. CASE Prepare
  BY <1>3, PreparedProgress
<1>4. CASE Execute
  BY <1>4 DEF Execute, envVars, Planned, RefOf
<1>5. CASE \/ Abandon \/ ExecuteEmpty \/ SyntheticGone \/ Finish
           \/ \E k \in Keys : ItemError(k)
  BY <1>5, EndsClean, EndsIdle
<1>6. CASE Faulty
  BY <1>6, EndsFaulty, EndsIdle
<1>7. ASSUME NEW k \in Keys, Create(k) \/ Update(k) PROVE Progress'
  BY <1>7, WriteProgress
<1>8. ASSUME NEW k \in Keys, Skip(k) \/ Mirror(k) PROVE Progress'
  <2>1. /\ pc = "run" /\ k \in remaining /\ k \in Planned(plan)
        /\ plan[k].action \in {"noop", "delete"} /\ remaining' = remaining \ {k}
        /\ UNCHANGED <<config, live, plan>>
        /\ \A j \in Keys : (mem'[j] # None <=> mem[j] # None)
        /\ \A j \in Keys : mem[j] # None => mem'[j].id = mem[j].id
        /\ pc' = "run" \/ (pc' = "save2" /\ cur' = k)
    BY <1>8, SkipKeeps, MirrorKeeps
  <2>2. PendingTargets'
    <3> SUFFICES ASSUME NEW j \in Planned(plan), plan[j].changes["ref"] = Pending
                 PROVE  LET t == RefOf(config, j) IN
                        IF t \in remaining' THEN plan[t].action = "create"
                                            ELSE mem'[t] # None
      BY <2>1 DEF Planned, RefOf
    <3>1. RefOf(config, j) \in Keys
      BY <2>1 DEF Inv, InProgress
    <3> QED BY <2>1, <3>1
  <2>3. StaleIsGone'
    BY <2>1 DEF Inv, TypeOK
  <2>4. CurrentDone'
    BY <2>1
  <2> HIDE DEF PendingTargets, StaleIsGone, CurrentDone
  <2> QED BY <2>2, <2>3, <2>4
<1>9. CASE Save("save1", "syn") \/ Save("save2", "run")
  BY <1>9, SaveKeeps DEF Planned, RefOf
<1>10. CASE ApplySynthetic
  <2>1. \A j \in remaining : mem[j] # None => mem[j].id \in Ids
    BY EntryOf DEF Inv, TypeOK, States
  <2> QED BY <1>10, <2>1, SyntheticKeeps DEF Planned, RefOf
<1>11. CASE Ui
  <2>1. \A j \in remaining : mem[j] # None => mem[j].id \in Ids
    BY EntryOf DEF Inv, TypeOK, States
  <2> QED BY <1>11, <2>1, UiKeeps DEF Planned, RefOf
<1> QED BY <1>1, <1>2, <1>3, <1>4, <1>5, <1>6, <1>7, <1>8, <1>9, <1>10, <1>11
        DEF Next, Operator, Work, ItemStep

\* A pending reference is resolved when its turn comes: its target was either
\* created in this run or is still ahead of it.
LEMMA ProgressResolves == Inv /\ Progress => PendingResolves
BY DEF Inv, InProgress, Progress, PendingTargets, PendingResolves, Ready, Waits,
       Writes, Planned, Unresolvable, RefOf

--------------------------------------------------------------------------------
(* What a run leaves behind.                                                *)

\* The identities are finitely many, and so is what a set of them counts.
LEMMA SomeIds ==
  ASSUME NEW S, S \subseteq Ids
  PROVE  IsFiniteSet(S) /\ Cardinality(S) \in Nat
<1>1. IsFiniteSet(Ids)
  BY FS_Interval, BoundsAssumption
<1>2. IsFiniteSet(S)
  BY <1>1, FS_Subset
<1> QED BY <1>2, FS_CardinalityType

\* A step that leaves no resource behind.
LEMMA NothingLeft ==
  ASSUME Inv, OrphansNeedFaults, Unbound' \subseteq Unbound,
         faults' \in {faults, faults + 1}
  PROVE  OrphansNeedFaults'
<1>1. Unbound \subseteq Ids /\ Unbound' \subseteq Ids
  BY DEF Unbound
<1>2. Cardinality(Unbound') <= Cardinality(Unbound)
  BY <1>1, SomeIds, FS_Subset
<1>3. faults \in Nat /\ Cardinality(Unbound) \in Nat /\ Cardinality(Unbound') \in Nat
  BY <1>1, SomeIds DEF Inv, TypeOK
<1> QED BY <1>2, <1>3 DEF OrphansNeedFaults

\* A fault that leaves one.
LEMMA OneLeft ==
  ASSUME Inv, OrphansNeedFaults, NEW i \in Ids, Unbound' \subseteq Unbound \cup {i},
         faults' = faults + 1
  PROVE  OrphansNeedFaults'
<1> DEFINE U == Unbound \cup {i}
<1>1. Unbound \subseteq Ids /\ Unbound' \subseteq Ids /\ U \subseteq Ids
  BY DEF Unbound
<1>2. Cardinality(Unbound') <= Cardinality(U)
  BY <1>1, SomeIds, FS_Subset
<1>3. Cardinality(U) <= Cardinality(Unbound) + 1
  <2>1. Cardinality(U) = IF i \in Unbound THEN Cardinality(Unbound)
                                           ELSE Cardinality(Unbound) + 1
    BY <1>1, SomeIds, FS_AddElement
  <2>2. Cardinality(Unbound) \in Nat
    BY <1>1, SomeIds
  <2> QED BY <2>1, <2>2
<1>4. /\ faults \in Nat /\ Cardinality(Unbound) \in Nat /\ Cardinality(U) \in Nat
      /\ Cardinality(Unbound') \in Nat
  BY <1>1, SomeIds DEF Inv, TypeOK
<1>5. Cardinality(Unbound) <= faults
  BY DEF OrphansNeedFaults
<1> HIDE DEF U
<1>6. Cardinality(Unbound') <= faults'
  BY <1>2, <1>3, <1>4, <1>5
<1> QED BY <1>6 DEF OrphansNeedFaults

\* Where the copy of the state keeps its identities and ChurchTools brings
\* nothing back, nothing is left behind.
LEMMA KeptIsBound ==
  ASSUME \A i \in Ids : live'[i] # None => live[i] # None,
         \A j \in Keys : mem[j] # None => mem'[j] # None /\ mem'[j].id = mem[j].id
  PROVE  Unbound' \subseteq Unbound
BY DEF Unbound, BoundIds, Managed

\* A create binds what it made, and what it replaces was gone.
LEMMA CreateIsBound ==
  ASSUME Inv, StaleIsGone, NEW k \in Keys, Create(k)
  PROVE  Unbound' \subseteq Unbound
<1>1. /\ Wrote(k, nextId) /\ plan[k].action = "create"
  BY CreateWrote
<1> SUFFICES ASSUME NEW i \in Ids \ Foreign, live'[i] # None, i \notin BoundIds(mem')
             PROVE  live[i] # None /\ i \notin BoundIds(mem)
  BY DEF Unbound
<1>2. i # nextId /\ live[i] # None
  BY <1>1 DEF Wrote, BoundIds, Managed
<1>3. \A j \in Keys \ {k} : mem[j] # None => mem[j].id # i
  BY <1>1 DEF Wrote, BoundIds, Managed
<1>4. mem[k] # None => mem[k].id # i
  BY <1>1, <1>2 DEF StaleIsGone, Wrote
<1> QED BY <1>2, <1>3, <1>4 DEF BoundIds, Managed

\* An update leaves every identity bound.
LEMMA UpdateIsBound ==
  ASSUME Inv, NEW k \in Keys, Update(k)
  PROVE  Unbound' \subseteq Unbound
<1>1. /\ Wrote(k, plan[k].id) /\ mem[k] # None /\ mem[k].id = plan[k].id
      /\ pc = "run" /\ k \in remaining /\ plan[k].action = "update" /\ ~Broken(k)
      /\ PutOrPatch(k) /\ UNCHANGED nextId
  BY UpdateWrote DEF Wrote
<1>2. \A i \in Ids : live'[i] # None => live[i] # None
  BY <1>1, PutFits
<1>3. \A j \in Keys : mem[j] # None => mem'[j] # None /\ mem'[j].id = mem[j].id
  BY <1>1 DEF Wrote
<1> QED BY <1>2, <1>3, KeptIsBound

\* What a fault leaves behind: the resource a lost POST made, or the one whose
\* entry was not saved.
LEMMA FaultLeaves ==
  ASSUME Inv, Faulty
  PROVE  Unbound' \subseteq Unbound \/ \E i \in Ids : Unbound' \subseteq Unbound \cup {i}
<1>1. mem' = disk
  BY EndsFaulty DEF End
<1>2. ASSUME NEW k \in Keys, CreateLost(k)
      PROVE  nextId \in Ids /\ Unbound' \subseteq Unbound \cup {nextId}
  <2>1. /\ pc = "run" /\ k \in remaining /\ ~Unresolvable(k) /\ Post(k)
        /\ mem = mem'
    BY <1>1, <1>2 DEF CreateLost, At, Ready, Inv, LagsByOneItem
  <2>2. nextId \in Ids /\ live \in Live
    BY <2>1, PostFits DEF Inv, TypeOK, Live
  <2>3. \A i \in Ids \ {nextId} : live'[i] = live[i]
    BY <2>1, <2>2 DEF Post, Live
  <2>4. BoundIds(mem') = BoundIds(mem)
    BY <2>1
  <2>5. Unbound' = {i \in Ids \ Foreign : live'[i] # None /\ i \notin BoundIds(mem')}
    BY DEF Unbound
  <2> QED BY <2>2, <2>3, <2>4, <2>5 DEF Unbound
<1>3. ASSUME NEW k \in Keys, UpdateLost(k) PROVE Unbound' \subseteq Unbound
  <2>1. /\ pc = "run" /\ k \in remaining /\ plan[k].action = "update" /\ ~Broken(k)
        /\ PutOrPatch(k) /\ UNCHANGED nextId /\ mem = mem'
    BY <1>1, <1>3 DEF UpdateLost, At, Ready, Inv, LagsByOneItem
  <2>2. \A i \in Ids : live'[i] # None => live[i] # None
    BY <2>1, PutFits
  <2> QED BY <2>1, <2>2, KeptIsBound
<1>4. ASSUME NEW k \in Keys, WriteRejected(k) PROVE Unbound' \subseteq Unbound
  <2>1. mem = mem' /\ UNCHANGED live
    BY <1>1, <1>4 DEF WriteRejected, At, Inv, LagsByOneItem
  <2> QED BY <2>1, KeptIsBound
<1>5. CASE SyntheticFails
  <2>1. mem = mem' /\ pc = "syn" /\ UNCHANGED nextId
    BY <1>1, <1>5 DEF SyntheticFails, Inv, LagsByOneItem
  <2>2. CASE UNCHANGED live
    BY <2>1, <2>2, KeptIsBound
  <2>3. CASE SubWrite
    <3>1. \A i \in Ids : live'[i] # None => live[i] # None
      BY <2>1, <2>3, SubFits
    <3> QED BY <2>1, <3>1, KeptIsBound
  <2> QED BY <1>5, <2>2, <2>3 DEF SyntheticFails
<1>6. CASE SaveFails \/ Crash
  <2>1. UNCHANGED live /\ \A j \in Keys : j # cur => mem'[j] = mem[j]
    BY <1>1, <1>6 DEF SaveFails, Crash, Inv, LagsByOneItem
  <2>2. CASE cur \in Keys /\ mem[cur] # None
    <3>1. mem[cur].id \in Ids
      BY <2>2, EntryOf DEF Inv, TypeOK, States
    <3>2. \A i \in BoundIds(mem) \ {mem[cur].id} : i \in BoundIds(mem')
      BY <2>1 DEF BoundIds, Managed
    <3>3. Unbound' = {i \in Ids \ Foreign : live'[i] # None /\ i \notin BoundIds(mem')}
      BY DEF Unbound
    <3>4. Unbound' \subseteq Unbound \cup {mem[cur].id}
      BY <2>1, <3>2, <3>3 DEF Unbound
    <3> QED BY <3>1, <3>4
  <2>3. CASE ~(cur \in Keys /\ mem[cur] # None)
    <3>1. \A j \in Keys : mem[j] # None => mem'[j] # None /\ mem'[j].id = mem[j].id
      BY <2>1, <2>3
    <3> QED BY <2>1, <3>1, KeptIsBound
  <2> QED BY <2>2, <2>3
<1> QED BY <1>2, <1>3, <1>4, <1>5, <1>6 DEF Faulty

LEMMA OrphansStep ==
  Inv /\ Progress /\ OrphansNeedFaults /\ [Next]_vars => OrphansNeedFaults'
<1> SUFFICES ASSUME Inv, Progress, OrphansNeedFaults, [Next]_vars
             PROVE  OrphansNeedFaults'
  OBVIOUS
<1>1. CASE UNCHANGED vars \/ Execute \/ \E c \in Configs : EditConfig(c)
  <2>1. UNCHANGED <<live, mem, faults>>
    BY <1>1 DEF vars, Execute, EditConfig, opVars
  <2> QED BY <2>1, KeptIsBound, NothingLeft
<1>2. CASE Prepare
  <2>1. UNCHANGED <<live, faults>> /\ mem' = mem
    BY <1>2 DEF Prepare, Inv, LagsByOneItem
  <2> QED BY <2>1, KeptIsBound, NothingLeft
<1>3. CASE \/ Abandon \/ ExecuteEmpty \/ SyntheticGone \/ Finish
           \/ \E k \in Keys : ItemError(k)
  <2>1. UNCHANGED <<live, faults>> /\ mem' = mem
    BY <1>3, EndsClean DEF End
  <2> QED BY <2>1, KeptIsBound, NothingLeft
<1>4. CASE Faulty
  BY <1>4, EndsFaulty, FaultLeaves, NothingLeft, OneLeft
<1>5. ASSUME NEW k \in Keys, Create(k) PROVE OrphansNeedFaults'
  <2>1. UNCHANGED faults
    BY <1>5 DEF Create
  <2> QED BY <1>5, <2>1, CreateIsBound, NothingLeft DEF Progress
<1>6. ASSUME NEW k \in Keys, Update(k) PROVE OrphansNeedFaults'
  <2>1. UNCHANGED faults
    BY <1>6 DEF Update
  <2> QED BY <1>6, <2>1, UpdateIsBound, NothingLeft
<1>7. ASSUME NEW k \in Keys, Skip(k) \/ Mirror(k) PROVE OrphansNeedFaults'
  <2>1. /\ UNCHANGED <<live, faults>>
        /\ \A j \in Keys : mem[j] # None => mem'[j] # None /\ mem'[j].id = mem[j].id
    BY <1>7, SkipKeeps, MirrorKeeps
  <2> QED BY <2>1, KeptIsBound, NothingLeft
<1>8. CASE Save("save1", "syn") \/ Save("save2", "run")
  BY <1>8, SaveKeeps, KeptIsBound, NothingLeft
<1>9. CASE ApplySynthetic
  <2>1. /\ UNCHANGED <<mem, faults>>
        /\ \A i \in Ids : live'[i] # None => live[i] # None
    BY <1>9, SyntheticKeeps
  <2> QED BY <2>1, KeptIsBound, NothingLeft
<1>10. CASE Ui
  BY <1>10, UiKeeps, KeptIsBound, NothingLeft
<1> QED BY <1>1, <1>2, <1>3, <1>4, <1>5, <1>6, <1>7, <1>8, <1>9, <1>10
        DEF Next, Operator, Work, ItemStep

LEMMA InitOrphans == Init => OrphansNeedFaults
<1> SUFFICES ASSUME Init PROVE OrphansNeedFaults
  OBVIOUS
<1>1. Unbound = {}
  BY DEF Init, Unbound
<1>2. Cardinality(Unbound) = 0
  BY <1>1, FS_EmptySet
<1> QED BY <1>2 DEF OrphansNeedFaults, Init

--------------------------------------------------------------------------------
(* What a run has completed, while nobody edits anything.                   *)

WantOf(k) == config[k].want

\* A written item's changes are the declared fields, less those the resource
\* had already.
AsWanted ==
  \A k \in Writes(plan) :
    /\ config[k] # None
    /\ \A f \in Fields \ {"ref"} :
         \/ plan[k].changes[f] = WantOf(k)[f]
         \/ /\ plan[k].changes[f] = Nil
            /\ \/ WantOf(k)[f] = Nil
               \/ plan[k].action = "update" /\ plan[k].actual[f] = WantOf(k)[f]

\* The reference of an item to come: pending, or the identity its target has
\* now, to be set or set already.
RefersAsPlanned ==
  \A k \in Writes(plan) \cap remaining :
    RefOf(config, k) # Nil /\ ~RefersToRecreated(k) =>
      LET t == RefOf(config, k) IN
      \/ plan[k].changes["ref"] = Pending
      \/ mem[t] # None /\ plan[k].changes["ref"] = mem[t].id
      \/ /\ plan[k].changes["ref"] = Nil /\ plan[k].action = "update"
         /\ mem[t] # None /\ plan[k].actual["ref"] = mem[t].id

\* A resource still to be updated is as it was fetched.
FoundAsPlanned ==
  \A k \in remaining :
    plan[k].action = "update" => live[plan[k].id] = plan[k].actual

\* The columns of a written item are those declared, and those recorded; its
\* reference names the identity of its target.
Landed(lv, s, k) ==
  /\ s[k] # None /\ lv[s[k].id] # None
  /\ \A f \in Plain : s[k].fields[f] # Nil => s[k].fields[f] = lv[s[k].id][f]
  /\ \A f \in Attrs : WantOf(k)[f] # Nil => WantOf(k)[f] = lv[s[k].id][f]
  /\ RefOf(config, k) # Nil /\ ~RefersToRecreated(k) =>
       LET t == RefOf(config, k) IN s[t] # None /\ lv[s[k].id]["ref"] = s[t].id

SubLanded(lv, s, k) ==
  WantOf(k)["sub"] # Nil => WantOf(k)["sub"] = lv[s[k].id]["sub"]

\* the item whose sub-resource is still to be written
SubToDo(k) == pc \in {"save1", "syn"} /\ k = cur /\ plan[k].changes["sub"] # Nil

LandedOnDisk ==
  \A k \in Writes(plan) \ (remaining \cup {cur}) :
    Landed(live, disk, k) /\ SubLanded(live, disk, k)

LandedInMem ==
  \A k \in Writes(plan) \ remaining :
    Landed(live, mem, k) /\ (~SubToDo(k) => SubLanded(live, mem, k))

History ==
  quiet => /\ AsWanted /\ LandedOnDisk
           /\ pc # "idle" => RefersAsPlanned /\ FoundAsPlanned /\ LandedInMem

\* What landed stays so where its resource and its target's identity stay.
LEMMA LandedKept ==
  ASSUME NEW lv, NEW lw, NEW s, NEW z, NEW k \in Keys, Landed(lv, s, k),
         z[k] # None, z[k].id = s[k].id, z[k].fields = s[k].fields,
         lw[s[k].id] # None, \A f \in Plain : lw[s[k].id][f] = lv[s[k].id][f],
         RefOf(config, k) # Nil /\ ~RefersToRecreated(k)
           /\ s[RefOf(config, k)] # None
           => /\ z[RefOf(config, k)] # None
              /\ z[RefOf(config, k)].id = s[RefOf(config, k)].id
  PROVE  Landed(lw, z, k)
BY FieldsFacts DEF Landed, Plain

\* The configuration and the plan of a run do not change.
LEMMA LandedPrimed ==
  ASSUME UNCHANGED <<config, plan>>, NEW k
  PROVE  /\ Landed(live, disk, k)' = Landed(live', disk', k)
         /\ Landed(live, mem, k)' = Landed(live', mem', k)
         /\ SubLanded(live, disk, k)' = SubLanded(live', disk', k)
         /\ SubLanded(live, mem, k)' = SubLanded(live', mem', k)
         /\ RefersToRecreated(k)' = RefersToRecreated(k)
         /\ RefOf(config, k)' = RefOf(config, k)
         /\ WantOf(k)' = WantOf(k) /\ Writes(plan)' = Writes(plan)
         /\ Planned(plan)' = Planned(plan)
BY DEF Landed, SubLanded, RefersToRecreated, RefOf, WantOf, Writes, Planned

\* The items to be written, and what is declared for them.
LEMMA WrittenItems ==
  ASSUME Inv, AsWanted, NEW k \in Writes(plan)
  PROVE  /\ k \in Keys /\ k \in Planned(plan) /\ plan[k] # None
         /\ plan[k].action \in {"create", "update"}
         /\ config \in Configs /\ config[k] \in Decl /\ config[k] # None
         /\ RefOf(config, k) = WantOf(k)["ref"] /\ RefOf(config, k) # k
         /\ RefOf(config, k) # Nil => RefOf(config, k) \in Keys
         /\ plan[k].changes \in Changes
         /\ \A f \in Fields \ {"ref"} : plan[k].changes[f] # Pending
         /\ \A i \in Ids : i # Nil /\ i # Pending
<1>1. k \in Keys /\ k \in Planned(plan) /\ plan[k] # None
      /\ plan[k].action \in {"create", "update"}
  BY DEF Writes, Planned
<1>2. config \in Configs /\ config[k] # None
  BY DEF Inv, TypeOK, AsWanted
<1>3. config[k] \in Decl
  BY <1>1, <1>2, ConfigsAssumption
<1>4. RefOf(config, k) = WantOf(k)["ref"]
  BY <1>2 DEF RefOf, WantOf
<1>5. RefOf(config, k) # k /\ (RefOf(config, k) # Nil => RefOf(config, k) \in Keys)
  BY <1>1, <1>2, ConfigsAssumption
<1>6. plan[k].changes \in Changes /\ \A f \in Fields \ {"ref"} : plan[k].changes[f] # Pending
  BY <1>1, ItemOf DEF Inv, ItemsFit
<1>7. \A i \in Ids : i # Nil /\ i # Pending
  BY ValuesAssumption
<1> QED BY <1>1, <1>2, <1>3, <1>4, <1>5, <1>6, <1>7

\* The changes a write sends, by field.
LEMMA ResolvedFields ==
  ASSUME Inv, AsWanted, NEW k \in Writes(plan)
  PROVE  /\ \A f \in Fields \ {"ref"} : Resolved(k)[f] = plan[k].changes[f]
         /\ Resolved(k)["ref"] = IF plan[k].changes["ref"] = Pending
                                 THEN mem[RefOf(config, k)].id
                                 ELSE plan[k].changes["ref"]
<1>1. plan[k].changes \in Changes
  BY WrittenItems
<1> QED BY <1>1, FieldsFacts DEF Resolved, Changes

\* The reference an item is written with: the identity its target has.
LEMMA RefLands ==
  ASSUME Inv, Progress, AsWanted, RefersAsPlanned, pc = "run",
         NEW k \in Writes(plan) \cap remaining, ~Waits(k),
         RefOf(config, k) # Nil, ~RefersToRecreated(k)
  PROVE  LET t == RefOf(config, k) IN
         /\ t \in Keys /\ t # k /\ mem[t] # None /\ mem[t].id \in Ids
         /\ \/ Resolved(k)["ref"] = mem[t].id
            \/ /\ Resolved(k)["ref"] = Nil /\ plan[k].action = "update"
               /\ plan[k].actual["ref"] = mem[t].id
<1> DEFINE t == RefOf(config, k)
<1>1. t \in Keys /\ t # k /\ k \in Planned(plan)
  BY WrittenItems
<1>2. mem[t] # None => mem[t].id \in Ids /\ mem[t].id # Pending
  BY <1>1, EntryOf, ValuesAssumption DEF Inv, TypeOK, States
<1>3. plan[k].changes["ref"] = Pending => mem[t] # None
  BY <1>1 DEF Waits, Progress, PendingTargets
<1>4. \/ plan[k].changes["ref"] = Pending
      \/ mem[t] # None /\ plan[k].changes["ref"] = mem[t].id
      \/ /\ plan[k].changes["ref"] = Nil /\ plan[k].action = "update"
         /\ mem[t] # None /\ plan[k].actual["ref"] = mem[t].id
  BY DEF RefersAsPlanned
<1>5. Resolved(k)["ref"] = IF plan[k].changes["ref"] = Pending
                           THEN mem[t].id ELSE plan[k].changes["ref"]
  BY ResolvedFields
<1> QED BY <1>1, <1>2, <1>3, <1>4, <1>5, ValuesAssumption

\* A created resource has what was declared, and the snapshot says so.
LEMMA CreateLands ==
  ASSUME Inv, Progress, AsWanted, RefersAsPlanned, NEW k \in Keys, Create(k)
  PROVE  /\ Landed(live', mem', k)
         /\ plan[k].changes["sub"] = Nil => SubLanded(live', mem', k)
<1>1. /\ Wrote(k, nextId) /\ plan[k].action = "create" /\ ~Waits(k)
      /\ live'[nextId] = NewRes(k) /\ NewRes(k) # None
  BY CreateWrote
<1>2. /\ k \in Writes(plan) \cap remaining /\ pc = "run"
      /\ mem'[k] # None /\ mem'[k].id = nextId /\ mem'[k].fields = Columns(Resolved(k))
  BY <1>1 DEF Wrote, Writes, Snapshot
<1>3. NewRes(k) = [[f \in Fields |-> IF Resolved(k)[f] = Nil THEN Blank[f]
                                     ELSE Resolved(k)[f]] EXCEPT !["sub"] = Nil]
  BY DEF NewRes, Merge, Blank
<1>4. \A f \in Plain : /\ f \in Fields /\ f # "sub"
                       /\ Resolved(k)[f] # Nil => NewRes(k)[f] = Resolved(k)[f]
  BY <1>3, FieldsFacts, ValuesAssumption DEF Plain
<1>5. \A f \in Plain : mem'[k].fields[f] = Resolved(k)[f]
  BY <1>2 DEF Columns
<1>6. \A f \in Attrs \cup {"sub"} :
        /\ f \in Fields \ {"ref"}
        /\ WantOf(k)[f] # Nil => plan[k].changes[f] = WantOf(k)[f]
  BY <1>1, <1>2, FieldsFacts, ValuesAssumption DEF AsWanted
<1>7. \A f \in Attrs : WantOf(k)[f] # Nil => WantOf(k)[f] = NewRes(k)[f]
  <2>1. \A f \in Attrs : Resolved(k)[f] = plan[k].changes[f]
    BY <1>2, <1>6, ResolvedFields
  <2> QED BY <1>4, <1>6, <2>1 DEF Plain
<1>8. ASSUME RefOf(config, k) # Nil, ~RefersToRecreated(k)
      PROVE  LET t == RefOf(config, k) IN
             mem'[t] # None /\ NewRes(k)["ref"] = mem'[t].id
  <2> DEFINE t == RefOf(config, k)
  <2>1. /\ t \in Keys /\ t # k /\ mem[t] # None /\ mem[t].id \in Ids
        /\ Resolved(k)["ref"] = mem[t].id
    BY <1>1, <1>2, <1>8, RefLands
  <2>2. mem'[t] = mem[t]
    BY <1>1, <2>1 DEF Wrote
  <2>3. Resolved(k)["ref"] # Nil
    BY <2>1, ValuesAssumption
  <2> QED BY <1>4, <2>1, <2>2, <2>3, FieldsFacts
<1>9. Landed(live', mem', k)
  BY <1>1, <1>2, <1>4, <1>5, <1>7, <1>8 DEF Landed
<1>10. plan[k].changes["sub"] = Nil => SubLanded(live', mem', k)
  BY <1>6 DEF SubLanded
<1> QED BY <1>9, <1>10

\* What an update leaves in ChurchTools, when the resource is as it was fetched:
\* PUT and PATCH agree.
LEMMA UpdateLeaves ==
  ASSUME Inv, AsWanted, FoundAsPlanned, NEW k \in remaining, pc = "run",
         plan[k].action = "update", ~Broken(k), PutOrPatch(k), UNCHANGED nextId
  PROVE  LET id == plan[k].id IN
         /\ live'[id] # None
         /\ \A f \in Plain : live'[id][f] = IF Resolved(k)[f] = Nil
                                            THEN plan[k].actual[f] ELSE Resolved(k)[f]
         /\ live'[id]["sub"] = plan[k].actual["sub"]
<1> DEFINE id == plan[k].id
<1>1. k \in Planned(plan) /\ k \in Writes(plan)
  BY DEF Inv, InProgress, Writes
<1>2. id \in Ids /\ plan[k].actual # None /\ live[id] = plan[k].actual
  BY <1>1 DEF Inv, ItemsFit, FoundAsPlanned
<1>3. CASE ~HasColumnChange(k)
  <2>1. live' = live
    BY <1>3 DEF PutOrPatch
  <2>2. \A f \in Plain : plan[k].changes[f] = Nil
    BY <1>3 DEF HasColumnChange
  <2>3. \A f \in Plain : Resolved(k)[f] = Nil
    BY <1>1, <2>2, ResolvedFields, FieldsFacts, ValuesAssumption
  <2> QED BY <1>2, <2>1, <2>3
<1>4. CASE HasColumnChange(k)
  <2>1. /\ Written(k) = [f \in Fields |->
             IF f \in Plain
             THEN (IF k \in PutKeys THEN Snapshot(k)
                   ELSE Merge(Columns(live[id]), Resolved(k)))[f]
             ELSE live[id][f]]
    BY DEF Written
  <2>2. Snapshot(k) = Merge(Columns(plan[k].actual), Resolved(k))
    BY DEF Snapshot
  <2>3. \A f \in Plain : Merge(Columns(plan[k].actual), Resolved(k))[f] =
                           IF Resolved(k)[f] = Nil THEN plan[k].actual[f]
                                                   ELSE Resolved(k)[f]
    BY DEF Merge, Columns
  <2>4. \A f \in Plain : Written(k)[f] = IF Resolved(k)[f] = Nil THEN plan[k].actual[f]
                                                                ELSE Resolved(k)[f]
    BY <1>2, <2>1, <2>2, <2>3, FieldsFacts
  <2>5. Written(k)["sub"] = plan[k].actual["sub"]
    BY <1>2, <2>1, FieldsFacts, ValuesAssumption DEF Plain
  <2>6. ~Unresolvable(k) /\ ~Gone(k)
    BY <1>4 DEF Broken
  <2>7. Written(k) # None
    BY <2>6, WrittenType, ValuesAssumption
  <2>8. live'[id] = Written(k)
    BY <1>2, <1>4 DEF PutOrPatch, Inv, TypeOK
  <2> QED BY <2>4, <2>5, <2>7, <2>8
<1> QED BY <1>3, <1>4

\* An updated resource has what was declared, and the snapshot says so.
LEMMA UpdateLands ==
  ASSUME Inv, Progress, AsWanted, RefersAsPlanned, FoundAsPlanned,
         NEW k \in Keys, Update(k)
  PROVE  /\ Landed(live', mem', k)
         /\ plan[k].changes["sub"] = Nil => SubLanded(live', mem', k)
<1> DEFINE id == plan[k].id
<1>1. /\ Wrote(k, id) /\ plan[k].action = "update" /\ ~Waits(k) /\ ~Broken(k)
      /\ PutOrPatch(k) /\ UNCHANGED nextId
  BY UpdateWrote
<1>2. /\ k \in Writes(plan) \cap remaining /\ pc = "run" /\ id \in Ids
      /\ mem'[k] # None /\ mem'[k].id = id
      /\ mem'[k].fields = Merge(Columns(plan[k].actual), Resolved(k))
  BY <1>1 DEF Wrote, Writes, Snapshot
<1>3. /\ live'[id] # None
      /\ \A f \in Plain : live'[id][f] = IF Resolved(k)[f] = Nil
                                         THEN plan[k].actual[f] ELSE Resolved(k)[f]
      /\ live'[id]["sub"] = plan[k].actual["sub"]
  BY <1>1, <1>2, UpdateLeaves
<1>4. \A f \in Plain : mem'[k].fields[f] = live'[id][f]
  BY <1>2, <1>3 DEF Merge, Columns
<1>5. \A f \in Attrs \cup {"sub"} :
        /\ f \in Fields \ {"ref"}
        /\ WantOf(k)[f] # Nil =>
             \/ plan[k].changes[f] = WantOf(k)[f]
             \/ plan[k].changes[f] = Nil /\ plan[k].actual[f] = WantOf(k)[f]
  BY <1>2, FieldsFacts, ValuesAssumption DEF AsWanted
<1>6. \A f \in Attrs : WantOf(k)[f] # Nil => WantOf(k)[f] = live'[id][f]
  <2>1. \A f \in Attrs : Resolved(k)[f] = plan[k].changes[f]
    BY <1>2, <1>5, ResolvedFields
  <2> QED BY <1>3, <1>5, <2>1 DEF Plain
<1>7. ASSUME RefOf(config, k) # Nil, ~RefersToRecreated(k)
      PROVE  LET t == RefOf(config, k) IN
             mem'[t] # None /\ live'[id]["ref"] = mem'[t].id
  <2> DEFINE t == RefOf(config, k)
  <2>1. /\ t \in Keys /\ t # k /\ mem[t] # None /\ mem[t].id \in Ids
        /\ \/ Resolved(k)["ref"] = mem[t].id
           \/ Resolved(k)["ref"] = Nil /\ plan[k].actual["ref"] = mem[t].id
    BY <1>1, <1>2, <1>7, RefLands
  <2>2. mem'[t] = mem[t]
    BY <1>1, <2>1 DEF Wrote
  <2>3. mem[t].id # Nil
    BY <2>1, ValuesAssumption
  <2> QED BY <1>3, <2>1, <2>2, <2>3, FieldsFacts
<1>8. Landed(live', mem', k)
  BY <1>2, <1>3, <1>4, <1>6, <1>7 DEF Landed
<1>9. plan[k].changes["sub"] = Nil => SubLanded(live', mem', k)
  BY <1>2, <1>3, <1>5 DEF SubLanded
<1> QED BY <1>8, <1>9

\* The items written before stay as they are while another is written.
LEMMA WriteKeepsLanded ==
  ASSUME Inv, Progress, AsWanted, LandedInMem, NEW k \in Keys, Create(k) \/ Update(k),
         NEW j \in Writes(plan) \ remaining
  PROVE  /\ Landed(live', mem', j) /\ SubLanded(live', mem', j)
         /\ Landed(live', disk', j) /\ SubLanded(live', disk', j)
<1>1. PICK id \in Ids : Wrote(k, id)
  BY CreateWrote, UpdateWrote DEF Wrote
<1>2. j \in Keys \ {k} /\ Landed(live, mem, j) /\ SubLanded(live, mem, j)
  <2>1. j # k /\ ~SubToDo(j)
    BY <1>1 DEF Wrote, SubToDo
  <2> QED BY <2>1, WrittenItems DEF LandedInMem
<1>3. mem[j] # None /\ mem[j].id \in Ids \ {id} /\ live[mem[j].id] # None
  BY <1>1, <1>2 DEF Wrote, Landed
<1>4. mem'[j] = mem[j] /\ live'[mem[j].id] = live[mem[j].id] /\ disk' = mem
  BY <1>1, <1>2, <1>3 DEF Wrote
<1>5. ASSUME RefOf(config, j) # Nil, ~RefersToRecreated(j), mem[RefOf(config, j)] # None
      PROVE  /\ mem'[RefOf(config, j)] # None
             /\ mem'[RefOf(config, j)].id = mem[RefOf(config, j)].id
  <2>1. RefOf(config, j) \in Keys
    BY <1>5, WrittenItems
  <2> QED BY <1>5, <2>1, KeepsIdentity DEF Progress, RefersToRecreated
<1>6. Landed(live', mem', j)
  BY <1>2, <1>3, <1>4, <1>5, LandedKept
<1>7. Landed(live', disk', j)
  BY <1>2, <1>3, <1>4, LandedKept
<1>8. SubLanded(live', mem', j) /\ SubLanded(live', disk', j)
  BY <1>2, <1>4 DEF SubLanded
<1> QED BY <1>6, <1>7, <1>8

\* A write of an item.
LEMMA WriteHistory ==
  ASSUME Inv, Progress, History, NEW k \in Keys, Create(k) \/ Update(k)
  PROVE  History'
<1>1. PICK id \in Ids : Wrote(k, id)
  BY CreateWrote, UpdateWrote DEF Wrote
<1>2. /\ UNCHANGED <<config, plan, quiet>> /\ pc = "run" /\ k \in remaining
      /\ remaining' = remaining \ {k} /\ cur' = k /\ pc' = "save1"
  BY <1>1 DEF Wrote
<1> SUFFICES ASSUME quiet PROVE History'
  BY <1>2 DEF History
<1>3. AsWanted /\ RefersAsPlanned /\ FoundAsPlanned /\ LandedInMem
  BY <1>2 DEF History
<1>4. AsWanted'
  BY <1>2, <1>3 DEF AsWanted, Writes, Planned, WantOf
<1>5. LandedOnDisk'
  <2> SUFFICES ASSUME NEW j \in Writes(plan) \ (remaining' \cup {cur'})
               PROVE  Landed(live', disk', j) /\ SubLanded(live', disk', j)
    BY <1>2, LandedPrimed DEF LandedOnDisk
  <2> QED BY <1>2, <1>3, WriteKeepsLanded
<1>6. RefersAsPlanned'
  <2> SUFFICES ASSUME NEW j \in Writes(plan) \cap remaining',
                      RefOf(config, j) # Nil, ~RefersToRecreated(j)
               PROVE  LET t == RefOf(config, j) IN
                      \/ plan[j].changes["ref"] = Pending
                      \/ mem'[t] # None /\ plan[j].changes["ref"] = mem'[t].id
                      \/ /\ plan[j].changes["ref"] = Nil /\ plan[j].action = "update"
                         /\ mem'[t] # None /\ plan[j].actual["ref"] = mem'[t].id
    BY <1>2, LandedPrimed DEF RefersAsPlanned
  <2> DEFINE t == RefOf(config, j)
  <2>1. t \in Keys
    BY <1>3, WrittenItems
  <2>2. mem[t] # None => mem'[t] # None /\ mem'[t].id = mem[t].id
    BY <2>1, KeepsIdentity DEF Progress, RefersToRecreated
  <2>3. \/ plan[j].changes["ref"] = Pending
        \/ mem[t] # None /\ plan[j].changes["ref"] = mem[t].id
        \/ /\ plan[j].changes["ref"] = Nil /\ plan[j].action = "update"
           /\ mem[t] # None /\ plan[j].actual["ref"] = mem[t].id
    BY <1>2, <1>3 DEF RefersAsPlanned
  <2> QED BY <2>2, <2>3
<1>7. FoundAsPlanned'
  <2> SUFFICES ASSUME NEW j \in remaining \ {k}, plan[j].action = "update"
               PROVE  live'[plan[j].id] = plan[j].actual
    BY <1>2 DEF FoundAsPlanned
  <2>1. j \in Keys /\ mem[j] # None /\ mem[j].id = plan[j].id
    BY <1>2 DEF Inv, TypeOK, InProgress
  <2>2. plan[j].id \in Ids \ {id}
    BY <1>1, <2>1 DEF Wrote
  <2> QED BY <1>1, <1>3, <2>2 DEF Wrote, FoundAsPlanned
<1>8. LandedInMem'
  <2> SUFFICES ASSUME NEW j \in Writes(plan) \ remaining'
               PROVE  /\ Landed(live', mem', j)
                      /\ ~SubToDo(j)' => SubLanded(live', mem', j)
    BY <1>2, LandedPrimed DEF LandedInMem
  <2>1. CASE j = k
    <3>1. /\ Landed(live', mem', k)
          /\ plan[k].changes["sub"] = Nil => SubLanded(live', mem', k)
      BY <1>3, CreateLands, UpdateLands
    <3>2. SubToDo(k)' <=> plan[k].changes["sub"] # Nil
      BY <1>2 DEF SubToDo
    <3> QED BY <2>1, <3>1, <3>2
  <2>2. CASE j # k
    BY <1>2, <1>3, <2>2, WriteKeepsLanded
  <2> QED BY <2>1, <2>2
<1> QED BY <1>4, <1>5, <1>6, <1>7, <1>8 DEF History

\* A fresh plan knows what it read.
LEMMA PreparedHistory ==
  ASSUME Inv, Prepare
  PROVE  History'
<1>1. /\ mem' = disk /\ plan' = [k \in Keys |-> PlanItem(config, k)]
      /\ remaining' = Planned(plan') /\ pc' = "planned"
      /\ UNCHANGED <<config, live, disk>>
  BY DEF Prepare, envVars
<1>2. Writes(plan') \subseteq remaining'
  BY <1>1 DEF Writes
<1>3. LandedOnDisk' /\ LandedInMem'
  BY <1>2 DEF LandedOnDisk, LandedInMem
<1>4. ASSUME NEW k \in Writes(plan')
      PROVE  /\ k \in Keys /\ plan'[k] = PlanItem(config, k)
             /\ config[k] # None /\ config \in Configs /\ config[k] \in Decl
             /\ plan'[k].actual = Actual(k)
             /\ Actual(k) = None => /\ plan'[k].action = "create"
                                    /\ plan'[k].changes = Desired(config, k)
             /\ Actual(k) # None =>
                  /\ plan'[k].action = "update"
                  /\ plan'[k].changes = Diff(Desired(config, k), Actual(k))
                  /\ plan'[k].id = disk[k].id /\ disk[k] # None
             /\ plan'[k].action = "create" => Actual(k) = None
  <2>1. /\ k \in Keys /\ plan'[k] = PlanItem(config, k) /\ PlanItem(config, k) # None
        /\ plan'[k].action \in {"create", "update"}
    BY <1>1 DEF Writes, Planned
  <2>2. config[k] # None /\ config \in Configs
    BY <2>1, PlanItemIs DEF Inv, TypeOK
  <2>3. config[k] \in Decl
    BY <2>1, <2>2, ConfigsAssumption
  <2>4. /\ plan'[k].actual = Actual(k)
        /\ Actual(k) = None => /\ plan'[k].action = "create"
                               /\ plan'[k].changes = Desired(config, k)
        /\ Actual(k) # None =>
             /\ plan'[k].action = "update"
             /\ plan'[k].changes = Diff(Desired(config, k), Actual(k))
    BY <2>1, <2>2, PlanItemIs
  <2>5. plan'[k].action = "update" => plan'[k].id = disk[k].id /\ disk[k] # None
    BY <2>1, PlanItemFits DEF Inv
  <2> QED BY <2>1, <2>2, <2>3, <2>4, <2>5
<1>5. ASSUME NEW k \in Writes(plan')
      PROVE  /\ \A f \in Fields \ {"ref"} : Desired(config, k)[f] = WantOf(k)[f]
             /\ RefOf(config, k) # Nil =>
                  Desired(config, k)["ref"] = Resolve(RefOf(config, k))
  <2>1. config[k] # None /\ config[k] \in Decl
    BY <1>4
  <2> QED BY <2>1, FieldsFacts DEF Desired, Decl, WantOf, RefOf
<1>6. AsWanted'
  <2> SUFFICES ASSUME NEW k \in Writes(plan'), NEW f \in Fields \ {"ref"}
               PROVE  \/ plan'[k].changes[f] = WantOf(k)[f]
                      \/ /\ plan'[k].changes[f] = Nil
                         /\ \/ WantOf(k)[f] = Nil
                            \/ /\ plan'[k].action = "update"
                               /\ plan'[k].actual[f] = WantOf(k)[f]
    BY <1>1, <1>4 DEF AsWanted, WantOf
  <2>1. CASE Actual(k) = None
    BY <1>4, <1>5, <2>1
  <2>2. CASE Actual(k) # None
    <3>1. Diff(Desired(config, k), Actual(k))[f] =
            IF Desired(config, k)[f] # Actual(k)[f] THEN Desired(config, k)[f] ELSE Nil
      BY DEF Diff
    <3>2. plan'[k].changes[f] = Diff(Desired(config, k), Actual(k))[f]
          /\ plan'[k].actual = Actual(k) /\ plan'[k].action = "update"
      BY <1>4, <2>2
    <3>3. Desired(config, k)[f] = WantOf(k)[f]
      BY <1>5
    <3> QED BY <3>1, <3>2, <3>3
  <2> QED BY <2>1, <2>2
<1>7. RefersAsPlanned'
  <2> SUFFICES ASSUME NEW k \in Writes(plan'), RefOf(config, k) # Nil
               PROVE  LET t == RefOf(config, k) IN
                      \/ plan'[k].changes["ref"] = Pending
                      \/ disk[t] # None /\ plan'[k].changes["ref"] = disk[t].id
                      \/ /\ plan'[k].changes["ref"] = Nil /\ plan'[k].action = "update"
                         /\ disk[t] # None /\ plan'[k].actual["ref"] = disk[t].id
    BY <1>1 DEF RefersAsPlanned, RefOf
  <2> DEFINE t == RefOf(config, k)
  <2>1. Desired(config, k)["ref"] = Resolve(t)
    BY <1>5
  <2>2. CASE Actual(k) = None
    BY <1>4, <2>1, <2>2 DEF Resolve
  <2>3. CASE Actual(k) # None
    <3>1. plan'[k].changes["ref"] =
            IF Resolve(t) # Actual(k)["ref"] THEN Resolve(t) ELSE Nil
      <4>1. plan'[k].changes = Diff(Desired(config, k), Actual(k))
        BY <1>4, <2>3
      <4>2. Diff(Desired(config, k), Actual(k))["ref"] =
              IF Desired(config, k)["ref"] # Actual(k)["ref"]
              THEN Desired(config, k)["ref"] ELSE Nil
        BY FieldsFacts DEF Diff
      <4> QED BY <2>1, <4>1, <4>2
    <3>2. Actual(k)["ref"] # Pending
      <4>1. Actual(k) \in Res
        BY <1>4, <2>3, EntryOf DEF Actual, Inv, TypeOK, States
      <4> QED BY <4>1, FieldsFacts, ValuesAssumption DEF Res
    <3> QED BY <1>4, <2>3, <3>1, <3>2 DEF Resolve
  <2> QED BY <2>2, <2>3
<1>8. FoundAsPlanned'
  <2> SUFFICES ASSUME NEW k \in remaining', plan'[k].action = "update"
               PROVE  live[plan'[k].id] = plan'[k].actual
    BY <1>1 DEF FoundAsPlanned
  <2>1. k \in Writes(plan')
    BY <1>1 DEF Writes
  <2>2. Actual(k) # None
    BY <1>4, <2>1
  <2> QED BY <1>4, <2>1, <2>2 DEF Actual
<1> QED BY <1>3, <1>6, <1>7, <1>8 DEF History

\* A fault spares the resources of the items that are done.
LEMMA FaultSpares ==
  ASSUME Inv, Faulty, NEW j \in Keys \ (remaining \cup {cur}), disk[j] # None
  PROVE  live'[disk[j].id] = live[disk[j].id]
<1>1. disk[j].id \in Ids /\ disk[j].id \in BoundIds(disk) /\ j \in Managed(disk)
  BY EntryOf DEF Inv, TypeOK, States, BoundIds, Managed
<1>2. ASSUME NEW k \in Keys, CreateLost(k)
      PROVE  live'[disk[j].id] = live[disk[j].id]
  <2>1. pc = "run" /\ k \in remaining /\ ~Unresolvable(k) /\ Post(k)
    BY <1>2 DEF CreateLost, At, Ready
  <2>2. live' = [live EXCEPT ![nextId] = NewRes(k)] /\ live \in Live
    BY <2>1 DEF Post, Inv, TypeOK, Live
  <2>3. disk[j].id # nextId
    <3>1. disk[j].id < nextId /\ nextId \in Nat
      BY <1>1, WorldNow DEF Inv, Fresh
    <3> QED BY <3>1
  <2> QED BY <1>1, <2>2, <2>3 DEF Live
<1>3. ASSUME NEW k \in Keys, UpdateLost(k)
      PROVE  live'[disk[j].id] = live[disk[j].id]
  <2>1. /\ pc = "run" /\ k \in remaining /\ plan[k].action = "update" /\ ~Broken(k)
        /\ PutOrPatch(k) /\ UNCHANGED nextId
    BY <1>3 DEF UpdateLost, At, Ready
  <2>2. disk[k] # None /\ disk[k].id = plan[k].id /\ k \in Managed(disk)
    BY <2>1 DEF Inv, LagsByOneItem, InProgress, Managed
  <2>3. disk[j].id # plan[k].id
    BY <1>1, <2>1, <2>2 DEF Inv, SoundState, OneKeyPerResource
  <2> QED BY <1>1, <2>1, <2>3, PutFits
<1>4. CASE SyntheticFails
  <2>1. pc = "syn" /\ disk = mem /\ UNCHANGED nextId
    BY <1>4 DEF SyntheticFails, Inv, LagsByOneItem
  <2>2. cur \in Managed(disk) /\ SubId = disk[cur].id
    BY <2>1 DEF Inv, CurrentBound, Managed, SubId
  <2>3. disk[j].id # SubId
    BY <1>1, <2>2 DEF Inv, SoundState, OneKeyPerResource
  <2>4. SubWrite => live'[disk[j].id] = live[disk[j].id]
    BY <1>1, <2>1, <2>3, SubFits
  <2> QED BY <1>4, <2>4 DEF SyntheticFails
<1>5. CASE SaveFails \/ Crash \/ \E k \in Keys : WriteRejected(k)
  BY <1>5 DEF SaveFails, Crash, WriteRejected
<1> QED BY <1>2, <1>3, <1>4, <1>5 DEF Faulty

\* However an operation ends, what it completed and saved stays as it is.
LEMMA EndHistory ==
  ASSUME Inv, History, NEW how, End(how), UNCHANGED <<config, disk, plan, quiet>>,
         \A j \in Keys \ (remaining \cup {cur}) :
           disk[j] # None => live'[disk[j].id] = live[disk[j].id]
  PROVE  History'
<1>1. pc' = "idle" /\ UNCHANGED <<remaining, cur>>
  BY DEF End
<1> SUFFICES ASSUME quiet PROVE AsWanted' /\ LandedOnDisk'
  BY <1>1 DEF History
<1>2. AsWanted /\ LandedOnDisk
  BY DEF History
<1>3. AsWanted'
  BY <1>2 DEF AsWanted, Writes, Planned, WantOf
<1>4. LandedOnDisk'
  <2> SUFFICES ASSUME NEW j \in Writes(plan) \ (remaining \cup {cur})
               PROVE  Landed(live', disk', j) /\ SubLanded(live', disk', j)
    BY <1>1, LandedPrimed DEF LandedOnDisk
  <2>1. j \in Keys /\ Landed(live, disk, j) /\ SubLanded(live, disk, j)
    BY <1>2, WrittenItems DEF LandedOnDisk
  <2>2. disk[j] # None /\ live[disk[j].id] # None
    BY <2>1 DEF Landed
  <2>3. live'[disk[j].id] = live[disk[j].id]
    BY <2>1, <2>2
  <2>4. Landed(live', disk, j)
    BY <2>1, <2>2, <2>3, LandedKept
  <2>5. SubLanded(live', disk, j)
    BY <2>1, <2>3 DEF SubLanded
  <2> QED BY <2>4, <2>5
<1> QED BY <1>3, <1>4

\* An item that is not written.
LEMMA UnwrittenHistory ==
  ASSUME Inv, History, NEW k \in Keys, Skip(k) \/ Mirror(k)
  PROVE  History'
<1>1. /\ pc = "run" /\ k \in remaining /\ plan[k].action \in {"noop", "delete"}
      /\ disk = mem /\ mem \in States
      /\ remaining' = remaining \ {k} /\ UNCHANGED <<config, live, disk, plan, quiet>>
      /\ \A j \in Keys : mem[j] # None => /\ mem'[j] # None /\ mem'[j].id = mem[j].id
                                          /\ mem'[j].fields = mem[j].fields
      /\ pc' \in {"run", "save2"}
  BY SkipKeeps, MirrorKeeps DEF Inv, TypeOK, States
<1> SUFFICES ASSUME quiet PROVE History'
  BY <1>1 DEF History
<1>2. AsWanted /\ RefersAsPlanned /\ FoundAsPlanned /\ LandedInMem
  BY <1>1 DEF History
<1>3. k \notin Writes(plan)
  BY <1>1 DEF Writes
<1>4. ASSUME NEW j \in Writes(plan) \ remaining'
      PROVE  /\ j \in Keys /\ Landed(live, mem, j) /\ SubLanded(live, mem, j)
  <2>1. j \in Writes(plan) \ remaining /\ ~SubToDo(j)
    BY <1>1, <1>3 DEF SubToDo
  <2> QED BY <1>2, <2>1, WrittenItems DEF LandedInMem
<1>5. AsWanted'
  BY <1>1, <1>2 DEF AsWanted, Writes, Planned, WantOf
<1>6. LandedOnDisk'
  <2> SUFFICES ASSUME NEW j \in Writes(plan) \ (remaining' \cup {cur'})
               PROVE  Landed(live', disk', j) /\ SubLanded(live', disk', j)
    BY <1>1, LandedPrimed DEF LandedOnDisk
  <2> QED BY <1>1, <1>4
<1>7. LandedInMem'
  <2> SUFFICES ASSUME NEW j \in Writes(plan) \ remaining'
               PROVE  Landed(live', mem', j) /\ SubLanded(live', mem', j)
    BY <1>1, LandedPrimed DEF LandedInMem
  <2>1. j \in Keys /\ Landed(live, mem, j) /\ SubLanded(live, mem, j)
    BY <1>4
  <2>2. mem[j] # None /\ live[mem[j].id] # None
    BY <2>1 DEF Landed
  <2>3. mem'[j] # None /\ mem'[j].id = mem[j].id /\ mem'[j].fields = mem[j].fields
    BY <1>1, <2>1, <2>2
  <2>4. RefOf(config, j) # Nil => RefOf(config, j) \in Keys
    BY <1>2, WrittenItems
  <2>5. Landed(live, mem', j)
    BY <1>1, <2>1, <2>2, <2>3, <2>4, LandedKept
  <2>6. SubLanded(live, mem', j)
    BY <2>1, <2>3 DEF SubLanded
  <2> QED BY <1>1, <2>5, <2>6
<1>8. FoundAsPlanned'
  BY <1>1, <1>2 DEF FoundAsPlanned
<1>9. RefersAsPlanned'
  <2> SUFFICES ASSUME NEW j \in Writes(plan) \cap remaining',
                      RefOf(config, j) # Nil, ~RefersToRecreated(j)
               PROVE  LET t == RefOf(config, j) IN
                      \/ plan[j].changes["ref"] = Pending
                      \/ mem'[t] # None /\ plan[j].changes["ref"] = mem'[t].id
                      \/ /\ plan[j].changes["ref"] = Nil /\ plan[j].action = "update"
                         /\ mem'[t] # None /\ plan[j].actual["ref"] = mem'[t].id
    BY <1>1, LandedPrimed DEF RefersAsPlanned
  <2> DEFINE t == RefOf(config, j)
  <2>1. t \in Keys
    BY <1>2, WrittenItems
  <2>2. \/ plan[j].changes["ref"] = Pending
        \/ mem[t] # None /\ plan[j].changes["ref"] = mem[t].id
        \/ /\ plan[j].changes["ref"] = Nil /\ plan[j].action = "update"
           /\ mem[t] # None /\ plan[j].actual["ref"] = mem[t].id
    BY <1>1, <1>2 DEF RefersAsPlanned
  <2> QED BY <1>1, <2>1, <2>2
<1> QED BY <1>5, <1>6, <1>7, <1>8, <1>9 DEF History

\* The file catches up with the work.
LEMMA SaveHistory ==
  ASSUME Inv, History, Save("save1", "syn") \/ Save("save2", "run")
  PROVE  History'
<1>1. /\ disk' = mem
      /\ \/ pc = "save1" /\ pc' = "syn" /\ cur' = cur
         \/ pc = "save2" /\ pc' = "run" /\ cur' = Nil
      /\ UNCHANGED <<config, live, mem, plan, remaining, quiet>>
  BY SaveKeeps
<1> SUFFICES ASSUME quiet PROVE History'
  BY <1>1 DEF History
<1>2. AsWanted /\ RefersAsPlanned /\ FoundAsPlanned /\ LandedInMem
  BY <1>1 DEF History
<1>3. AsWanted' /\ FoundAsPlanned'
  BY <1>1, <1>2 DEF AsWanted, FoundAsPlanned, Writes, Planned, WantOf
<1>4. RefersAsPlanned'
  BY <1>1, <1>2 DEF RefersAsPlanned, Writes, Planned, RefOf, RefersToRecreated
<1>5. ASSUME NEW j \in Writes(plan) \ remaining, j # cur'
      PROVE  Landed(live, mem, j) /\ SubLanded(live, mem, j)
  BY <1>1, <1>2, <1>5 DEF LandedInMem, SubToDo
<1>6. LandedOnDisk'
  <2> SUFFICES ASSUME NEW j \in Writes(plan) \ (remaining' \cup {cur'})
               PROVE  Landed(live', disk', j) /\ SubLanded(live', disk', j)
    BY <1>1, LandedPrimed DEF LandedOnDisk
  <2> QED BY <1>1, <1>5
<1>7. LandedInMem'
  <2> SUFFICES ASSUME NEW j \in Writes(plan) \ remaining
               PROVE  /\ Landed(live', mem', j)
                      /\ ~SubToDo(j)' => SubLanded(live', mem', j)
    BY <1>1, LandedPrimed DEF LandedInMem
  <2>1. SubToDo(j) => SubToDo(j)'
    BY <1>1 DEF SubToDo
  <2> QED BY <1>1, <1>2, <2>1 DEF LandedInMem
<1> QED BY <1>3, <1>4, <1>6, <1>7 DEF History

\* The sub-resource of the item being written.
LEMMA SyntheticHistory ==
  ASSUME Inv, Progress, History, ApplySynthetic
  PROVE  History'
<1>1. /\ pc = "syn" /\ pc' = "save2" /\ disk = mem /\ SubWrite
      /\ (SubChanged => live[SubId] # None)
      /\ \A i \in Ids : live'[i] # live[i] =>
           i = SubId /\ live[i] # None /\ live'[i] # None
      /\ UNCHANGED <<config, disk, mem, plan, remaining, cur, quiet>>
  BY SyntheticKeeps
<1> SUFFICES ASSUME quiet PROVE History'
  BY <1>1 DEF History
<1>2. AsWanted /\ RefersAsPlanned /\ FoundAsPlanned /\ LandedInMem
  BY <1>1 DEF History
<1>3. /\ cur \in Keys /\ cur \notin remaining /\ mem[cur] # None
      /\ SubId = mem[cur].id /\ SubId \in Ids /\ live \in Live /\ mem \in States
  <2>1. cur \in Keys /\ cur \notin remaining /\ mem[cur] # None
    BY <1>1 DEF Inv, CurrentBound, Progress, CurrentDone
  <2>2. SubId = mem[cur].id /\ mem \in States /\ live \in Live
    BY DEF SubId, Inv, TypeOK, States, Live
  <2> QED BY <2>1, <2>2, EntryOf
<1>4. ASSUME NEW j \in Keys \ {cur}, mem[j] # None
      PROVE  live'[mem[j].id] = live[mem[j].id]
  <2>1. mem[j].id \in Ids /\ mem[j].id # SubId
    BY <1>3, <1>4, EntryOf DEF Inv, SoundState, OneKeyPerResource, Managed
  <2> QED BY <1>1, <2>1
<1>5. AsWanted'
  BY <1>1, <1>2 DEF AsWanted, Writes, Planned, WantOf
<1>6. RefersAsPlanned'
  BY <1>1, <1>2 DEF RefersAsPlanned, Writes, Planned, RefOf, RefersToRecreated
<1>7. FoundAsPlanned'
  <2> SUFFICES ASSUME NEW j \in remaining, plan[j].action = "update"
               PROVE  live'[plan[j].id] = plan[j].actual
    BY <1>1 DEF FoundAsPlanned
  <2>1. j \in Keys \ {cur} /\ mem[j] # None /\ mem[j].id = plan[j].id
    BY <1>1, <1>3 DEF Inv, TypeOK, InProgress
  <2> QED BY <1>2, <1>4, <2>1 DEF FoundAsPlanned
<1>8. ASSUME NEW j \in Writes(plan) \ remaining
      PROVE  Landed(live', mem, j) /\ SubLanded(live', mem, j)
  <2>1. /\ j \in Keys /\ Landed(live, mem, j) /\ (~SubToDo(j) => SubLanded(live, mem, j))
        /\ mem[j] # None /\ live[mem[j].id] # None
    BY <1>2, WrittenItems DEF LandedInMem, Landed
  <2>2. CASE j # cur
    <3>1. live'[mem[j].id] = live[mem[j].id] /\ SubLanded(live, mem, j)
      BY <1>4, <2>1, <2>2 DEF SubToDo
    <3> QED BY <2>1, <3>1, LandedKept DEF SubLanded
  <2>3. CASE j = cur /\ SubChanged
    <3>1. live' = [live EXCEPT ![SubId] = [live[SubId] EXCEPT !["sub"] =
                                             plan[cur].changes["sub"]]]
      BY <1>1, <2>3 DEF SubWrite
    <3>2. live[SubId] \in Res
      BY <1>1, <1>3, <2>3 DEF Live
    <3>3. live'[SubId] = [live[SubId] EXCEPT !["sub"] = plan[cur].changes["sub"]]
      BY <1>3, <3>1 DEF Live
    <3>4. /\ \A f \in Plain : live'[SubId][f] = live[SubId][f]
          /\ live'[SubId]["sub"] = plan[cur].changes["sub"]
      BY <3>2, <3>3, FieldsFacts, ValuesAssumption DEF Res, Plain
    <3>5. live'[SubId] # None
      <4>1. live'[SubId] # live[SubId] => live'[SubId] # None
        BY <1>1, <1>3
      <4> QED BY <4>1, <1>1, <2>3
    <3>6. plan[cur].changes["sub"] = WantOf(cur)["sub"]
      BY <1>2, <2>3, FieldsFacts DEF AsWanted, SubChanged
    <3>7. Landed(live', mem, j)
      BY <1>3, <2>1, <2>3, <3>4, <3>5, LandedKept
    <3> QED BY <1>3, <2>3, <3>4, <3>6, <3>7 DEF SubLanded
  <2>4. CASE j = cur /\ ~SubChanged
    <3>1. live' = live /\ ~SubToDo(j)
      BY <1>1, <2>4 DEF SubWrite, SubChanged, SubToDo
    <3> QED BY <2>1, <3>1
  <2> QED BY <2>2, <2>3, <2>4
<1>9. LandedOnDisk' /\ LandedInMem'
  BY <1>1, <1>8, LandedPrimed DEF LandedOnDisk, LandedInMem
<1> QED BY <1>5, <1>6, <1>7, <1>9 DEF History

LEMMA InitHistory == Init => History
BY DEF Init, History

LEMMA HistoryStep == Inv /\ Progress /\ History /\ [Next]_vars => History'
<1> SUFFICES ASSUME Inv, Progress, History, [Next]_vars PROVE History'
  OBVIOUS
<1>1. CASE UNCHANGED vars
  BY <1>1 DEF vars, History, AsWanted, RefersAsPlanned, FoundAsPlanned, LandedOnDisk,
              LandedInMem, Landed, SubLanded, SubToDo, Writes, Planned, WantOf,
              RefersToRecreated, RefOf
<1>2. CASE (\E c \in Configs : EditConfig(c)) \/ Ui
  BY <1>2, UiKeeps DEF EditConfig, History
<1>3. CASE Prepare
  BY <1>3, PreparedHistory
<1>4. CASE Execute
  <2>1. /\ pc = "planned" /\ pc' = "run"
        /\ UNCHANGED <<config, live, disk, mem, plan, remaining, cur, quiet>>
    BY <1>4 DEF Execute, envVars
  <2>2. \A k : ~SubToDo(k) /\ ~SubToDo(k)'
    BY <2>1 DEF SubToDo
  <2> QED BY <2>1, <2>2, LandedPrimed
          DEF History, AsWanted, RefersAsPlanned, FoundAsPlanned, LandedOnDisk, LandedInMem
<1>5. CASE \/ Abandon \/ ExecuteEmpty \/ SyntheticGone \/ Finish
           \/ \E k \in Keys : ItemError(k)
  BY <1>5, EndsClean, EndHistory
<1>6. CASE Faulty
  BY <1>6, EndsFaulty, FaultSpares, EndHistory
<1> QED BY <1>1, <1>2, <1>3, <1>4, <1>5, <1>6, WriteHistory, UnwrittenHistory,
           SaveHistory, SyntheticHistory
        DEF Next, Operator, Work, ItemStep

\* The file's record of what is done and saved.
LEMMA DoneLanded ==
  ASSUME Inv, History, quiet, NEW k \in Done \cap Writes(plan)
  PROVE  /\ k \in Keys /\ pc = "idle" /\ config[k] # None
         /\ Landed(live, disk, k) /\ SubLanded(live, disk, k)
BY WrittenItems DEF Done, History, LandedOnDisk

LEMMA HistorySnapshot == Inv /\ History => SnapshotIsExact
BY DoneLanded DEF SnapshotIsExact, Landed

LEMMA HistoryNoop == Inv /\ History => CompletedWorkIsNoop
<1> SUFFICES ASSUME Inv, History, quiet, NEW k \in Done \cap Writes(plan),
                    ~RefersToRecreated(k)
             PROVE  PlanItem(config, k).action = "noop"
  BY DEF CompletedWorkIsNoop
<1>1. /\ k \in Keys /\ config[k] # None /\ Landed(live, disk, k)
      /\ SubLanded(live, disk, k)
  BY DoneLanded
<1>2. disk[k] # None /\ Actual(k) = live[disk[k].id] /\ Actual(k) # None
  BY <1>1 DEF Actual, Landed
<1>3. config[k] \in Decl
  BY <1>1, ConfigsAssumption DEF Inv, TypeOK
<1>4. /\ \A f \in Attrs \cup {"sub"} : Desired(config, k)[f] = WantOf(k)[f]
      /\ Desired(config, k)["ref"] = IF RefOf(config, k) = Nil THEN Nil
                                     ELSE Resolve(RefOf(config, k))
  BY <1>1, <1>3, FieldsFacts, ValuesAssumption DEF Desired, Decl, WantOf, RefOf
<1>5. ASSUME NEW f \in Fields
      PROVE  Desired(config, k)[f] = Nil \/ Desired(config, k)[f] = Actual(k)[f]
  <2>1. CASE f \in Attrs
    BY <1>1, <1>2, <1>4, <2>1 DEF Landed
  <2>2. CASE f = "sub"
    BY <1>1, <1>2, <1>4, <2>2 DEF SubLanded
  <2>3. CASE f = "ref"
    BY <1>1, <1>2, <1>4, <2>3 DEF Landed, Resolve
  <2> QED BY <2>1, <2>2, <2>3, FieldsFacts
<1>6. Diff(Desired(config, k), Actual(k)) = NoChange
  BY <1>5 DEF Diff, NoChange
<1> QED BY <1>1, <1>2, <1>6, PlanItemIs

Held == Inv /\ Progress /\ OrphansNeedFaults /\ History

LEMMA HeldAlways == Spec => []Held
<1>1. Init => Held
  BY InitInv, InitProgress, InitOrphans, InitHistory DEF Held
<1>2. Held /\ [Next]_vars => Held'
  BY InvStep, ProgressStep, OrphansStep, HistoryStep DEF Held
<1> QED BY <1>1, <1>2, PTL DEF Spec

\* An item whose turn has come finds the id it refers to, whatever the order of
\* the items, whatever was recreated and wherever earlier runs stopped: the
\* injected edges suffice (build.ts, pendingIdFromState).
THEOREM PendingAlwaysResolves == Spec => []PendingResolves
<1>1. Held => PendingResolves
  BY ProgressResolves DEF Held
<1> QED BY <1>1, HeldAlways, PTL

\* Unmanaged resources are counted by faults: a re-run, however often it is
\* repeated, makes no duplicate of its own (execute.ts:235).
THEOREM DuplicatesNeedFaults == Spec => []OrphansNeedFaults
<1>1. Held => OrphansNeedFaults
  BY DEF Held
<1> QED BY <1>1, HeldAlways, PTL

\* The snapshot saved with a write is what ChurchTools holds, PUT or PATCH,
\* created or updated (execute.ts:253).
THEOREM SnapshotAlwaysExact == Spec => []SnapshotIsExact
<1>1. Held => SnapshotIsExact
  BY HistorySnapshot DEF Held
<1> QED BY <1>1, HeldAlways, PTL

\* What a run completed, however it ended, the next plan reports as a no-op: a
\* re-run continues (execute.ts:4).
THEOREM ReRunContinues == Spec => []CompletedWorkIsNoop
<1>1. Held => CompletedWorkIsNoop
  BY HistoryNoop DEF Held
<1> QED BY <1>1, HeldAlways, PTL
=============================================================================
