--------------------------- MODULE GroupItem_proofs ---------------------------
(***************************************************************************)
(* One group through plan and apply, for any declarations, roles, members, *)
(* fields, edits and faults: the types, no member field created twice, the *)
(* ruleset names the field it was declared with, and a migration moves     *)
(* nobody by a guess.                                                      *)
(***************************************************************************)
EXTENDS GroupItem, FiniteSetTheorems, TLAPS

\* What the entry in memory is while an item is at work: nothing before a
\* creation, and nothing at all for a ruleset-only item, which needs none.
MemKnown ==
  pc # "idle" =>
    \/ mem \in Entry
    \/ item.kind = "create" /\ pc \in {"planned", "create"}
    \/ item.kind = "ruleset" /\ todo.fields = {} /\ \A r \in todo.puts : r.field \notin Fields

\* Where the configuration wants the holders of a role of the old type.
Declares(r, name) ==
  name = IF NameOf[r] \in DOMAIN config.roleMapping THEN config.roleMapping[NameOf[r]]
         ELSE NameOf[r]

\* A migration knows everybody it was planned with, and where they belong.
Migration ==
  /\ pc = "migrate" => item.mapping # None
  /\ pc \in {"planned", "migrate"} /\ item.mapping # None =>
       /\ \A r \in DOMAIN item.mapping : item.mapping[r] \in Roles
       /\ \A m \in Members : noted[m] \in Roles =>
            noted[m] \in DOMAIN item.mapping /\ Declares(noted[m], NameOf[item.mapping[noted[m]]])

\* What an item at work goes by.
AtWork ==
  /\ pc = "idle" => read = None
  /\ pc # "idle" => Accepted(config) /\ todo.fields \subseteq Declared
  /\ pc = "create" => item.kind = "create"
  /\ item.kind = "create" => item.mapping = None
  /\ MemKnown /\ Migration

--------------------------------------------------------------------------------
(* Types.                                                                   *)

\* The roles a migration may move somebody to.
LEMMA TargetsAreRoles ==
  ASSUME TypeOK, NEW t \in Types, NEW r \in Roles
  PROVE  Targets(r, t) \subseteq Roles
  BY RolesAssumption DEF Targets, Named, RolesOf

\* One role in a set of one.
LEMMA OnlyOne ==
  ASSUME NEW S, Cardinality(S) = 1
  PROVE  (CHOOSE x \in S : TRUE) \in S
  <1>1. S # {}
    BY FS_EmptySet
  <1> QED BY <1>1

LEMMA InitTyped == Init => TypeOK /\ AtWork
  <1> SUFFICES ASSUME Init PROVE TypeOK /\ AtWork
    OBVIOUS
  <1> USE BoundsAssumption, ConfigsAssumption, RolesAssumption DEF Init
  <1>1. live \in Group \cup {None}
    BY DEF Group, Status
  <1>2. role \in [Members -> Roles \cup Unlisted \cup {None}]
    OBVIOUS
  <1>3. disk \in Entry \cup {None}
    BY <1>1 DEF Group, Entry, Blank
  <1>4. todo \in ToDo
    BY DEF Nothing, ToDo
  <1>5. AtWork
    BY DEF AtWork, MemKnown, Migration, NoItem
  <1> QED BY <1>1, <1>2, <1>3, <1>4, <1>5 DEF TypeOK

\* The reference of a ruleset: the id of a live row, or still the key.
LEMMA FieldRefTyped ==
  ASSUME TypeOK
  PROVE  FieldRef \in Ids \cup Fields \cup {None}
  <1>1. config.dynamic.field \in Fields \cup {None}
    BY ConfigsAssumption DEF TypeOK
  <1>2. CASE config.dynamic.field = None
    BY <1>2 DEF FieldRef
  <1>3. ASSUME config.dynamic.field # None PROVE FieldRef \in Ids \cup Fields
    <2> DEFINE f == config.dynamic.field
               found == IF Found /\ disk # None THEN Matches(OwnRows, f, disk.fields[f]) ELSE {}
    <2>1. \A r \in found : r.id \in Ids
      BY DEF Matches, OwnRows, TypeOK, Group, Row, Found
    <2>2. FieldRef = IF found = {} THEN f ELSE (CHOOSE r \in found : TRUE).id
      BY <1>3 DEF FieldRef
    <2> HIDE DEF found
    <2> QED BY <1>1, <1>3, <2>1, <2>2
  <1> QED BY <1>1, <1>2, <1>3

LEMMA PlanTyped ==
  ASSUME TypeOK, ~Rejected
  PROVE  Synthetic \in ToDo /\ Synthetic.fields \subseteq Declared
  <1>1. Nothing \in ToDo
    BY DEF Nothing, ToDo
  <1>2. DesiredDynamic.ruleset \in Planned \cup {None} /\ DesiredDynamic.status \in Status
    BY FieldRefTyped, ConfigsAssumption DEF DesiredDynamic, TypeOK, Planned, Status
  <1>3. {DesiredDynamic.ruleset} \ {ActualDynamic.ruleset, None} \subseteq Planned
    BY <1>2
  <1>4. DynamicSteps \in ToDo /\ DynamicSteps.fields = {}
    BY <1>1, <1>2, <1>3 DEF DynamicSteps, Nothing, ToDo
  <1>5. config.parents \ ActualParents \subseteq Parents
    BY DEF Rejected, Accepted, ParentsAccepted
  <1>6. ActualParents \ config.parents \subseteq Parents
    BY DEF ActualParents
  <1>7. FieldChanges \subseteq Declared /\ Declared \subseteq Fields
    BY DEF FieldChanges, Declared, FieldsOf
  <1>8. CASE config.only
    BY <1>4, <1>8 DEF Synthetic
  <1>9. CASE ~config.only
    <2>1. Synthetic = [DynamicSteps EXCEPT !.adds = config.parents \ ActualParents,
                                           !.removes = ActualParents \ config.parents,
                                           !.fields = FieldChanges]
      BY <1>9 DEF Synthetic
    <2>2. FieldChanges \subseteq Fields
      BY <1>7
    <2> HIDE DEF Declared
    <2> QED BY <1>4, <1>5, <1>6, <1>7, <2>1, <2>2 DEF ToDo
  <1> QED BY <1>8, <1>9

\* A planned item: what the plan knows of the entry.
LEMMA PrepareKeeps ==
  ASSUME TypeOK, AtWork, Prepare
  PROVE  TypeOK' /\ AtWork'
  <1>1. TypeOK'
    BY PlanTyped DEF Prepare, TypeOK
  <1>2. Accepted(config') /\ todo'.fields \subseteq Declared'
    BY PlanTyped DEF Prepare, Rejected, Declared
  <1>3. MemKnown'
    <2>1. item'.kind = Item.kind /\ mem' = disk /\ pc' = "planned" /\ todo' = Synthetic
      BY DEF Prepare
    <2>2. CASE config.only
      <3>1. Item.kind = "ruleset"
        BY <2>2 DEF Item
      <3>2. config.dynamic.field = None
        BY <2>2 DEF Prepare, Rejected, Accepted, OnlyAccepted, ReferenceAccepted
      <3>3. \A r \in DynamicSteps.puts : r.field \notin Fields
        BY <3>2, NamesAssumption DEF DynamicSteps, Nothing, DesiredDynamic, FieldRef
      <3>4. DynamicSteps.fields = {}
        BY DEF DynamicSteps, Nothing
      <3> QED BY <2>1, <2>2, <3>1, <3>3, <3>4 DEF MemKnown, Synthetic
    <2>3. CASE ~config.only /\ ~Found
      BY <2>1, <2>3 DEF MemKnown, Item
    <2>4. CASE ~config.only /\ Found
      BY <2>1, <2>4, NamesAssumption DEF MemKnown, Found, GroupId, TypeOK, Group
    <2> QED BY <2>2, <2>3, <2>4
  <1>4. item'.kind = "create" => item'.mapping = None
    BY DEF Prepare, Item
  <1>5. Migration'
    <2> SUFFICES ASSUME item'.mapping # None PROVE Migration'
      BY DEF Migration, Prepare
    <2>1. /\ item'.mapping = Mapping(config.type) /\ Migrates
          /\ config' = config /\ noted' = role
      BY DEF Prepare, Item
    <2>2. /\ Unmappable(config.type) = {} /\ Orphaned = {}
          /\ config.type \in Types /\ live.type \in Types
      BY <2>1, ConfigsAssumption DEF Prepare, Rejected, TypeOK, Migrates, Found, Group
    <2>3. \A r \in RolesOf(live.type) :
            Mapping(config.type)[r] \in Targets(r, config.type)
      BY <2>2, OnlyOne DEF Mapping, Unmappable
    <2>4. \A r \in RolesOf(live.type) : Mapping(config.type)[r] \in Roles
      BY <2>2, <2>3, TargetsAreRoles DEF RolesOf
    <2>5. ASSUME NEW m \in Members, role[m] \in Roles
          PROVE  /\ role[m] \in RolesOf(live.type)
                 /\ Declares(role[m], NameOf[Mapping(config.type)[role[m]]])
      <3>1. role[m] \in RolesOf(live.type)
        BY <2>2, <2>5, NamesAssumption DEF Orphaned
      <3>2. m \in Holders(role[m])
        BY DEF Holders
      <3>3. \A x \in Targets(role[m], config.type) : Declares(role[m], NameOf[x])
        BY <3>2 DEF Targets, Named, Declares
      <3> QED BY <2>3, <3>1, <3>3
    <2>6. DOMAIN Mapping(config.type) = RolesOf(live.type)
      BY DEF Mapping
    <2> QED BY <2>1, <2>4, <2>5, <2>6 DEF Migration, Declares, Prepare
  <1> QED BY <1>1, <1>2, <1>3, <1>4, <1>5 DEF Prepare, AtWork

\* A run that is over leaves nothing to go by.
LEMMA OverRests ==
  ASSUME TypeOK, Over, disk' = disk
  PROVE  AtWork' /\ mem' \in Entry \cup {None} /\ todo' \in ToDo /\ read' = None
  <1>1. pc' = "idle" /\ read' = None /\ item' = NoItem /\ todo' = Nothing /\ mem' = disk
    BY DEF Over
  <1>2. AtWork'
    BY <1>1 DEF AtWork, MemKnown, Migration, NoItem
  <1> QED BY <1>1, <1>2 DEF TypeOK, ToDo, Nothing

\* How a call ends: the run goes on with what it was told, or it is over.
LEMMA OnKeeps ==
  ASSUME TypeOK, AtWork, NEW next, NEW entry \in Entry \cup {None}, NEW left \in ToDo,
         NEW rows \in (SUBSET Row) \cup {None},
         On(next, entry, left, rows), config' = config, disk' = disk,
         next \in {"columns", "save1", "syn"},
         pc # "idle", left.fields \subseteq todo.fields, left.puts \subseteq todo.puts,
         mem \in Entry => entry \in Entry,
         pc = "create" => entry \in Entry, pc # "planned"
  PROVE  /\ mem' \in Entry \cup {None} /\ todo' \in ToDo
         /\ read' \in (SUBSET Row) \cup {None} /\ AtWork'
  <1>1. CASE Over
    BY <1>1, OverRests
  <1>2. CASE pc' = next /\ mem' = entry /\ todo' = left /\ read' = rows /\ UNCHANGED item
    <2>1. MemKnown'
      BY <1>2 DEF AtWork, MemKnown
    <2>2. Migration'
      BY <1>2 DEF Migration
    <2>3. Declared' = Declared /\ Accepted(config')
      BY DEF Declared, AtWork
    <2> QED BY <1>2, <2>1, <2>2, <2>3 DEF AtWork
  <1> QED BY <1>1, <1>2 DEF On

\* Every step of the run and around it keeps the types and what an item goes by.
LEMMA TypeStep == TypeOK /\ AtWork /\ [Next]_vars => TypeOK' /\ AtWork'
  <1> SUFFICES ASSUME TypeOK, AtWork, [Next]_vars PROVE TypeOK' /\ AtWork'
    OBVIOUS
  <1>1. CASE Prepare
    BY <1>1, PrepareKeeps
  <1>2. CASE Abandon \/ Finish \/ Fails \/ Crash
    <2>1. Over /\ UNCHANGED <<config, live, role, disk, mine, noted>>
      BY <1>2 DEF Abandon, Finish, Fails, Crash, idle
    <2> QED BY <2>1, OverRests DEF TypeOK
  <1>3. CASE Execute
    <2>1. pc' \in {"create", "syn", "migrate", "columns"} /\ (pc' = "create" => item.kind = "create")
          /\ (item.kind = "create" => pc' = "create")
      BY <1>3 DEF Execute, AtWork
    <2>2. TypeOK'
      BY <1>3 DEF Execute, idle, TypeOK
    <2>3. MemKnown'
      BY <1>3, <2>1 DEF Execute, AtWork, MemKnown
    <2>4. pc' = "migrate" => item.mapping # None
      BY <1>3 DEF Execute
    <2>5. Migration'
      BY <1>3, <2>4 DEF Execute, idle, AtWork, Migration, Declares
    <2>6. Declared' = Declared /\ Accepted(config')
      BY <1>3 DEF Execute, idle, Declared, AtWork
    <2> QED BY <1>3, <2>1, <2>2, <2>3, <2>5, <2>6 DEF Execute, AtWork
  <1>4. CASE Create
    <2>1. live' \in Group
      BY <1>4, ConfigsAssumption DEF Create, Group, TypeOK, idle, Status
    <2>2. NewEntry(nextId) \in Entry
      BY <1>4 DEF Create, NewEntry, Entry
    <2> QED BY <1>4, <2>1, <2>2, OnKeeps DEF Create, idle, TypeOK
  <1>5. CASE Migrate
    <2>1. live' \in Group
      BY <1>5, ConfigsAssumption DEF Migrate, Group, TypeOK, Alive
    <2>2. item.mapping # None
      BY <1>5 DEF Migrate, AtWork, Migration
    <2>3. role' \in [Members -> Roles \cup Unlisted \cup {None}]
      BY <1>5, <2>2 DEF Migrate, TypeOK, AtWork, Migration
    <2> QED BY <1>5, <2>1, <2>3, OnKeeps DEF Migrate, idle, TypeOK
  <1>6. CASE Columns
    <2>1. live' \in Group \cup {None}
      BY <1>6, ConfigsAssumption DEF Columns, Group, TypeOK, Alive
    <2> QED BY <1>6, <2>1, OnKeeps DEF Columns, idle, TypeOK
  <1>7. CASE Save("save1", "syn") \/ Save("save2", "done")
    BY <1>7 DEF Save, TypeOK, AtWork, MemKnown, Migration, Declared
  <1>8. ASSUME NEW p \in Parents, AddParent(p) PROVE TypeOK' /\ AtWork'
    <2>1. live' \in Group
      BY <1>8 DEF AddParent, Group, TypeOK, Alive
    <2>2. [todo EXCEPT !.adds = @ \ {p}] \in ToDo
      BY DEF TypeOK, ToDo
    <2> QED BY <1>8, <2>1, <2>2, OnKeeps DEF AddParent, idle, TypeOK, ToDo
  <1>9. ASSUME NEW p \in Parents, RemoveParent(p) PROVE TypeOK' /\ AtWork'
    <2>1. live' \in Group
      BY <1>9 DEF RemoveParent, Group, TypeOK, Alive
    <2>2. [todo EXCEPT !.removes = @ \ {p}] \in ToDo
      BY DEF TypeOK, ToDo
    <2> QED BY <1>9, <2>1, <2>2, OnKeeps DEF RemoveParent, idle, TypeOK, ToDo
  <1>10. ASSUME NEW f \in Fields, PatchField(f) PROVE TypeOK' /\ AtWork'
    <2>1. Declared \subseteq Fields /\ f \in todo.fields /\ mem \in Entry /\ pc = "syn"
      BY <1>10 DEF PatchField, FieldsTurn, AtWork, MemKnown, Declared, FieldsOf
    <2>2. PICK r \in live.rows :
            /\ live' = [live EXCEPT !.rows = (@ \ {r}) \cup {[r EXCEPT !.props = Merged(f, @)]}]
            /\ On(pc, [mem EXCEPT !.fields[f] = r.id], Written(f), Rows)
      BY <1>10 DEF PatchField
    <2>3. live \in Group /\ r \in Row
      BY <1>10 DEF PatchField, FieldsTurn, Alive, TypeOK, Group
    <2>4. f \in Declared
      BY <2>1, <1>10 DEF AtWork
    <2>5. Merged(f, r.props) \in Values
      BY <2>3, <2>4, ConfigsAssumption DEF Merged, Row, TypeOK, Declared, FieldsOf
    <2>6. live' \in Group
      BY <2>2, <2>3, <2>5 DEF Group, Row
    <2>7. [mem EXCEPT !.fields[f] = r.id] \in Entry
      BY <2>1, <2>3 DEF Entry, Row
    <2>8. Written(f) \in ToDo /\ Written(f).fields \subseteq todo.fields /\ Written(f).puts = todo.puts
      BY DEF Written, TypeOK, ToDo
    <2>9. Rows \in (SUBSET Row) \cup {None}
      BY <2>3 DEF Rows, OwnRows, TypeOK, Group
    <2> QED BY <1>10, <2>1, <2>2, <2>6, <2>7, <2>8, <2>9, OnKeeps DEF PatchField, idle, TypeOK
  <1>11. ASSUME NEW f \in Fields, PostField(f) PROVE TypeOK' /\ AtWork'
    <2>1. f \in todo.fields /\ mem \in Entry /\ pc = "syn" /\ f \in Declared
      BY <1>11 DEF PostField, FieldsTurn, AtWork, MemKnown
    <2>2. live \in Group /\ nextId \in Ids
      BY <1>11 DEF PostField, FieldsTurn, Alive, TypeOK
    <2>3. config.fields[f] \in [ref : References, props : Values \cup {None}]
      BY <2>1, ConfigsAssumption DEF TypeOK, Declared, FieldsOf
    <2>4. Merged(f, ServerProps) \in Values /\ config.fields[f].ref \in References /\ f \in Names
      BY <2>3, BoundsAssumption, NamesAssumption DEF Merged
    <2> DEFINE row == [id |-> nextId, ref |-> config.fields[f].ref, name |-> f, own |-> TRUE,
                       props |-> Merged(f, ServerProps)]
    <2>10. row \in Row
      BY <2>2, <2>4 DEF Row
    <2>11. live' = [live EXCEPT !.rows = @ \cup {row}]
      BY <1>11 DEF PostField
    <2> HIDE DEF row
    <2>5. live' \in Group
      BY <2>2, <2>10, <2>11 DEF Group
    <2>6. [mem EXCEPT !.fields[f] = nextId] \in Entry
      BY <2>1, <2>2 DEF Entry
    <2>7. Written(f) \in ToDo /\ Written(f).fields \subseteq todo.fields /\ Written(f).puts = todo.puts
      BY DEF Written, TypeOK, ToDo
    <2>8. Rows \in (SUBSET Row) \cup {None}
      BY <2>2 DEF Rows, OwnRows, TypeOK, Group
    <2> QED BY <1>11, <2>1, <2>2, <2>5, <2>6, <2>7, <2>8, OnKeeps DEF PostField, idle, TypeOK
  <1>12. ASSUME NEW r \in todo.puts, PutRuleset(r) PROVE TypeOK' /\ AtWork'
    <2>1. pc = "syn" /\ r \in Planned /\ live \in Group
      BY <1>12 DEF PutRuleset, DynamicTurn, Alive, TypeOK, ToDo
    <2>2. Completed(r) \in Ruleset
      <3>1. CASE r.field \in Fields
        BY <1>12, <2>1, <3>1 DEF PutRuleset, Completed, Planned, Ruleset, AtWork, MemKnown, Entry
      <3>2. CASE r.field \notin Fields
        BY <2>1, <3>2 DEF Completed, Planned, Ruleset
      <3> QED BY <3>1, <3>2
    <2>3. live' \in Group
      BY <1>12, <2>1, <2>2 DEF PutRuleset, Group
    <2>4. [todo EXCEPT !.puts = {}] \in ToDo
      BY DEF TypeOK, ToDo
    <2> QED BY <1>12, <2>1, <2>3, <2>4, OnKeeps DEF PutRuleset, idle, TypeOK, ToDo
  <1>13. CASE DropRuleset
    <2>1. live' \in Group
      BY <1>13 DEF DropRuleset, DynamicTurn, Group, TypeOK, Alive
    <2>2. [todo EXCEPT !.drop = FALSE] \in ToDo
      BY DEF TypeOK, ToDo
    <2> QED BY <1>13, <2>1, <2>2, OnKeeps DEF DropRuleset, DynamicTurn, idle, TypeOK, ToDo
  <1>14. ASSUME NEW s \in Status, PutStatus(s) PROVE TypeOK' /\ AtWork'
    <2>1. live' \in Group
      BY <1>14 DEF PutStatus, DynamicTurn, Group, TypeOK, Alive
    <2>2. [todo EXCEPT !.status = {}] \in ToDo
      BY DEF TypeOK, ToDo
    <2> QED BY <1>14, <2>1, <2>2, OnKeeps DEF PutStatus, DynamicTurn, idle, TypeOK, ToDo
  <1>15. CASE SyntheticDone
    <2>1. CASE Over
      BY <1>15, <2>1, OverRests DEF SyntheticDone, idle, TypeOK
    <2>2. CASE pc' = "save2" /\ UNCHANGED <<mem, item, todo, read>>
      BY <1>15, <2>2 DEF SyntheticDone, idle, TypeOK, AtWork, MemKnown, Migration, Declared
    <2> QED BY <1>15, <2>1, <2>2 DEF SyntheticDone
  <1>16. CASE Ui
    <2>1. UNCHANGED <<config, run>> /\ live \in Group
      BY <1>16 DEF Ui, UiJoin, UiAddRow, UiRow, UiDynamic, UiParent, UiDelete, Edited, TypeOK
    <2>2. AtWork'
      BY <2>1 DEF run, AtWork, MemKnown, Migration, Declared, Declares
    <2>3. ASSUME NEW m \in Members, NEW r \in Roles \cup Unlisted, UiJoin(m, r) PROVE TypeOK'
      BY <2>1, <2>3 DEF UiJoin, run, TypeOK
    <2>4. ASSUME NEW t \in UiRows, UiAddRow(t) PROVE TypeOK'
      <3>1. live' \in Group
        BY <2>1, <2>4, BoundsAssumption DEF UiAddRow, Group, Row
      <3> QED BY <2>1, <2>4, <3>1 DEF UiAddRow, run, TypeOK
    <2>5. ASSUME NEW r \in live.rows, UiRow(r) PROVE TypeOK'
      <3>1. live' \in Group
        BY <2>1, <2>5 DEF UiRow, Group, Row
      <3> QED BY <2>1, <2>5, <3>1 DEF UiRow, run, TypeOK
    <2>6. ASSUME NEW rs \in UiRulesets \cup {None}, NEW s \in Status, UiDynamic(rs, s) PROVE TypeOK'
      <3>1. rs \in Ruleset \cup {None}
        BY BoundsAssumption DEF Ruleset
      <3>2. live' \in Group
        BY <2>1, <2>6, <3>1 DEF UiDynamic, Group
      <3> QED BY <2>1, <2>6, <3>2 DEF UiDynamic, run, TypeOK
    <2>7. ASSUME NEW p \in Parents \cup Strangers, UiParent(p) PROVE TypeOK'
      <3>1. live' \in Group
        BY <2>1, <2>7 DEF UiParent, Group
      <3> QED BY <2>1, <2>7, <3>1 DEF UiParent, run, TypeOK
    <2>8. ASSUME UiDelete PROVE TypeOK'
      BY <2>1, <2>8 DEF UiDelete, run, TypeOK
    <2> QED BY <1>16, <2>2, <2>3, <2>4, <2>5, <2>6, <2>7, <2>8 DEF Ui
  <1>17. ASSUME NEW c \in Configs, EditConfig(c) PROVE TypeOK' /\ AtWork'
    <2>1. pc' = "idle" /\ UNCHANGED <<live, role, run>> /\ config' \in Configs
      BY <1>17 DEF EditConfig, run
    <2>2. AtWork'
      BY <2>1 DEF run, AtWork, MemKnown, Migration
    <2> QED BY <2>1, <2>2 DEF run, TypeOK
  <1>18. CASE UNCHANGED vars
    <2>1. TypeOK'
      BY <1>18 DEF vars, TypeOK
    <2>2. MemKnown' /\ Migration' /\ Declared' = Declared
      BY <1>18 DEF vars, AtWork, MemKnown, Migration, Declares, Declared
    <2> QED BY <1>18, <2>1, <2>2 DEF vars, AtWork
  <1> QED
    BY <1>1, <1>2, <1>3, <1>4, <1>5, <1>6, <1>7, <1>8, <1>9, <1>10, <1>11, <1>12, <1>13,
       <1>14, <1>15, <1>16, <1>17, <1>18 DEF Next, Work

LEMMA AlwaysAtWork == Spec => [](TypeOK /\ AtWork)
  BY InitTyped, TypeStep, PTL DEF Spec

\* The types hold in every reachable state, for any declarations, roles, members,
\* edits, faults and bounds.
THEOREM Typed == Spec => []TypeOK
  BY AlwaysAtWork, PTL

\* The payload of a migration was made for the memberships the plan read, and the
\* call accepts it only while it names the roles of the group's type: whoever
\* still has that role lands where it is declared (grouptype.ts:283,
\* execute.ts:262).
THEOREM NobodyMovedByAGuess == Spec => MembersLandAsDeclared
  <1>1. TypeOK /\ AtWork => [Migrate => \A m \in Members :
          role[m] # None /\ role[m] = noted[m] /\ noted[m] \in Roles =>
            NameOf[role'[m]] = IF NameOf[role[m]] \in DOMAIN config.roleMapping
                               THEN config.roleMapping[NameOf[role[m]]] ELSE NameOf[role[m]]]_vars
    <2> SUFFICES ASSUME AtWork, Migrate, NEW m \in Members,
                        role[m] = noted[m], noted[m] \in Roles
                 PROVE  Declares(role[m], NameOf[role'[m]])
      BY DEF Declares
    <2>1. role[m] \in DOMAIN item.mapping /\ Declares(role[m], NameOf[item.mapping[role[m]]])
      BY DEF AtWork, Migration, Migrate
    <2>2. role'[m] = item.mapping[role[m]]
      BY <2>1 DEF Migrate
    <2> QED BY <2>1, <2>2
  <1> QED BY <1>1, AlwaysAtWork, PTL DEF Spec, MembersLandAsDeclared

--------------------------------------------------------------------------------
(* No member field created twice.                                           *)

\* Rows are told apart by their ids, and an id is given once.
RowsKnown ==
  /\ nextId \in Nat /\ \A i \in mine : i < nextId
  /\ live # None => \A r, s \in live.rows : r.id < nextId /\ (r.id = s.id => r = s)

\* The rows ct created: one of each identity.
Mine == {r \in live.rows : r.id \in mine}

OwnOnce ==
  live # None =>
    /\ \A r \in Mine : r.own /\ r.ref \in References
    /\ \A r, s \in Mine : r.ref = s.ref => r = s

\* What was read of the rows holds as long as they exist; of ct's rows those it has
\* created since are missing, each for a field the item is done with.
ReadKnown(rows) ==
  /\ \A q \in rows : q.own /\ q.id < nextId
  /\ live # None =>
       /\ \A q \in rows, r \in live.rows : q.id = r.id => r.own /\ r.ref = q.ref
       /\ \A r \in Mine : \/ \E q \in rows : q.id = r.id
                          \/ \E g \in Declared \ todo.fields : r.ref = config.fields[g].ref

Once == RowsKnown /\ OwnOnce /\ (read # None => ReadKnown(read))

LEMMA ReadNow ==
  ASSUME Once, live # None
  PROVE  ReadKnown(Rows)
  BY DEF Once, RowsKnown, OwnOnce, ReadKnown, Rows, OwnRows, Mine

\* The item has no more fields to write than before.
NoMoreFields ==
  read' = None \/ (read' = read /\ config' = config /\ todo'.fields \subseteq todo.fields)

\* A step that leaves the rows alone.
LEMMA RowsStay ==
  ASSUME Once, UNCHANGED <<mine, nextId>>, NoMoreFields,
         live' # None => live # None /\ live'.rows = live.rows
  PROVE  Once'
  <1>1. RowsKnown'
    BY DEF Once, RowsKnown
  <1>2. live' # None => Mine' = Mine
    BY DEF Mine
  <1>3. OwnOnce'
    BY <1>2 DEF Once, OwnOnce
  <1>4. ASSUME read' # None PROVE ReadKnown(read)'
    <2>1. Declared' = Declared /\ ReadKnown(read)
      BY <1>4 DEF NoMoreFields, Declared, Once
    <2> QED BY <1>2, <1>4, <2>1 DEF NoMoreFields, ReadKnown
  <1> QED BY <1>1, <1>3, <1>4 DEF Once

\* A step that leaves every row its id, its identity and its owner.
LEMMA RowsRewritten ==
  ASSUME Once, UNCHANGED <<mine, nextId>>, live # None,
         config' = config, todo'.fields \subseteq todo.fields \/ read' = None,
         read' = read \/ read' = Rows \/ read' = None,
         \A r, s \in live'.rows : r.id = s.id => r = s,
         \A r \in live'.rows : \E s \in live.rows : s.id = r.id /\ s.ref = r.ref /\ s.own = r.own
  PROVE  Once'
  <1>1. RowsKnown'
    BY DEF Once, RowsKnown
  <1>2. \A r \in Mine' : \E s \in Mine : s.id = r.id /\ s.ref = r.ref /\ s.own = r.own
    BY DEF Mine
  <1>3. Mine' \subseteq live'.rows
    BY DEF Mine
  <1>4. OwnOnce'
    <2>1. ASSUME NEW r \in Mine', NEW s \in Mine', r.ref = s.ref PROVE r = s
      <3>1. PICK x \in Mine : x.id = r.id /\ x.ref = r.ref
        BY <1>2
      <3>2. PICK y \in Mine : y.id = s.id /\ y.ref = s.ref
        BY <1>2
      <3>3. x = y
        BY <2>1, <3>1, <3>2 DEF Once, OwnOnce
      <3> QED BY <1>3, <3>1, <3>2, <3>3
    <2>2. ASSUME NEW r \in Mine' PROVE r.own /\ r.ref \in References
      <3>1. PICK x \in Mine : x.ref = r.ref /\ x.own = r.own
        BY <1>2
      <3> QED BY <3>1 DEF Once, OwnOnce
    <2> QED BY <2>1, <2>2 DEF OwnOnce
  <1>5. ASSUME read' # None PROVE ReadKnown(read)'
    <2>1. ReadKnown(read')
      BY <1>5, ReadNow DEF Once
    <2>2. Declared' = Declared /\ \A q \in read' : q.own /\ q.id < nextId'
      BY <2>1 DEF Declared, ReadKnown
    <2>3. ASSUME NEW q \in read', NEW r \in live'.rows, q.id = r.id PROVE r.own /\ r.ref = q.ref
      <3>1. PICK s \in live.rows : s.id = r.id /\ s.ref = r.ref /\ s.own = r.own
        OBVIOUS
      <3> QED BY <2>1, <2>3, <3>1 DEF ReadKnown
    <2>4. ASSUME NEW r \in Mine'
          PROVE  \/ \E q \in read' : q.id = r.id
                 \/ \E g \in Declared \ todo'.fields : r.ref = config.fields[g].ref
      <3>1. PICK s \in Mine : s.id = r.id /\ s.ref = r.ref
        BY <1>2
      <3>2. \/ \E q \in read' : q.id = s.id
            \/ \E g \in Declared \ todo.fields : s.ref = config.fields[g].ref
        BY <2>1 DEF ReadKnown
      <3> QED BY <1>5, <3>1, <3>2
    <2> QED BY <2>2, <2>3, <2>4 DEF ReadKnown
  <1> QED BY <1>1, <1>4, <1>5 DEF Once

\* A row that is not ct's: its id is new to everybody.
LEMMA UiAddsRow ==
  ASSUME TypeOK, Once, NEW t \in UiRows, UiAddRow(t)
  PROVE  Once'
  <1> DEFINE row == [id |-> nextId, ref |-> t.ref, name |-> t.name, props |-> t.props, own |-> t.own]
  <1>1. live' = [live EXCEPT !.rows = @ \cup {row}] /\ live \in Group /\ nextId' = nextId + 1
    BY DEF UiAddRow, Edited, TypeOK
  <1>2. row.id = nextId /\ UNCHANGED <<config, mine, read, todo>>
    BY DEF UiAddRow, run
  <1> HIDE DEF row
  <1>3. live'.rows = live.rows \cup {row} /\ live # None
    BY <1>1 DEF Group, UiAddRow, Edited
  <1>8. mine \subseteq Nat /\ \A r \in live.rows : r.id \in Nat
    BY <1>1, BoundsAssumption DEF TypeOK, Group, Row
  <1>4. RowsKnown'
    BY <1>1, <1>2, <1>3, <1>8 DEF Once, RowsKnown
  <1>5. Mine' = Mine /\ Declared' = Declared
    BY <1>2, <1>3 DEF Mine, Once, RowsKnown, Declared
  <1>6. OwnOnce'
    BY <1>3, <1>5 DEF Once, OwnOnce
  <1>7. ASSUME read' # None PROVE ReadKnown(read)'
    <2>1. ReadKnown(read) /\ nextId \in Nat
      BY <1>2, <1>7 DEF Once, RowsKnown
    <2>2. \A q \in read : q.own /\ q.id < nextId' /\ q.id # row.id
      <3>1. \A q \in read : q.id \in Nat
        BY <1>2, <1>7, BoundsAssumption DEF TypeOK, Row
      <3> QED BY <1>1, <1>2, <2>1, <3>1 DEF ReadKnown
    <2> QED BY <1>2, <1>3, <1>5, <2>1, <2>2 DEF ReadKnown
  <1> QED BY <1>4, <1>6, <1>7 DEF Once

\* The update of a field and what a colleague does to a row.
LEMMA PatchOnce ==
  ASSUME TypeOK, AtWork, Once, NEW f \in Fields, PatchField(f)
  PROVE  Once'
  <1>1. PICK r \in live.rows :
          /\ live' = [live EXCEPT !.rows = (@ \ {r}) \cup {[r EXCEPT !.props = Merged(f, @)]}]
          /\ On(pc, [mem EXCEPT !.fields[f] = r.id], Written(f), Rows)
    BY DEF PatchField
  <1>2. live \in Group /\ live # None /\ r \in Row
    BY DEF PatchField, FieldsTurn, Alive, TypeOK, Group
  <1> DEFINE new == [r EXCEPT !.props = Merged(f, @)]
  <1>3. new.id = r.id /\ new.ref = r.ref /\ new.own = r.own
    BY <1>2 DEF Row
  <1>4. live'.rows = (live.rows \ {r}) \cup {new}
    BY <1>1, <1>2 DEF Group
  <1> HIDE DEF new
  <1>5. \A x, y \in live'.rows : x.id = y.id => x = y
    BY <1>2, <1>3, <1>4 DEF Once, RowsKnown
  <1>6. \A x \in live'.rows : \E s \in live.rows : s.id = x.id /\ s.ref = x.ref /\ s.own = x.own
    BY <1>3, <1>4
  <1>7. /\ read' = Rows \/ read' = None
        /\ todo'.fields \subseteq todo.fields \/ read' = None
    BY <1>1 DEF On, Over, Written, TypeOK, ToDo
  <1>8. UNCHANGED <<config, mine, nextId>>
    BY DEF PatchField, idle
  <1> QED BY <1>2, <1>4, <1>5, <1>6, <1>7, <1>8, RowsRewritten

LEMMA UiEditsRow ==
  ASSUME TypeOK, Once, NEW r \in live.rows, UiRow(r)
  PROVE  Once'
  <1>1. live \in Group /\ live # None /\ r \in Row /\ UNCHANGED <<config, mine, nextId, read, todo>>
    BY DEF UiRow, Edited, TypeOK, Group, run
  <1>2. \/ live'.rows = live.rows \ {r}
        \/ \E n \in Names : live'.rows = (live.rows \ {r}) \cup {[r EXCEPT !.name = n]}
    BY <1>1 DEF UiRow, Group
  <1>3. CASE live'.rows = live.rows \ {r}
    <2>1. \A x, y \in live'.rows : x.id = y.id => x = y
      BY <1>1, <1>3 DEF Once, RowsKnown
    <2>2. \A x \in live'.rows : \E s \in live.rows : s.id = x.id /\ s.ref = x.ref /\ s.own = x.own
      BY <1>3
    <2> QED BY <1>1, <2>1, <2>2, RowsRewritten
  <1>4. ASSUME NEW n \in Names, live'.rows = (live.rows \ {r}) \cup {[r EXCEPT !.name = n]}
        PROVE  Once'
    <2> DEFINE new == [r EXCEPT !.name = n]
    <2>1. new.id = r.id /\ new.ref = r.ref /\ new.own = r.own
      BY <1>1 DEF Row
    <2>2. live'.rows = (live.rows \ {r}) \cup {new}
      BY <1>4
    <2> HIDE DEF new
    <2>3. \A x, y \in live'.rows : x.id = y.id => x = y
      BY <1>1, <2>1, <2>2 DEF Once, RowsKnown
    <2>4. \A x \in live'.rows : \E s \in live.rows : s.id = x.id /\ s.ref = x.ref /\ s.own = x.own
      BY <2>1, <2>2
    <2> QED BY <1>1, <2>3, <2>4, RowsRewritten
  <1> QED BY <1>2, <1>3, <1>4

\* A field is created only where none of ct's has its identity: among the rows that
\* were read, because it would have matched; among those created since, because
\* a configuration declares an identity once.
LEMMA PostOnce ==
  ASSUME TypeOK, AtWork, Once, NEW f \in Fields, PostField(f)
  PROVE  Once'
  <1> DEFINE x == config.fields[f].ref
             row == [id |-> nextId, ref |-> config.fields[f].ref, name |-> f, own |-> TRUE,
                     props |-> Merged(f, ServerProps)]
  <1>1. /\ live' = [live EXCEPT !.rows = @ \cup {row}] /\ live \in Group /\ live # None
        /\ nextId' = nextId + 1 /\ mine' = mine \cup {nextId} /\ config' = config
        /\ f \in todo.fields
    BY DEF PostField, FieldsTurn, Alive, TypeOK, idle
  <1>2. f \in Declared /\ FieldsAccepted(config) /\ x \in References
    BY <1>1, ConfigsAssumption DEF PostField, FieldsTurn, AtWork, Accepted, TypeOK, Declared, FieldsOf
  <1>3. row.id = nextId /\ row.ref = x /\ row.own
    OBVIOUS
  <1>4. \A q \in Rows : q.ref # x
    BY <1>2, NamesAssumption DEF PostField, Missing, Matches
  <1> HIDE DEF row, x
  <1>5. live'.rows = live.rows \cup {row}
    BY <1>1 DEF Group
  <1>6. nextId \in Nat /\ mine \subseteq Nat /\ \A r \in live.rows : r.id \in Nat /\ r.id < nextId
    BY <1>1, BoundsAssumption DEF TypeOK, Group, Row, Once, RowsKnown
  <1>7. RowsKnown'
    BY <1>1, <1>3, <1>5, <1>6 DEF Once, RowsKnown
  <1>8. Mine' = Mine \cup {row}
    BY <1>1, <1>3, <1>5, <1>6 DEF Mine
  <1>9. ReadKnown(Rows)
    BY <1>1, ReadNow
  <1>10. \A r \in Mine : r.ref # x
    <2> SUFFICES ASSUME NEW r \in Mine, r.ref = x PROVE FALSE
      OBVIOUS
    <2>1. CASE \E q \in Rows : q.id = r.id
      BY <1>1, <1>4, <1>9, <2>1 DEF ReadKnown, Mine
    <2>2. ASSUME NEW g \in Declared \ todo.fields, r.ref = config.fields[g].ref PROVE FALSE
      BY <1>1, <1>2, <2>2 DEF FieldsAccepted, Declared, x
    <2> QED BY <1>1, <1>9, <2>1, <2>2 DEF ReadKnown
  <1>11. OwnOnce'
    BY <1>1, <1>2, <1>3, <1>8, <1>10 DEF Once, OwnOnce
  <1>12. ASSUME read' # None PROVE ReadKnown(read)'
    <2>1. read' = Rows /\ todo' = Written(f)
      BY <1>12 DEF PostField, On, Over
    <2>2. todo'.fields = todo.fields \ {f} /\ Declared' = Declared
      BY <1>1, <2>1 DEF Written, TypeOK, ToDo, Declared
    <2>3. \A q \in Rows : q.id \in Nat /\ q.id < nextId /\ q.own
      BY <1>1, <1>9, BoundsAssumption DEF ReadKnown, Rows, OwnRows, TypeOK, Group, Row
    <2>4. \A q \in Rows : q.own /\ q.id < nextId' /\ q.id # row.id
      BY <1>1, <1>3, <1>6, <2>3
    <2>5. row.ref = config'.fields[f].ref /\ f \in Declared' \ todo'.fields
      BY <1>1, <1>2, <1>3, <2>2 DEF x
    <2>6. \A q \in read', r \in live'.rows : q.id = r.id => r.own /\ r.ref = q.ref
      BY <1>1, <1>5, <1>9, <2>1, <2>4 DEF ReadKnown
    <2>7. \A r \in Mine' : \/ \E q \in read' : q.id = r.id
                          \/ \E g \in Declared' \ todo'.fields : r.ref = config'.fields[g].ref
      BY <1>1, <1>8, <1>9, <2>1, <2>2, <2>5 DEF ReadKnown
    <2> QED BY <2>1, <2>4, <2>6, <2>7 DEF ReadKnown
  <1> QED BY <1>7, <1>11, <1>12 DEF Once

\* A call that leaves the rows alone.
LEMMA OnStays ==
  ASSUME Once, UNCHANGED <<config, mine, nextId>>, NEW next, NEW entry, NEW left,
         left.fields \subseteq todo.fields, On(next, entry, left, read),
         live' # None => live # None /\ live'.rows = live.rows
  PROVE  Once'
  BY RowsStay DEF On, Over, NoMoreFields

LEMMA OnceStep == TypeOK /\ AtWork /\ Once /\ [Next]_vars => Once'
  <1> SUFFICES ASSUME TypeOK, AtWork, Once, [Next]_vars PROVE Once'
    OBVIOUS
  <1>1. CASE Prepare
    BY <1>1, RowsStay DEF Prepare, NoMoreFields
  <1>2. CASE Abandon \/ Finish \/ Fails \/ Crash
    BY <1>2, RowsStay DEF Abandon, Finish, Fails, Crash, Over, idle, NoMoreFields
  <1>3. CASE Execute \/ Save("save1", "syn") \/ Save("save2", "done") \/ SyntheticDone
    BY <1>3, RowsStay DEF Execute, Save, SyntheticDone, Over, idle, NoMoreFields
  <1>4. CASE Create
    <2>1. live'.rows = {} /\ nextId' = nextId + 1 /\ nextId \in Nat /\ mine' = mine
      BY <1>4, BoundsAssumption DEF Create, idle
    <2>2. mine \subseteq Nat
      BY BoundsAssumption DEF TypeOK
    <2>3. RowsKnown'
      BY <2>1, <2>2 DEF Once, RowsKnown
    <2>4. Mine' = {}
      BY <2>1 DEF Mine
    <2>5. ASSUME read' # None PROVE ReadKnown(read)'
      <3>1. read' = read
        BY <1>4, <2>5 DEF Create, On, Over
      <3>2. \A q \in read : q.id \in Nat
        BY <2>5, <3>1, BoundsAssumption DEF TypeOK, Row
      <3> QED BY <2>1, <2>4, <2>5, <3>1, <3>2 DEF Once, ReadKnown
    <2> QED BY <2>3, <2>4, <2>5 DEF Once, OwnOnce
  <1>5. CASE Migrate
    BY <1>5, OnStays DEF Migrate, Alive, idle, TypeOK, Group
  <1>6. CASE Columns
    BY <1>6, OnStays DEF Columns, Alive, idle, TypeOK, Group
  <1>7. ASSUME NEW p \in Parents, AddParent(p) \/ RemoveParent(p) PROVE Once'
    BY <1>7, OnStays DEF AddParent, RemoveParent, Alive, idle, TypeOK, Group, ToDo
  <1>8. ASSUME NEW f \in Fields, PatchField(f) \/ PostField(f) PROVE Once'
    BY <1>8, PatchOnce, PostOnce
  <1>9. ASSUME NEW r \in todo.puts, PutRuleset(r) PROVE Once'
    BY <1>9, OnStays DEF PutRuleset, DynamicTurn, Alive, idle, TypeOK, Group, ToDo
  <1>10. CASE DropRuleset
    BY <1>10, OnStays DEF DropRuleset, DynamicTurn, Alive, idle, TypeOK, Group, ToDo
  <1>11. ASSUME NEW s \in Status, PutStatus(s) PROVE Once'
    BY <1>11, OnStays DEF PutStatus, DynamicTurn, Alive, idle, TypeOK, Group, ToDo
  <1>12. CASE Ui
    <2>1. ASSUME NEW m \in Members, NEW r \in Roles \cup Unlisted, UiJoin(m, r) PROVE Once'
      BY <2>1, RowsStay DEF UiJoin, run, NoMoreFields
    <2>2. ASSUME NEW rs \in UiRulesets \cup {None}, NEW s \in Status, UiDynamic(rs, s) PROVE Once'
      BY <2>2, RowsStay DEF UiDynamic, Edited, run, NoMoreFields, TypeOK, Group
    <2>3. ASSUME NEW p \in Parents \cup Strangers, UiParent(p) PROVE Once'
      BY <2>3, RowsStay DEF UiParent, Edited, run, NoMoreFields, TypeOK, Group
    <2>4. ASSUME UiDelete PROVE Once'
      BY <2>4, RowsStay DEF UiDelete, run, NoMoreFields
    <2> QED BY <1>12, <2>1, <2>2, <2>3, <2>4, UiAddsRow, UiEditsRow DEF Ui
  <1>13. ASSUME NEW c \in Configs, EditConfig(c) PROVE Once'
    BY <1>13, RowsStay DEF EditConfig, run, AtWork, NoMoreFields
  <1>14. CASE UNCHANGED vars
    BY <1>14, RowsStay DEF vars, NoMoreFields
  <1> QED
    BY <1>1, <1>2, <1>3, <1>4, <1>5, <1>6, <1>7, <1>8, <1>9, <1>10, <1>11, <1>12, <1>13,
       <1>14 DEF Next, Work

LEMMA AlwaysOnce == Spec => [](TypeOK /\ AtWork /\ Once)
  <1>1. Init => Once
    BY BoundsAssumption DEF Init, Once, RowsKnown, OwnOnce, Mine
  <1> QED BY <1>1, InitTyped, TypeStep, OnceStep, PTL DEF Spec

\* However often a run fails between creating a member field and recording it, and
\* whatever colleagues add, rename or delete meanwhile, no two fields ct created
\* for a group have one referenceName (synthetic.ts:461).
THEOREM FieldsNotDuplicated == Spec => []OneOwnField
  <1>1. TypeOK /\ Once => OneOwnField
    <2> SUFFICES ASSUME TypeOK, Once, live # None, NEW x \in References
                 PROVE  Cardinality({r \in live.rows : r.id \in mine /\ r.ref = x}) <= 1
      BY DEF OneOwnField
    <2> DEFINE S == {r \in live.rows : r.id \in mine /\ r.ref = x}
    <2>1. \A r, s \in S : r = s
      BY DEF Once, OwnOnce, Mine
    <2> HIDE DEF S
    <2>2. ASSUME S = {} PROVE Cardinality(S) <= 1
      BY <2>2, FS_EmptySet
    <2>3. ASSUME S # {} PROVE Cardinality(S) <= 1
      <3>1. PICK r : S = {r}
        BY <2>1, <2>3
      <3> QED BY <3>1, FS_Singleton
    <2>4. Cardinality(S) <= 1
      BY <2>2, <2>3
    <2> QED BY <2>4 DEF S
  <1> QED BY <1>1, AlwaysOnce, PTL

--------------------------------------------------------------------------------
(* The ruleset names the field it was declared with.                        *)

\* A row of the group that is the declared field's: its own, under the declared
\* identity or none.
Denotes(i) ==
  \E r \in live.rows : /\ r.id = i /\ r.own
                      /\ r.ref \in {None, config.fields[config.dynamic.field].ref}

\* What a ruleset still to be sent names: such a row, or the field's key, and then
\* what the run has bound the field to is such a row.  A group about to be
\* created has neither rows nor an entry.
Aimed ==
  quiet /\ pc # "idle" => \A r \in todo.puts : r.field # None =>
    /\ r.field \in Ids => item.kind # "create" /\ Denotes(r.field)
    /\ r.field \in Fields =>
         /\ r.field = config.dynamic.field
         /\ \/ pc \in {"planned", "create"} /\ item.kind = "create"
            \/ mem \in Entry /\ (mem.fields[r.field] # None => Denotes(mem.fields[r.field]))

\* The plan: an id is that of a live row the declared field matches.
LEMMA PrepareAims ==
  ASSUME TypeOK, AtWork, Prepare
  PROVE  Aimed'
  <1> DEFINE f == config.dynamic.field
             found == IF Found /\ disk # None THEN Matches(OwnRows, f, disk.fields[f]) ELSE {}
  <1> SUFFICES ASSUME NEW r \in todo'.puts, r.field # None
               PROVE  /\ r.field \in Ids => item'.kind # "create" /\ Denotes(r.field)'
                      /\ r.field \in Fields =>
                           /\ r.field = f
                           /\ \/ item'.kind = "create"
                              \/ /\ mem' \in Entry
                                 /\ mem'.fields[r.field] # None => Denotes(mem.fields[r.field])'
    BY DEF Prepare, Aimed
  <1>1. r.field = FieldRef
    BY DEF Prepare, Synthetic, DynamicSteps, DesiredDynamic, Nothing
  <1>2. f # None /\ FieldRef = IF found = {} THEN f ELSE (CHOOSE q \in found : TRUE).id
    BY <1>1 DEF FieldRef
  <1>3. f \in Declared /\ ~config.only /\ (disk = None \/ Found)
    BY <1>2 DEF Prepare, Rejected, Unreadable, Accepted, ReferenceAccepted, OnlyAccepted, Declared
  <1>4. f \in Fields /\ f \notin Ids
    BY <1>3, NamesAssumption DEF Declared, FieldsOf
  <1>5. mem' = disk /\ item' = Item /\ config' = config /\ live' = live
    BY DEF Prepare
  <1>6. CASE Found /\ disk # None
    <2>1. disk \in Entry /\ Known(disk, f) = disk.fields[f] /\ item'.kind = "update"
      BY <1>3, <1>5, <1>6 DEF Known, TypeOK, Item
    <2>2. ~BadField(f)
      BY <1>3, <1>6 DEF Prepare, Rejected
    <2>3. found = Matches(OwnRows, f, Known(disk, f))
      BY <1>6, <2>1
    <2> HIDE DEF found
    <2>4. CASE found = {}
      <3>1. disk.fields[f] = None
        BY <2>1, <2>2, <2>3, <2>4 DEF BadField
      <3> QED BY <1>1, <1>2, <1>4, <1>5, <2>1, <2>4, <3>1
    <2>5. CASE found # {}
      <3>1. PICK q \in found : FieldRef = q.id
        BY <1>2, <2>5
      <3>2. q \in live.rows /\ q.own /\ live # None /\ q.id \in Ids
        BY <1>6, <2>3, <3>1 DEF Matches, OwnRows, Found, TypeOK, Group, Row
      <3>3. ~Conflicting(q, f)
        BY <2>2, <2>3, <3>1 DEF BadField
      <3>4. q.ref \in {None, config.fields[f].ref}
        BY <3>3 DEF Conflicting
      <3>5. Denotes(q.id)'
        BY <1>5, <3>2, <3>4 DEF Denotes
      <3> QED BY <1>1, <2>1, <3>1, <3>2, <3>5, NamesAssumption
    <2> QED BY <2>4, <2>5
  <1>7. CASE ~(Found /\ disk # None)
    <2>1. FieldRef = f
      BY <1>2, <1>7
    <2>2. ~Found
      BY <1>3, <1>7, NamesAssumption DEF Found, GroupId, TypeOK, Group
    <2>3. item'.kind = "create"
      BY <1>3, <1>5, <2>2 DEF Item
    <2> QED BY <1>1, <1>4, <2>1, <2>3
  <1> QED BY <1>6, <1>7

\* A call that spoils no row and binds the field to one that is its own.
LEMMA OnAims ==
  ASSUME AtWork, Aimed, UNCHANGED <<config, quiet>>, pc \notin {"idle", "planned"},
         NEW next \in {"columns", "save1", "syn"}, NEW entry, NEW left, NEW rows,
         On(next, entry, left, rows), left.puts \subseteq todo.puts,
         \A i : Denotes(i) => Denotes(i)',
         \/ entry = mem /\ pc # "create"
         \/ /\ entry \in Entry
            /\ \A g \in Fields : entry.fields[g] # None =>
                 \/ entry.fields[g] = mem.fields[g] /\ pc # "create"
                 \/ g = config.dynamic.field => Denotes(entry.fields[g])'
  PROVE  Aimed'
  <1> SUFFICES ASSUME quiet', pc' # "idle", NEW r \in todo'.puts, r.field # None
               PROVE  /\ r.field \in Ids => item'.kind # "create" /\ Denotes(r.field)'
                      /\ r.field \in Fields =>
                           /\ r.field = config'.dynamic.field
                           /\ mem' \in Entry
                           /\ mem'.fields[r.field] # None => Denotes(mem.fields[r.field])'
    BY DEF Aimed
  <1>1. mem' = entry /\ todo' = left /\ item' = item /\ quiet /\ r \in todo.puts
    BY DEF On, Over
  <1>2. CASE r.field \in Ids
    BY <1>1, <1>2, NamesAssumption DEF Aimed
  <1>3. CASE r.field \in Fields
    <2>1. r.field = config.dynamic.field
      BY <1>1, <1>3 DEF Aimed
    <2>2. pc # "create" => mem \in Entry /\ (mem.fields[r.field] # None => Denotes(mem.fields[r.field]))
      BY <1>1, <1>3 DEF Aimed
    <2> QED BY <1>1, <1>3, <2>1, <2>2, NamesAssumption
  <1> QED BY <1>2, <1>3

\* A call that has nothing to do with member fields.
LEMMA ElsewhereAims ==
  ASSUME AtWork, Aimed, UNCHANGED <<config, quiet>>, pc \notin {"idle", "planned", "create"},
         NEW next \in {"columns", "save1", "syn"}, NEW left, NEW rows,
         On(next, mem, left, rows), left.puts \subseteq todo.puts, live'.rows = live.rows
  PROVE  Aimed'
  <1>1. \A i : Denotes(i) => Denotes(i)'
    BY DEF Denotes
  <1> QED BY <1>1, OnAims

\* An update records the row it wrote, which the declared field matched when it
\* was read; a creation the row it made.
LEMMA PatchAims ==
  ASSUME TypeOK, AtWork, Once, Aimed, NEW f \in Fields, PatchField(f)
  PROVE  Aimed'
  <1>1. PICK r \in live.rows :
          /\ {q.id : q \in Matches(Rows, f, mem.fields[f])} = {r.id} /\ ~Conflicting(r, f)
          /\ live' = [live EXCEPT !.rows = (@ \ {r}) \cup {[r EXCEPT !.props = Merged(f, @)]}]
          /\ On(pc, [mem EXCEPT !.fields[f] = r.id], Written(f), Rows)
    BY DEF PatchField
  <1>2. /\ live \in Group /\ live # None /\ r \in Row /\ mem \in Entry
        /\ pc = "syn" /\ UNCHANGED <<config, quiet>>
    BY DEF PatchField, FieldsTurn, Alive, TypeOK, Group, AtWork, MemKnown, idle
  <1> DEFINE new == [r EXCEPT !.props = Merged(f, @)]
  <1>3. new.id = r.id /\ new.ref = r.ref /\ new.own = r.own
    BY <1>2 DEF Row
  <1>4. live'.rows = (live.rows \ {r}) \cup {new}
    BY <1>1, <1>2 DEF Group
  <1> HIDE DEF new
  <1>5. \A i : Denotes(i) => Denotes(i)'
    BY <1>2, <1>3, <1>4 DEF Denotes
  <1>6. PICK q \in Rows : q.id = r.id
    BY <1>1 DEF Matches
  <1>7. r.own
    BY <1>2, <1>6, ReadNow DEF ReadKnown
  <1>8. f = config.dynamic.field => Denotes(r.id)
    BY <1>1, <1>7 DEF Denotes, Conflicting
  <1>9. PICK entry : entry = [mem EXCEPT !.fields[f] = r.id]
    OBVIOUS
  <1>10. entry \in Entry /\ entry.fields[f] = r.id
         /\ \A g \in Fields \ {f} : entry.fields[g] = mem.fields[g]
    BY <1>2, <1>9 DEF Entry, Row
  <1>11. Written(f).puts = todo.puts
    BY DEF Written, TypeOK, ToDo
  <1>12. \A g \in Fields : \/ entry.fields[g] = mem.fields[g]
                           \/ g = config.dynamic.field => Denotes(entry.fields[g])'
    BY <1>5, <1>8, <1>10
  <1> QED BY <1>1, <1>2, <1>5, <1>9, <1>10, <1>11, <1>12, OnAims

LEMMA PostAims ==
  ASSUME TypeOK, AtWork, Aimed, NEW f \in Fields, PostField(f)
  PROVE  Aimed'
  <1> DEFINE row == [id |-> nextId, ref |-> config.fields[f].ref, name |-> f, own |-> TRUE,
                     props |-> Merged(f, ServerProps)]
  <1>1. /\ live' = [live EXCEPT !.rows = @ \cup {row}] /\ live \in Group /\ mem \in Entry
        /\ pc = "syn" /\ UNCHANGED <<config, quiet>> /\ nextId \in Ids
        /\ On(pc, [mem EXCEPT !.fields[f] = nextId], Written(f), Rows)
    BY DEF PostField, FieldsTurn, Alive, TypeOK, AtWork, MemKnown, idle
  <1>2. row.id = nextId /\ row.ref = config.fields[f].ref /\ row.own
    OBVIOUS
  <1> HIDE DEF row
  <1>3. live'.rows = live.rows \cup {row}
    BY <1>1 DEF Group
  <1>4. \A i : Denotes(i) => Denotes(i)'
    BY <1>1, <1>3 DEF Denotes
  <1>5. PICK i : i = nextId
    OBVIOUS
  <1>6. f = config.dynamic.field => Denotes(i)'
    BY <1>1, <1>2, <1>3, <1>5 DEF Denotes
  <1>7. PICK entry : entry = [mem EXCEPT !.fields[f] = i]
    OBVIOUS
  <1>8. entry \in Entry /\ entry.fields[f] = i
        /\ \A g \in Fields \ {f} : entry.fields[g] = mem.fields[g]
    BY <1>1, <1>5, <1>7 DEF Entry
  <1>9. Written(f).puts = todo.puts
    BY DEF Written, TypeOK, ToDo
  <1>10. \A g \in Fields : \/ entry.fields[g] = mem.fields[g]
                           \/ g = config.dynamic.field => Denotes(entry.fields[g])'
    BY <1>6, <1>8
  <1> QED BY <1>1, <1>4, <1>5, <1>7, <1>8, <1>9, <1>10, OnAims

LEMMA AimedStep == TypeOK /\ AtWork /\ Once /\ Aimed /\ [Next]_vars => Aimed'
  <1> SUFFICES ASSUME TypeOK, AtWork, Once, Aimed, [Next]_vars PROVE Aimed'
    OBVIOUS
  <1>1. CASE Prepare
    BY <1>1, PrepareAims
  <1>2. CASE Abandon \/ Finish \/ Fails \/ Crash
    BY <1>2 DEF Abandon, Finish, Fails, Crash, Over, Aimed
  <1>3. CASE Execute
    <2>1. pc = "planned" /\ (item.kind = "create" => pc' = "create") /\ pc' # "planned"
      BY <1>3 DEF Execute, AtWork
    <2>2. UNCHANGED <<config, quiet, live, item, todo, mem>>
      BY <1>3 DEF Execute, idle
    <2>3. \A i : Denotes(i) => Denotes(i)'
      BY <2>2 DEF Denotes
    <2> QED BY <2>1, <2>2, <2>3 DEF Aimed
  <1>4. CASE Save("save1", "syn") \/ Save("save2", "done")
    <2>1. pc \in {"save1", "save2"} /\ UNCHANGED <<config, quiet, live, item, todo, mem>>
      BY <1>4 DEF Save
    <2>2. \A i : Denotes(i) => Denotes(i)'
      BY <2>1 DEF Denotes
    <2> QED BY <2>1, <2>2 DEF Aimed
  <1>5. CASE SyntheticDone
    <2>1. pc' = "idle" \/ todo'.puts = {}
      BY <1>5 DEF SyntheticDone, Over, Nothing
    <2> QED BY <2>1 DEF Aimed
  <1>6. CASE Create
    <2>1. PICK entry : entry = NewEntry(nextId)
      OBVIOUS
    <2>2. /\ On("save1", entry, todo, read) /\ UNCHANGED <<config, quiet>> /\ pc = "create"
          /\ item.kind = "create"
      BY <1>6, <2>1 DEF Create, idle, AtWork
    <2>3. entry \in Entry /\ \A g \in Fields : entry.fields[g] = None
      BY <1>6, <2>1 DEF Create, NewEntry, Entry
    <2> SUFFICES ASSUME quiet', pc' # "idle", NEW r \in todo'.puts, r.field # None
                 PROVE  /\ r.field \notin Ids
                        /\ r.field \in Fields => /\ r.field = config'.dynamic.field
                                                 /\ mem' \in Entry /\ mem'.fields[r.field] = None
      BY DEF Aimed
    <2>4. mem' = entry /\ todo' = todo /\ quiet
      BY <2>2 DEF On, Over
    <2> QED BY <2>2, <2>3, <2>4 DEF Aimed
  <1>7. CASE Migrate
    BY <1>7, ElsewhereAims DEF Migrate, Alive, idle, TypeOK, Group
  <1>8. CASE Columns
    BY <1>8, ElsewhereAims DEF Columns, Alive, idle, TypeOK, Group
  <1>9. ASSUME NEW p \in Parents, AddParent(p) \/ RemoveParent(p) PROVE Aimed'
    BY <1>9, ElsewhereAims DEF AddParent, RemoveParent, Alive, idle, TypeOK, Group, ToDo
  <1>10. ASSUME NEW f \in Fields, PatchField(f) \/ PostField(f) PROVE Aimed'
    BY <1>10, PatchAims, PostAims
  <1>11. ASSUME NEW r \in todo.puts, PutRuleset(r) PROVE Aimed'
    BY <1>11, ElsewhereAims DEF PutRuleset, DynamicTurn, Alive, idle, TypeOK, Group, ToDo
  <1>12. CASE DropRuleset
    BY <1>12, ElsewhereAims DEF DropRuleset, DynamicTurn, Alive, idle, TypeOK, Group, ToDo
  <1>13. ASSUME NEW s \in Status, PutStatus(s) PROVE Aimed'
    BY <1>13, ElsewhereAims DEF PutStatus, DynamicTurn, Alive, idle, TypeOK, Group, ToDo
  <1>14. CASE Ui
    <2>1. ~quiet'
      BY <1>14 DEF Ui, UiJoin, UiAddRow, UiRow, UiDynamic, UiParent, UiDelete, Edited
    <2> QED BY <2>1 DEF Aimed
  <1>15. ASSUME NEW c \in Configs, EditConfig(c) PROVE Aimed'
    BY <1>15 DEF EditConfig, run, Aimed
  <1>16. CASE UNCHANGED vars
    BY <1>16 DEF vars, Aimed, Denotes
  <1> QED
    BY <1>1, <1>2, <1>3, <1>4, <1>5, <1>6, <1>7, <1>8, <1>9, <1>10, <1>11, <1>12, <1>13,
       <1>14, <1>15, <1>16 DEF Next, Work

\* Nobody else at work since the plan, the ruleset ct installs names a live row of
\* the field it was declared with: the row the plan saw, or the one the same item
\* updated or created a moment ago (resolver.ts:574, synthetic.ts:461).
THEOREM RulesetsNameTheirField == Spec => RulesetNamesItsField
  <1>1. TypeOK /\ AtWork /\ Once /\ Aimed => [\A r \in todo.puts :
          PutRuleset(r) /\ quiet /\ r.field # None =>
            \E q \in live'.rows : /\ q.id = live'.ruleset.field /\ q.own
                                  /\ q.ref \in {None, config.fields[config.dynamic.field].ref}]_vars
    <2> SUFFICES ASSUME TypeOK, AtWork, Aimed, NEW r \in todo.puts, PutRuleset(r), quiet,
                        r.field # None
                 PROVE  \E q \in live'.rows :
                          /\ q.id = live'.ruleset.field /\ q.own
                          /\ q.ref \in {None, config.fields[config.dynamic.field].ref}
      OBVIOUS
    <2>1. r \in Planned /\ live \in Group /\ pc = "syn"
      BY DEF TypeOK, ToDo, PutRuleset, DynamicTurn, Alive
    <2>2. live'.rows = live.rows /\ live'.ruleset = Completed(r)
      BY <2>1 DEF PutRuleset, Group
    <2>3. Denotes(Completed(r).field)
      <3>1. CASE r.field \in Fields
        BY <2>1, <3>1 DEF PutRuleset, Completed, Planned, Aimed
      <3>2. CASE r.field \notin Fields
        BY <2>1, <3>2 DEF Completed, Planned, Aimed
      <3> QED BY <3>1, <3>2
    <2> QED BY <2>2, <2>3 DEF Denotes
  <1>2. Init => Aimed
    BY DEF Init, Aimed
  <1> QED BY <1>1, <1>2, AlwaysOnce, AimedStep, PTL DEF Spec, RulesetNamesItsField
=============================================================================
