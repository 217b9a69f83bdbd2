------------------------------- MODULE GroupItem --------------------------------
(***************************************************************************)
(* One group through plan and apply: the migration to another group type,  *)
(* the update of its own columns, then its parents, its member fields and  *)
(* its dynamic ruleset, each by calls of its own, in that order.           *)
(* Sources: engine/{execute,synthetic,member-fields,dynamic,hierarchy,     *)
(* grouptype}.ts, the member-field references of resolve/resolver.ts.      *)
(*                                                                         *)
(* Module ApplyRun has many resources with one sub-resource each; here one *)
(* group has all of its own.  Colleagues edit it in the ChurchTools UI.    *)
(***************************************************************************)
EXTENDS Naturals, FiniteSets

CONSTANTS Fields,       \* local keys of member fields; a key is its own slug
          References,   \* referenceNames, the identity of a field in ChurchTools
          SlugOf,       \* what is left of one without punctuation and case
          Names,        \* slugs of display names
          Values,       \* of properties, of columns and of rulesets
          Types, Roles, \* group types and the roles /group/roles lists
          TypeOf, NameOf, DefaultRole,
          ServerProps,  \* the properties of a field created without any
          Unlisted,     \* roles members may hold that /group/roles does not list
          Members,
          Parents,      \* managed groups that may be parents
          Strangers,    \* unmanaged groups that are parents
          Configs,      \* the declarations of the group the operator may write
          Mapped,       \* the group's id in the id map, None
          InitialRoles, \* the members' roles at the start
          UiRows,       \* member fields colleagues add
          UiRulesets,   \* rulesets colleagues give the group
          Ids, FirstId,
          None,
          MaxConfigs, MaxEdits, MaxFaults   \* bounds

Status == {"none", "active", "inactive"}
\* own: group-scoped; the others are person fields and defaults of the type
Row == [id : Ids, ref : References \cup {None}, name : Names, props : Values, own : BOOLEAN]
Ruleset == [query : Values, field : Ids \cup {None}]
Planned == [query : Values, field : Ids \cup Fields \cup {None}]

ASSUME NamesAssumption ==
  /\ Fields \subseteq Names /\ SlugOf \in [References -> Names]
  /\ None \notin References \cup Ids \cup Fields \cup Types \cup Roles /\ Fields \cap Ids = {}

ASSUME RolesAssumption ==
  /\ TypeOf \in [Roles -> Types] /\ DefaultRole \in [Types -> Roles]
  /\ \A t \in Types : TypeOf[DefaultRole[t]] = t
  /\ Unlisted \cap Roles = {} /\ None \notin Unlisted
  /\ InitialRoles \in [Members -> Roles]

ASSUME BoundsAssumption ==
  /\ Ids \subseteq Nat /\ FirstId \in Nat /\ FirstId - 1 \in Ids
  /\ Mapped \in Ids \cup {None}
  /\ UiRows \subseteq [ref : References \cup {None}, name : Names, props : Values,
                     own : BOOLEAN]
  /\ ServerProps \in Values
  /\ UiRulesets \subseteq [query : Values, field : {None}]
  /\ MaxConfigs \in Nat /\ MaxEdits \in Nat /\ MaxFaults \in Nat

\* What a declaration is made of; Accepted below is what becomes of it.
ASSUME ConfigsAssumption ==
  \A c \in Configs :
    /\ c.only \in BOOLEAN /\ c.type \in Types /\ c.column \in Values
    /\ c.parents \subseteq Parents \cup Strangers
    /\ c.fields \in [Fields -> [ref : References, props : Values \cup {None}] \cup {None}]
    /\ c.dynamic \in [status : Status, query : Values, field : Fields \cup {None}]

\* What still has to be sent for the sub-resources, in this order of fields.
Nothing == [adds |-> {}, removes |-> {}, fields |-> {}, drop |-> FALSE,
            puts |-> {}, status |-> {}]

VARIABLES config,    \* the declaration
          live,      \* the group in ChurchTools, or None
          role,      \* its members' roles
          nextId,
          disk, mem, \* the state entry, in the file and in this run: [id, fields]
          pc, item, todo,
          read,      \* the member fields as read once per item, or None
          mine,      \* history: rows ct created
          noted,     \* history: the members' roles when the run was planned
          quiet,     \* history: no edit since then
          configs, edits, faults

vars == <<config, live, role, nextId, disk, mem, pc, item, todo, read, mine, noted,
          quiet, configs, edits, faults>>

--------------------------------------------------------------------------------
(* What the evaluation of a configuration accepts, before any call.         *)

FieldsOf(c) == {f \in Fields : c.fields[f] # None}

\* one declaration per referenceName
FieldsAccepted(c) ==
  \A f, g \in FieldsOf(c) : f # g => c.fields[f].ref # c.fields[g].ref

\* a parent outside the configuration would differ for ever
ParentsAccepted(c) == c.parents \subseteq Parents

\* A ruleset names a field of a declared group only if that group declares it; a
\* ruleset-only declaration declares none.
ReferenceAccepted(c) == c.dynamic.field # None => c.dynamic.field \in FieldsOf(c)

\* ct.dynamicGroup manages nothing but the ruleset.
OnlyAccepted(c) ==
  c.only => /\ FieldsOf(c) = {} /\ c.parents = {} /\ c.roleMapping = [n \in {} |-> n]

Accepted(c) ==
  FieldsAccepted(c) /\ ParentsAccepted(c) /\ ReferenceAccepted(c) /\ OnlyAccepted(c)

--------------------------------------------------------------------------------
(* Matching declared member fields with live rows.                          *)

Declared == FieldsOf(config)

\* Of the rows the endpoint answers with, those its write paths own
OwnRows == {r \in live.rows : r.own}

\* The bound row and no other; without a binding the exact referenceName, and
\* the name only for a row that has none.
Matches(rows, f, known) ==
  {r \in rows : IF known # None THEN r.id = known
                ELSE IF r.ref # None THEN r.ref = config.fields[f].ref
                ELSE r.name = f}

\* mutated: a row is updated whatever its referenceName says
Conflicting_Never(r, f) == FALSE

Conflicting(r, f) == r.ref # None /\ r.ref # config.fields[f].ref

\* the same identity but for punctuation or case
NearIdentities(rows, f) ==
  {r \in rows : r.ref # None /\ SlugOf[r.ref] \in {SlugOf[config.fields[f].ref], f}}

Known(entry, f) == IF entry = None THEN None ELSE entry.fields[f]

\* The fold leaves such a field alone and makes the plan incomplete: a stale
\* binding, several rows, another identity, a near one.
BadField(f) ==
  LET found == Matches(OwnRows, f, Known(disk, f)) IN
  \/ found = {} /\ (Known(disk, f) # None \/ NearIdentities(OwnRows, f) # {})
  \/ Cardinality(found) > 1
  \/ \E r \in found : Conflicting(r, f)

--------------------------------------------------------------------------------
(* deriveRoleMapping.                                                       *)

RolesOf(t) == {r \in Roles : TypeOf[r] = t}
Named(t, n) == {r \in RolesOf(t) : NameOf[r] = n}

\* mutated: only the first page of the members is counted
Holders_FirstPage(r) == {m \in {CHOOSE m \in Members : TRUE} : role[m] = r}

Holders(r) == {m \in Members : role[m] = r}

\* A declared target, else the one role of the same name, else, for a role
\* nobody holds, the default of the new type; never a guess.
Targets(r, t) ==
  IF NameOf[r] \in DOMAIN config.roleMapping THEN Named(t, config.roleMapping[NameOf[r]])
  ELSE IF Cardinality(Named(t, NameOf[r])) = 1 THEN Named(t, NameOf[r])
  ELSE IF Holders(r) = {} THEN {DefaultRole[t]}
  ELSE {}

Unmappable(t) == {r \in RolesOf(live.type) : Cardinality(Targets(r, t)) # 1}
Stray == DOMAIN config.roleMapping \ {NameOf[r] : r \in RolesOf(live.type)}
Orphaned == {role[m] : m \in Members} \ (RolesOf(live.type) \cup {None})

Mapping(t) == [r \in RolesOf(live.type) |-> CHOOSE x \in Targets(r, t) : TRUE]

--------------------------------------------------------------------------------
(* The plan.                                                                *)

GroupId == IF disk # None THEN disk.id ELSE IF config.only THEN Mapped ELSE None
Found == live # None /\ GroupId = live.id

Migrates == Found /\ ~config.only /\ live.type # config.type

\* A reference to a member field of a managed group reads the group's fields.
\* A vanished group has none to read: the plan fails.
Unreadable ==
  /\ config.dynamic.field # None
  /\ disk # None /\ ~Found

Rejected ==
  \/ ~Accepted(config)
  \/ config.only /\ ~Found
  \/ Unreadable
  \/ ~config.only /\ Found /\ \E f \in Declared : BadField(f)
  \/ Migrates /\ (Unmappable(config.type) # {} \/ Stray # {} \/ Orphaned # {})

\* the field of the ruleset: an id, or still its key
FieldRef ==
  IF config.dynamic.field = None THEN None
  ELSE LET f == config.dynamic.field
           found == IF Found /\ disk # None THEN Matches(OwnRows, f, disk.fields[f]) ELSE {}
       IN IF found = {} THEN f ELSE (CHOOSE r \in found : TRUE).id

\* A group whose ruleset is 404 counts as not dynamic; its status is not read.
ActualDynamic ==
  IF ~Found THEN [status |-> "unknown", ruleset |-> None]
  ELSE IF live.ruleset = None THEN [status |-> "none", ruleset |-> None]
  ELSE [status |-> live.status, ruleset |-> live.ruleset]

\* mutated: the ruleset of a demoted group is compared like any other
DesiredDynamic_Unfolded ==
  [status |-> config.dynamic.status,
   ruleset |-> [query |-> config.dynamic.query, field |-> FieldRef]]

\* A demoted group keeps its ruleset in the configuration; it is folded away.
DesiredDynamic ==
  IF config.dynamic.status = "none" THEN [status |-> "none", ruleset |-> None]
  ELSE [status |-> config.dynamic.status,
        ruleset |-> [query |-> config.dynamic.query, field |-> FieldRef]]

ActualParents == IF Found THEN live.parents \cap Parents ELSE {}

\* Narrowed to the properties the declaration names, all or none here
ActualProps(f) ==
  {IF config.fields[f].props = None THEN None ELSE r.props :
     r \in Matches(OwnRows, f, Known(disk, f))}

\* a declared field without a row, or with other properties than declared
FieldChanges ==
  {f \in Declared : ~Found \/ ActualProps(f) # {config.fields[f].props}}

DynamicSteps ==
  IF DesiredDynamic = ActualDynamic THEN Nothing
  ELSE [Nothing EXCEPT
          !.drop = (DesiredDynamic.status = "none"),
          !.puts = {DesiredDynamic.ruleset} \ {ActualDynamic.ruleset, None},
          !.status = {DesiredDynamic.status}]

Synthetic ==
  IF config.only THEN DynamicSteps
  ELSE [DynamicSteps EXCEPT !.adds = config.parents \ ActualParents,
                            !.removes = ActualParents \ config.parents,
                            !.fields = FieldChanges]

Item ==
  IF config.only THEN [kind |-> "ruleset", mapping |-> None, column |-> FALSE]
  ELSE IF ~Found THEN [kind |-> "create", mapping |-> None, column |-> TRUE]
  ELSE [kind |-> "update", column |-> live.column # config.column,
        mapping |-> IF Migrates THEN Mapping(config.type) ELSE None]

NoItem == [kind |-> "none", mapping |-> None, column |-> FALSE]

HasChanges ==
  \/ ~config.only /\ (Found => Migrates \/ live.column # config.column)
  \/ Synthetic # Nothing

--------------------------------------------------------------------------------
(* The ChurchTools UI and the operator.                                     *)

run == <<disk, mem, pc, item, todo, read, mine, noted>>

Edited == live # None /\ edits < MaxEdits /\ edits' = edits + 1 /\ quiet' = FALSE

UiJoin(m, r) ==
  /\ Edited /\ role[m] # r /\ (r \in Roles => TypeOf[r] = live.type)
  /\ role' = [role EXCEPT ![m] = r]
  /\ UNCHANGED <<config, live, nextId, run, configs, faults>>

UiAddRow(t) ==
  /\ Edited /\ nextId \in Ids
  /\ live' = [live EXCEPT !.rows = @ \cup {[id |-> nextId, ref |-> t.ref,
                                           name |-> t.name, props |-> t.props, own |-> t.own]}]
  /\ nextId' = nextId + 1
  /\ UNCHANGED <<config, role, run, configs, faults>>

\* a field is deleted, or renamed; its referenceName stays
UiRow(r) ==
  /\ Edited
  /\ \/ live' = [live EXCEPT !.rows = @ \ {r}]
     \/ \E n \in Names \ {r.name} : live' = [live EXCEPT !.rows = (@ \ {r}) \cup {[r EXCEPT !.name = n]}]
  /\ UNCHANGED <<config, role, nextId, run, configs, faults>>

UiDynamic(rs, s) ==
  /\ Edited /\ (rs = None => s = "none") /\ <<rs, s>> # <<live.ruleset, live.status>>
  /\ live' = [live EXCEPT !.ruleset = rs, !.status = s]
  /\ UNCHANGED <<config, role, nextId, run, configs, faults>>

UiParent(p) ==
  /\ Edited
  /\ live' = [live EXCEPT !.parents = IF p \in @ THEN @ \ {p} ELSE @ \cup {p}]
  /\ UNCHANGED <<config, role, nextId, run, configs, faults>>

UiDelete ==
  /\ Edited /\ live' = None /\ role' = [m \in Members |-> None]
  /\ UNCHANGED <<config, nextId, run, configs, faults>>

EditConfig(c) ==
  /\ pc = "idle" /\ configs < MaxConfigs /\ c # config /\ c.only = config.only
  /\ config' = c /\ configs' = configs + 1
  /\ UNCHANGED <<live, role, nextId, run, quiet, edits, faults>>

--------------------------------------------------------------------------------
(* The run.                                                                 *)

Fault == faults < MaxFaults /\ faults' = faults + 1

\* What the run held in memory is gone, bindings it recorded included.
Over == /\ pc' = "idle" /\ item' = NoItem /\ todo' = Nothing /\ read' = None
        /\ mem' = disk

idle == <<config, disk, noted, quiet, configs, edits>>

Prepare ==
  /\ pc = "idle" /\ ~Rejected /\ HasChanges
  /\ item' = Item /\ todo' = Synthetic /\ mem' = disk /\ read' = None
  /\ pc' = "planned" /\ noted' = role /\ quiet' = TRUE
  /\ UNCHANGED <<config, live, role, nextId, disk, mine, configs, edits, faults>>

Abandon ==
  /\ pc = "planned" /\ Over
  /\ UNCHANGED <<idle, live, role, nextId, mine, faults>>

Execute ==
  /\ pc = "planned"
  /\ pc' = CASE item.kind = "create" -> "create" [] item.kind = "ruleset" -> "syn"
             [] item.mapping # None -> "migrate" [] OTHER -> "columns"
  /\ UNCHANGED <<idle, mem, item, todo, read, live, role, nextId, mine, faults>>

\* The run goes on after a call, or its answer is lost and the run is over.
On(next, entry, left, rows) ==
  \/ pc' = next /\ mem' = entry /\ todo' = left /\ read' = rows /\ UNCHANGED <<item, faults>>
  \/ Fault /\ Over

Target == IF item.kind = "ruleset" THEN GroupId ELSE IF mem = None THEN None ELSE mem.id
Alive == live # None /\ live.id = Target

\* The stale entry of a vanished group is dropped with everything on it.
NewEntry(i) == [id |-> i, fields |-> [f \in Fields |-> None]]

\* ChurchTools refuses a second group of the same name.
Create ==
  /\ pc = "create" /\ live = None /\ nextId \in Ids /\ nextId' = nextId + 1
  /\ live' = [id |-> nextId, type |-> config.type, column |-> config.column,
              parents |-> {}, rows |-> {}, ruleset |-> None, status |-> "none"]
  /\ On("save1", NewEntry(nextId), todo, read)
  /\ UNCHANGED <<idle, role, mine>>

\* POST /groups/{id}/grouptype; the payload has to name the roles of the
\* current type, and memberships land where it says.
Migrate ==
  /\ pc = "migrate" /\ Alive /\ DOMAIN item.mapping = RolesOf(live.type)
  /\ live' = [live EXCEPT !.type = config.type]
  /\ role' = [m \in Members |-> IF role[m] \in DOMAIN item.mapping
                                THEN item.mapping[role[m]] ELSE role[m]]
  /\ On("columns", mem, todo, read)
  /\ UNCHANGED <<idle, nextId, mine>>

\* PATCH of the other columns, and no call where there are none
Columns ==
  /\ pc = "columns" /\ (item.column => Alive)
  /\ live' = IF item.column THEN [live EXCEPT !.column = config.column] ELSE live
  /\ On("save1", mem, todo, read)
  /\ UNCHANGED <<idle, role, nextId, mine>>

Save(from, to) ==
  /\ pc = from /\ pc' = to /\ disk' = mem
  /\ UNCHANGED <<config, live, role, nextId, mem, item, todo, read, mine, noted, quiet,
                 configs, edits, faults>>

AddParent(p) ==
  /\ pc = "syn" /\ p \in todo.adds /\ Alive
  /\ live' = [live EXCEPT !.parents = @ \cup {p}]
  /\ On(pc, mem, [todo EXCEPT !.adds = @ \ {p}], read)
  /\ UNCHANGED <<idle, role, nextId, mine>>

RemoveParent(p) ==
  /\ pc = "syn" /\ todo.adds = {} /\ p \in todo.removes /\ Alive
  /\ live' = [live EXCEPT !.parents = @ \ {p}]
  /\ On(pc, mem, [todo EXCEPT !.removes = @ \ {p}], read)
  /\ UNCHANGED <<idle, role, nextId, mine>>

FieldsTurn(f) ==
  pc = "syn" /\ todo.adds = {} /\ todo.removes = {} /\ f \in todo.fields /\ Alive

\* Every field change of an item works on one read of the rows.
Rows == IF read = None THEN OwnRows ELSE read
Written(f) == [todo EXCEPT !.fields = @ \ {f}]

\* A write leaves alone what the declaration does not name.
Merged(f, before) == IF config.fields[f].props = None THEN before ELSE config.fields[f].props

\* The one matching row is updated and recorded; its referenceName is not sent.
PatchField(f) ==
  /\ FieldsTurn(f)
  /\ \E r \in live.rows :
       /\ {q.id : q \in Matches(Rows, f, mem.fields[f])} = {r.id} /\ ~Conflicting(r, f)
       /\ live' = [live EXCEPT !.rows =
                     (@ \ {r}) \cup {[r EXCEPT !.props = Merged(f, @)]}]
       /\ On(pc, [mem EXCEPT !.fields[f] = r.id], Written(f), Rows)
  /\ UNCHANGED <<idle, role, nextId, mine>>

\* mutated: what is not bound is created
Missing_Unbound(f) == mem.fields[f] = None

Missing(f) == mem.fields[f] = None /\ Matches(Rows, f, None) = {}

PostField(f) ==
  /\ FieldsTurn(f) /\ nextId \in Ids /\ Missing(f)
  /\ live' = [live EXCEPT !.rows = @ \cup {[id |-> nextId, ref |-> config.fields[f].ref,
                                           name |-> f, own |-> TRUE,
                                           props |-> Merged(f, ServerProps)]}]
  /\ nextId' = nextId + 1 /\ mine' = mine \cup {nextId}
  /\ On(pc, [mem EXCEPT !.fields[f] = nextId], Written(f), Rows)
  /\ UNCHANGED <<idle, role>>

DynamicTurn ==
  pc = "syn" /\ todo.adds = {} /\ todo.removes = {} /\ todo.fields = {} /\ Alive

\* A pending field is completed from the binding its own write recorded.
Completed(r) == IF r.field \in Fields THEN [r EXCEPT !.field = mem.fields[r.field]] ELSE r

PutRuleset(r) ==
  /\ DynamicTurn /\ r \in todo.puts
  /\ r.field \in Fields => mem.fields[r.field] # None
  /\ live' = [live EXCEPT !.ruleset = Completed(r)]
  /\ On(pc, mem, [todo EXCEPT !.puts = {}], read)
  /\ UNCHANGED <<idle, role, nextId, mine>>

\* a 404 means there is none
DropRuleset ==
  /\ DynamicTurn /\ todo.drop
  /\ live' = [live EXCEPT !.ruleset = None]
  /\ On(pc, mem, [todo EXCEPT !.drop = FALSE], read)
  /\ UNCHANGED <<idle, role, nextId, mine>>

PutStatus(s) ==
  /\ DynamicTurn /\ ~todo.drop /\ todo.puts = {} /\ s \in todo.status
  /\ live' = [live EXCEPT !.status = s]
  /\ On(pc, mem, [todo EXCEPT !.status = {}], read)
  /\ UNCHANGED <<idle, role, nextId, mine>>

\* A ruleset-only item writes nothing to the state.
SyntheticDone ==
  /\ pc = "syn" /\ todo = Nothing
  /\ IF item.kind = "ruleset" THEN Over
     ELSE pc' = "save2" /\ UNCHANGED <<mem, item, todo, read>>
  /\ UNCHANGED <<idle, live, role, nextId, mine, faults>>

Finish ==
  /\ pc = "done" /\ Over
  /\ UNCHANGED <<idle, live, role, nextId, mine, faults>>

\* What must fail: the name is taken, the group or the row is gone, the type was
\* changed, the field became ambiguous or its binding stale, a pending field
\* has no id.
Hopeless ==
  \/ pc = "create" /\ live # None
  \/ pc \in {"migrate", "syn"} /\ todo # Nothing /\ ~Alive
  \/ pc = "columns" /\ item.column /\ ~Alive
  \/ pc = "migrate" /\ (Alive => DOMAIN item.mapping # RolesOf(live.type))
  \/ \E f \in todo.fields :
       /\ FieldsTurn(f)
       /\ \/ Cardinality(Matches(Rows, f, mem.fields[f])) > 1
          \/ mem.fields[f] # None /\ Matches(Rows, f, mem.fields[f]) = {}
          \/ \E r \in Matches(Rows, f, mem.fields[f]) :
               Conflicting(r, f) \/ r.id \notin {q.id : q \in live.rows}
  \/ DynamicTurn /\ \E r \in todo.puts : r.field \in Fields /\ mem.fields[r.field] = None

Calling == pc \in {"create", "migrate", "columns", "syn"}

Fails ==
  /\ \/ Calling /\ Fault
     \/ Hopeless /\ UNCHANGED faults
  /\ Over
  /\ UNCHANGED <<idle, live, role, nextId, mine>>

Crash ==
  /\ pc \notin {"idle", "planned"} /\ Fault /\ Over
  /\ UNCHANGED <<idle, live, role, nextId, mine>>

--------------------------------------------------------------------------------
Blank == [f \in Fields |-> None]

\* no group yet, a managed one, or one of the id map
Init ==
  /\ config \in Configs
  /\ nextId = FirstId
  /\ \E t \in Types, v \in Values :
       live \in {None, [id |-> FirstId - 1, type |-> t, column |-> v, rows |-> {},
                       parents |-> Strangers, ruleset |-> None, status |-> "none"]}
  /\ role = [m \in Members |-> IF live # None /\ InitialRoles[m] \in RolesOf(live.type)
                               THEN InitialRoles[m] ELSE None]
  /\ disk = IF live = None \/ config.only THEN None
            ELSE [id |-> live.id, fields |-> Blank]
  /\ mem = disk /\ pc = "idle" /\ item = NoItem /\ todo = Nothing /\ read = None
  /\ mine = {} /\ noted = role /\ quiet = FALSE
  /\ configs = 0 /\ edits = 0 /\ faults = 0

Work ==
  \/ Create \/ Migrate \/ Columns \/ Save("save1", "syn") \/ Save("save2", "done")
  \/ \E p \in Parents : AddParent(p) \/ RemoveParent(p)
  \/ \E f \in Fields : PatchField(f) \/ PostField(f)
  \/ \E r \in todo.puts : PutRuleset(r)
  \/ DropRuleset \/ SyntheticDone \/ Finish
  \/ \E s \in Status : PutStatus(s)

Ui ==
  \/ \E m \in Members, r \in Roles \cup Unlisted : UiJoin(m, r)
  \/ \E t \in UiRows : UiAddRow(t)
  \/ live # None /\ \E r \in live.rows : UiRow(r)
  \/ \E rs \in UiRulesets \cup {None}, s \in Status : UiDynamic(rs, s)
  \/ \E p \in Parents \cup Strangers : UiParent(p)
  \/ UiDelete

Next ==
  \/ Prepare \/ Abandon \/ Execute \/ Work \/ Fails \/ Crash \/ Ui
  \/ \E c \in Configs : EditConfig(c)

Spec == Init /\ [][Next]_vars

--------------------------------------------------------------------------------
(* Safety.                                                                  *)

\* The variables keep their types.
Entry == [id : Ids, fields : [Fields -> Ids \cup {None}]]
Group == [id : Ids, type : Types, column : Values, rows : SUBSET Row, status : Status,
          parents : SUBSET (Parents \cup Strangers), ruleset : Ruleset \cup {None}]
ToDo == [adds : SUBSET Parents, removes : SUBSET Parents, fields : SUBSET Fields,
         drop : BOOLEAN, puts : SUBSET Planned, status : SUBSET Status]
TypeOK ==
  /\ config \in Configs /\ live \in Group \cup {None}
  /\ role \in [Members -> Roles \cup Unlisted \cup {None}]
  /\ disk \in Entry \cup {None} /\ mem \in Entry \cup {None}
  /\ todo \in ToDo /\ read \in (SUBSET Row) \cup {None}
  /\ mine \subseteq Ids /\ noted \in [Members -> Roles \cup Unlisted \cup {None}]

\* Whatever is lost or fails between creating a member field and recording it,
\* re-running never gives one group two fields of ct's with one referenceName
\* (synthetic.ts:461; a vanished binding is refused, not replaced).
OneOwnField ==
  live # None =>
    \A x \in References : Cardinality({r \in live.rows : r.id \in mine /\ r.ref = x}) <= 1

\* With nobody else at work since the plan, the ruleset ct installs names a live
\* row of the declared field, also one created a moment ago, and never a row
\* that ChurchTools knows under another referenceName, nor a person field.
RulesetNamesItsField ==
  [][\A r \in todo.puts :
       PutRuleset(r) /\ quiet /\ r.field # None =>
         \E q \in live'.rows : /\ q.id = live'.ruleset.field /\ q.own
                               /\ q.ref \in {None, config.fields[config.dynamic.field].ref}]_vars

\* A migration moves a membership only to the role the configuration declares
\* for it, or to the one of the same name.  Somebody who took a role after the
\* plan counted its holders is the exception.
MembersLandAsDeclared ==
  [][Migrate => \A m \in Members :
       role[m] # None /\ role[m] = noted[m] /\ noted[m] \in Roles =>
         NameOf[role'[m]] = IF NameOf[role[m]] \in DOMAIN config.roleMapping
                            THEN config.roleMapping[NameOf[role[m]]] ELSE NameOf[role[m]]]_vars

--------------------------------------------------------------------------------
(* Convergence.                                                             *)

FieldAsDeclared(f) ==
  \E r \in live.rows : /\ Matches(OwnRows, f, Known(disk, f)) = {r}
                      /\ Merged(f, r.props) = r.props

DynamicAsDeclared ==
  IF config.dynamic.status = "none" THEN live.ruleset = None
  ELSE /\ live.ruleset # None /\ live.status = config.dynamic.status
       /\ live.ruleset.query = config.dynamic.query
       /\ config.dynamic.field # None =>
            live.ruleset.field \in {r.id : r \in live.rows}

AsDeclared ==
  /\ ~Rejected /\ Found /\ ~HasChanges /\ DynamicAsDeclared
  /\ ~config.only => /\ live.type = config.type /\ live.column = config.column
                     /\ live.parents \cap Parents = config.parents
                     /\ \A f \in Declared : FieldAsDeclared(f)

\* The plan is refused, or a group whose creation was lost has the name.
Blocked == Rejected \/ (live # None /\ ~Found)

\* The process runs on, and while something is left to do the operator plans
\* again and in the end confirms.
Fairness ==
  /\ WF_vars(Work /\ faults' = faults) /\ WF_vars(Fails /\ faults' = faults)
  /\ SF_vars(Prepare) /\ SF_vars(Execute)

FairSpec == Spec /\ Fairness

\* With finitely many faults and edits, re-running apply makes the group what is
\* declared and the next plan empty, or ct says why it will not.
EventuallyAsDeclared == <>[](AsDeclared \/ Blocked)

\* "Collapsing both sides makes a demoted group converge" (synthetic.ts:630): a
\* plan without changes means that a demoted group is demoted.
DemotedGroupConverges ==
  pc = "idle" /\ Found /\ ~Rejected /\ ~HasChanges /\ config.dynamic.status = "none"
    => live.status = "none"
=============================================================================
