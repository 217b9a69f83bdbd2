------------------------------- MODULE Cutover -------------------------------
(***************************************************************************)
(* Handing resources over to OpenTofu: `ct adopt`, `ct export tf`, the     *)
(* operator's `tofu apply`, `ct state rm`, `ct ids sync`, and what the     *)
(* references left in the configuration resolve to meanwhile, from ct's    *)
(* state, the committed id map (.ct/ids.<host>.json) or a live name.       *)
(* Sources: resolve/resolver.ts, idMap.ts, tfstate.ts, reverse.ts,         *)
(* config/query-refs.ts, application/operations/export-tf.ts, ids.ts,      *)
(* adopt.ts and export/.                                                   *)
(*                                                                         *)
(* One host.  Group types stand for the master data that has a catalog,    *)
(* groups for what only ct's state or the map can name; role definitions   *)
(* are named by ruleset markers.  Each operation runs alone (Adoption and  *)
(* PreparedOperation treat their interleaving).  The operator follows      *)
(* docs/opentofu-migration.md: see Disciplined.  The tofu side, the files  *)
(* it reads and its state, is external.                                    *)
(***************************************************************************)
EXTENDS CtState, FiniteSets

CONSTANTS TypeOf,     \* the type of each identity
          Names,      \* names a row can have in ChurchTools
          SlugOf,     \* the key a name slugs to
          LabelOf,    \* the HCL label of a key
          GroupType,  \* the group type of each group and role definition
          Present,    \* the rows of ChurchTools at first, with their names
          Started,    \* the state file at first
          Adoptions,  \* rows that are adopted, each with a key for --key or None
          InRulesets, \* roles that captured rulesets name
          Renames,    \* rows that get a name in the ChurchTools UI
          Added,      \* resources written in HCL: address, row and name
          MaxEdits,   \* bound: changes in the ChurchTools UI
          MaxAdopts,  \* bound: adoptions
          MaxExports, \* bound: exports
          MaxTofu,    \* bound: changes made through OpenTofu alone
          MaxBreaks,  \* bound: the map made unreadable
          MaxCaptures, \* bound: rulesets captured that name a role
          Missing,    \* a reference that fails the plan
          Deleted     \* a row that ChurchTools had once

Types == {"group-type", "group", "group-role"}
Exportable == {"group-type", "group"}

Entry == [id : Ids, fields : Ids \cup {None}, prot : BOOLEAN]

ASSUME CutoverAssumption ==
  /\ IsFiniteSet(Ids) /\ TypeOf \in [Ids -> Types] /\ SlugOf \in [Names -> Keys]
  /\ LabelOf \in [Keys -> Keys] /\ \A k \in Keys : LabelOf[LabelOf[k]] = LabelOf[k]
  /\ GroupType \in [Ids -> Ids \cup {None}] /\ Present \in [Ids -> Names \cup {None}]
  /\ Sound(Started, Entry)
  /\ \A k \in Managed(Started) : Present[Started[k].id] # None
  /\ Adoptions \subseteq Ids \X (Keys \cup {None}) /\ InRulesets \subseteq Ids
  /\ Renames \subseteq Ids \X Names
  /\ Added \subseteq (Types \X {LabelOf[k] : k \in Keys}) \X Ids \X Names
  /\ None \notin Keys \cup Names /\ Missing \notin Ids \cup {None} /\ Deleted \notin Names \cup {None}
  /\ {MaxEdits, MaxAdopts, MaxExports, MaxTofu, MaxBreaks, MaxCaptures} \subseteq Nat

Labels == {LabelOf[k] : k \in Keys}

Addresses == Types \X Labels
MapEntry == [id : Ids, key : Keys, label : Labels]
Marker == [kind : {"role-def", "pair", "number"}, key : Keys \cup {None},
           role : Names \cup {None}]

VARIABLES live,      \* ChurchTools: the name of each row, None before it exists
          managed,   \* the state file of ct
          idmap,     \* the entries of the id map; none when there is no file
          readable,  \* the id map is absent or well-formed, and of this host
          blocks,    \* the resource blocks in the .tf files
          imports,   \* imports.tf: the import blocks ...
          moved,     \* ... and the moved blocks
          blocked,   \* the moves the last export left to the operator
          skipped,   \* it could not read the map and wrote no moves
          applied,   \* what the last export wrote has been applied
          behind,    \* OpenTofu has addresses or ids the map does not know
          tofu,      \* OpenTofu's state: the instances at each address
          owned,     \* history: keys cut over, and what OpenTofu held for them
          broke,     \* history: the map has been unreadable
          shadowed,  \* history: a row was handed over at the address of a managed key
          captured,  \* the role markers in captured rulesets, and the role of each
          edits, adopts, exports, changes, breaks

files == <<blocks, imports, moved, blocked, skipped, applied>>
notes == <<shadowed, captured>>
bounds == <<edits, adopts, exports, changes, breaks>>
vars == <<live, managed, idmap, readable, files, behind, tofu, owned, broke,
          notes, bounds>>

Exists(i) == live[i] \in Names

--------------------------------------------------------------------------------
(* Resolution *)

\* (1) ct's own state, by key and type
OfState(t, k) ==
  {managed[j].id : j \in {i \in {k} \cap Managed(managed) : TypeOf[managed[i].id] = t}}

\* The entries of the id map: none when there is no file, an error when it is
\* malformed or another host's (callers guard with readable or report it).
LoadIdMap == IF readable THEN idmap ELSE {}

\* (1b) the id map, an exact table
OfMap(t, k) == {e.id : e \in {e \in LoadIdMap : TypeOf[e.id] = t /\ e.key = k}}

\* (2) the live catalog by slugged name; groups have none
OfCatalog(t, k) ==
  {i \in Ids : t # "group" /\ TypeOf[i] = t /\ Exists(i) /\ SlugOf[live[i]] = k}

Only(found) == IF Cardinality(found) = 1 THEN CHOOSE i \in found : TRUE ELSE Missing

\* a plan fails as a whole while the map is unreadable
Resolve(t, k) ==
  IF ~readable THEN Missing
  ELSE IF OfState(t, k) # {} THEN Only(OfState(t, k))
  ELSE IF OfMap(t, k) # {} THEN Only(OfMap(t, k))
  ELSE Only(OfCatalog(t, k))

\* the live roles of a group type with this name
SameRole(gt, n) ==
  {i \in Ids : /\ TypeOf[i] = "group-role" /\ Exists(i)
               /\ GroupType[i] = gt /\ SlugOf[live[i]] = SlugOf[n]}

\* mutated: the first match is as good as any
ResolvePair_First(k, n) ==
  LET found == SameRole(Resolve("group-type", k), n)
  IN  IF found = {} THEN Missing ELSE CHOOSE i \in found : TRUE

\* a (group type, role name) pair: one role by name within the type
ResolvePair(k, n) == Only(SameRole(Resolve("group-type", k), n))

\* the key adopt writes for a row of a catalog: the slug of its live name
CatalogKey(i) == IF i \in Ids /\ Exists(i) THEN SlugOf[live[i]] ELSE None

\* the key state holds a role definition under: a ruleset is captured with these
RoleDefKeys(i) == Holders(managed, i)

\* A captured ruleset names a role by the pair, or, when that is ambiguous or
\* its type has no key, by the key state has for it; else by the bare number.
Portable(i) ==
  LET gt   == CatalogKey(GroupType[i])
      held == RoleDefKeys(i)
  IN  IF held # {} /\ (gt = None \/ Cardinality(SameRole(GroupType[i], live[i])) > 1)
      THEN [kind |-> "role-def", key |-> CHOOSE k \in held : TRUE, role |-> None]
      ELSE IF gt # None THEN [kind |-> "pair", key |-> gt, role |-> live[i]]
      ELSE [kind |-> "number", key |-> None, role |-> None]

ResolveMarker(i, m) ==
  CASE m.kind = "role-def" -> Resolve("group-role", m.key)
    [] m.kind = "pair"     -> ResolvePair(m.key, m.role)
    [] OTHER               -> i

--------------------------------------------------------------------------------
(* The export *)

At(t, l) == tofu[<<t, l>>]
Single(a) == Cardinality(tofu[a]) = 1
Address(k) == <<TypeOf[managed[k].id], LabelOf[k]>>
Selected(only) ==
  {k \in Managed(managed) : TypeOf[managed[k].id] \in only \cap Exportable}

LabelsUnique(sel) == \A j, k \in sel : Address(j) = Address(k) => j = k

\* the label of the group type a group's snapshot names: by the key in ct's
\* state, else as the map recorded it
RefLabels(i) ==
  IF i \in BoundIds(managed) THEN {LabelOf[k] : k \in Holders(managed, i)}
  ELSE {e.label : e \in {e \in LoadIdMap : e.id = i}}
ReferenceOf(k) == managed[k].fields
Unresolved(sel) == {k \in sel : ReferenceOf(k) # None /\ RefLabels(ReferenceOf(k)) = {}}

\* mutated: the .tf files carry no moves
Moves_None(sel) == {m \in {} : sel = {}}

\* a row the map knows under another label moves to the one written now
Moves(sel) ==
  UNION {{[type |-> TypeOf[e.id], id |-> e.id, from |-> e.label, to |-> LabelOf[k]] :
            e \in {e \in LoadIdMap : e.id = managed[k].id /\ e.label # LabelOf[k]}} :
         k \in sel}

\* tofu refuses a move from an address that is still written, or moved twice
Blocked(sel) ==
  {m \in Moves(sel) : \/ \E k \in sel : Address(k) = <<m.type, m.from>>
                      \/ \E n \in Moves(sel) : n # m /\ n.type = m.type /\ n.from = m.from}

Fresh(sel) == {[id |-> managed[k].id, key |-> k, label |-> LabelOf[k]] : k \in sel}

\* mutated: the export writes what it exported
CarryOver_Fresh(new) == new

\* what this export did not look at stays in the map
CarryOver(new) ==
  new \cup {e \in LoadIdMap : \A n \in new : /\ n.id # e.id
                                             /\ TypeOf[n.id] = TypeOf[e.id] => n.key # e.key}

ImportBlocks(sel) == {[at |-> Address(k), id |-> managed[k].id] : k \in sel}
MovedBlocks(sel) == Moves(sel) \ Blocked(sel)
Block(a, ref) == [at |-> a, ref |-> ref]

\* The file of each type that was exported is written anew, imports.tf always;
\* then the map, which an export of nothing leaves alone and which is not
\* written when the old one cannot be read.
WriteFiles(sel) ==
  LET types == {TypeOf[managed[k].id] : k \in sel}
      ref(k) == IF ReferenceOf(k) = None THEN {} ELSE RefLabels(ReferenceOf(k))
  IN  /\ blocks' = {b \in blocks : b.at[1] \notin types}
                   \cup {Block(Address(k), ref(k)) : k \in sel}
      /\ imports' = ImportBlocks(sel)
      /\ moved' = MovedBlocks(sel) /\ blocked' = Blocked(sel)
      /\ skipped' = ~readable /\ applied' = FALSE

\* What docs/opentofu-migration.md asks of the operator: moves are applied
\* before the next export, and the map is refreshed from tofu when it lags.
Disciplined == (applied \/ moved \cup blocked = {}) /\ ~behind

Export(only, writeIds) ==
  LET sel == Selected(only) IN
  /\ exports < MaxExports /\ Disciplined
  /\ LabelsUnique(sel) /\ Unresolved(sel) = {}
  /\ WriteFiles(sel)
  /\ idmap' = IF writeIds /\ readable /\ sel # {} THEN CarryOver(Fresh(sel)) ELSE idmap
  /\ exports' = exports + 1
  /\ UNCHANGED <<live, managed, readable, behind, tofu, owned, broke,
                 notes, edits, adopts, changes, breaks>>

--------------------------------------------------------------------------------
(* OpenTofu *)

\* the addresses after the moved blocks
AfterMoves ==
  [a \in Addresses |->
     LET into == {m \in moved : <<m.type, m.to>> = a /\ At(m.type, m.from) # {}}
         out  == {m \in moved : <<m.type, m.from>> = a /\ At(m.type, m.to) = {}}
     IN  IF into # {} /\ tofu[a] = {} THEN UNION {At(m.type, m.from) : m \in into}
         ELSE IF out # {} THEN {} ELSE tofu[a]]

\* ... and after the import blocks: one for an address in use does nothing
AfterImports ==
  [a \in Addresses |->
     IF AfterMoves[a] # {} THEN AfterMoves[a]
     ELSE {m.id : m \in {m \in imports : m.at = a}}]

\* objects whose address has no block any more
Doomed == UNION {AfterMoves[a] : a \in {a \in Addresses : ~\E b \in blocks : b.at = a}}

\* the id map has this row under this label
Listed(i, l) == \E e \in idmap : e.id = i /\ e.label = l

\* The zero-change gate: a plan that destroys or creates something or names an
\* address that does not exist is not applied.
TofuApply ==
  /\ ~applied /\ ~skipped /\ blocked = {} /\ Doomed = {}
  /\ \A b \in blocks : AfterImports[b.at] # {}
  /\ \A b \in blocks : \A l \in b.ref : \E c \in blocks : c.at = <<"group-type", l>>
  /\ tofu' = AfterImports /\ applied' = TRUE
  /\ behind' = (behind \/ \E m \in imports : ~Listed(m.id, m.at[2]))
  /\ UNCHANGED <<live, managed, idmap, readable, blocks, imports, moved, blocked,
                 skipped, owned, broke, notes, bounds>>

\* `tofu state mv` for the moves the export could not write
HandMove ==
  LET gone(a) == {m.id : m \in {m \in blocked : <<m.type, m.from>> = a}}
      come(a) == {m.id : m \in {m \in blocked : <<m.type, m.to>> = a
                                                /\ m.id \in At(m.type, m.from)}}
  IN  /\ blocked # {} /\ blocked' = {}
      /\ tofu' = [a \in Addresses |-> (tofu[a] \ gone(a)) \cup come(a)]
      /\ behind' = (behind \/ \E a \in Addresses : \E i \in come(a) : ~Listed(i, a[2]))
      /\ UNCHANGED <<live, managed, idmap, readable, blocks, imports, moved,
                     skipped, applied, owned, broke, notes, bounds>>

\* The blocks of what OpenTofu holds, that an export of the type has
\* overwritten, are put back from version control.
RestoreBlocks ==
  LET kept == {a \in Addresses : AfterMoves[a] # {}} IN
  /\ Doomed # {}
  /\ blocks' = blocks \cup {Block(a, {}) : a \in {a \in kept : ~\E b \in blocks : b.at = a}}
  /\ UNCHANGED <<live, managed, idmap, readable, imports, moved, blocked, skipped,
                 applied, behind, tofu, owned, broke, notes, bounds>>

OwnedAt(a) == {o \in owned : <<o.type, LabelOf[o.key]>> = a}

\* A resource ct no longer manages is replaced: a new row, a new id.
TofuReplace(a, j) ==
  /\ changes < MaxTofu /\ applied /\ Single(a) /\ live[j] = None
  /\ TypeOf[j] = a[1] /\ tofu[a] \cap BoundIds(managed) = {}
  /\ LET i == CHOOSE i \in tofu[a] : TRUE IN
     live' = [live EXCEPT ![i] = Deleted, ![j] = live[i]]
  /\ tofu' = [tofu EXCEPT ![a] = {j}]
  /\ owned' = (owned \ OwnedAt(a)) \cup {[o EXCEPT !.ids = @ \cup {j}] : o \in OwnedAt(a)}
  /\ behind' = TRUE /\ changes' = changes + 1
  /\ UNCHANGED <<managed, idmap, readable, files, broke, notes, edits, adopts,
                 exports, breaks>>

\* A new resource in HCL, under no label ct's keys stand for; an address in use
\* turns into a for_each block of two instances.
TofuAdd(a, j, n) ==
  /\ changes < MaxTofu /\ applied /\ live[j] = None /\ TypeOf[j] = a[1]
  /\ \A k \in Managed(managed) : Address(k) # a
  /\ tofu[a] \cap BoundIds(managed) = {} /\ Cardinality(tofu[a]) < 2
  /\ live' = [live EXCEPT ![j] = n]
  /\ tofu' = [tofu EXCEPT ![a] = @ \cup {j}]
  /\ blocks' = {b \in blocks : b.at # a} \cup {Block(a, {})}
  /\ behind' = TRUE
  /\ owned' = owned \ OwnedAt(a)
  /\ changes' = changes + 1
  /\ UNCHANGED <<managed, idmap, readable, imports, moved, blocked, skipped, applied,
                 broke, notes, edits, adopts, exports, breaks>>

--------------------------------------------------------------------------------
(* The id map read back from OpenTofu, state rm, adoption, the UI *)

\* the key the old map recorded for a label, else the label itself
KeyOfLabel(t, l) ==
  LET old == {e \in LoadIdMap : TypeOf[e.id] = t /\ e.label = l}
  IN  IF old = {} THEN l ELSE (CHOOSE e \in old : TRUE).key

\* blocks with several instances are skipped
FromTofu ==
  {[id |-> CHOOSE i \in tofu[a] : TRUE, key |-> KeyOfLabel(a[1], a[2]), label |-> a[2]] :
     a \in {a \in Addresses : Single(a)}}

Sync ==
  /\ FromTofu # {}
  /\ idmap' = FromTofu /\ readable' = TRUE /\ behind' = FALSE
  /\ UNCHANGED <<live, managed, files, tofu, owned, broke, notes, bounds>>

\* A merge, or the map of another host: it can no longer be read.
BreakMap ==
  /\ breaks < MaxBreaks /\ readable /\ idmap # {}
  /\ idmap' = {} /\ readable' = FALSE /\ broke' = TRUE /\ breaks' = breaks + 1
  /\ UNCHANGED <<live, managed, files, behind, tofu, owned, notes, edits, adopts,
                 exports, changes>>

\* The declaration is gone from the configuration, references to it stay. The
\* operator removes what OpenTofu holds and the map lists (`ct ids list`), once
\* what the last export wrote has been applied.
StateRm(k) ==
  LET t == TypeOf[managed[k].id]
      i == managed[k].id
  IN  /\ k \in Managed(managed) /\ readable /\ Disciplined
      /\ \E e \in idmap : e.id = i /\ e.key = k
      /\ At(t, LabelOf[k]) = {i}
      /\ managed' = [managed EXCEPT ![k] = None]
      /\ owned' = owned \cup {[type |-> t, key |-> k, ids |-> {i}]}
      /\ shadowed' = (shadowed \/ \E j \in Managed(managed) \ {k} : Address(j) = Address(k))
      /\ UNCHANGED <<live, idmap, readable, files, behind, tofu, broke, captured,
                     bounds>>

\* A group the map owns is not adopted: only its ruleset is captured.
OwnedByMap(i) ==
  TypeOf[i] = "group" /\ i \notin BoundIds(managed) /\ \E e \in idmap : e.id = i

\* The operator adopts under no key whose address holds a row of OpenTofu's own,
\* and no row of a for_each block, which the map cannot list.
FreeKey(i, k) ==
  /\ \A a \in Addresses : i \in tofu[a] => Single(a)
  /\ At(TypeOf[i], LabelOf[k]) \subseteq BoundIds(managed) \cup {i}
  /\ \A e \in idmap : e.label = LabelOf[k] /\ TypeOf[e.id] = TypeOf[i]
                      => e.id \in BoundIds(managed) \cup {i}

\* The ruleset of a dynamic group that names this role is captured.
Capture(i) ==
  /\ Cardinality(captured) < MaxCaptures
  /\ TypeOf[i] = "group-role" /\ Exists(i) /\ readable
  /\ captured' = captured \cup {[role |-> i, marker |-> Portable(i)]}
  /\ UNCHANGED <<live, managed, idmap, readable, files, behind, tofu, owned, broke,
                 shadowed, bounds>>

Adopt(i, explicit, rekey) ==
  LET k == AdoptKey(managed, i, SlugOf[live[i]], explicit, rekey) IN
  /\ adopts < MaxAdopts /\ Exists(i) /\ readable /\ ~OwnedByMap(i)
  /\ FreeKey(i, k) /\ ~Collides(managed, k, i)
  /\ managed' = Upsert(managed, k, i, GroupType[i])
  /\ owned' = {o \in owned : i \notin o.ids}
  /\ adopts' = adopts + 1
  /\ UNCHANGED <<live, idmap, readable, files, behind, tofu, broke, notes, edits,
                 exports, changes, breaks>>

UiEdit(i, n) ==
  /\ edits < MaxEdits /\ Exists(i) /\ live[i] # n
  /\ live' = [live EXCEPT ![i] = n] /\ edits' = edits + 1
  /\ UNCHANGED <<managed, idmap, readable, files, behind, tofu, owned, broke, notes,
                 adopts, exports, changes, breaks>>

--------------------------------------------------------------------------------
Init ==
  /\ live = Present /\ managed = Started /\ idmap = {} /\ readable = TRUE
  /\ blocks = {} /\ imports = {} /\ moved = {} /\ blocked = {}
  /\ skipped = FALSE /\ applied = TRUE /\ behind = FALSE /\ broke = FALSE
  /\ shadowed = FALSE /\ captured = {}
  /\ tofu = [a \in Addresses |-> {}] /\ owned = {}
  /\ edits = 0 /\ adopts = 0 /\ exports = 0 /\ changes = 0 /\ breaks = 0

Next ==
  \/ \E only \in {{"group-type"}, {"group"}, Exportable}, w \in BOOLEAN : Export(only, w)
  \/ TofuApply \/ HandMove \/ RestoreBlocks \/ Sync \/ BreakMap
  \/ \E a \in Addresses, j \in Ids : TofuReplace(a, j)
  \/ \E p \in Added : TofuAdd(p[1], p[2], p[3])
  \/ \E k \in Keys : StateRm(k)
  \/ \E p \in Adoptions, r \in BOOLEAN : Adopt(p[1], p[2], r)
  \/ \E r \in Renames : UiEdit(r[1], r[2])
  \/ \E i \in InRulesets : Capture(i)

Spec == Init /\ [][Next]_vars

--------------------------------------------------------------------------------
TypeOK ==
  /\ live \in [Ids -> Names \cup {None, Deleted}] /\ Sound(managed, Entry)
  /\ idmap \subseteq MapEntry /\ imports \subseteq [at : Addresses, id : Ids]
  /\ moved \cup blocked \subseteq [type : Types, id : Ids, from : Labels, to : Labels]
  /\ tofu \in [Addresses -> SUBSET Ids]
  /\ {readable, skipped, applied, behind, broke, shadowed} \subseteq BOOLEAN
  /\ \A b \in blocks : b.at \in Addresses /\ b.ref \subseteq Labels
  /\ \A o \in owned : o.type \in Types /\ o.key \in Keys /\ o.ids \subseteq Ids
  /\ captured \subseteq [role : Ids, marker : Marker]

\* A key that was cut over goes on naming the object OpenTofu holds for it,
\* or the one it replaced: whatever is exported later, in part or again,
\* adopted, renamed or synced, and also after the map was lost and rebuilt (a
\* key that HCL had to relabel is then forgotten).  Nothing may fall through
\* to a live name (resolver.ts:284, export-tf.ts:68, tfstate.ts:54).
CutOverStays ==
  readable /\ ~shadowed => \A o \in owned : LabelOf[o.key] = o.key \/ ~broke =>
                 Resolve(o.type, o.key) \in o.ids

\* A resource that keeps its identity under a new key keeps its object: what an
\* export writes is applied without another object at its address and without
\* its own at an address that has no block (export-tf.ts:255).  Excused once a
\* row was handed over at an address that another managed key has as well:
\* assertLabelsUnique (export/hcl.ts:89) compares the keys of one export, and
\* the row it no longer sees still holds the address.
ExportedStaysOne ==
  ~shadowed /\ ~applied /\ ~skipped /\ blocked = {} =>
    \A m \in imports : /\ AfterImports[m.at] = {m.id}
                       /\ \A a \in Addresses \ {m.at} : m.id \notin AfterImports[a]

\* "tofu moves first and the import of the same id is then a no-op"
\* (export/imports.ts:39): a move the export writes is one tofu can carry out,
\* with the same excuse.
MovesLand ==
  ~shadowed /\ ~applied /\ ~skipped /\ blocked = {} =>
    \A m \in moved : m.id \in At(m.type, m.from) => AfterMoves[<<m.type, m.to>>] = {m.id}

\* The role still has what its marker goes by: its name, or its key in state.
Bears(c) ==
  CASE c.marker.kind = "pair"     -> Exists(c.role) /\ SlugOf[live[c.role]] = SlugOf[c.marker.role]
    [] c.marker.kind = "role-def" -> c.marker.key \in RoleDefKeys(c.role)
    [] OTHER                      -> TRUE

\* The key of its group type names another type by now.
Displaced(c) ==
  /\ c.marker.kind = "pair"
  /\ Resolve("group-type", c.marker.key) \notin {GroupType[c.role], Missing}

\* A ruleset captured at any time keeps naming its role, or fails the plan:
\* through renames of the roles and types around it, adoptions under other
\* keys, exports and cutovers of its group type and the loss of the map.  It
\* never slides to a namesake that turned up since (query-refs.ts:255,
\* resolver.ts:452), unless the role itself gave up the name or key, or the
\* key of its type came to name another type.
RoleMarkersResolveBack ==
  \A c \in captured :
    Bears(c) /\ ~Displaced(c) => ResolveMarker(c.role, c.marker) \in {c.role, Missing}
=============================================================================
