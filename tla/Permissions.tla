------------------------------ MODULE Permissions -------------------------------
(***************************************************************************)
(* Permission declarations: resolve the desired grants, diff them against  *)
(* the live rows of their domains, and write the difference after the      *)
(* resources of the same apply; and the way back, from live rows to a      *)
(* declaration (`ct adopt grants`).                                        *)
(* Sources: permissions/{plan,scope,grants,apply,adopt,catalog}.ts,        *)
(* application/operations/adopt-grants.ts, util/concurrency.ts.            *)
(*                                                                         *)
(* A domain is a (group, role) pairing; each group has one role here and   *)
(* shares its number with it.  A key stands for a managed group or campus. *)
(* A domain or a scope that is still a key is pending: its resource is     *)
(* created by the same apply.                                              *)
(***************************************************************************)
EXTENDS Naturals, FiniteSets

CONSTANTS Rights,       \* every right some catalog or some live row names
          Host,         \* the rights of the active catalog
          Bundled,      \* the rights of the catalog ct ships
          PerInstance,  \* whether the active catalog is the host's own capture
          Strict,       \* --strict-catalog
          ScopeField,   \* the dimension a right is scoped by, None if unscoped
          Keys,         \* keys of groups and campuses
          KindOf,       \* "group" or "campus"
          Declared,     \* keys whose resource the configuration declares
          LiveName,     \* the id a key has in the id map or a live catalog
          Decls,        \* keys of permission declarations
          Configs,      \* the permission declarations the operator may write
          InitialState, \* the state file at the start
          InitialRows,  \* the permission rows at the start
          Baseline,     \* what ChurchTools may give a new group by itself
          UiRows,       \* the rows colleagues add and remove
          Ids, FirstId, \* identities, and the first one not yet in use
          All,          \* the scope -1, every value of the dimension
          NoData,       \* an unscoped row
          None,
          Workers,      \* writes in flight at once
          MaxConfigs, MaxEdits, MaxFaults   \* bounds

Logical == {"group", "campus"}     \* dimensions with a reference form

\* one scope entry: a bare string, a typed reference, a number
Entry == [form : {"bare", "ref", "num"}, of : Keys \cup Ids \cup {All}]
Datas == Ids \cup {All, NoData}
Row   == [dom : Ids, right : Rights, data : Datas,
          type : {"grant", "revoke"}, prov : {"direct", "inherited", "system"}]
Tuple == [right : Rights, data : Datas \cup Keys, key : Keys \cup {None}]
Op    == [put : BOOLEAN, dom : Ids \cup Keys, tuple : Tuple]
\* a domain is a number or a pair by name
IsTarget(e) ==
  e \in Entry /\ e.form # "bare" /\ e.of # All /\ (e.form = "num" <=> e.of \in Ids)
IsDecl(d) ==
  /\ DOMAIN d = {"target", "grants", "keep"} /\ IsTarget(d.target)
  /\ \A g \in d.grants :
       /\ g.right \in Rights
       /\ g.scope # None => \A e \in g.scope :
            e \in Entry /\ (e.form = "num" <=> e.of \in Ids \cup {All})

\* the ids a declaration names by number
Numbers(d) ==
  {i \in Ids : \/ d.target.of = i
               \/ \E g \in d.grants : g.scope # None /\ \E e \in g.scope : e.of = i}

ASSUME CatalogAssumption ==
  /\ Host \subseteq Rights /\ Bundled \subseteq Rights
  /\ Baseline \subseteq [right : Rights, prov : {"system", "inherited"}]
  /\ PerInstance \in BOOLEAN /\ Strict \in BOOLEAN
  /\ \A r \in Rights : ScopeField[r] \in {None, "group", "campus", "category"}

ASSUME IdsAssumption ==
  /\ FirstId \in Nat /\ Ids \subseteq Nat
  /\ KindOf \in [Keys -> Logical] /\ Declared \subseteq Keys
  /\ LiveName \in [Keys -> Ids \cup {None}]
  /\ InitialState \in [Keys -> Ids \cup {None}]
  /\ \A k \in Keys : /\ LiveName[k] = None \/ LiveName[k] < FirstId
                     /\ InitialState[k] = None \/ InitialState[k] < FirstId
  /\ Keys \cap Ids = {} /\ {All, NoData, None} \cap (Keys \cup Ids) = {}
  /\ All # NoData /\ All # None /\ NoData # None

ASSUME RowsAssumption ==
  /\ InitialRows \subseteq Row /\ UiRows \subseteq Row
  /\ \A r \in InitialRows \cup UiRows :
       r.dom < FirstId /\ (r.data \in Ids => r.data < FirstId)

ASSUME ConfigsAssumption ==
  /\ \A c \in Configs : /\ DOMAIN c = Decls
                        /\ \A d \in Decls : c[d] = None \/ IsDecl(c[d])
                        \* a number names what exists when it is written
                        /\ \A d \in Decls : c[d] # None =>
                             \A i \in Numbers(c[d]) : i < FirstId
  /\ Workers \in Nat \ {0}
  /\ MaxConfigs \in Nat /\ MaxEdits \in Nat /\ MaxFaults \in Nat

VARIABLES config,    \* the permission declarations
          state,     \* the state file: key -> id
          alive,     \* groups and campuses that exist
          nextId,    \* the next identity ChurchTools hands out
          rows,      \* the permission rows
          pc,        \* "idle", "resources", "domains" or "write"
          creates,   \* resources this apply still has to create
          todo,      \* writes not yet begun
          flight,    \* writes in flight
          failed,    \* writes of the last apply that failed
          quiet,     \* history: that apply was undisturbed
          configs, edits, faults

vars == <<config, state, alive, nextId, rows, pc, creates, todo, flight,
          failed, quiet, configs, edits, faults>>

--------------------------------------------------------------------------------
(* Desired grants.                                                          *)

\* A right only the bundled catalog has is a module this host lacks: the
\* declaration is skipped here instead of failing the plan.
HostMissing(r) == r \notin Host /\ ~Strict /\ PerInstance /\ r \in Bundled

\* A reference: managed, declared (pending), or in the id map or a catalog.
Resolve(k) ==
  IF state[k] # None THEN [data |-> state[k], key |-> k]
  ELSE IF k \in Declared THEN [data |-> k, key |-> k]
  ELSE [data |-> LiveName[k], key |-> None]

\* The data of a tuple, and the key it is resolved from once more before the
\* write; numbers and catalog entries are final.
Scope(e) == IF e.form = "num" THEN [data |-> e.of, key |-> None] ELSE Resolve(e.of)

\* A bare string names a group, managed or declared; a typed reference one of the
\* kind of the right.
BadEntry(e, field) ==
  \/ e.form = "bare" /\ (\/ field # "group" \/ KindOf[e.of] # "group"
                         \/ Resolve(e.of).key = None)
  \/ e.form = "ref" /\ (KindOf[e.of] # field \/ Resolve(e.of).data = None)

\* A scoped right needs a scope and an unscoped one must have none: a bare
\* string would otherwise grant the right globally.
BadGrant(g) ==
  /\ ~HostMissing(g.right)
  /\ \/ g.right \notin Host
     \/ (g.scope = None) # (ScopeField[g.right] = None)
     \/ g.scope # None /\ \E e \in g.scope : BadEntry(e, ScopeField[g.right])

\* one tuple per scope entry
Tuples(g) ==
  IF HostMissing(g.right) THEN {}
  ELSE IF g.scope = None
  THEN {[right |-> g.right, data |-> NoData, key |-> None]}
  ELSE {[right |-> g.right, data |-> Scope(e).data, key |-> Scope(e).key] : e \in g.scope}

Desired(d) == UNION {Tuples(g) : g \in config[d].grants}

Active == {d \in Decls : config[d] # None}

\* the domain of a declaration, a key while it is pending
Domain(d) ==
  IF config[d].target.form = "num" THEN config[d].target.of
  ELSE Resolve(config[d].target.of).data

\* A group that has an id is asked for its role list; an error there, like
\* one in a declaration, aborts the plan.
BadDomain(d) ==
  /\ config[d].target.form = "ref"
  /\ Domain(d) = None \/ Domain(d) \in Ids \ alive

\* A dimension to be left alone is one some catalog scopes by; a name of none,
\* a typo, would leave nothing alone.
BadKeep(d) ==
  \E x \in config[d].keep : \A r \in Rights :
    r \in Host \/ HostMissing(r) => ScopeField[r] # x

Rejected ==
  \/ \E d \in Active : BadKeep(d) \/ BadDomain(d) \/ \E g \in config[d].grants : BadGrant(g)
  \/ \E d, e \in Active : d # e /\ Domain(d) = Domain(e)

--------------------------------------------------------------------------------
(* The diff.                                                                *)

Pair(t) == [right |-> t.right, data |-> t.data]

\* what the host grants by any route, and what people or ct granted directly
Effective(x, rs) == {Pair(r) : r \in {s \in rs : s.dom = x /\ s.type = "grant"}}
Owned(x, rs) ==
  {Pair(r) : r \in {s \in rs : s.dom = x /\ s.type = "grant" /\ s.prov = "direct"}}

\* A declared grant needs a write unless the host has it by any route.
Puts(d, rs) ==
  {t \in Desired(d) : Domain(d) \in Keys \/ Pair(t) \notin Effective(Domain(d), rs)}

\* A live grant may go only if it is direct, of a right the catalog names, and
\* on no dimension the declaration preserves.
Spared(d, t) == t.right \notin Host \/ ScopeField[t.right] \in config[d].keep

\* mutated: inherited and system rows are removed like direct ones
Dels_Effective(d, rs) ==
  {t \in Effective(Domain(d), rs) \ {Pair(u) : u \in Desired(d)} : ~Spared(d, t)}

\* mutated: rights the catalog does not name and preserved dimensions go too
Dels_NotSpared(d, rs) == Owned(Domain(d), rs) \ {Pair(t) : t \in Desired(d)}

Dels(d, rs) ==
  {t \in Owned(Domain(d), rs) \ {Pair(u) : u \in Desired(d)} : ~Spared(d, t)}

OpsOf(d, rs) ==
  {[put |-> TRUE, dom |-> Domain(d), tuple |-> t] : t \in Puts(d, rs)} \cup
  {[put |-> FALSE, dom |-> Domain(d),
    tuple |-> [right |-> t.right, data |-> t.data, key |-> None]] : t \in Dels(d, rs)}

Ops == UNION {OpsOf(d, rows) : d \in Active}

--------------------------------------------------------------------------------
(* The way back: a declaration from live rows.                              *)

Holder(field, id) == {k \in Keys : state[k] = id /\ KindOf[k] = field}

\* a managed id becomes its key, other ids of the group dimension nothing
EntryFor(field, id) ==
  IF Holder(field, id) = {} THEN [form |-> "num", of |-> id]
  ELSE [form |-> IF field = "group" THEN "bare" ELSE "ref",
        of |-> CHOOSE k \in Holder(field, id) : TRUE]

\* Live grants no declaration can name; they stay behind as comments, and
\* applying the block would revoke them.
Omitted(x) ==
  {t \in Effective(x, rows) :
     \/ t.right \notin Host
     \/ (ScopeField[t.right] = None) # (t.data = NoData)
     \/ ScopeField[t.right] = "group" /\ t.data \in Ids /\ Holder("group", t.data) = {}}

\* mutated: only what ct owns on this host is declared
Expressed_Owned(x) == Owned(x, rows) \ Omitted(x)

Expressed(x) == Effective(x, rows) \ Omitted(x)

Grants(x) ==
  {[right |-> r,
    scope |-> IF ScopeField[r] = None THEN None
              ELSE {EntryFor(ScopeField[r], t.data) :
                      t \in {u \in Expressed(x) : u.right = r}}] :
     r \in {t.right : t \in Expressed(x)}}

Block(x, target) == [target |-> target, grants |-> Grants(x), keep |-> {}]

\* A scope on a dimension without a reference form is a host-specific number;
\* bulk adoption leaves such a domain out.
Declarable(x) ==
  \A t \in Effective(x, rows) :
    /\ t.right \in Host
    /\ ScopeField[t.right] \in Logical \cup {None} \/ t.data \notin Ids

--------------------------------------------------------------------------------
(* The operator and the colleagues.                                         *)

runVars == <<pc, creates, todo, flight, failed>>
hostVars == <<alive, nextId, rows>>

NewBlock(d, x, target) ==
  /\ pc = "idle" /\ config[d] = None /\ configs < MaxConfigs
  /\ configs' = configs + 1 /\ quiet' = FALSE
  /\ config' = [config EXCEPT ![d] = Block(x, target)]
  /\ UNCHANGED <<state, hostVars, runVars, edits, faults>>

\* ct adopt grants group_role <x>
AdoptOne(d, x) == NewBlock(d, x, [form |-> "num", of |-> x])

\* ct adopt grants --all-declarable or --group, for one of its domains
AdoptBulk(d, x) ==
  /\ Effective(x, rows) # {} /\ Declarable(x) /\ Omitted(x) = {}
  /\ NewBlock(d, x, IF Holder("group", x) = {} THEN [form |-> "num", of |-> x]
                    ELSE [form |-> "ref", of |-> CHOOSE k \in Holder("group", x) : TRUE])

EditConfig(c) ==
  /\ pc = "idle" /\ configs < MaxConfigs /\ c # config
  /\ config' = c /\ configs' = configs + 1 /\ quiet' = FALSE
  /\ UNCHANGED <<state, hostVars, runVars, edits, faults>>

Edited == edits < MaxEdits /\ edits' = edits + 1 /\ quiet' = FALSE

UiToggle(r) ==
  /\ Edited /\ r.dom \in alive
  /\ rows' = IF r \in rows THEN rows \ {r} ELSE rows \cup {r}
  /\ UNCHANGED <<config, state, alive, nextId, runVars, configs, faults>>

\* Grants scoped to a deleted group may stay behind in other domains.
UiDelete(i) ==
  /\ Edited /\ i \in alive
  /\ alive' = alive \ {i}
  /\ \E gone \in {{r \in rows : r.dom = i}, {r \in rows : i \in {r.dom, r.data}}} :
        rows' = rows \ gone
  /\ UNCHANGED <<config, state, nextId, runVars, configs, faults>>

--------------------------------------------------------------------------------
(* ct apply: plan, create resources, complete the pending domains, write.   *)

Fault == faults < MaxFaults /\ faults' = faults + 1

End == /\ pc' = "idle" /\ creates' = {} /\ todo' = {} /\ flight' = {}

Plan ==
  /\ pc = "idle" /\ ~Rejected
  /\ creates' = {k \in Declared : state[k] = None \/ state[k] \notin alive}
  /\ todo' = Ops /\ failed' = {} /\ quiet' = TRUE
  /\ pc' = "resources"
  /\ UNCHANGED <<config, state, hostVars, flight, configs, edits, faults>>

\* One resource of the plan (module ApplyRun has them all in detail); the new
\* group comes with rights ChurchTools gives it.
Create(k) ==
  /\ pc = "resources" /\ k \in creates /\ nextId \in Ids
  /\ creates' = creates \ {k}
  /\ state' = [state EXCEPT ![k] = nextId]
  /\ alive' = alive \cup {nextId} /\ nextId' = nextId + 1
  /\ \E b \in Baseline :
       rows' = rows \cup {[dom |-> nextId, right |-> b.right, data |-> NoData,
                           type |-> "grant", prov |-> b.prov]}
  /\ quiet' = (quiet /\ state[k] = None)
  /\ UNCHANGED <<config, pc, todo, flight, failed, configs, edits, faults>>

\* A resource fails: no permission is written in this run.
ResourceFails ==
  /\ pc = "resources" /\ creates # {} /\ Fault /\ End /\ quiet' = FALSE
  /\ UNCHANGED <<config, state, hostVars, failed, configs, edits>>

ResourcesDone ==
  /\ pc = "resources" /\ creates = {} /\ pc' = "domains"
  /\ UNCHANGED <<config, state, hostVars, creates, todo, flight, failed, quiet,
                 configs, edits, faults>>

Pending == {o.dom : o \in todo} \cap Keys

Complete(o) == IF o.dom \in Keys THEN [o EXCEPT !.dom = state[o.dom]] ELSE o

\* Every pending domain is completed before the first write...
DomainsDone ==
  /\ pc = "domains" /\ \A k \in Pending : state[k] \in alive
  /\ todo' = {Complete(o) : o \in todo} /\ pc' = "write"
  /\ UNCHANGED <<config, state, hostVars, creates, flight, failed, quiet,
                 configs, edits, faults>>

\* ...and if the role list of one cannot be read, nothing is written.
DomainFails ==
  /\ pc = "domains" /\ Pending # {}
  /\ \/ Fault
     \/ (\E k \in Pending : state[k] \notin alive) /\ UNCHANGED faults
  /\ End /\ quiet' = FALSE
  /\ UNCHANGED <<config, state, hostVars, failed, configs, edits>>

\* The scope of a grant to write is resolved again, from the state the
\* resources left behind.
Body(o) == IF o.put /\ o.tuple.key # None
           THEN [o EXCEPT !.tuple.data = state[o.tuple.key]] ELSE o

\* mapConcurrent hands the next write to a free worker.
Dispatch(o) ==
  /\ pc = "write" /\ o \in todo /\ Cardinality(flight) < Workers
  /\ todo' = todo \ {o} /\ flight' = flight \cup {Body(o)}
  /\ UNCHANGED <<config, state, hostVars, pc, creates, failed, quiet,
                 configs, edits, faults>>

RowOf(o) == [dom |-> o.dom, right |-> o.tuple.right, data |-> o.tuple.data,
             type |-> "grant", prov |-> "direct"]

\* ChurchTools after the writes os
Served(os) == (rows \cup {RowOf(o) : o \in {p \in os : p.put}})
                    \ {RowOf(o) : o \in {p \in os : ~p.put}}

Answered(o) == pc = "write" /\ o \in flight /\ flight' = flight \ {o}

Write(o) ==
  /\ Answered(o) /\ o.dom \in alive /\ rows' = Served({o})
  /\ UNCHANGED <<config, state, alive, nextId, pc, creates, todo, failed, quiet,
                 configs, edits, faults>>

\* the domain is gone, or the row to remove
Hopeless(o) == o.dom \notin alive \/ (~o.put /\ RowOf(o) \notin rows)

\* mutated: a write that failed ends the pool
WriteFails_Drops(o) ==
  /\ Answered(o)
  /\ \/ Fault
     \/ Hopeless(o) /\ UNCHANGED faults
  /\ failed' = failed \cup {o} /\ todo' = {}
  /\ UNCHANGED <<config, state, hostVars, pc, creates, quiet, configs, edits>>

\* A write ChurchTools refuses is noted; the others go on.
WriteFails(o) ==
  /\ Answered(o)
  /\ \/ Fault
     \/ Hopeless(o) /\ UNCHANGED faults
  /\ failed' = failed \cup {o}
  /\ UNCHANGED <<config, state, hostVars, pc, creates, todo, quiet, configs, edits>>

\* carried out, but the answer never arrives
WriteLost(o) ==
  /\ Answered(o) /\ Fault /\ o.dom \in alive
  /\ rows' = Served({o}) /\ failed' = failed \cup {o}
  /\ UNCHANGED <<config, state, alive, nextId, pc, creates, todo, quiet, configs, edits>>

Finish ==
  /\ pc = "write" /\ todo = {} /\ flight = {} /\ End
  /\ UNCHANGED <<config, state, hostVars, failed, quiet, configs, edits, faults>>

\* Writes in flight may still arrive.
Crash ==
  /\ pc # "idle" /\ Fault /\ End /\ quiet' = FALSE
  /\ \E arrived \in SUBSET {o \in flight : o.dom \in alive} : rows' = Served(arrived)
  /\ UNCHANGED <<config, state, alive, nextId, failed, configs, edits>>

--------------------------------------------------------------------------------
Init ==
  /\ config \in Configs /\ state = InitialState
  /\ nextId = FirstId /\ alive = {i \in Ids : i < FirstId}
  /\ rows = InitialRows
  /\ pc = "idle" /\ creates = {} /\ todo = {} /\ flight = {} /\ failed = {}
  /\ quiet = FALSE /\ configs = 0 /\ edits = 0 /\ faults = 0

Work ==
  \/ ResourcesDone \/ DomainsDone \/ DomainFails \/ Finish
  \/ \E k \in Keys : Create(k)
  \/ \E o \in todo : Dispatch(o)
  \/ \E o \in flight : Write(o) \/ WriteFails(o)

Outside ==
  \/ \E c \in Configs : EditConfig(c)
  \/ \E d \in Decls, x \in alive : AdoptOne(d, x) \/ AdoptBulk(d, x)
  \/ \E r \in UiRows : UiToggle(r)
  \/ \E i \in alive : UiDelete(i)

Next ==
  \/ Plan \/ Work \/ ResourceFails \/ Crash \/ Outside
  \/ \E o \in flight : WriteLost(o)

Spec == Init /\ [][Next]_vars

--------------------------------------------------------------------------------
(* What holds in every state.                                               *)

\* The variables keep their types.
TypeOK ==
  /\ DOMAIN config = Decls /\ \A d \in Decls : config[d] = None \/ IsDecl(config[d])
  /\ state \in [Keys -> Ids \cup {None}] /\ alive \subseteq Ids
  /\ nextId \in Nat /\ rows \subseteq Row
  /\ pc \in {"idle", "resources", "domains", "write"} /\ creates \subseteq Declared
  /\ todo \subseteq Op /\ flight \subseteq Op /\ failed \subseteq Op
  /\ quiet \in BOOLEAN
  /\ configs \in 0 .. MaxConfigs /\ edits \in 0 .. MaxEdits /\ faults \in 0 .. MaxFaults

Bare(o) == [put |-> o.put, dom |-> o.dom, right |-> o.tuple.right, data |-> o.tuple.data]

\* After an apply that wrote its permissions to the end, undisturbed, the next
\* plan holds writes that failed and nothing else: what was written counts as
\* done and nothing new turns up (apply.ts:131, "resumable").
ResumeIsExact ==
  quiet /\ pc = "idle" /\ ~Rejected => {Bare(o) : o \in Ops} \subseteq {Bare(o) : o \in failed}

--------------------------------------------------------------------------------
(* What an adopted declaration does.                                        *)

\* another host of the instance, which recorded every row as a direct one
AllDirect(rs) == {[r EXCEPT !.prov = "direct"] : r \in rs}

\* A declaration adopted in bulk, or with no grant left out, plans nothing on
\* this host, and nothing on a host that grants the same but records the rows
\* as direct ones (#114, #119).
AdoptedIsNoop ==
  [][\A d \in Decls, x \in alive :
       AdoptBulk(d, x) \/ (AdoptOne(d, x) /\ Omitted(x) = {})
         => /\ (Puts(d, rows) = {} /\ Dels(d, rows) = {})'
            /\ (Puts(d, AllDirect(rows)) = {} /\ Dels(d, AllDirect(rows)) = {})']_vars

--------------------------------------------------------------------------------
(* The abstract promise.                                                    *)

Triple(x, t) == [dom |-> x, right |-> t.right, data |-> t.data]
Concrete(t) == t.data \notin Keys

Granted == {Triple(r.dom, r) : r \in {s \in rows : s.type = "grant" /\ s.prov = "direct"}}
Fixed   == {r \in rows : r.type # "grant" \/ r.prov # "direct"}
Settling == {d \in Active : Domain(d) \in Ids}
Wanted  == UNION {{Triple(Domain(d), t) : t \in {u \in Desired(d) : Concrete(u)}} : d \in Settling}
Duty    == UNION {[dom : {Domain(d)}, right : {r \in Host : ScopeField[r] \notin config[d].keep},
                   data : Datas] : d \in Settling}

Register == INSTANCE GrantRegister
              WITH granted <- Granted, fixed <- Fixed, wanted <- Wanted,
                   duty <- Duty, world <- configs + edits

\* Every write of apply gives a grant that is declared as things stand when
\* it is carried out, or takes one that is not and that ct answers for, never
\* an inherited, system or denied row, however old the plan is.
Promise == Register!Spec

--------------------------------------------------------------------------------
(* What re-running apply brings about.                                      *)

\* A plan is impossible, or a declared domain is gone.
Blocked == Rejected \/ \E d \in Active : Domain(d) \in Ids \ alive

Settled == creates = {} /\ Ops = {} /\ \A k \in Declared : state[k] \in alive

Fairness ==
  /\ WF_vars(Work) /\ SF_vars(Plan /\ ~Settled)

FairSpec == Spec /\ Fairness

\* With finitely many faults and edits, re-running apply makes the grants of
\* the declared domains the declared ones, for good.
EventuallySettled == <>[](Settled \/ Blocked)
=============================================================================
