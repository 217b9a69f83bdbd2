------------------------------ MODULE ApplyRun -------------------------------
(***************************************************************************)
(* `ct apply`: plan against the live instance, confirm, then create and    *)
(* update one resource at a time, saving the state file after each action. *)
(* Sources: application/operations/apply.ts, engine/plan.ts, build.ts,     *)
(* execute.ts, resolve/resolver.ts, state/state.ts.                        *)
(*                                                                         *)
(* One ct process at a time works here (several operations on one file are *)
(* module PreparedOperation).  Around it: an operator who edits the config *)
(* and re-runs, colleagues who edit or delete resources in the ChurchTools *)
(* UI at any moment, and faults: a write ChurchTools rejects, a write      *)
(* whose answer is lost, a save that fails, a crash.                       *)
(***************************************************************************)
EXTENDS CtState, FiniteSets

CONSTANTS Attrs,       \* plain managed fields ("name", ...)
          Values,      \* their values
          Default,     \* what ChurchTools fills in for an attribute left out
          Nil,         \* a field that is not declared, not changed, not set
          Pending,     \* a reference to a resource this same run creates
          PutKeys,     \* keys of the types updated with PUT, the rest PATCH
          Configs,     \* the configurations the operator may write
          Foreign,     \* resources that exist before ct does
          FirstId,     \* the first identity ChurchTools hands out
          MaxId,       \* bound: the last identity ChurchTools hands out
          MaxConfigs,  \* bound: configuration edits
          MaxEdits,    \* bound: edits and deletions in the UI
          MaxFaults,   \* bound: rejected or lost calls, failed saves, crashes
          TornWrites   \* whether an interrupted save may truncate the file

Plain  == Attrs \cup {"ref"}          \* columns of the resource itself
Fields == Plain \cup {"sub"}          \* and one synthetic sub-resource field

Decl == [want : [Fields -> Values \cup Keys \cup {Nil}], prot : BOOLEAN]
Res  == [Fields -> Values \cup Ids \cup {Nil}]
Entry == [id : Ids, fields : [Plain -> Values \cup Ids \cup {Nil}],
          prot : BOOLEAN]
Item == [action : {"create", "update", "noop", "delete"},
         note : {"", "recreate", "stale"},
         id : Ids \cup {None},
         changes : [Fields -> Values \cup Ids \cup {Nil, Pending}],
         actual : Res \cup {None},
         prot : BOOLEAN]

ASSUME BoundsAssumption ==
  /\ FirstId \in Nat \ {0} /\ MaxId \in Nat
  /\ MaxConfigs \in Nat /\ MaxEdits \in Nat /\ MaxFaults \in Nat
  /\ Ids = 1 .. MaxId
  /\ Foreign = 1 .. (FirstId - 1) /\ Foreign \subseteq Ids

ASSUME ValuesAssumption ==
  /\ Default \in Values /\ TornWrites \in BOOLEAN
  /\ "ref" \notin Attrs /\ "sub" \notin Attrs
  /\ Nil \notin Values /\ Nil \notin Keys /\ Nil \notin Ids /\ Nil # Pending
  /\ Pending \notin Values /\ Pending \notin Ids
  /\ None \notin Res /\ None \notin Entry /\ None \notin Decl /\ None \notin Item

\* A reference names a declared key, and references do not form a cycle
\* (resolve throws on the first, orderKeys on the second).
RefOf(c, k) == IF c[k] = None THEN Nil ELSE c[k].want["ref"]

ASSUME ConfigsAssumption ==
  \A c \in Configs :
    /\ c \in [Keys -> Decl \cup {None}]
    /\ \A k \in Keys :
         /\ \A a \in Attrs : c[k] # None => c[k].want[a] \in Values \cup {Nil}
         /\ c[k] # None => c[k].want["sub"] \in Values \cup {Nil}
         /\ RefOf(c, k) # Nil => RefOf(c, k) \in Keys /\ c[RefOf(c, k)] # None
         /\ RefOf(c, k) # k

VARIABLES config,     \* the configuration on disk (copied into the plan)
          live,       \* ChurchTools: identity -> resource
          nextId,     \* the identity the next create gets
          disk,       \* the state file
          torn,       \* the state file is truncated
          mem,        \* the state the running operation holds
          plan,       \* the plan items, by key
          remaining,  \* keys whose item executePlan has not reached
          cur,        \* the key of the item being written
          pc,         \* where the operation stands
          outcome,    \* how the last operation ended
          quiet,      \* history: no UI edit and no config edit since the plan
          configs, edits, faults   \* bounded counts

vars == <<config, live, nextId, disk, torn, mem, plan, remaining, cur,
          pc, outcome, quiet, configs, edits, faults>>

\* the operation's variables, and the world around it
opVars == <<mem, plan, remaining, cur, pc, outcome>>
envVars == <<config, configs, edits>>

Blank == [f \in Fields |-> IF f \in Attrs THEN Default ELSE Nil]
NoChange == [f \in Fields |-> Nil]

\* base overridden by the declared or changed fields of c
Merge(base, c) == [f \in DOMAIN base |-> IF c[f] = Nil THEN base[f] ELSE c[f]]
Columns(r) == [f \in Plain |-> r[f]]

--------------------------------------------------------------------------------
(* Planning: resolve references, fetch the managed resources, diff.         *)

\* A reference to a managed key is the id in the state file, whether or not
\* that resource still exists; otherwise it is pending.
Resolve(t) == IF disk[t] # None THEN disk[t].id ELSE Pending

Desired(c, k) ==
  [c[k].want EXCEPT !["ref"] = IF @ = Nil THEN Nil ELSE Resolve(@)]

Actual(k) == IF disk[k] = None THEN None ELSE live[disk[k].id]

Diff(want, have) ==
  [f \in Fields |-> IF want[f] # have[f] THEN want[f] ELSE Nil]

PlanItem(c, k) ==
  LET declared == c[k] # None
      managed  == disk[k] # None
      actual   == Actual(k)
      changes  == IF ~declared THEN NoChange
                  ELSE IF actual = None THEN Desired(c, k)
                  ELSE Diff(Desired(c, k), actual)
      action   == IF declared
                  THEN IF actual = None THEN "create"
                       ELSE IF changes # NoChange THEN "update" ELSE "noop"
                  ELSE IF actual = None THEN "noop" ELSE "delete"
      note     == IF managed /\ actual = None
                  THEN IF declared THEN "recreate" ELSE "stale" ELSE ""
  IN  IF ~declared /\ ~managed THEN None
      ELSE [action |-> action, note |-> note, changes |-> changes,
            id |-> IF action = "create" \/ ~managed THEN None ELSE disk[k].id,
            actual |-> actual, prot |-> declared /\ c[k].prot]

Planned(p) == {k \in Keys : p[k] # None}
Writes(p)  == {k \in Planned(p) : p[k].action \in {"create", "update"}}

\* mutated: no edge from the resource a pending reference names
Waits_NoEdge(k) == k \notin Keys

\* buildPlan injects an edge from a pending reference's target to its
\* referencer; orderKeys is some topological order of these edges.
Waits(k) == plan[k].changes["ref"] = Pending /\ RefOf(config, k) \in remaining
Ready == {k \in remaining : ~Waits(k)}

--------------------------------------------------------------------------------
(* The operator and the colleagues in the ChurchTools UI.                   *)

EditConfig(c) ==
  /\ pc = "idle" /\ configs < MaxConfigs /\ c # config
  /\ config' = c /\ configs' = configs + 1 /\ quiet' = FALSE
  /\ UNCHANGED <<live, nextId, disk, torn, opVars, edits, faults>>

UiEdit(i, a, v) ==
  /\ live[i] # None /\ live[i][a] # v /\ edits < MaxEdits
  /\ live' = [live EXCEPT ![i][a] = v]
  /\ edits' = edits + 1 /\ quiet' = FALSE
  /\ UNCHANGED <<config, nextId, disk, torn, opVars, configs, faults>>

UiDelete(i) ==
  /\ live[i] # None /\ edits < MaxEdits
  /\ live' = [live EXCEPT ![i] = None]
  /\ edits' = edits + 1 /\ quiet' = FALSE
  /\ UNCHANGED <<config, nextId, disk, torn, opVars, configs, faults>>

--------------------------------------------------------------------------------
(* prepareApply and executePreparedApply.                                   *)

\* The process ends or moves on: its copy of the state dies with it.
End(how) ==
  /\ pc' = "idle" /\ outcome' = how
  /\ mem' = disk /\ UNCHANGED <<remaining, cur>>

\* loadState throws on a file that is no longer a state, a truncated one.
Loadable == ~torn

\* Load the state file, fetch, diff.  A fetch error makes the plan incomplete
\* and prepareApply throws, which leaves everything as it was.
Prepare ==
  /\ pc = "idle" /\ Loadable
  /\ mem' = disk
  /\ plan' = [k \in Keys |-> PlanItem(config, k)]
  /\ remaining' = Planned(plan') /\ cur' = Nil
  /\ pc' = "planned" /\ outcome' = "none" /\ quiet' = TRUE
  /\ UNCHANGED <<envVars, live, nextId, disk, torn, faults>>

\* The operator says no, or the backup before the first write fails.
Abandon ==
  /\ pc = "planned" /\ End("aborted")
  /\ UNCHANGED <<envVars, live, nextId, disk, torn, plan, quiet, faults>>

\* Nothing to create or update and no permission to change: confirmation is
\* "none" and executePreparedApply returns before executePlan.
ExecuteEmpty ==
  /\ pc = "planned" /\ Writes(plan) = {} /\ End("nochange")
  /\ UNCHANGED <<envVars, live, nextId, disk, torn, plan, quiet, faults>>

\* Confirmed.  A plan whose only changes are permission grants gets here too.
Execute ==
  /\ pc = "planned" /\ pc' = "run"
  /\ UNCHANGED <<envVars, live, nextId, disk, torn, mem, plan,
                 remaining, cur, outcome, quiet, faults>>

--------------------------------------------------------------------------------
(* executePlan: one pass over the items.                                    *)

At(k) == pc = "run" /\ k \in Ready

\* A delete is skipped: apply never deletes.  A no-op item writes nothing,
\* unless its preventDestroy flag is out of date (Mirror).
OutOfDate(k) ==
  /\ plan[k].action = "noop" /\ plan[k].note = ""
  /\ mem[k] # None /\ mem[k].prot # plan[k].prot

\* mutated: what the plan calls a delete is deleted
Skip_Deletes(k) ==
  /\ At(k) /\ plan[k].action \in {"noop", "delete"} /\ ~OutOfDate(k)
  /\ live' = [i \in Ids |-> IF plan[k].action = "delete" /\ plan[k].id = i
                            THEN None ELSE live[i]]
  /\ remaining' = remaining \ {k}
  /\ UNCHANGED <<envVars, nextId, disk, torn, mem, plan, cur, pc, outcome,
                 quiet, faults>>

Skip(k) ==
  /\ At(k) /\ plan[k].action \in {"noop", "delete"} /\ ~OutOfDate(k)
  /\ remaining' = remaining \ {k}
  /\ UNCHANGED <<envVars, live, nextId, disk, torn, mem, plan, cur, pc,
                 outcome, quiet, faults>>

Mirror(k) ==
  /\ At(k) /\ OutOfDate(k)
  /\ mem' = [mem EXCEPT ![k].prot = plan[k].prot]
  /\ remaining' = remaining \ {k} /\ cur' = k /\ pc' = "save2"
  /\ UNCHANGED <<envVars, live, nextId, disk, torn, plan, outcome,
                 quiet, faults>>

\* The changes with a pending reference resolved from the state in memory.
Unresolvable(k) ==
  plan[k].changes["ref"] = Pending /\ mem[RefOf(config, k)] = None

Resolved(k) ==
  [plan[k].changes EXCEPT !["ref"] =
     IF @ = Pending THEN mem[RefOf(config, k)].id ELSE @]

\* mutated: the defaults override what is declared
NewRes_DefaultsWin(k) == [Merge(Resolved(k), Blank) EXCEPT !["sub"] = Nil]

\* The write spec turns the changed columns into a request; synthetic fields
\* are written later.
NewRes(k) == [Merge(Blank, Resolved(k)) EXCEPT !["sub"] = Nil]

Snapshot(k) ==
  IF plan[k].action = "create" THEN Columns(Resolved(k))
  ELSE Merge(Columns(plan[k].actual), Resolved(k))

\* PATCH sends the changed columns, PUT sends them over the FETCHED actual.
Written(k) ==
  LET old == live[plan[k].id]
      new == IF k \in PutKeys THEN Snapshot(k)
             ELSE Merge(Columns(old), Resolved(k))
  IN  [f \in Fields |-> IF f \in Plain THEN new[f] ELSE old[f]]

HasColumnChange(k) == \E f \in Plain : plan[k].changes[f] # Nil

\* mutated: the snapshot is the one from before the write
Bind_FieldsBefore(s, k, id) ==
  LET fields == IF plan[k].action = "create" THEN Snapshot(k)
                ELSE Columns(plan[k].actual)
  IN  [Upsert(s, k, id, fields) EXCEPT ![k].prot = plan[k].prot]

Bind(s, k, id) ==
  [Upsert(s, k, id, Snapshot(k)) EXCEPT ![k].prot = plan[k].prot]

\* An action failed: executePlan returns what it did and stops.
Failure ==
  /\ faults < MaxFaults /\ faults' = faults + 1 /\ End("failed")

Post(k) ==
  /\ nextId <= MaxId /\ nextId' = nextId + 1
  /\ live' = [live EXCEPT ![nextId] = NewRes(k)]

\* mutated: the stale entry stays, so upsert throws after the POST (#33)
Create_KeepsStale(k) ==
  /\ At(k) /\ plan[k].action = "create" /\ ~Unresolvable(k) /\ Post(k)
  /\ IF Collides(mem, k, nextId)
     THEN End("failed")
     ELSE /\ mem' = Bind(mem, k, nextId) /\ remaining' = remaining \ {k}
          /\ cur' = k /\ pc' = "save1" /\ UNCHANGED outcome
  /\ UNCHANGED <<envVars, disk, torn, plan, quiet, faults>>

\* mutated: saved only after the synthetic fields
Create_SavesLate(k) ==
  /\ At(k) /\ plan[k].action = "create" /\ ~Unresolvable(k) /\ Post(k)
  /\ mem' = Bind([mem EXCEPT ![k] = None], k, nextId)
  /\ remaining' = remaining \ {k} /\ cur' = k /\ pc' = "syn"
  /\ UNCHANGED <<envVars, disk, torn, plan, outcome, quiet, faults>>

\* POST, drop the stale entry under the key, bind the new id.
Create(k) ==
  /\ At(k) /\ plan[k].action = "create" /\ ~Unresolvable(k) /\ Post(k)
  /\ mem' = Bind([mem EXCEPT ![k] = None], k, nextId)
  /\ remaining' = remaining \ {k} /\ cur' = k /\ pc' = "save1"
  /\ UNCHANGED <<envVars, disk, torn, plan, outcome, quiet, faults>>

\* ChurchTools created the resource; the answer never arrived or held no id.
CreateLost(k) ==
  /\ At(k) /\ plan[k].action = "create" /\ ~Unresolvable(k) /\ Post(k)
  /\ Failure
  /\ UNCHANGED <<envVars, disk, torn, plan, quiet>>

\* A column write to a resource deleted since the plan is a 404.
Gone(k) == live[plan[k].id] = None

\* Errors the run itself meets: no fault is needed for them.
Broken(k) ==
  \/ Unresolvable(k)
  \/ plan[k].action = "update"
       /\ \/ HasColumnChange(k) /\ Gone(k)
          \/ Collides(mem, k, plan[k].id)

PutOrPatch(k) ==
  live' = IF HasColumnChange(k) THEN [live EXCEPT ![plan[k].id] = Written(k)]
                                ELSE live

Update(k) ==
  /\ At(k) /\ plan[k].action = "update" /\ ~Broken(k)
  /\ PutOrPatch(k)
  /\ mem' = Bind(mem, k, plan[k].id)
  /\ remaining' = remaining \ {k} /\ cur' = k /\ pc' = "save1"
  /\ UNCHANGED <<envVars, nextId, disk, torn, plan, outcome, quiet, faults>>

UpdateLost(k) ==
  /\ At(k) /\ plan[k].action = "update" /\ ~Broken(k)
  /\ HasColumnChange(k) /\ PutOrPatch(k) /\ Failure
  /\ UNCHANGED <<envVars, nextId, disk, torn, plan, quiet>>

\* ChurchTools rejects the write, or was never reached.
WriteRejected(k) ==
  /\ At(k) /\ plan[k].action \in {"create", "update"}
  /\ Failure
  /\ UNCHANGED <<envVars, live, nextId, disk, torn, plan, quiet>>

\* The run stops at such an item; no fault is needed for it.
ItemError(k) ==
  /\ At(k) /\ plan[k].action \in {"create", "update"} /\ Broken(k)
  /\ End("failed")
  /\ UNCHANGED <<envVars, live, nextId, disk, torn, plan, quiet, faults>>

\* The save after the write, and the save after the synthetic fields.
Save(from, to) ==
  /\ pc = from /\ disk' = mem /\ pc' = to
  /\ cur' = IF to = "run" THEN Nil ELSE cur
  /\ UNCHANGED <<envVars, live, nextId, torn, mem, plan, remaining,
                 outcome, quiet, faults>>

\* The synthetic sub-resource of the item, bound by now: written, or the owner
\* is gone and ChurchTools answers 404.
SubId == mem[cur].id
SubChanged == plan[cur].changes["sub"] # Nil

SubWrite ==
  live' = IF SubChanged /\ live[SubId] # None
          THEN [live EXCEPT ![SubId]["sub"] = plan[cur].changes["sub"]]
          ELSE live

ApplySynthetic ==
  /\ pc = "syn" /\ (SubChanged => live[SubId] # None)
  /\ SubWrite /\ pc' = "save2"
  /\ UNCHANGED <<envVars, nextId, disk, torn, mem, plan, remaining, cur,
                 outcome, quiet, faults>>

SyntheticGone ==
  /\ pc = "syn" /\ SubChanged /\ live[SubId] = None /\ End("failed")
  /\ UNCHANGED <<envVars, live, nextId, disk, torn, plan, quiet, faults>>

SyntheticFails ==
  /\ pc = "syn" /\ SubChanged /\ Failure
  /\ SubWrite \/ UNCHANGED live
  /\ UNCHANGED <<envVars, nextId, disk, torn, plan, quiet>>

Finish ==
  /\ pc = "run" /\ remaining = {} /\ End("ok")
  /\ UNCHANGED <<envVars, live, nextId, disk, torn, plan, quiet, faults>>

\* writeFile fails before it touched the file, or after it truncated it.
Saving == pc \in {"save1", "save2"}

SaveFails ==
  /\ Saving /\ Failure
  /\ torn' \in {FALSE, TornWrites}
  /\ UNCHANGED <<envVars, live, nextId, disk, plan, quiet>>

Crash ==
  /\ pc # "idle" /\ faults < MaxFaults /\ faults' = faults + 1
  /\ End("crashed")
  /\ torn' \in {FALSE, Saving /\ TornWrites}
  /\ UNCHANGED <<envVars, live, nextId, disk, plan, quiet>>

--------------------------------------------------------------------------------

\* Every way the state file may start: nothing managed, or resources adopted
\* with the fields they have.
Adopted(b) ==
  [k \in Keys |-> IF b[k] = None THEN None
                  ELSE [id |-> b[k], fields |-> Columns(Blank), prot |-> FALSE]]

Init ==
  /\ config \in Configs /\ configs = 0 /\ edits = 0 /\ faults = 0
  /\ live = [i \in Ids |-> IF i \in Foreign THEN Blank ELSE None]
  /\ nextId = FirstId
  /\ \E b \in [Keys -> Foreign \cup {None}] :
        /\ \A j, k \in Keys : b[j] # None /\ b[j] = b[k] => j = k
        /\ disk = Adopted(b)
  /\ torn = FALSE /\ mem = disk
  /\ plan = [k \in Keys |-> None] /\ remaining = {} /\ cur = Nil
  /\ pc = "idle" /\ outcome = "none" /\ quiet = FALSE

ItemStep(k) ==
  \/ Skip(k) \/ Mirror(k) \/ Create(k) \/ Update(k) \/ ItemError(k)

Work ==
  \/ \E k \in Keys : ItemStep(k)
  \/ Save("save1", "syn") \/ Save("save2", "run")
  \/ ApplySynthetic \/ SyntheticGone \/ Finish

Faulty ==
  \/ \E k \in Keys : CreateLost(k) \/ UpdateLost(k) \/ WriteRejected(k)
  \/ SyntheticFails \/ SaveFails \/ Crash

Ui ==
  \/ \E i \in Ids, a \in Attrs, v \in Values : UiEdit(i, a, v)
  \/ \E i \in Ids : UiDelete(i)

Operator ==
  \/ \E c \in Configs : EditConfig(c)
  \/ Prepare \/ Abandon \/ ExecuteEmpty \/ Execute

Next == Operator \/ Work \/ Faulty \/ Ui

Spec == Init /\ [][Next]_vars

--------------------------------------------------------------------------------
(* Safety.                                                                  *)

\* Types of all variables.
TypeOK ==
  /\ config \in Configs
  /\ live \in [Ids -> Res \cup {None}]
  /\ nextId \in FirstId .. MaxId + 1
  /\ disk \in [Keys -> Entry \cup {None}] /\ mem \in [Keys -> Entry \cup {None}]
  /\ plan \in [Keys -> Item \cup {None}]
  /\ remaining \subseteq Keys /\ cur \in Keys \cup {Nil}
  /\ pc \in {"idle", "planned", "run", "save1", "syn", "save2"}
  /\ outcome \in {"none", "aborted", "nochange", "ok", "failed", "crashed"}
  /\ torn \in BOOLEAN /\ quiet \in BOOLEAN
  /\ configs \in 0 .. MaxConfigs /\ edits \in 0 .. MaxEdits
  /\ faults \in 0 .. MaxFaults

\* Neither the file nor the copy in memory ever lets two keys manage one
\* resource, recreates included: a create drops the stale entry of its key
\* before upsert (execute.ts:235).
SoundState == OneKeyPerResource(disk) /\ OneKeyPerResource(mem)

\* The state file lags the copy in memory by the item being written and by
\* nothing else: what a crash can lose is one action (execute.ts:4).
LagsByOneItem ==
  /\ pc \in {"idle", "planned", "run", "syn"} => disk = mem
  /\ \A k \in Keys : disk[k] # mem[k] => k = cur

\* An item whose turn has come finds the id of the resource it refers to: the
\* injected edges make pendingIdFromState's error unreachable.
PendingResolves ==
  pc = "run" => \A k \in Ready \cap Writes(plan) : ~Unresolvable(k)

\* Resources ct created that no key manages.
Unbound == {i \in Ids \ Foreign : live[i] # None /\ i \notin BoundIds(mem)}

\* Each fault costs at most one unmanaged resource: re-runs never pile up
\* duplicates on their own, not even after a recreate (#33's "every re-run
\* POSTs another duplicate").
OrphansNeedFaults == Cardinality(Unbound) <= faults

\* Items of the last plan that were carried out and saved.
Done == IF outcome \in {"ok", "failed", "crashed"} /\ pc = "idle" /\ ~torn
        THEN Planned(plan) \ (remaining \cup {cur}) ELSE {}

\* Its reference was resolved to an identity this run then replaced.
RefersToRecreated(k) ==
  LET t == RefOf(config, k) IN t \in Planned(plan) /\ plan[t].note = "recreate"

\* However a run ended, what it completed shows as a no-op in the next plan:
\* a re-run continues and never repeats.  (Nobody edited anything meanwhile.)
CompletedWorkIsNoop ==
  quiet => \A k \in Done \cap Writes(plan) :
             ~RefersToRecreated(k) => PlanItem(config, k).action = "noop"

\* The snapshot recorded with a write is what ChurchTools holds afterwards
\* (execute.ts:253), so the next plan reports no drift on it.
SnapshotIsExact ==
  quiet => \A k \in Done \cap Writes(plan) :
             /\ disk[k] # None /\ live[disk[k].id] # None
             /\ \A f \in Plain : disk[k].fields[f] # Nil
                                 => disk[k].fields[f] = live[disk[k].id][f]

--------------------------------------------------------------------------------
(* What a step may never do.                                                *)

ByCt == edits' = edits
Touched(i) == live'[i] # live[i]

\* apply writes only to resources its state binds, or creates one under a new
\* identity, and it never deletes.
OnlyManagedTouched ==
  [][ByCt => \A i \in Ids : Touched(i) =>
        /\ live'[i] # None
        /\ \/ live[i] = None /\ i = nextId
           \/ live[i] # None /\ i \in BoundIds(mem)]_vars

--------------------------------------------------------------------------------
(* A claim of the repository that the code does not keep (README, findings).  *)

\* "adding protection wouldn't reach state until some other field changed"
\* (execute.ts:158) is what the no-op branch is there to prevent.
ProtectionReachesState ==
  pc = "idle" /\ outcome \in {"ok", "nochange"} /\ ~torn =>
    \A k \in Planned(plan) :
      plan[k].action = "noop" /\ plan[k].note = "" => disk[k].prot = plan[k].prot

--------------------------------------------------------------------------------
(* What an apply promises in the end.                                       *)

\* Every declared resource exists, is managed and has its declared fields.
Reconciled ==
  \A k \in Keys : config[k] # None =>
     disk[k] # None /\ live[disk[k].id] # None
     /\ Diff(Desired(config, k), live[disk[k].id]) = NoChange

\* The process runs on until it ends and reports an empty plan; the operator
\* re-runs while something is left to do and confirms in the end.
Fairness ==
  /\ WF_vars(Work) /\ WF_vars(Prepare /\ ~Reconciled) /\ WF_vars(ExecuteEmpty)
  /\ SF_vars(Execute /\ Writes(plan) # {})

FairSpec == Spec /\ Fairness

\* With finitely many faults and edits, re-running apply reconciles the
\* instance for good, unless an interrupted save truncated the state file: no
\* run goes on from that.
EventuallyReconciled == <>[](Reconciled \/ torn)
=============================================================================
