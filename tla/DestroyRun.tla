------------------------------ MODULE DestroyRun -----------------------------
(***************************************************************************)
(* `ct destroy --target ... --member-field ...`: check the targets against *)
(* the state file, back them up, confirm, then delete member fields first  *)
(* and resources after, children before parents, saving after each one.    *)
(* Source: application/operations/destroy.ts; the order is engine/graph.ts.*)
(*                                                                         *)
(* One process; colleagues delete resources and add or delete member       *)
(* fields in the ChurchTools UI meanwhile; requests are rejected, answers  *)
(* lost, saves fail, the process crashes, the operator re-runs.            *)
(***************************************************************************)
EXTENDS Naturals, FiniteSets

CONSTANTS Keys,         \* the managed keys at the start; a key is its own id
          Groups,       \* those that are groups
          Parent,       \* the group hierarchy: key -> parent key or None
          Tier,         \* the apply tier of each key's type
          Undeletable,  \* keys of types ChurchTools offers no delete for
          Rows,         \* identities of member-field rows
          Protections,  \* the sets of keys preventDestroy may be set on
          InitialRows,  \* per group, the rows that answer to the name at the start
          None,
          MaxEdits,     \* bound: changes in the UI
          MaxFaults     \* bound: rejected or lost calls, failed saves, crashes

ASSUME DestroyAssumption ==
  /\ Groups \subseteq Keys /\ Undeletable \subseteq Keys \ Groups
  /\ Parent \in [Keys -> Groups \cup {None}] /\ Tier \in [Keys -> Nat]
  /\ None \notin Keys /\ None \notin Rows /\ Protections \subseteq SUBSET Keys
  /\ InitialRows \subseteq [Keys -> SUBSET Rows]
  /\ MaxEdits \in Nat /\ MaxFaults \in Nat

\* A state entry: the preventDestroy flag and, for a group, the row its one
\* modelled member field is bound to.
Entry == [prot : BOOLEAN, field : Rows \cup {None}]

ASSUME NoneIsNoEntry == None \notin Entry

VARIABLES live,      \* resources that exist in ChurchTools
          rows,      \* per group: live member-field rows answering to the name
          seen,      \* rows that ever existed: identities are not reused
          file,      \* the state file: what was last written whole
          torn,      \* a save broke off and left the file truncated
          mem,       \* the state the operation holds
          targets,   \* --target
          fields,    \* --member-field: the groups whose field is a target
          edges,     \* whether /groups/hierarchies could be read
          backup,    \* resources and rows in the backup file
          left,      \* targets still to do
          fieldsLeft,
          failed,    \* a member field could not be deleted
          pc, outcome,
          quiet,     \* history: no change in the UI since prepare
          edits, faults

vars == <<live, rows, seen, file, torn, mem, targets, fields, edges, backup, left,
          fieldsLeft, failed, pc, outcome, quiet, edits, faults>>

world == <<live, rows, seen, quiet, edits>>
disk == <<file, torn>>
request == <<targets, fields, edges, backup>>

Managed(s) == {k \in Keys : s[k] # None}

\* The rows a member-field target stands for: the bound row and no other where
\* the state has a binding, else every row that answers to the name.
Matches(s, g) ==
  IF s[g].field # None THEN rows[g] \cap {s[g].field} ELSE rows[g]

--------------------------------------------------------------------------------
(* The ChurchTools UI.                                                      *)

UiDelete(k) ==
  /\ k \in live /\ edits < MaxEdits
  /\ live' = live \ {k} /\ rows' = [rows EXCEPT ![k] = {}]
  /\ edits' = edits + 1 /\ quiet' = FALSE
  /\ UNCHANGED <<seen, disk, mem, request, left, fieldsLeft, failed, pc, outcome,
                 faults>>

\* a row is deleted, or a new one appears that answers to the name
UiField(g, r) ==
  /\ g \in live /\ edits < MaxEdits /\ (r \in seen => r \in rows[g])
  /\ rows' = [rows EXCEPT ![g] = IF r \in @ THEN @ \ {r} ELSE @ \cup {r}]
  /\ seen' = seen \cup {r}
  /\ edits' = edits + 1 /\ quiet' = FALSE
  /\ UNCHANGED <<live, disk, mem, request, left, fieldsLeft, failed, pc, outcome, faults>>

--------------------------------------------------------------------------------

End(how) ==
  /\ pc' = "idle" /\ outcome' = how /\ mem' = file
  /\ UNCHANGED <<left, fieldsLeft, failed>>

Fault == faults < MaxFaults /\ faults' = faults + 1

\* mutated: preventDestroy is not looked at
Prepare_IgnoresProtection(T, F) ==
  /\ pc = "idle" /\ ~torn /\ T \cup F # {} /\ T \cup F \subseteq Managed(file) /\ F \subseteq live
  /\ mem' = file /\ targets' = T /\ fields' = F
  /\ left' = T /\ fieldsLeft' = F /\ failed' = FALSE
  /\ edges' \in BOOLEAN
  /\ backup' = [resources |-> T \cap live, rows |-> [g \in Groups |-> None]]
  /\ pc' = "prepared" /\ outcome' = "none" /\ quiet' = TRUE
  /\ UNCHANGED <<live, rows, seen, disk, edits, faults>>

Targetable == {k \in Managed(file) : ~file[k].prot}

\* The groups whose field may be a target: protecting a group protects it too.
FieldTargets == Targetable \cap Groups

\* A state file that cannot be parsed, a target that is not managed, a protected
\* one, a failed backup (the member fields of a group that is gone cannot be
\* read): an error, nothing happens.
\* A hierarchy that cannot be read only costs the edges.
Prepare(T, F) ==
  /\ pc = "idle" /\ ~torn /\ T \cup F # {}
  /\ T \subseteq Targetable /\ F \subseteq FieldTargets \cap live
  /\ mem' = file /\ targets' = T /\ fields' = F
  /\ left' = T /\ fieldsLeft' = F /\ failed' = FALSE
  /\ edges' \in BOOLEAN
  /\ \E pick \in [F -> Rows \cup {None}] :
       /\ \A g \in F : IF Matches(file, g) = {} THEN pick[g] = None
                                                ELSE pick[g] \in Matches(file, g)
       /\ backup' = [resources |-> T \cap live,
                     rows |-> [g \in Groups |-> IF g \in F THEN pick[g] ELSE None]]
  /\ pc' = "prepared" /\ outcome' = "none" /\ quiet' = TRUE
  /\ UNCHANGED <<live, rows, seen, disk, edits, faults>>

Decline ==
  /\ pc = "prepared" /\ End("declined")
  /\ UNCHANGED <<world, disk, request, faults>>

Execute ==
  /\ pc = "prepared" /\ pc' = "fields"
  /\ UNCHANGED <<world, disk, mem, request, left, fieldsLeft, failed, outcome, faults>>

--------------------------------------------------------------------------------
(* runMemberFieldDeleteLoop.                                                *)

FieldDone(g) == fieldsLeft' = fieldsLeft \ {g}
Forget(g) == mem' = [mem EXCEPT ![g].field = None]

FieldTurn(g) == pc = "fields" /\ g \in fieldsLeft

\* Several rows answer to the name: refuse to guess, go on with the next.
FieldAmbiguous(g) ==
  /\ FieldTurn(g) /\ g \in live /\ Cardinality(Matches(mem, g)) > 1
  /\ FieldDone(g) /\ failed' = TRUE
  /\ UNCHANGED <<world, disk, mem, request, left, pc, outcome, faults>>

\* The row is deleted, or there is none (404 included): drop the binding.
FieldDelete(g) ==
  /\ FieldTurn(g) /\ g \in live /\ Cardinality(Matches(mem, g)) <= 1
  /\ rows' = [rows EXCEPT ![g] = @ \ Matches(mem, g)]
  /\ FieldDone(g) /\ Forget(g) /\ pc' = "savefield"
  /\ UNCHANGED <<live, seen, quiet, edits, disk, request, left, failed, outcome, faults>>

\* The group was deleted since prepare: its rows cannot be read.
FieldUnreadable(g) ==
  /\ FieldTurn(g) /\ g \notin live /\ End("failed")
  /\ UNCHANGED <<world, disk, request, faults>>

\* The read or the delete fails; the delete may have been carried out.
FieldFails(g) ==
  /\ FieldTurn(g) /\ Fault /\ End("failed")
  /\ \/ rows' = [rows EXCEPT ![g] = IF Cardinality(Matches(mem, g)) = 1
                                    THEN @ \ Matches(mem, g) ELSE @]
     \/ UNCHANGED rows
  /\ UNCHANGED <<live, seen, quiet, edits, disk, request>>

\* mutated: the resources are deleted whatever became of the fields
FieldsDone_Regardless ==
  /\ pc = "fields" /\ fieldsLeft = {} /\ pc' = "resources"
  /\ UNCHANGED <<world, disk, mem, request, left, fieldsLeft, failed, outcome, faults>>

\* A field that could not be deleted holds every resource back.
FieldsDone ==
  /\ pc = "fields" /\ fieldsLeft = {} /\ ~failed /\ pc' = "resources"
  /\ UNCHANGED <<world, disk, mem, request, left, fieldsLeft, failed, outcome, faults>>

HoldBack ==
  /\ pc = "fields" /\ fieldsLeft = {} /\ failed /\ End("heldback")
  /\ UNCHANGED <<world, disk, request, faults>>

--------------------------------------------------------------------------------
(* runDeleteLoop, in the reverse of orderKeys: highest tier first, a child  *)
(* before its parent where the edges are known.                             *)

\* mutated: the hierarchy is not used
Before_TierOnly(j, k) == Tier[j] > Tier[k]

Before(j, k) == Tier[j] > Tier[k] \/ (edges /\ Parent[j] = k)
Turn(k) == pc = "resources" /\ k \in left /\ ~\E j \in left \ {k} : Before(j, k)

\* No delete path for the type: skipped, stays in the state.
SkipTarget(k) ==
  /\ Turn(k) /\ k \in Undeletable /\ left' = left \ {k}
  /\ UNCHANGED <<world, disk, mem, request, fieldsLeft, failed, pc, outcome, faults>>

\* mutated: a 404 is an error like any other
Delete_NotFoundFails(k) ==
  /\ Turn(k) /\ k \notin Undeletable
  /\ IF k \in live
     THEN /\ live' = live \ {k} /\ rows' = [rows EXCEPT ![k] = {}]
          /\ left' = left \ {k} /\ mem' = [mem EXCEPT ![k] = None] /\ pc' = "save"
          /\ UNCHANGED <<fieldsLeft, failed, outcome>>
     ELSE End("failed") /\ UNCHANGED <<live, rows>>
  /\ UNCHANGED <<seen, quiet, edits, disk, request, faults>>

\* DELETE, or 404 because it is gone already: drop the entry.
Delete(k) ==
  /\ Turn(k) /\ k \notin Undeletable
  /\ live' = live \ {k} /\ rows' = [rows EXCEPT ![k] = {}]
  /\ left' = left \ {k} /\ mem' = [mem EXCEPT ![k] = None] /\ pc' = "save"
  /\ UNCHANGED <<seen, quiet, edits, disk, request, fieldsLeft, failed, outcome, faults>>

\* mutated: every error is taken for a 404
DeleteFails_AsAbsent(k) ==
  /\ Turn(k) /\ k \notin Undeletable /\ Fault
  /\ left' = left \ {k} /\ mem' = [mem EXCEPT ![k] = None] /\ pc' = "save"
  /\ UNCHANGED <<world, disk, request, fieldsLeft, failed, outcome>>

\* Rejected, or carried out with the answer lost: the entry stays.
DeleteFails(k) ==
  /\ Turn(k) /\ k \notin Undeletable /\ Fault /\ End("failed")
  /\ \/ live' = live \ {k} /\ rows' = [rows EXCEPT ![k] = {}]
     \/ UNCHANGED <<live, rows>>
  /\ UNCHANGED <<seen, quiet, edits, disk, request>>

Save(from, to) ==
  /\ pc = from /\ file' = mem /\ pc' = to
  /\ UNCHANGED <<world, torn, mem, request, left, fieldsLeft, failed, outcome, faults>>

\* saveState writes the file in place: it may break off with the file truncated.
Saving == pc \in {"savefield", "save"}

SaveFails ==
  /\ Saving /\ Fault /\ End("failed") /\ torn' \in BOOLEAN
  /\ UNCHANGED <<world, file, request>>

Finish ==
  /\ pc = "resources" /\ left = {}
  /\ End(IF targets \cap Undeletable = {} THEN "complete" ELSE "incomplete")
  /\ UNCHANGED <<world, disk, request, faults>>

Crash ==
  /\ pc # "idle" /\ Fault /\ End("crashed") /\ torn' \in IF Saving THEN BOOLEAN ELSE {FALSE}
  /\ UNCHANGED <<world, file, request>>

--------------------------------------------------------------------------------

Init ==
  /\ live = Keys
  /\ rows \in InitialRows
  /\ \A k \in Keys \ Groups : rows[k] = {}
  /\ \A j, k \in Keys : rows[j] \cap rows[k] # {} => j = k
  /\ seen = UNION {rows[k] : k \in Keys}
  /\ file \in [Keys -> Entry]
  /\ {k \in Keys : file[k].prot} \in Protections
  /\ \A k \in Keys : file[k].field \in rows[k] \cup {None}
  /\ torn = FALSE /\ mem = file /\ targets = {} /\ fields = {} /\ edges = FALSE
  /\ backup = [resources |-> {}, rows |-> [g \in Groups |-> None]]
  /\ left = {} /\ fieldsLeft = {} /\ failed = FALSE
  /\ pc = "idle" /\ outcome = "none" /\ quiet = FALSE
  /\ edits = 0 /\ faults = 0

Work ==
  \/ \E g \in Groups : FieldAmbiguous(g) \/ FieldDelete(g) \/ FieldUnreadable(g)
  \/ FieldsDone \/ HoldBack
  \/ \E k \in Keys : SkipTarget(k) \/ Delete(k)
  \/ Save("savefield", "fields") \/ Save("save", "resources") \/ Finish

Faulty ==
  \/ \E g \in Groups : FieldFails(g)
  \/ \E k \in Keys : DeleteFails(k)
  \/ SaveFails \/ Crash

Operator ==
  \/ \E T \in SUBSET Keys, F \in SUBSET Groups : Prepare(T, F)
  \/ Decline \/ Execute

Ui ==
  \/ \E k \in Keys : UiDelete(k)
  \/ \E g \in Groups, r \in Rows : UiField(g, r)

Next == Operator \/ Work \/ Faulty \/ Ui

Spec == Init /\ [][Next]_vars

--------------------------------------------------------------------------------

\* Types of all variables.
TypeOK ==
  /\ live \subseteq Keys /\ seen \subseteq Rows /\ rows \in [Keys -> SUBSET Rows]
  /\ file \in [Keys -> Entry \cup {None}] /\ mem \in [Keys -> Entry \cup {None}]
  /\ torn \in BOOLEAN
  /\ targets \subseteq Keys /\ fields \subseteq Groups /\ edges \in BOOLEAN
  /\ backup \in [resources : SUBSET Keys, rows : [Groups -> Rows \cup {None}]]
  /\ left \subseteq targets /\ fieldsLeft \subseteq fields /\ failed \in BOOLEAN
  /\ pc \in {"idle", "prepared", "fields", "savefield", "resources", "save"}
  /\ outcome \in {"none", "declined", "failed", "heldback", "complete",
                  "incomplete", "crashed"}
  /\ quiet \in BOOLEAN /\ edits \in 0 .. MaxEdits /\ faults \in 0 .. MaxFaults

ByCt == edits' = edits

\* Whatever fails or is lost, ct never drops an entry whose resource is still in
\* ChurchTools, nor a group's binding whose member-field row is.
ForgottenIsGone ==
  [][/\ \A k \in Managed(file) : file'[k] = None => k \notin live'
     /\ ByCt => \A g \in Groups \cap Managed(file) :
          file'[g] # None /\ file'[g].field # file[g].field
            => file[g].field \notin rows'[g]]_vars

\* Only an unprotected target the operator named is deleted, and it was in the
\* backup (destroy.ts:428, :445).
OnlyTargetsDeleted ==
  [][ByCt => \A k \in live \ live' :
       /\ k \in targets \cap backup.resources
       /\ file[k] # None /\ ~file[k].prot]_vars

\* With the hierarchy known, a resource is deleted only when every target below
\* it is gone from ChurchTools: no group is deleted under its child, no campus
\* under its groups.  (What has no delete path is skipped.)
ChildrenFirst ==
  [][ByCt => \A k \in live \ live' : \A j \in targets \ Undeletable :
       j # k /\ (Tier[j] > Tier[k] \/ (edges /\ Parent[j] = k)) => j \notin live]_vars

\* Resources are deleted only after every requested member field is, the row
\* the backup holds: one that was refused or failed holds them back
\* (destroy.ts:279).
FieldsBeforeResources ==
  [][ByCt /\ quiet /\ live' # live =>
       \A g \in fields \cap live : backup.rows[g] \notin rows[g]]_vars

--------------------------------------------------------------------------------
(* What a destroy promises in the end.                                      *)

\* What can be deleted of what the file does not protect.
Open == {k \in Managed(file) \ Undeletable : ~file[k].prot}

\* The process runs on and the prompt gets an answer; the operator, who wants
\* everything unprotected gone, keeps asking for the targets that are left and
\* in the end confirms.
Fairness ==
  /\ WF_vars(Work) /\ WF_vars(Decline \/ Execute) /\ SF_vars(Prepare(Open, {}))
  /\ SF_vars(Execute /\ targets = Open /\ fields = {})

FairSpec == Spec /\ Fairness

\* A failed or crashed destroy can be re-run to completion, unless it failed or
\* crashed in the middle of a save and the state file is left truncated.
EventuallyDestroyed ==
  <>(torn \/ (Open = {} /\ \A k \in live \ Undeletable : file[k].prot))
=============================================================================
