------------------------- MODULE DestroyRun_proofs --------------------------
(***************************************************************************)
(* What a destroy may do, for any resources, hierarchies, member fields    *)
(* and faults.                                                             *)
(***************************************************************************)
EXTENDS DestroyRun, TLAPS

\* What the operation holds lags the file only by what is gone, and identities
\* are not reused.
Sync ==
  /\ pc = "idle" => mem = file
  /\ \A k \in Keys : file[k] = None => mem[k] = None
  /\ \A k \in Keys : file[k] # None /\ mem[k] = None => k \notin live
  /\ \A k \in Keys : mem[k] # None =>
       /\ mem[k].prot = file[k].prot /\ mem[k].field \in {file[k].field, None}
       /\ mem[k].field # file[k].field => file[k].field \notin rows[k]
  /\ \A k \in Keys : file[k] # None => file[k].field \in seen \cup {None}
  /\ \A k \in Keys : rows[k] \subseteq seen

\* How far a run has come with its targets.
Targets ==
  pc # "idle" =>
    /\ targets \cap live \subseteq backup.resources
    /\ \A k \in left : mem[k] # None /\ file[k] # None /\ ~file[k].prot
    /\ \A k \in (targets \ left) \ Undeletable : k \notin live

\* How far it has come with its member fields.
Turns ==
  pc # "idle" =>
    /\ pc \notin {"resources", "save"} => \A g \in fieldsLeft : mem[g] # None
    /\ pc \in {"resources", "save"} => fieldsLeft = {} /\ ~failed
    /\ quiet => \A g \in fieldsLeft :
         backup.rows[g] = None \/ backup.rows[g] \in Matches(mem, g)
    /\ quiet /\ ~failed => \A g \in fields \ fieldsLeft : backup.rows[g] \notin rows[g]

Course == TypeOK /\ Sync /\ Targets /\ Turns

LEMMA Begins == Init => Course
  <1> SUFFICES ASSUME Init PROVE Course
    OBVIOUS
  <1> USE DestroyAssumption, NoneIsNoEntry DEF Init
  <1>1. rows \in [Keys -> SUBSET Rows]
    OBVIOUS
  <1>2. \A k \in Keys : rows[k] \subseteq seen
    OBVIOUS
  <1>3. seen \subseteq Rows
    BY <1>1
  <1>4. TypeOK
    <2>1. file \in [Keys -> Entry \cup {None}] /\ mem = file
      OBVIOUS
    <2>2. backup \in [resources : SUBSET Keys, rows : [Groups -> Rows \cup {None}]]
      OBVIOUS
    <2>3. /\ live \subseteq Keys /\ targets \subseteq Keys /\ fields \subseteq Groups
          /\ left \subseteq targets /\ fieldsLeft \subseteq fields
      OBVIOUS
    <2>4. edges \in BOOLEAN /\ failed \in BOOLEAN /\ quiet \in BOOLEAN
      OBVIOUS
    <2>5. edits \in 0 .. MaxEdits /\ faults \in 0 .. MaxFaults
      OBVIOUS
    <2>6. pc = "idle" /\ outcome = "none"
      OBVIOUS
    <2>7. torn \in BOOLEAN
      OBVIOUS
    <2> HIDE DEF Init
    <2> QED BY <2>7, <1>1, <1>3, <2>1, <2>2, <2>3, <2>4, <2>5, <2>6 DEF TypeOK
  <1>5. \A k \in Keys : file[k] # None /\ file[k].field \in seen \cup {None}
    BY <1>2
  <1>6. Sync
    BY <1>2, <1>5 DEF Sync
  <1> QED BY <1>4, <1>6 DEF Course, Targets, Turns

--------------------------------------------------------------------------------
(* One lemma per group of steps.                                            *)

\* the run is over: the state it held is forgotten
LEMMA Ends ==
  ASSUME Course, NEW how \in {"declined", "failed", "heldback", "complete",
                              "incomplete", "crashed"},
         End(how), UNCHANGED <<seen, quiet, edits, file, request>>, torn' \in BOOLEAN,
         live' \subseteq live, \A k \in Keys : rows'[k] \subseteq rows[k],
         rows' \in [Keys -> SUBSET Rows],
         faults' \in 0 .. MaxFaults
  PROVE  Course'
  <1> USE DestroyAssumption DEF Course, request
  <1>1. TypeOK'
    BY DEF TypeOK, End
  <1>2. Sync'
    BY DEF Sync, End, TypeOK
  <1>3. Targets' /\ Turns'
    BY DEF Targets, Turns, End
  <1> QED BY <1>1, <1>2, <1>3

LEMMA FaultCounts == ASSUME TypeOK, Fault PROVE faults' \in 0 .. MaxFaults
BY DestroyAssumption DEF TypeOK, Fault

LEMMA UiStep ==
  ASSUME Course, Ui
  PROVE  Course'
  <1> USE DestroyAssumption DEF Course, request
  <1>1. ASSUME NEW k \in Keys, UiDelete(k) PROVE Course'
    <2>1. /\ live' = live \ {k} /\ rows' = [rows EXCEPT ![k] = {}] /\ quiet' = FALSE
          /\ edits' \in 0 .. MaxEdits
          /\ UNCHANGED <<seen, file, torn, mem, targets, fields, edges, backup, left,
                         fieldsLeft, failed, pc, outcome, faults>>
      BY <1>1 DEF UiDelete, disk, TypeOK
    <2>2. TypeOK'
      BY <2>1 DEF TypeOK
    <2>3. Sync'
      BY <2>1 DEF Sync, TypeOK
    <2>4. Targets' /\ Turns'
      BY <2>1 DEF Targets, Turns, TypeOK
    <2> QED BY <2>2, <2>3, <2>4
  <1>2. ASSUME NEW g \in Groups, NEW r \in Rows, UiField(g, r) PROVE Course'
    <2>1. /\ rows' = [rows EXCEPT ![g] = IF r \in rows[g] THEN rows[g] \ {r} ELSE rows[g] \cup {r}]
          /\ r \in seen => r \in rows[g]
          /\ seen' = seen \cup {r} /\ quiet' = FALSE /\ edits' \in 0 .. MaxEdits
          /\ UNCHANGED <<live, file, torn, mem, targets, fields, edges, backup, left,
                         fieldsLeft, failed, pc, outcome, faults>>
      BY <1>2 DEF UiField, disk, TypeOK
    <2>2. TypeOK'
      <3>1. rows' \in [Keys -> SUBSET Rows] /\ seen' \subseteq Rows
        BY <2>1 DEF TypeOK
      <3> QED BY <2>1, <3>1 DEF TypeOK
    <2>3. \A k \in Keys : file[k] # None /\ file[k].field \notin rows[k]
                            => file[k].field \notin rows'[k]
      BY <2>1 DEF Sync, TypeOK
    <2>4. Sync'
      BY <2>1, <2>3 DEF Sync, TypeOK
    <2>5. Targets' /\ Turns'
      BY <2>1 DEF Targets, Turns, TypeOK
    <2> QED BY <2>2, <2>4, <2>5
  <1> QED BY <1>1, <1>2 DEF Ui

LEMMA PrepareStep ==
  ASSUME Course, NEW T \in SUBSET Keys, NEW F \in SUBSET Groups, Prepare(T, F)
  PROVE  Course'
  <1> USE DestroyAssumption DEF Course
  <1>1. /\ pc = "idle" /\ mem' = file /\ targets' = T /\ fields' = F
        /\ left' = T /\ fieldsLeft' = F /\ failed' = FALSE /\ edges' \in BOOLEAN
        /\ pc' = "prepared" /\ outcome' = "none" /\ quiet' = TRUE
        /\ UNCHANGED <<live, rows, seen, file, torn, edits, faults>>
        /\ \A k \in T \cup F : file[k] # None /\ ~file[k].prot
    BY DEF Prepare, Targetable, FieldTargets, Managed, disk
  <1>2. PICK pick \in [F -> Rows \cup {None}] :
          /\ \A g \in F : IF Matches(file, g) = {} THEN pick[g] = None
                                                   ELSE pick[g] \in Matches(file, g)
          /\ backup' = [resources |-> T \cap live,
                        rows |-> [g \in Groups |-> IF g \in F THEN pick[g] ELSE None]]
    BY DEF Prepare
  <1>3. /\ backup' \in [resources : SUBSET Keys, rows : [Groups -> Rows \cup {None}]]
        /\ backup'.resources = T \cap live
        /\ \A g \in F : backup'.rows[g] = None \/ backup'.rows[g] \in Matches(file, g)
    BY <1>2
  <1>4. TypeOK'
    BY <1>1, <1>3 DEF TypeOK
  <1>5. Sync'
    BY <1>1 DEF Sync
  <1>6. Targets'
    BY <1>1, <1>3 DEF Targets
  <1>7. Turns'
    BY <1>1, <1>3 DEF Turns, Matches
  <1> QED BY <1>4, <1>5, <1>6, <1>7

\* a step of which only the place and the outcome are left
LEMMA GoesOn ==
  ASSUME Course, UNCHANGED <<world, disk, mem, request, fieldsLeft, failed, outcome, faults>>,
         \/ pc = "prepared" /\ pc' = "fields" /\ left' = left
         \/ pc = "fields" /\ fieldsLeft = {} /\ ~failed /\ pc' = "resources" /\ left' = left
         \/ pc = "resources" /\ pc' = pc /\ \E k \in Undeletable : left' = left \ {k}
  PROVE  Course'
  <1> USE DEF Course, world, disk, request
  <1>1. TypeOK'
    BY DEF TypeOK
  <1>2. Sync'
    BY DEF Sync
  <1>3. Targets'
    BY DEF Targets
  <1>4. Turns'
    BY DEF Turns, Matches
  <1> QED BY <1>1, <1>2, <1>3, <1>4

LEMMA FieldAmbiguousStep ==
  ASSUME Course, NEW g \in Groups, FieldAmbiguous(g)
  PROVE  Course'
  <1> USE DEF Course, world, disk, request, FieldAmbiguous, FieldTurn, FieldDone
  <1>1. TypeOK'
    BY DEF TypeOK
  <1>2. Sync'
    BY DEF Sync
  <1>3. Targets' /\ Turns'
    BY DEF Targets, Turns, Matches
  <1> QED BY <1>1, <1>2, <1>3

LEMMA FieldDeleteStep ==
  ASSUME Course, NEW g \in Groups, FieldDelete(g)
  PROVE  Course'
  <1> USE DestroyAssumption DEF Course
  <1>1. /\ pc = "fields" /\ g \in fieldsLeft /\ g \in live /\ g \in Keys
        /\ rows' = [rows EXCEPT ![g] = rows[g] \ Matches(mem, g)]
        /\ fieldsLeft' = fieldsLeft \ {g} /\ pc' = "savefield"
        /\ mem' = [mem EXCEPT ![g] = [mem[g] EXCEPT !.field = None]]
        /\ UNCHANGED <<live, seen, quiet, edits, file, torn, targets, fields, edges, backup, left,
                       failed, outcome, faults>>
    BY DEF FieldDelete, FieldTurn, FieldDone, Forget, disk, request
  <1>2. mem[g] \in Entry
    BY <1>1 DEF Turns, TypeOK
  <1>3. /\ mem'[g] \in Entry /\ mem'[g].field = None /\ mem'[g].prot = mem[g].prot
        /\ mem'[g] # None
        /\ \A k \in Keys \ {g} : mem'[k] = mem[k] /\ rows'[k] = rows[k]
    BY <1>1, <1>2, NoneIsNoEntry DEF Entry, TypeOK
  <1>4. rows'[g] = rows[g] \ Matches(mem, g)
    BY <1>1 DEF TypeOK
  <1>5. TypeOK'
    <2>1. mem' \in [Keys -> Entry \cup {None}] /\ rows' \in [Keys -> SUBSET Rows]
      BY <1>1, <1>2, <1>3, <1>4 DEF TypeOK
    <2> QED BY <1>1, <2>1 DEF TypeOK
  <1>6. mem[g].field # None => mem[g].field \notin rows'[g]
    BY <1>4 DEF Matches
  <1>7. Sync'
    <2>1. mem'[g].field # file[g].field => file[g].field \notin rows'[g]
      BY <1>2, <1>3, <1>4, <1>6, NoneIsNoEntry DEF Sync
    <2> QED BY <1>1, <1>2, <1>3, <1>4, <2>1, NoneIsNoEntry DEF Sync
  <1>8. Targets'
    BY <1>1, <1>3 DEF Targets, TypeOK
  <1>9. Turns'
    <2>1. quiet => backup.rows[g] = None \/ backup.rows[g] \notin rows'[g]
      BY <1>1, <1>4 DEF Turns
    <2>2. None \notin rows'[g]
      BY <1>4, <1>1 DEF TypeOK
    <2>3. \A x \in fieldsLeft' : x \in Keys \ {g} /\ Matches(mem, x)' = Matches(mem, x)
      BY <1>1, <1>3 DEF Matches, TypeOK
    <2>4. \A x \in (fields \ fieldsLeft') \ {g} : x \in fields \ fieldsLeft /\ rows'[x] = rows[x]
      BY <1>1, <1>3 DEF TypeOK
    <2>5. \A x \in fieldsLeft' : mem'[x] # None
      BY <1>1, <1>3, <2>3 DEF Turns
    <2>6. quiet' => \A x \in fieldsLeft' :
            backup'.rows[x] = None \/ backup'.rows[x] \in Matches(mem, x)'
      <3> SUFFICES ASSUME quiet, NEW x \in fieldsLeft'
                   PROVE  backup.rows[x] = None \/ backup.rows[x] \in Matches(mem, x)'
        BY <1>1
      <3>1. backup.rows[x] = None \/ backup.rows[x] \in Matches(mem, x)
        BY <1>1 DEF Turns
      <3> QED BY <2>3, <3>1
    <2>7. quiet' /\ ~failed' => \A x \in fields' \ fieldsLeft' : backup'.rows[x] \notin rows'[x]
      <3> SUFFICES ASSUME quiet, ~failed, NEW x \in fields \ fieldsLeft'
                   PROVE  backup.rows[x] \notin rows'[x]
        BY <1>1
      <3>1. CASE x = g
        BY <2>1, <2>2, <3>1
      <3>2. CASE x # g
        BY <1>1, <2>4, <3>2 DEF Turns
      <3> QED BY <3>1, <3>2
    <2> QED BY <1>1, <2>5, <2>6, <2>7 DEF Turns
  <1> QED BY <1>5, <1>7, <1>8, <1>9

LEMMA DeleteStep ==
  ASSUME Course, NEW k \in Keys, Delete(k)
  PROVE  Course'
  <1> USE DestroyAssumption DEF Course
  <1>1. /\ pc = "resources" /\ k \in left /\ pc' = "save"
        /\ live' = live \ {k} /\ rows' = [rows EXCEPT ![k] = {}]
        /\ left' = left \ {k} /\ mem' = [mem EXCEPT ![k] = None]
        /\ UNCHANGED <<seen, quiet, edits, file, torn, targets, fields, edges, backup,
                       fieldsLeft, failed, outcome, faults>>
    BY DEF Delete, Turn, disk, request
  <1>2. TypeOK'
    BY <1>1 DEF TypeOK
  <1>3. Sync'
    BY <1>1 DEF Sync, TypeOK
  <1>4. Targets'
    BY <1>1 DEF Targets, TypeOK
  <1>5. Turns'
    BY <1>1 DEF Turns, TypeOK
  <1> QED BY <1>2, <1>3, <1>4, <1>5

LEMMA SaveStep ==
  ASSUME Course, Save("savefield", "fields") \/ Save("save", "resources")
  PROVE  Course'
  <1> USE DEF Course, Save, world, request
  <1>1. TypeOK'
    BY DEF TypeOK
  <1>2. Sync'
    BY DEF Sync, TypeOK
  <1>3. Targets'
    BY DEF Targets, Sync, TypeOK
  <1>4. Turns'
    BY DEF Turns, Matches
  <1> QED BY <1>1, <1>2, <1>3, <1>4

\* Every way a run may end.
LEMMA EndingSteps ==
  ASSUME Course,
         \/ Decline \/ HoldBack \/ SaveFails \/ Finish \/ Crash
         \/ \E g \in Groups : FieldUnreadable(g) \/ FieldFails(g)
         \/ \E k \in Keys : DeleteFails(k)
  PROVE  Course'
  <1> USE DEF Course
  <1>1. CASE Decline \/ HoldBack \/ Finish \/ \E g \in Groups : FieldUnreadable(g)
    <2>1. PICK how \in {"declined", "failed", "heldback", "complete", "incomplete", "crashed"} :
            End(how) /\ UNCHANGED <<world, disk, request, faults>>
      BY <1>1 DEF Decline, HoldBack, Finish, FieldUnreadable
    <2> QED BY <2>1, Ends DEF world, disk, TypeOK
  <1>2. CASE SaveFails \/ Crash
    <2>1. CASE SaveFails
      <3>1. End("failed") /\ Fault /\ torn' \in BOOLEAN /\ UNCHANGED <<world, file, request>>
        BY <2>1 DEF SaveFails
      <3>2. faults' \in 0 .. MaxFaults
        BY <3>1, FaultCounts
      <3> QED BY <3>1, <3>2, Ends DEF world, TypeOK
    <2>2. CASE Crash
      <3>1. /\ End("crashed") /\ Fault /\ UNCHANGED <<world, file, request>>
            /\ torn' \in IF Saving THEN BOOLEAN ELSE {FALSE}
        BY <2>2 DEF Crash
      <3>2. torn' \in BOOLEAN
        BY <3>1
      <3>3. faults' \in 0 .. MaxFaults
        BY <3>1, FaultCounts
      <3> QED BY <3>1, <3>2, <3>3, Ends DEF world, TypeOK
    <2> QED BY <1>2, <2>1, <2>2
  <1>3. ASSUME NEW g \in Groups, FieldFails(g) PROVE Course'
    <2>1. /\ End("failed") /\ UNCHANGED <<live, seen, quiet, edits, disk, request>>
          /\ faults' \in 0 .. MaxFaults
      BY <1>3, FaultCounts DEF FieldFails
    <2>2. rows' \in [Keys -> SUBSET Rows] /\ \A k \in Keys : rows'[k] \subseteq rows[k]
      BY <1>3, DestroyAssumption DEF FieldFails, TypeOK
    <2> QED BY <2>1, <2>2, Ends DEF disk, TypeOK
  <1>4. ASSUME NEW k \in Keys, DeleteFails(k) PROVE Course'
    <2>1. /\ End("failed") /\ UNCHANGED <<seen, quiet, edits, disk, request>>
          /\ faults' \in 0 .. MaxFaults /\ live' \subseteq live
      BY <1>4, FaultCounts DEF DeleteFails
    <2>2. rows' \in [Keys -> SUBSET Rows] /\ \A j \in Keys : rows'[j] \subseteq rows[j]
      BY <1>4 DEF DeleteFails, TypeOK
    <2> QED BY <2>1, <2>2, Ends DEF disk, TypeOK
  <1> QED BY <1>1, <1>2, <1>3, <1>4

--------------------------------------------------------------------------------
(* Every step, and what follows for every behaviour.                        *)

LEMMA Step == Course /\ [Next]_vars => Course'
  <1> SUFFICES ASSUME Course, [Next]_vars PROVE Course'
    OBVIOUS
  <1>1. CASE Operator
    <2>1. CASE Execute
      BY <2>1, GoesOn DEF Execute
    <2> QED BY <1>1, <2>1, PrepareStep, EndingSteps DEF Operator
  <1>2. CASE Work
    <2>1. CASE FieldsDone
      BY <2>1, GoesOn DEF FieldsDone
    <2>2. ASSUME NEW k \in Keys, SkipTarget(k) PROVE Course'
      BY <2>2, GoesOn DEF SkipTarget, Turn
    <2> QED BY <1>2, <2>1, <2>2, FieldAmbiguousStep, FieldDeleteStep, DeleteStep, SaveStep,
               EndingSteps DEF Work
  <1>3. CASE Faulty
    BY <1>3, EndingSteps DEF Faulty
  <1>4. CASE Ui
    BY <1>4, UiStep
  <1>5. CASE UNCHANGED vars
    <2> USE <1>5 DEF vars, Course
    <2>1. TypeOK'
      BY DEF TypeOK
    <2>2. Sync'
      BY DEF Sync
    <2>3. Targets' /\ Turns'
      BY DEF Targets, Turns, Matches
    <2> QED BY <2>1, <2>2, <2>3
  <1> QED BY <1>1, <1>2, <1>3, <1>4, <1>5 DEF Next

LEMMA Stays == Spec => []Course
BY Begins, Step, PTL DEF Spec

\* The state file changes by a save alone.
LEMMA FileMoves ==
  ASSUME [Next]_vars
  PROVE  file' = file \/ (file' = mem /\ UNCHANGED <<live, rows>>)
  <1> USE DEF world, disk, End
  <1>1. CASE Operator
    BY <1>1 DEF Operator, Prepare, Decline, Execute
  <1>2. CASE Work
    BY <1>2 DEF Work, FieldAmbiguous, FieldDelete, FieldUnreadable, FieldsDone, HoldBack,
                SkipTarget, Delete, Save, Finish
  <1>3. CASE Faulty
    BY <1>3 DEF Faulty, FieldFails, DeleteFails, SaveFails, Crash
  <1>4. CASE Ui
    BY <1>4 DEF Ui, UiDelete, UiField
  <1> QED BY <1>1, <1>2, <1>3, <1>4 DEF Next, vars

\* ct deletes no resource but the one whose turn it is.
LEMMA LiveMoves ==
  ASSUME TypeOK, [Next]_vars, ByCt
  PROVE  \/ UNCHANGED live
         \/ \E k \in Keys : /\ Turn(k) /\ k \notin Undeletable /\ live' = live \ {k}
                            /\ UNCHANGED quiet
  <1> USE DEF world, ByCt
  <1>1. CASE Operator
    BY <1>1 DEF Operator, Prepare, Decline, Execute
  <1>2. CASE Work
    BY <1>2 DEF Work, FieldAmbiguous, FieldDelete, FieldUnreadable, FieldsDone, HoldBack,
                SkipTarget, Delete, Save, Finish
  <1>3. CASE Faulty
    BY <1>3 DEF Faulty, FieldFails, DeleteFails, SaveFails, Crash
  <1>4. ~Ui
    <2>1. edits \in Nat
      BY DestroyAssumption DEF TypeOK
    <2> QED BY <2>1 DEF Ui, UiDelete, UiField
  <1> QED BY <1>1, <1>2, <1>3, <1>4 DEF Next, vars

\* Every variable of the destroy keeps its type.
THEOREM Typed == Spec => []TypeOK
BY Stays, PTL DEF Course

\* What ct forgets, a state entry or the binding of a member field, is no longer
\* in ChurchTools, whatever failed, was lost or was deleted in the UI meanwhile.
THEOREM NothingLiveForgotten == Spec => ForgottenIsGone
  <1>1. ASSUME Course, [Next]_vars
        PROVE  /\ \A k \in Managed(file) : file'[k] = None => k \notin live'
               /\ ByCt => \A g \in Groups \cap Managed(file) :
                    file'[g] # None /\ file'[g].field # file[g].field
                      => file[g].field \notin rows'[g]
    BY <1>1, FileMoves DEF Course, Sync, Managed
  <1> QED BY <1>1, Stays, PTL DEF ForgottenIsGone, Spec

\* ct deletes what the operator named and nothing else, it was in the backup,
\* and preventDestroy did not protect it.
THEOREM NothingElseDeleted == Spec => OnlyTargetsDeleted
  <1>1. ASSUME Course, [Next]_vars
        PROVE  ByCt => \A k \in live \ live' :
                 /\ k \in targets \cap backup.resources
                 /\ file[k] # None /\ ~file[k].prot
    BY <1>1, LiveMoves DEF Course, TypeOK, Targets, Turn
  <1> QED BY <1>1, Stays, PTL DEF OnlyTargetsDeleted, Spec

\* No resource is deleted under one of the targets below it.
THEOREM ChildrenGoFirst == Spec => ChildrenFirst
  <1>1. ASSUME Course, [Next]_vars
        PROVE  ByCt => \A k \in live \ live' : \A j \in targets \ Undeletable :
                 j # k /\ (Tier[j] > Tier[k] \/ (edges /\ Parent[j] = k)) => j \notin live
    BY <1>1, LiveMoves DEF Course, TypeOK, Targets, Turn, Before
  <1> QED BY <1>1, Stays, PTL DEF ChildrenFirst, Spec

\* No resource is deleted while the row of a member field to be deleted, the one
\* the backup holds, is still there.
THEOREM FieldsGoFirst == Spec => FieldsBeforeResources
  <1>1. ASSUME Course, [Next]_vars
        PROVE  ByCt /\ quiet /\ live' # live =>
                 \A g \in fields \cap live : backup.rows[g] \notin rows[g]
    BY <1>1, LiveMoves DEF Course, Turns, Turn
  <1> QED BY <1>1, Stays, PTL DEF FieldsBeforeResources, Spec
=============================================================================
