-------------------------- MODULE Operations_proofs --------------------------
(***************************************************************************)
(* What holds of the operations on the state file, whatever runs beside    *)
(* them (module PreparedOperation: any operations, processes, locks, saves *)
(* and lifetimes), and of the sequences of them that hand resources over   *)
(* to OpenTofu (module Cutover: any rows, names, keys and bounds).         *)
(***************************************************************************)
EXTENDS PreparedOperation, Cutover, FiniteSetTheorems, TLAPS

--------------------------------------------------------------------------------
(* PreparedOperation: the types, single use, the locks, the fingerprint.    *)

\* Every step keeps the types.
LEMMA OpsTypeStep == OpsTypeOK /\ [OpsNext]_opsVars => OpsTypeOK'
<1> SUFFICES ASSUME OpsTypeOK, [OpsNext]_opsVars PROVE OpsTypeOK'
  OBVIOUS
<1> USE OperationsAssumption DEF OpsTypeOK, Saves, Goto
<1>1. ASSUME NEW o \in Ops, Load(o) PROVE OpsTypeOK'
  BY <1>1 DEF Load
<1>2. ASSUME NEW o \in Ops, Put(o) PROVE OpsTypeOK'
  <2>1. (IF Ttl[o] = NoTtl THEN NoTtl ELSE clock + Ttl[o]) \in Nat \cup {NoTtl}
    OBVIOUS
  <2> QED BY <1>2, <2>1 DEF Put
<1>3. ASSUME NEW o \in Ops, Discard(o) PROVE OpsTypeOK'
  BY <1>3 DEF Discard
<1>4. ASSUME NEW o \in Ops, Begin(o) PROVE OpsTypeOK'
  BY <1>4 DEF Begin, Acquire
<1>5. ASSUME NEW o \in Ops, Check(o) PROVE OpsTypeOK'
  BY <1>5 DEF Check
<1>6. ASSUME NEW o \in Ops, Mismatch(o) PROVE OpsTypeOK'
  BY <1>6 DEF Mismatch, Release
<1>7. ASSUME NEW o \in Ops, Enter(o) PROVE OpsTypeOK'
  BY <1>7 DEF Enter, Acquire
<1>8. ASSUME NEW o \in Ops, LoadLocked(o) PROVE OpsTypeOK'
  BY <1>8 DEF LoadLocked
<1>9. ASSUME NEW o \in Ops, Save(o) PROVE OpsTypeOK'
  <2>1. saved[o] \in 0 .. MaxSaves /\ saved[o] < MaxSaves
    BY <1>9 DEF Save
  <2>2. <<o, saved[o] + 1>> \in Ops \X (1 .. MaxSaves)
    BY <2>1
  <2>3. mem' \in [Ops -> SUBSET Saves] /\ file' \subseteq Saves
    BY <1>9, <2>2 DEF Save
  <2>4. saved' \in [Ops -> 0 .. MaxSaves]
    BY <1>9, <2>1 DEF Save
  <2>5. beside' \in [Ops -> SUBSET Saves]
    BY <1>9, <2>3 DEF Save
  <2> QED BY <1>9, <2>3, <2>4, <2>5 DEF Save
<1>10. ASSUME NEW o \in Ops, End(o) PROVE OpsTypeOK'
  BY <1>10 DEF End, Release
<1>11. ASSUME NEW p \in Procs, Crash(p) PROVE OpsTypeOK'
  BY <1>11 DEF Crash
<1>12. CASE Tick
  BY <1>12 DEF Tick
<1>13. CASE UNCHANGED opsVars
  BY <1>13 DEF opsVars
<1> QED
  BY <1>1, <1>2, <1>3, <1>4, <1>5, <1>6, <1>7, <1>8, <1>9, <1>10, <1>11, <1>12,
     <1>13 DEF OpsNext, Step

\* The types hold in every reachable state, whatever the bounds.
THEOREM OpsTyped == OpsSpec => []OpsTypeOK
<1>1. OpsInit => OpsTypeOK
  BY OperationsAssumption DEF OpsInit, OpsTypeOK, Saves
<1> QED BY <1>1, OpsTypeStep, PTL DEF OpsSpec

--------------------------------------------------------------------------------
(* A proposal is executed at most once.                                      *)

\* A proposal that is still in the store has never been executed.
TakenOnce ==
  \A o \in Ops : runs[o] <= 1 /\ (o \notin used => runs[o] = 0)

LEMMA TakenOnceStep == OpsTypeOK /\ TakenOnce /\ [OpsNext]_opsVars => TakenOnce'
<1> SUFFICES ASSUME OpsTypeOK, TakenOnce, [OpsNext]_opsVars PROVE TakenOnce'
  OBVIOUS
<1>1. ASSUME NEW o \in Ops, Begin(o) PROVE TakenOnce'
  <2>1. o \notin used /\ runs[o] = 0
    BY <1>1 DEF Begin, Usable, TakenOnce
  <2> QED BY <1>1, <2>1 DEF Begin, TakenOnce, OpsTypeOK
<1>2. ASSUME NEW p \in Procs, Crash(p) PROVE TakenOnce'
  BY <1>2 DEF Crash, TakenOnce
<1>3. CASE UNCHANGED <<used, runs>>
  BY <1>3 DEF TakenOnce
<1> QED
  BY <1>1, <1>2, <1>3 DEF OpsNext, Step, Load, Put, Discard, Check, Mismatch, Enter,
     LoadLocked, Save, End, Tick, opsVars

\* take marks the entry used in the same step as getEntry checked it, so no id
\* is executed twice, whatever else runs (prepared-operation-store.ts:42).
THEOREM ExecutedOnce == OpsSpec => []SingleUse
<1>1. OpsInit => TakenOnce
  <2> SUFFICES ASSUME OpsInit, NEW o \in Ops PROVE runs[o] <= 1 /\ runs[o] = 0
    BY DEF TakenOnce
  <2>1. runs[o] = 0
    BY DEF OpsInit
  <2> QED BY <2>1
<1>2. OpsTypeOK /\ TakenOnce => SingleUse
  BY DEF TakenOnce, SingleUse
<1> QED BY <1>1, <1>2, OpsTyped, TakenOnceStep, PTL DEF OpsSpec

--------------------------------------------------------------------------------
(* The lock.                                                                 *)

\* A running operation holds its lock, and who holds a lock is running under it.
Holding ==
  /\ \A o \in Ops : Running(o) => active[LockOf[o]] = o
  /\ \A l \in Locks : active[l] # Free => /\ Running(active[l])
                                          /\ LockOf[active[l]] = l

LEMMA HoldingStep == OpsTypeOK /\ Holding /\ [OpsNext]_opsVars => Holding'
<1> SUFFICES ASSUME OpsTypeOK, Holding, [OpsNext]_opsVars PROVE Holding'
  OBVIOUS
<1> USE OperationsAssumption DEF OpsTypeOK, Holding, Running, Goto
<1>1. ASSUME NEW o \in Ops, Load(o) PROVE Holding'
  BY <1>1 DEF Load
<1>2. ASSUME NEW o \in Ops, Put(o) PROVE Holding'
  BY <1>2 DEF Put
<1>3. ASSUME NEW o \in Ops, Discard(o) PROVE Holding'
  BY <1>3 DEF Discard
<1>4. ASSUME NEW o \in Ops, Begin(o) PROVE Holding'
  BY <1>4 DEF Begin, Acquire
<1>5. ASSUME NEW o \in Ops, Check(o) PROVE Holding'
  BY <1>5 DEF Check
<1>6. ASSUME NEW o \in Ops, Mismatch(o) PROVE Holding'
  BY <1>6 DEF Mismatch, Release
<1>7. ASSUME NEW o \in Ops, Enter(o) PROVE Holding'
  BY <1>7 DEF Enter, Acquire
<1>8. ASSUME NEW o \in Ops, LoadLocked(o) PROVE Holding'
  BY <1>8 DEF LoadLocked
<1>9. ASSUME NEW o \in Ops, Save(o) PROVE Holding'
  BY <1>9 DEF Save
<1>10. ASSUME NEW o \in Ops, End(o) PROVE Holding'
  BY <1>10 DEF End, Release
<1>11. ASSUME NEW p \in Procs, Crash(p) PROVE Holding'
  BY <1>11 DEF Crash
<1>12. CASE UNCHANGED <<stage, active>>
  BY <1>12
<1> QED
  BY <1>1, <1>2, <1>3, <1>4, <1>5, <1>6, <1>7, <1>8, <1>9, <1>10, <1>11, <1>12
     DEF OpsNext, Step, Tick, opsVars

LEMMA HoldingAlways == OpsSpec => [](OpsTypeOK /\ Holding)
<1>1. OpsInit => Holding
  BY OperationsAssumption DEF OpsInit, Holding, Running
<1> QED BY <1>1, OpsTyped, HoldingStep, PTL DEF OpsSpec

\* runExclusive: two operations never run under one lock, and every way out of
\* an operation releases it (prepared-operation-store.ts:72).
THEOREM LocksExclude == OpsSpec => []LockedAlone
<1>1. OpsTypeOK /\ Holding => LockedAlone
  BY OperationsAssumption DEF Holding, LockedAlone, OpsTypeOK
<1> QED BY <1>1, HoldingAlways, PTL

--------------------------------------------------------------------------------
(* What the fingerprint protects.                                            *)

\* What the file holds and the copy of the operation that is about to write
\* does not, that operation's fingerprint was taken of, or somebody under another
\* lock has put it there since.  Only an apply or destroy compares fingerprints.
Covered ==
  \A o \in Ops :
    /\ stage[o] = "checking" => o \in TwoPhase
    /\ stage[o] = "writing" => file \subseteq mem[o] \cup Window(o) \cup beside[o]

LEMMA CoveredStep == OpsTypeOK /\ Holding /\ Covered /\ [OpsNext]_opsVars => Covered'
<1> SUFFICES ASSUME OpsTypeOK, Holding, Covered, [OpsNext]_opsVars PROVE Covered'
  OBVIOUS
<1> USE OperationsAssumption DEF OpsTypeOK, Covered, Goto, Window
<1>1. ASSUME NEW o \in Ops, Load(o) PROVE Covered'
  BY <1>1 DEF Load
<1>2. ASSUME NEW o \in Ops, Put(o) PROVE Covered'
  BY <1>2 DEF Put
<1>3. ASSUME NEW o \in Ops, Discard(o) PROVE Covered'
  BY <1>3 DEF Discard
<1>4. ASSUME NEW o \in Ops, Begin(o) PROVE Covered'
  BY <1>4 DEF Begin
<1>5. ASSUME NEW o \in Ops, Check(o) PROVE Covered'
  <2>1. o \in TwoPhase
    BY <1>5 DEF Check
  <2> QED BY <1>5, <2>1 DEF Check
<1>6. ASSUME NEW o \in Ops, Mismatch(o) PROVE Covered'
  BY <1>6 DEF Mismatch
<1>7. ASSUME NEW o \in Ops, Enter(o) PROVE Covered'
  BY <1>7 DEF Enter
<1>8. ASSUME NEW o \in Ops, LoadLocked(o) PROVE Covered'
  BY <1>8 DEF LoadLocked
<1>9. ASSUME NEW o \in Ops, Save(o) PROVE Covered'
  <2>1. stage' = stage /\ print' = print /\ file' = mem'[o]
    BY <1>9 DEF Save
  <2>2. ASSUME NEW p \in Ops, p # o, stage[p] = "writing"
        PROVE  file' \subseteq beside'[p]
    <3>1. LockOf[p] # LockOf[o]
      BY <1>9, <2>2 DEF Holding, Running, Save
    <3> QED BY <1>9, <2>2, <3>1 DEF Save
  <2> QED BY <2>1, <2>2
<1>10. ASSUME NEW o \in Ops, End(o) PROVE Covered'
  BY <1>10 DEF End
<1>11. ASSUME NEW p \in Procs, Crash(p) PROVE Covered'
  BY <1>11 DEF Crash
<1>12. CASE UNCHANGED <<file, stage, mem, print, beside>>
  BY <1>12
<1> QED
  BY <1>1, <1>2, <1>3, <1>4, <1>5, <1>6, <1>7, <1>8, <1>9, <1>10, <1>11, <1>12
     DEF OpsNext, Step, Tick, opsVars

\* One step of the property below: what a save drops the writer's copy lacks.
LEMMA LossStep ==
  OpsTypeOK /\ Covered /\ [OpsNext]_opsVars
    => \A o \in Ops : saved'[o] # saved[o]
                        => file \ file' \subseteq Window(o) \cup beside[o]
<1> SUFFICES ASSUME OpsTypeOK, Covered, [OpsNext]_opsVars,
                    NEW o \in Ops, saved'[o] # saved[o]
             PROVE  file \ file' \subseteq Window(o) \cup beside[o]
  OBVIOUS
<1>1. PICK p \in Ops : Save(p)
  BY DEF OpsNext, Step, Load, Put, Discard, Begin, Check, Mismatch, Enter,
     LoadLocked, End, Crash, Tick, opsVars
<1>2. p = o
  BY <1>1 DEF Save, OpsTypeOK
<1>3. file \subseteq mem[o] \cup Window(o) \cup beside[o] /\ mem[o] \subseteq file'
  BY <1>1, <1>2 DEF Save, Covered, OpsTypeOK
<1> QED BY <1>3

\* The fingerprint is taken after the load (operations/plan.ts:145, apply.ts:187)
\* and compared under the lock (apply.ts:223): whichever locks and processes the
\* operations run under, what a save drops was saved between the writer's load
\* and its fingerprint, or beside it under another lock.
THEOREM FingerprintCatchesTheRest == OpsSpec => LossNeedsWindow
<1>1. OpsInit => Covered
  BY DEF OpsInit, Covered
<1>2. OpsTypeOK /\ Covered /\ [OpsNext]_opsVars
        => [\A o \in Ops : saved'[o] # saved[o]
              => file \ file' \subseteq Window(o) \cup beside[o]]_opsVars
  BY LossStep
<1> QED BY <1>1, <1>2, CoveredStep, HoldingAlways, PTL DEF OpsSpec, LossNeedsWindow

--------------------------------------------------------------------------------
(* Cutover.                                                                 *)

Held == BoundIds(managed)
Rows == Managed(managed)

\* the addresses of an entry of the id map, of a key cut over, and of a move
Place(e) == <<TypeOf[e.id], e.label>>
Home(o) == <<o.type, LabelOf[o.key]>>
From(v) == <<v.type, v.from>>
To(v) == <<v.type, v.to>>
Moving == moved \cup blocked

--------------------------------------------------------------------------------
(* The inductive invariant.                                                 *)

\* What is managed exists; what an export wrote is of its row's type.
Kept ==
  /\ \A k \in Rows : Exists(managed[k].id)
  /\ \A v \in Moving : v.type = TypeOf[v.id]
  /\ \A m \in imports : TypeOf[m.id] = m.at[1]
  /\ applied => blocked = {}
  /\ skipped => moved = {} /\ blocked = {}

\* OpenTofu holds a row once, a row that ct still manages alone at its address,
\* and at the address of a managed key no row but managed ones.
Placed ==
  /\ \A a \in Addresses : \A i \in tofu[a] : TypeOf[i] = a[1] /\ live[i] # None
  /\ \A a, b \in Addresses : \A i \in tofu[a] \cap tofu[b] : a = b
  /\ \A a \in Addresses : \A i \in tofu[a] \cap Held : tofu[a] = {i}
  /\ \A k \in Rows : tofu[Address(k)] \subseteq Held

\* The id map has a row, an address and a key of a type once.
Mapped ==
  /\ \A e \in idmap : e.label = LabelOf[e.key]
  /\ \A e, f \in idmap : e.key = f.key /\ TypeOf[e.id] = TypeOf[f.id] => e = f
  /\ \A e, f \in idmap : Place(e) = Place(f) \/ e.id = f.id => e = f
  /\ ~readable => broke /\ idmap = {}

\* While the map does not lag, it knows every single instance at its address or
\* the one it moves to, and no row that is neither managed nor there.
Current ==
  readable /\ ~behind =>
    /\ \A a \in Addresses, i \in Ids : tofu[a] = {i} =>
         \E e \in idmap : /\ e.id = i
                          /\ \/ e.label = a[2]
                             \/ ~applied /\ \E v \in Moving :
                                  v.id = i /\ From(v) = a /\ v.to = e.label
    /\ \A e \in idmap : \A x \in tofu[Place(e)] :
         x = e.id \/ (~applied /\ \E v \in Moving : v.id = x /\ From(v) = Place(e))
    /\ \A e \in idmap : \A b \in Addresses : e.id \in tofu[b] => tofu[b] = {e.id}
    /\ \A e \in idmap : e.id \in Held \/ tofu[Place(e)] = {e.id}

\* What an export wrote and nobody applied: a row that is somewhere else than
\* its import block says has a move from there, and a row that is where another
\* is imported has a move by hand.
Written ==
  ~applied /\ ~skipped =>
    /\ \A m, n \in imports : m.id = n.id \/ m.at = n.at => m = n
    /\ \A m \in imports : m.id \in Held \/ m.id \in tofu[m.at]
    /\ \A v \in Moving : v.id \in Held
    /\ \A v \in Moving : \E m \in imports : m.id = v.id /\ m.at = To(v)
    /\ \A v \in moved : tofu[From(v)] \subseteq {v.id}
    /\ \A v \in moved : \A m \in imports : m.at # From(v)
    /\ \A m \in imports : \A b \in Addresses : m.id \in tofu[b] =>
         b = m.at \/ \E v \in Moving : v.id = m.id /\ From(v) = b
    /\ \A m \in imports : \A x \in tofu[m.at] :
         x = m.id \/ \E v \in blocked : v.id = x /\ From(v) = m.at

\* A key cut over: OpenTofu holds one of its rows, alone, and the map names one.
Cut ==
  \A o \in owned :
    /\ o.ids \cap Held = {}
    /\ \A x \in o.ids : TypeOf[x] = o.type /\ live[x] # None
    /\ \E x \in o.ids : tofu[Home(o)] = {x}
    /\ readable /\ (LabelOf[o.key] = o.key \/ ~broke) =>
         \E e \in idmap : e.key = o.key /\ e.id \in o.ids

Safe == TypeOK /\ Kept /\ Placed /\ Mapped /\ Current /\ Written /\ Cut

--------------------------------------------------------------------------------
(* Rows, keys, addresses.                                                   *)

\* The constants and the state typed, as the proofs use them.
LEMMA Typing ==
  ASSUME TypeOK
  PROVE  /\ managed \in [Keys -> Entry \cup {None}] /\ None \notin Entry
         /\ \A k \in Rows : k \in Keys /\ managed[k] \in Entry /\ managed[k].id \in Ids
                            /\ managed[k].fields \in Ids \cup {None}
         /\ \A j, k \in Rows : managed[j].id = managed[k].id => j = k
         /\ Held \subseteq Ids
         /\ \A i \in Held : \E k \in Rows : managed[k].id = i
         /\ \A k \in Rows : managed[k].id \in Held
  BY DEF TypeOK, Sound, OneKeyPerResource, Rows, Held, BoundIds, Managed, Entry

LEMMA Addressing ==
  /\ \A k \in Keys : LabelOf[k] \in Labels
  /\ \A l \in Labels : l \in Keys /\ LabelOf[l] = l
  /\ \A t \in Types, l \in Labels :
       <<t, l>> \in Addresses /\ <<t, l>>[1] = t /\ <<t, l>>[2] = l
  /\ \A a \in Addresses : a[1] \in Types /\ a[2] \in Labels /\ a = <<a[1], a[2]>>
  BY CutoverAssumption DEF Labels, Addresses

\* An address with one instance.
LEMMA OneInstance ==
  ASSUME TypeOK, NEW a \in Addresses
  PROVE  /\ tofu[a] \subseteq Ids
         /\ Single(a) => \E i \in Ids : tofu[a] = {i}
         /\ \A i \in Ids : tofu[a] = {i} => Single(a)
  <1>1. tofu[a] \subseteq Ids
    BY DEF TypeOK
  <1>2. IsFiniteSet(tofu[a])
    BY <1>1, FS_Subset, CutoverAssumption
  <1>3. Cardinality(tofu[a]) = 1 <=> \E i : tofu[a] = {i}
    BY <1>2, FS_Singleton
  <1> QED BY <1>1, <1>3 DEF Single

LEMMA PlaceOfKey ==
  ASSUME TypeOK, NEW k \in Rows
  PROVE  /\ Address(k) \in Addresses /\ Address(k)[1] = TypeOf[managed[k].id]
         /\ Address(k)[2] = LabelOf[k]
  BY Typing, Addressing, CutoverAssumption DEF Address

--------------------------------------------------------------------------------
(* Types.                                                                   *)

\* What Upsert leaves under every key (state.ts:231), if the key does not name
\* another resource.
LEMMA Upserted ==
  ASSUME NEW s, Sound(s, Entry), NEW k \in Keys, NEW i \in Ids,
         NEW f \in Ids \cup {None}, ~Collides(s, k, i)
  PROVE  /\ Sound(Upsert(s, k, i, f), Entry)
         /\ Upsert(s, k, i, f)[k] \in Entry /\ Upsert(s, k, i, f)[k].id = i
         /\ \A j \in Keys \ {k} :
              Upsert(s, k, i, f)[j] = IF s[j] # None /\ s[j].id = i THEN None ELSE s[j]
  <1> PICK held : held = Holders(s, i)
    OBVIOUS
  <1> PICK holder : holder = CHOOSE h \in held : TRUE
    OBVIOUS
  <1> PICK entry : entry = [id |-> i, fields |-> f, prot |-> held # {} /\ s[holder].prot]
    OBVIOUS
  <1> PICK after : after = Upsert(s, k, i, f)
    OBVIOUS
  <1>1. held \subseteq Keys /\ (held # {} => holder \in held)
    BY DEF Holders
  <1>2. held # {} => held = {holder}
    BY <1>1 DEF Sound, Holders, OneKeyPerResource, Managed
  <1>3. held # {} => s[holder] \in Entry
    BY <1>1 DEF Sound, Holders
  <1>4. (held # {} /\ s[holder].prot) \in BOOLEAN
    BY <1>3 DEF Entry
  <1>5. entry \in Entry /\ entry.id = i
    BY <1>4 DEF Entry
  <1>6. after \in [Keys -> Entry \cup {None}] /\ after[k] = entry
        /\ \A j \in Keys \ {k} : after[j] = IF s[j] # None /\ s[j].id = i THEN None ELSE s[j]
    <2>1. CASE held = {}
      <3>1. after = [s EXCEPT ![k] = entry]
        BY <2>1 DEF Upsert
      <3>2. \A j \in Keys : ~(s[j] # None /\ s[j].id = i)
        BY <2>1 DEF Holders
      <3> QED BY <1>5, <3>1, <3>2 DEF Sound
    <2>2. CASE held # {}
      <3>1. after = [s EXCEPT ![holder] = None, ![k] = entry]
        BY <2>2 DEF Upsert
      <3>2. holder \in Keys /\ \A j \in Keys : (s[j] # None /\ s[j].id = i) <=> j = holder
        BY <1>1, <1>2, <2>2 DEF Holders
      <3> QED BY <1>5, <3>1, <3>2 DEF Sound
    <2> QED BY <2>1, <2>2
  <1>7. OneKeyPerResource(after)
    <2> SUFFICES ASSUME NEW j \in Keys, NEW h \in Keys, after[j] # None, after[h] # None,
                        after[j].id = after[h].id, j # k, j # h
                 PROVE  FALSE
      BY DEF OneKeyPerResource, Managed
    <2>1. s[j] # None /\ s[j].id # i /\ after[j] = s[j]
      BY <1>6
    <2>2. CASE h = k
      BY <1>5, <1>6, <2>1, <2>2
    <2>3. CASE h # k
      BY <1>6, <2>1, <2>3 DEF Sound, OneKeyPerResource, Managed
    <2> QED BY <2>2, <2>3
  <1> QED BY <1>5, <1>6, <1>7 DEF Sound

\* Where a move of an export comes from.
LEMMA MoveRead ==
  ASSUME NEW sel, NEW v \in Moves(sel)
  PROVE  readable /\ \E k \in sel, e \in idmap :
           /\ e.id = managed[k].id /\ v.id = e.id /\ v.type = TypeOf[e.id]
           /\ v.from = e.label /\ v.to = LabelOf[k]
           /\ v = [type |-> v.type, id |-> v.id, from |-> v.from, to |-> v.to]
  BY DEF Moves, LoadIdMap

\* A label of a reference.
LEMMA RefLabelsTyped ==
  ASSUME TypeOK, NEW i PROVE RefLabels(i) \subseteq Labels
  <1>1. \A k \in Holders(managed, i) : k \in Keys
    BY DEF Holders
  <1>2. \A e \in LoadIdMap : e.label \in Labels
    BY DEF LoadIdMap, TypeOK, MapEntry
  <1> QED BY <1>1, <1>2, Addressing DEF RefLabels

\* The key an adoption stores under is a key.
LEMMA AdoptedKey ==
  ASSUME NEW i \in Ids, Exists(i), NEW explicit \in Keys \cup {None}, NEW rekey \in BOOLEAN
  PROVE  AdoptKey(managed, i, SlugOf[live[i]], explicit, rekey) \in Keys
  <1>1. SlugOf[live[i]] \in Keys
    BY CutoverAssumption DEF Exists
  <1>2. Holders(managed, i) # {} => (CHOOSE h \in Holders(managed, i) : TRUE) \in Keys
    BY DEF Holders
  <1> QED BY <1>1, <1>2 DEF AdoptKey

\* The key a label is read back as is a key.
LEMMA KeyReadTyped ==
  ASSUME TypeOK, NEW t, NEW l \in Labels PROVE KeyOfLabel(t, l) \in Keys
  <1> PICK old : old = {e \in LoadIdMap : TypeOf[e.id] = t /\ e.label = l}
    OBVIOUS
  <1>1. \A e \in old : e.key \in Keys
    BY DEF LoadIdMap, TypeOK, MapEntry
  <1>2. old # {} => (CHOOSE e \in old : TRUE) \in old
    OBVIOUS
  <1> QED BY <1>1, <1>2, Addressing DEF KeyOfLabel

\* A marker is one, whatever its role is called.
LEMMA PortableTyped ==
  ASSUME NEW i \in Ids, Exists(i) PROVE Portable(i) \in Marker
  <1> PICK gt : gt = CatalogKey(GroupType[i])
    OBVIOUS
  <1> PICK held : held = RoleDefKeys(i)
    OBVIOUS
  <1>1. live[i] \in Names
    BY DEF Exists
  <1>2. gt \in Keys \cup {None}
    BY CutoverAssumption DEF CatalogKey, Exists
  <1>3. held # {} => (CHOOSE k \in held : TRUE) \in Keys
    BY DEF RoleDefKeys, Holders
  <1>4. \/ /\ held # {}
           /\ Portable(i) = [kind |-> "role-def", key |-> CHOOSE k \in held : TRUE, role |-> None]
        \/ /\ gt # None /\ Portable(i) = [kind |-> "pair", key |-> gt, role |-> live[i]]
        \/ Portable(i) = [kind |-> "number", key |-> None, role |-> None]
    BY DEF Portable
  <1>5. \A kd \in {"role-def", "pair", "number"}, k \in Keys \cup {None},
             r \in Names \cup {None} : [kind |-> kd, key |-> k, role |-> r] \in Marker
    BY DEF Marker
  <1> QED BY <1>1, <1>2, <1>3, <1>4, <1>5

LEMMA InitTyped == Init => TypeOK
  <1> SUFFICES ASSUME Init PROVE TypeOK
    OBVIOUS
  <1>1. /\ live \in [Ids -> Names \cup {None, Deleted}] /\ Sound(managed, Entry)
        /\ tofu \in [Addresses -> SUBSET Ids]
    BY CutoverAssumption DEF Init
  <1>2. {readable, skipped, applied, behind, broke, shadowed} \subseteq BOOLEAN
    BY DEF Init
  <1>3. /\ idmap = {} /\ imports = {} /\ moved = {} /\ blocked = {} /\ blocks = {}
        /\ owned = {} /\ captured = {}
    BY DEF Init
  <1> QED BY <1>1, <1>2, <1>3 DEF TypeOK

LEMMA ExportTyped ==
  ASSUME TypeOK, NEW only, NEW w \in BOOLEAN, Export(only, w) PROVE TypeOK'
  <1> PICK sel : sel = Selected(only)
    OBVIOUS
  <1>1. /\ WriteFiles(sel)
        /\ UNCHANGED <<live, managed, readable, behind, tofu, owned, broke, notes>>
    BY DEF Export
  <1>2. sel \subseteq Rows
    BY DEF Selected, Rows
  <1>3. \A k \in sel : /\ Address(k) \in Addresses /\ managed[k].id \in Ids /\ k \in Keys
                       /\ LabelOf[k] \in Labels
    BY <1>2, PlaceOfKey, Typing, Addressing
  <1>4. idmap' \subseteq MapEntry
    <2>1. idmap' = idmap \/ idmap' = CarryOver(Fresh(sel))
      BY DEF Export
    <2>2. Fresh(sel) \subseteq MapEntry
      BY <1>3 DEF Fresh, MapEntry
    <2>3. CarryOver(Fresh(sel)) \subseteq Fresh(sel) \cup idmap
      BY DEF CarryOver, LoadIdMap
    <2> QED BY <2>1, <2>2, <2>3 DEF TypeOK
  <1>5. imports' \subseteq [at : Addresses, id : Ids]
    BY <1>1, <1>3 DEF WriteFiles, ImportBlocks
  <1>6. moved' \cup blocked' \subseteq [type : Types, id : Ids, from : Labels, to : Labels]
    <2>1. moved' \cup blocked' \subseteq Moves(sel)
      BY <1>1 DEF WriteFiles, MovedBlocks, Blocked
    <2>2. ASSUME NEW v \in Moves(sel)
          PROVE  v \in [type : Types, id : Ids, from : Labels, to : Labels]
      <3>1. PICK k \in sel, e \in idmap :
              /\ e.id = managed[k].id /\ v.id = e.id /\ v.type = TypeOf[e.id]
              /\ v.from = e.label /\ v.to = LabelOf[k]
              /\ v = [type |-> v.type, id |-> v.id, from |-> v.from, to |-> v.to]
        BY MoveRead
      <3>2. e.id \in Ids /\ e.label \in Labels /\ TypeOf[e.id] \in Types
        BY CutoverAssumption DEF TypeOK, MapEntry
      <3> QED BY <1>3, <3>1, <3>2
    <2> QED BY <2>1, <2>2
  <1>7. ASSUME NEW b \in blocks' PROVE b.at \in Addresses /\ b.ref \subseteq Labels
    <2> DEFINE ref(k) == IF ReferenceOf(k) = None THEN {} ELSE RefLabels(ReferenceOf(k))
    <2>1. b \in blocks \/ \E k \in sel : b = Block(Address(k), ref(k))
      BY <1>1 DEF WriteFiles
    <2>2. \A k \in sel : ref(k) \subseteq Labels
      BY RefLabelsTyped
    <2> HIDE DEF ref
    <2> QED BY <1>3, <2>1, <2>2 DEF TypeOK, Block
  <1>8. skipped' \in BOOLEAN /\ applied' \in BOOLEAN
    BY <1>1 DEF WriteFiles
  <1> QED BY <1>1, <1>4, <1>5, <1>6, <1>7, <1>8 DEF TypeOK, notes

LEMMA TofuApplyTyped ==
  ASSUME TypeOK, TofuApply PROVE TypeOK'
  <1>1. /\ tofu' = AfterImports /\ applied' = TRUE
        /\ UNCHANGED <<live, managed, idmap, readable, blocks, imports, moved, blocked,
                       skipped, owned, broke, notes>>
    BY DEF TofuApply
  <1>2. behind' \in BOOLEAN
    BY DEF TofuApply
  <1>3. ASSUME NEW a \in Addresses PROVE AfterMoves[a] \subseteq Ids
    <2> PICK into : into = {m \in moved : <<m.type, m.to>> = a /\ At(m.type, m.from) # {}}
      OBVIOUS
    <2> PICK gone : gone = {m \in moved : <<m.type, m.from>> = a /\ At(m.type, m.to) = {}}
      OBVIOUS
    <2>1. AfterMoves[a] = IF into # {} /\ tofu[a] = {}
                          THEN UNION {At(m.type, m.from) : m \in into}
                          ELSE IF gone # {} THEN {} ELSE tofu[a]
      BY DEF AfterMoves
    <2>2. \A m \in into : At(m.type, m.from) \subseteq Ids
      BY Addressing DEF At, TypeOK
    <2>3. tofu[a] \subseteq Ids
      BY DEF TypeOK
    <2> QED BY <2>1, <2>2, <2>3
  <1>4. \A a \in Addresses : {m.id : m \in {m \in imports : m.at = a}} \subseteq Ids
    BY DEF TypeOK
  <1>5. AfterImports \in [Addresses -> SUBSET Ids]
    BY <1>3, <1>4 DEF AfterImports
  <1> QED BY <1>1, <1>2, <1>5 DEF TypeOK, notes

LEMMA HandMoveTyped ==
  ASSUME TypeOK, HandMove PROVE TypeOK'
  <1>1. /\ blocked' = {}
        /\ UNCHANGED <<live, managed, idmap, readable, blocks, imports, moved, skipped,
                       applied, owned, broke, notes>>
    BY DEF HandMove
  <1>2. behind' \in BOOLEAN
    BY DEF HandMove
  <1>3. \A a \in Addresses : tofu'[a] \subseteq tofu[a] \cup {m.id : m \in blocked}
    BY DEF HandMove
  <1>4. tofu' = [a \in Addresses |-> tofu'[a]]
    BY DEF HandMove
  <1>5. {m.id : m \in blocked} \subseteq Ids /\ \A a \in Addresses : tofu[a] \subseteq Ids
    BY DEF TypeOK
  <1>6. tofu' \in [Addresses -> SUBSET Ids]
    BY <1>3, <1>4, <1>5
  <1> QED BY <1>1, <1>2, <1>6 DEF TypeOK, notes

LEMMA TofuReplaceTyped ==
  ASSUME TypeOK, NEW a \in Addresses, NEW j \in Ids, TofuReplace(a, j) PROVE TypeOK'
  <1>1. /\ tofu' = [tofu EXCEPT ![a] = {j}] /\ behind' = TRUE /\ Single(a)
        /\ owned' = (owned \ OwnedAt(a)) \cup {[o EXCEPT !.ids = @ \cup {j}] : o \in OwnedAt(a)}
        /\ UNCHANGED <<managed, idmap, readable, files, broke, notes>>
    BY DEF TofuReplace
  <1>2. PICK i \in Ids : tofu[a] = {i}
    BY <1>1, OneInstance
  <1>3. live' = [live EXCEPT ![i] = Deleted, ![j] = live[i]]
    <2>1. (CHOOSE x \in tofu[a] : TRUE) = i
      BY <1>2
    <2> QED BY <2>1 DEF TofuReplace
  <1>4. live' \in [Ids -> Names \cup {None, Deleted}] /\ tofu' \in [Addresses -> SUBSET Ids]
    BY <1>1, <1>3 DEF TypeOK
  <1>5. ASSUME NEW o \in owned' PROVE o.type \in Types /\ o.key \in Keys /\ o.ids \subseteq Ids
    <2>1. CASE o \in owned
      BY <2>1 DEF TypeOK
    <2>2. ASSUME NEW p \in owned, o = [p EXCEPT !.ids = @ \cup {j}]
          PROVE  o.type \in Types /\ o.key \in Keys /\ o.ids \subseteq Ids
      <3>1. p.type \in Types /\ p.key \in Keys /\ p.ids \subseteq Ids
        BY DEF TypeOK
      <3>2. o.type = p.type /\ o.key = p.key /\ o.ids \subseteq p.ids \cup {j}
        BY <2>2
      <3> QED BY <3>1, <3>2
    <2> QED BY <1>1, <2>1, <2>2 DEF OwnedAt
  <1> QED BY <1>1, <1>4, <1>5 DEF TypeOK, files, notes

LEMMA TofuAddTyped ==
  ASSUME TypeOK, NEW p \in Added, TofuAdd(p[1], p[2], p[3]) PROVE TypeOK'
  <1>1. p[1] \in Addresses /\ p[2] \in Ids /\ p[3] \in Names
    BY CutoverAssumption DEF Addresses, Labels
  <1>2. /\ live' = [live EXCEPT ![p[2]] = p[3]]
        /\ tofu' = [tofu EXCEPT ![p[1]] = @ \cup {p[2]}] /\ behind' = TRUE
        /\ blocks' = {b \in blocks : b.at # p[1]} \cup {Block(p[1], {})}
        /\ owned' \subseteq owned
        /\ UNCHANGED <<managed, idmap, readable, imports, moved, blocked, skipped, applied,
                       broke, notes>>
    BY DEF TofuAdd
  <1>3. live' \in [Ids -> Names \cup {None, Deleted}] /\ tofu' \in [Addresses -> SUBSET Ids]
    BY <1>1, <1>2 DEF TypeOK
  <1>4. \A b \in blocks' : b.at \in Addresses /\ b.ref \subseteq Labels
    BY <1>1, <1>2 DEF TypeOK, Block
  <1> QED BY <1>2, <1>3, <1>4 DEF TypeOK, notes

LEMMA SyncTyped ==
  ASSUME TypeOK, Sync PROVE TypeOK'
  <1>1. /\ idmap' = FromTofu /\ readable' = TRUE /\ behind' = FALSE
        /\ UNCHANGED <<live, managed, files, tofu, owned, broke, notes>>
    BY DEF Sync
  <1>2. ASSUME NEW e \in FromTofu PROVE e \in MapEntry
    <2>1. PICK a \in Addresses :
            /\ Single(a)
            /\ e = [id |-> CHOOSE i \in tofu[a] : TRUE, key |-> KeyOfLabel(a[1], a[2]),
                    label |-> a[2]]
      BY DEF FromTofu
    <2>2. (CHOOSE i \in tofu[a] : TRUE) \in Ids
      BY <2>1, OneInstance
    <2> QED BY <2>1, <2>2, KeyReadTyped, Addressing DEF MapEntry
  <1> QED BY <1>1, <1>2 DEF TypeOK, files, notes

LEMMA StateRmTyped ==
  ASSUME TypeOK, NEW k \in Keys, StateRm(k) PROVE TypeOK'
  <1>1. /\ k \in Rows /\ managed' = [managed EXCEPT ![k] = None]
        /\ owned' = owned \cup {[type |-> TypeOf[managed[k].id], key |-> k, ids |-> {managed[k].id}]}
        /\ UNCHANGED <<live, idmap, readable, files, behind, tofu, broke, captured>>
    BY DEF StateRm, Rows
  <1>2. managed[k].id \in Ids /\ TypeOf[managed[k].id] \in Types
    BY <1>1, Typing, CutoverAssumption
  <1>3. managed' \in [Keys -> Entry \cup {None}] /\ None \notin Entry
    BY <1>1, Typing
  <1>4. \A j \in Keys : managed'[j] # None => j \in Rows /\ managed'[j] = managed[j]
    BY <1>1, Typing DEF Rows, Managed
  <1>5. Sound(managed, Entry)'
    BY <1>3, <1>4, Typing DEF Sound, OneKeyPerResource, Managed
  <1>6. shadowed' \in BOOLEAN
    BY DEF StateRm
  <1> QED BY <1>1, <1>2, <1>5, <1>6 DEF TypeOK, files

LEMMA AdoptTyped ==
  ASSUME TypeOK, NEW i \in Ids, NEW explicit \in Keys \cup {None}, NEW rekey \in BOOLEAN,
         Adopt(i, explicit, rekey)
  PROVE  TypeOK'
  <1> PICK k : k = AdoptKey(managed, i, SlugOf[live[i]], explicit, rekey)
    OBVIOUS
  <1>1. /\ Exists(i) /\ ~Collides(managed, k, i)
        /\ managed' = Upsert(managed, k, i, GroupType[i]) /\ owned' \subseteq owned
        /\ UNCHANGED <<live, idmap, readable, files, behind, tofu, broke, notes>>
    BY DEF Adopt
  <1>2. k \in Keys
    BY <1>1, AdoptedKey
  <1>3. Sound(managed, Entry)'
    BY <1>1, <1>2, Upserted, CutoverAssumption DEF TypeOK
  <1> QED BY <1>1, <1>3 DEF TypeOK, files, notes

LEMMA TypedStep ==
  ASSUME TypeOK, [Next]_vars PROVE TypeOK'
  <1>1. CASE \E only \in {{"group-type"}, {"group"}, Exportable}, w \in BOOLEAN : Export(only, w)
    BY <1>1, ExportTyped
  <1>2. CASE TofuApply
    BY <1>2, TofuApplyTyped
  <1>3. CASE HandMove
    BY <1>3, HandMoveTyped
  <1>4. CASE RestoreBlocks
    <2>1. UNCHANGED <<live, managed, idmap, readable, imports, moved, blocked, skipped,
                      applied, behind, tofu, owned, broke, notes>>
      BY <1>4 DEF RestoreBlocks
    <2>2. \A b \in blocks' : b \in blocks \/ \E a \in Addresses : b = Block(a, {})
      BY <1>4 DEF RestoreBlocks
    <2> QED BY <2>1, <2>2 DEF TypeOK, Block, notes
  <1>5. CASE Sync
    BY <1>5, SyncTyped
  <1>6. CASE BreakMap
    BY <1>6 DEF BreakMap, TypeOK, files, notes
  <1>7. CASE \E a \in Addresses, j \in Ids : TofuReplace(a, j)
    BY <1>7, TofuReplaceTyped
  <1>8. CASE \E p \in Added : TofuAdd(p[1], p[2], p[3])
    BY <1>8, TofuAddTyped
  <1>9. CASE \E k \in Keys : StateRm(k)
    BY <1>9, StateRmTyped
  <1>10. CASE \E p \in Adoptions, r \in BOOLEAN : Adopt(p[1], p[2], r)
    <2>1. \A p \in Adoptions : p[1] \in Ids /\ p[2] \in Keys \cup {None}
      BY CutoverAssumption
    <2> QED BY <1>10, <2>1, AdoptTyped
  <1>11. CASE \E r \in Renames : UiEdit(r[1], r[2])
    <2>1. PICK r \in Renames : UiEdit(r[1], r[2])
      BY <1>11
    <2>2. r[1] \in Ids /\ r[2] \in Names
      BY CutoverAssumption
    <2> QED BY <2>1, <2>2 DEF UiEdit, TypeOK, files, notes
  <1>12. CASE \E i \in InRulesets : Capture(i)
    <2>1. PICK i \in InRulesets : Capture(i)
      BY <1>12
    <2>2. [role |-> i, marker |-> Portable(i)] \in [role : Ids, marker : Marker]
      BY <2>1, PortableTyped, CutoverAssumption DEF Capture
    <2> QED BY <2>1, <2>2 DEF Capture, TypeOK, files
  <1>13. CASE UNCHANGED vars
    BY <1>13 DEF vars, files, notes, TypeOK
  <1> QED BY <1>1, <1>2, <1>3, <1>4, <1>5, <1>6, <1>7, <1>8, <1>9, <1>10, <1>11, <1>12, <1>13
          DEF Next

--------------------------------------------------------------------------------
LEMMA InitSafe == Init => Safe
  <1> SUFFICES ASSUME Init PROVE Safe
    OBVIOUS
  <1>1. TypeOK
    BY InitTyped
  <1>2. Kept
    BY <1>1, Typing, CutoverAssumption DEF Init, Kept, Rows, Managed, Exists, Moving
  <1>3. Placed
    <2>1. \A a \in Addresses : tofu[a] = {}
      BY DEF Init
    <2> QED BY <1>1, <2>1, PlaceOfKey DEF Placed
  <1>4. Mapped /\ Cut
    BY DEF Init, Mapped, Cut
  <1>5. Current /\ Written
    BY DEF Init, Current, Written
  <1> QED BY <1>1, <1>2, <1>3, <1>4, <1>5 DEF Safe

\* A row is renamed.
LEMMA UiEditSafe ==
  ASSUME Safe, TypeOK', NEW r \in Renames, UiEdit(r[1], r[2]) PROVE Safe'
  <1>1. r[1] \in Ids /\ r[2] \in Names /\ None \notin Names
    BY CutoverAssumption
  <1>2. /\ live' = [live EXCEPT ![r[1]] = r[2]] /\ Exists(r[1])
        /\ UNCHANGED <<managed, idmap, readable, files, behind, tofu, owned, broke>>
    BY DEF UiEdit
  <1>4. \A i \in Ids : (Exists(i) => live'[i] \in Names) /\ (live[i] # None => live'[i] # None)
    BY <1>1, <1>2 DEF Safe, TypeOK, Exists
  <1>5. Held' = Held /\ Rows' = Rows
    BY <1>2 DEF Held, Rows, BoundIds, Managed
  <1>6. Kept'
    BY <1>2, <1>4, <1>5, Typing DEF Safe, Kept, files, Exists, Moving
  <1>7. Placed'
    <2>1. \A a \in Addresses : tofu'[a] = tofu[a] /\ tofu[a] \subseteq Ids
      BY <1>2 DEF Safe, TypeOK
    <2>2. \A k \in Rows : Address(k)' = Address(k)
      BY <1>2 DEF Address
    <2> QED BY <1>2, <1>4, <1>5, <2>1, <2>2 DEF Safe, Placed
  <1>8. Mapped' /\ Current' /\ Written'
    BY <1>2, <1>5 DEF Safe, Mapped, Current, Written, Moving, files
  <1>9. Cut'
    BY <1>2, <1>4, <1>5 DEF Safe, TypeOK, Cut
  <1> QED BY <1>6, <1>7, <1>8, <1>9 DEF Safe

\* The map can no longer be read.
LEMMA BreakMapSafe ==
  ASSUME Safe, TypeOK', BreakMap PROVE Safe'
  <1>1. /\ idmap' = {} /\ readable' = FALSE /\ broke' = TRUE
        /\ UNCHANGED <<live, managed, files, behind, tofu, owned>>
    BY DEF BreakMap
  <1>2. Held' = Held /\ Rows' = Rows
    BY <1>1 DEF Held, Rows, BoundIds, Managed
  <1>4. Kept' /\ Placed'
    BY <1>1, <1>2 DEF Safe, Kept, Placed, files, Exists, Moving, Address
  <1>5. Mapped' /\ Current'
    BY <1>1 DEF Mapped, Current
  <1>6. Written'
    BY <1>1, <1>2 DEF Safe, Written, Moving, files
  <1>7. Cut'
    BY <1>1, <1>2 DEF Safe, Cut
  <1> QED BY <1>4, <1>5, <1>6, <1>7 DEF Safe

\* Blocks are put back.
LEMMA RestoreBlocksSafe ==
  ASSUME Safe, TypeOK', RestoreBlocks PROVE Safe'
  <1>1. UNCHANGED <<live, managed, idmap, readable, imports, moved, blocked, skipped,
                    applied, behind, tofu, owned, broke>>
    BY DEF RestoreBlocks
  <1>2. Held' = Held /\ Rows' = Rows
    BY <1>1 DEF Held, Rows, BoundIds, Managed
  <1>4. Kept' /\ Placed'
    BY <1>1, <1>2 DEF Safe, Kept, Placed, Exists, Moving, Address
  <1>5. Mapped' /\ Current' /\ Written' /\ Cut'
    BY <1>1, <1>2 DEF Safe, Mapped, Current, Written, Cut, Moving
  <1> QED BY <1>4, <1>5 DEF Safe

\* A key leaves the state of ct: what OpenTofu holds for it is its own now.
LEMMA StateRmSafe ==
  ASSUME Safe, TypeOK', NEW k \in Keys, StateRm(k), ~shadowed' PROVE Safe'
  <1> PICK i : i = managed[k].id
    OBVIOUS
  <1> PICK t : t = TypeOf[i]
    OBVIOUS
  <1>1. /\ k \in Rows /\ readable /\ Disciplined
        /\ \E e \in idmap : e.id = i /\ e.key = k
        /\ tofu[<<t, LabelOf[k]>>] = {i}
        /\ managed' = [managed EXCEPT ![k] = None]
        /\ owned' = owned \cup {[type |-> t, key |-> k, ids |-> {i}]}
        /\ UNCHANGED <<live, idmap, readable, files, behind, tofu, broke>>
    BY DEF StateRm, Rows, At
  <1>2. /\ i \in Ids /\ t \in Types /\ i \in Held
        /\ <<t, LabelOf[k]>> = Address(k) /\ Address(k) \in Addresses
    BY <1>1, Typing, PlaceOfKey, CutoverAssumption DEF Safe, Address
  <1>3. Rows' = Rows \ {k}
    BY <1>1, Typing DEF Safe, Rows, Managed
  <1>4. \A j \in Rows \ {k} : managed'[j] = managed[j] /\ Address(j)' = Address(j)
    BY <1>1, Typing DEF Safe, Address, Rows, Managed
  <1>5. Held' = Held \ {i}
    <2>1. ASSUME NEW x \in Held' PROVE x \in Held \ {i}
      <3>1. PICK j \in Rows' : managed'[j].id = x
        BY <2>1 DEF Held, Rows, BoundIds
      <3> QED BY <1>3, <1>4, <1>1, <3>1, Typing DEF Safe
    <2>2. ASSUME NEW x \in Held \ {i} PROVE x \in Held'
      <3>1. PICK j \in Rows : managed[j].id = x
        BY <2>2, Typing DEF Safe
      <3>2. j \in Rows' /\ managed'[j].id = x
        BY <1>3, <1>4, <3>1, <2>2
      <3> QED BY <3>2 DEF Held, Rows, BoundIds
    <2> QED BY <2>1, <2>2
  <1>7. Kept'
    BY <1>1, <1>3, <1>4 DEF Safe, Kept, files, Exists, Moving
  <1>8. \A a \in Addresses : i \in tofu[a] => a = Address(k)
    BY <1>1, <1>2 DEF Safe, Placed
  <1>14. \A j \in Rows \ {k} : Address(j) # Address(k)
    BY DEF StateRm, Rows
  <1>9. Placed'
    <2>1. ASSUME NEW j \in Rows' PROVE tofu'[Address(j)'] \subseteq Held'
      <3>1. j \in Rows /\ j # k /\ Address(j)' = Address(j)
        BY <1>3, <1>4
      <3>2. i \notin tofu[Address(j)]
        BY <1>1, <1>8, <1>14, <3>1, PlaceOfKey DEF Safe
      <3> QED BY <1>1, <1>5, <3>1, <3>2 DEF Safe, Placed
    <2>2. \A j \in Rows' : (tofu[Address(j)] \subseteq Held)'
      BY <2>1
    <2> QED BY <1>1, <1>5, <2>2 DEF Safe, Placed
  <1>10. Mapped'
    BY <1>1 DEF Safe, Mapped
  <1>11. Current'
    <2> SUFFICES ASSUME readable', ~behind' PROVE Current'
      BY DEF Current
    <2>1. \A e \in idmap : e.id = i => tofu[Place(e)] = {i}
      BY <1>1, <1>2 DEF Safe, Mapped, Place
    <2>2. \A e \in idmap : e.id \in Held' \/ tofu[Place(e)] = {e.id}
      BY <1>1, <1>5, <2>1 DEF Safe, Current
    <2> QED BY <1>1, <2>2 DEF Safe, Current, Moving, files
  <1>12. Written'
    <2> SUFFICES ASSUME ~applied, ~skipped PROVE Written'
      BY <1>1 DEF Written, files
    <2>1. Moving = {}
      BY <1>1 DEF Disciplined, Moving
    <2>2. \A m \in imports : m.id = i => i \in tofu[m.at]
      <3> SUFFICES ASSUME NEW m \in imports, m.id = i PROVE m.at = Address(k)
        BY <1>1, <1>2
      <3> QED BY <1>1, <1>2, <2>1 DEF Safe, Written
    <2>3. \A m \in imports : m.id \in Held' \/ m.id \in tofu[m.at]
      BY <1>5, <2>2 DEF Safe, Written
    <2> QED BY <1>1, <2>1, <2>3 DEF Safe, Written, Moving, files
  <1>13. Cut'
    <2> SUFFICES ASSUME NEW o \in owned'
                 PROVE  /\ o.ids \cap Held' = {}
                        /\ \A x \in o.ids : TypeOf[x] = o.type /\ live'[x] # None
                        /\ \E x \in o.ids : tofu'[Home(o)] = {x}
                        /\ readable' /\ (LabelOf[o.key] = o.key \/ ~broke') =>
                             \E e \in idmap' : e.key = o.key /\ e.id \in o.ids
      BY DEF Cut
    <2>1. CASE o \in owned
      BY <1>1, <1>5, <2>1 DEF Safe, Cut
    <2>2. CASE o = [type |-> t, key |-> k, ids |-> {i}]
      <3>1. live[i] # None
        BY <1>1, <1>2 DEF Safe, Placed
      <3>2. Home(o) = <<t, LabelOf[k]>>
        BY <2>2 DEF Home
      <3> QED BY <1>1, <1>2, <1>5, <2>2, <3>1, <3>2 DEF Safe, Kept
    <2> QED BY <1>1, <2>1, <2>2
  <1> QED BY <1>7, <1>9, <1>10, <1>11, <1>12, <1>13 DEF Safe

\* A resource is adopted, under its own key, a derived or a chosen one.
LEMMA AdoptSafe ==
  ASSUME Safe, TypeOK', NEW i \in Ids, NEW explicit \in Keys \cup {None},
         NEW rekey \in BOOLEAN,
         Adopt(i, explicit, rekey)
  PROVE  Safe'
  <1> PICK k : k = AdoptKey(managed, i, SlugOf[live[i]], explicit, rekey)
    OBVIOUS
  <1>1. /\ Exists(i) /\ readable /\ FreeKey(i, k) /\ ~Collides(managed, k, i)
        /\ managed' = Upsert(managed, k, i, GroupType[i])
        /\ owned' = {o \in owned : i \notin o.ids}
        /\ UNCHANGED <<live, idmap, readable, files, behind, tofu, broke>>
    BY DEF Adopt
  <1>2. k \in Keys
    BY <1>1, AdoptedKey
  <1>3. /\ Sound(managed', Entry) /\ managed'[k] \in Entry /\ managed'[k].id = i
        /\ \A j \in Keys \ {k} : managed'[j] = IF managed[j] # None /\ managed[j].id = i
                                               THEN None ELSE managed[j]
    BY <1>1, <1>2, Upserted, CutoverAssumption DEF Safe, TypeOK
  <1>4. \A j \in Rows' : j = k \/ (j \in Rows /\ managed'[j] = managed[j])
    BY <1>3 DEF Rows, Managed
  <1>5. \A j \in Rows : managed[j].id = i \/ (j \in Rows' /\ j # k /\ managed'[j] = managed[j])
    BY <1>1, <1>3, Typing DEF Safe, Rows, Managed, Collides
  <1>6. k \in Rows'
    BY <1>2, <1>3, Typing DEF Safe, Rows, Managed
  <1>7. Held' = Held \cup {i}
    <2>1. \A x \in Held' : \E j \in Rows' : managed'[j].id = x
      BY DEF Held, Rows, BoundIds
    <2>2. \A j \in Rows' : managed'[j].id \in Held'
      BY DEF Held, Rows, BoundIds
    <2>3. ASSUME NEW x \in Held' PROVE x \in Held \cup {i}
      BY <1>3, <1>4, <2>1, Typing DEF Safe
    <2>4. ASSUME NEW x \in Held PROVE x \in Held'
      BY <1>3, <1>5, <1>6, <2>2, Typing DEF Safe
    <2> QED BY <1>3, <1>6, <2>2, <2>3, <2>4
  <1>9. Kept'
    BY <1>1, <1>2, <1>3, <1>4 DEF Safe, Kept, files, Exists, Moving
  <1>10. /\ \A a \in Addresses : i \in tofu[a] => tofu[a] = {i}
         /\ tofu[<<TypeOf[i], LabelOf[k]>>] \subseteq Held'
    <2>1. \A a \in Addresses : i \in tofu[a] => tofu[a] = {i}
      BY <1>1, OneInstance DEF Safe, FreeKey
    <2> QED BY <1>1, <1>7, <2>1 DEF FreeKey, At, Held
  <1>11. Placed'
    <2>1. ASSUME NEW j \in Rows' PROVE tofu'[Address(j)'] \subseteq Held'
      <3>1. CASE j = k
        BY <1>1, <1>3, <1>10, <3>1 DEF Address
      <3>2. CASE j \in Rows /\ managed'[j] = managed[j]
        BY <1>1, <1>7, <3>2 DEF Safe, Placed, Address
      <3> QED BY <1>4, <3>1, <3>2
    <2>2. \A j \in Rows' : (tofu[Address(j)] \subseteq Held)'
      BY <2>1
    <2>3. \A a \in Addresses : \A x \in tofu[a] \cap Held' : tofu[a] = {x}
      BY <1>7, <1>10 DEF Safe, Placed
    <2> QED BY <1>1, <2>2, <2>3 DEF Safe, Placed
  <1>12. Mapped'
    BY <1>1 DEF Safe, Mapped
  <1>13. Current' /\ Written'
    BY <1>1, <1>7 DEF Safe, Current, Written, Moving, files
  <1>14. Cut'
    BY <1>1, <1>7 DEF Safe, Cut
  <1> QED BY <1>9, <1>11, <1>12, <1>13, <1>14 DEF Safe

\* The key a label is read back as: one that has this label.
LEMMA KeyRead ==
  ASSUME TypeOK, Mapped, NEW t \in Types, NEW l \in Labels
  PROVE  /\ KeyOfLabel(t, l) \in Keys /\ LabelOf[KeyOfLabel(t, l)] = l
         /\ \A e \in idmap : readable /\ Place(e) = <<t, l>> => KeyOfLabel(t, l) = e.key
         /\ ~readable => KeyOfLabel(t, l) = l
  <1> PICK old : old = {e \in LoadIdMap : TypeOf[e.id] = t /\ e.label = l}
    OBVIOUS
  <1>1. old \subseteq idmap /\ (~readable => old = {})
    BY DEF LoadIdMap
  <1>2. \A e \in idmap : readable /\ Place(e) = <<t, l>> => e \in old
    BY DEF LoadIdMap, Place
  <1>3. \A e, f \in old : e = f
    BY <1>1 DEF Mapped, Place
  <1>4. CASE old = {}
    BY <1>2, <1>4, Addressing DEF KeyOfLabel
  <1>5. CASE old # {}
    <2>1. PICK e \in old : KeyOfLabel(t, l) = e.key
      BY <1>5 DEF KeyOfLabel
    <2>2. e \in idmap /\ e.label = l /\ e.key \in Keys
      BY <1>1, <2>1 DEF TypeOK, MapEntry
    <2> QED BY <1>1, <1>2, <1>3, <1>5, <2>1, <2>2 DEF Mapped
  <1> QED BY <1>4, <1>5

\* The map read back from OpenTofu lists the single instances.
LEMMA ReadBack ==
  ASSUME TypeOK, Placed
  PROVE  /\ \A e \in FromTofu : /\ e.id \in Ids /\ Place(e) \in Addresses
                                /\ tofu[Place(e)] = {e.id} /\ e.label = Place(e)[2]
                                /\ e.key = KeyOfLabel(Place(e)[1], e.label)
                                /\ e = [id |-> e.id, key |-> e.key, label |-> e.label]
         /\ \A a \in Addresses, i \in Ids : tofu[a] = {i} =>
              \E e \in FromTofu : e.id = i /\ Place(e) = a /\ e.label = a[2]
  <1> DEFINE Read(a) == [id |-> CHOOSE i \in tofu[a] : TRUE, key |-> KeyOfLabel(a[1], a[2]),
                         label |-> a[2]]
  <1>1. ASSUME NEW a \in Addresses, NEW i \in Ids, tofu[a] = {i}
        PROVE  Read(a).id = i /\ Place(Read(a)) = a
    BY <1>1, Addressing DEF Placed, Place
  <1>2. ASSUME NEW e \in FromTofu
        PROVE  /\ e.id \in Ids /\ Place(e) \in Addresses
               /\ tofu[Place(e)] = {e.id} /\ e.label = Place(e)[2]
               /\ e.key = KeyOfLabel(Place(e)[1], e.label)
               /\ e = [id |-> e.id, key |-> e.key, label |-> e.label]
    <2>1. PICK a \in Addresses : Single(a) /\ e = Read(a)
      BY <1>2 DEF FromTofu
    <2>2. PICK i \in Ids : tofu[a] = {i}
      BY <2>1, OneInstance
    <2>3. e.id = i /\ Place(e) = a
      BY <1>1, <2>1, <2>2
    <2> QED BY <2>1, <2>2, <2>3
  <1>3. ASSUME NEW a \in Addresses, NEW i \in Ids, tofu[a] = {i}
        PROVE  \E e \in FromTofu : e.id = i /\ Place(e) = a /\ e.label = a[2]
    <2>1. Read(a) \in FromTofu
      BY <1>3, OneInstance DEF FromTofu
    <2> QED BY <1>1, <1>3, <2>1
  <1> QED BY <1>2, <1>3

\* The map is read back.
LEMMA SyncSafe ==
  ASSUME Safe, TypeOK', Sync PROVE Safe'
  <1>1. /\ idmap' = FromTofu /\ readable' = TRUE /\ behind' = FALSE
        /\ UNCHANGED <<live, managed, files, tofu, owned, broke>>
    BY DEF Sync
  <1>2. Held' = Held /\ Rows' = Rows
    BY <1>1 DEF Held, Rows, BoundIds, Managed
  <1>3. /\ \A e \in idmap' : /\ e.id \in Ids /\ Place(e) \in Addresses
                             /\ tofu[Place(e)] = {e.id} /\ e.label = Place(e)[2]
                             /\ e.key = KeyOfLabel(Place(e)[1], e.label)
                             /\ e = [id |-> e.id, key |-> e.key, label |-> e.label]
        /\ \A a \in Addresses, i \in Ids : tofu[a] = {i} =>
             \E e \in idmap' : e.id = i /\ Place(e) = a /\ e.label = a[2]
    BY <1>1, ReadBack DEF Safe
  <1>4. \A e \in idmap' : /\ e.label \in Labels /\ e.key \in Keys /\ LabelOf[e.key] = e.label
    BY <1>3, Addressing, KeyRead DEF Safe
  <1>5. \A e, f \in idmap' : Place(e) = Place(f) \/ e.id = f.id => e = f
    <2> SUFFICES ASSUME NEW e \in idmap', NEW f \in idmap', Place(e) = Place(f) \/ e.id = f.id
                 PROVE  e = f
      OBVIOUS
    <2>1. Place(e) = Place(f)
      BY <1>3 DEF Safe, Placed
    <2>2. e.id = f.id /\ e.label = f.label
      BY <1>3, <2>1
    <2> QED BY <1>3, <2>1, <2>2
  <1>7. Kept' /\ Placed'
    BY <1>1, <1>2 DEF Safe, Kept, Placed, files, Exists, Moving, Address
  <1>8. Mapped'
    <2>1. \A e, f \in idmap' : e.key = f.key /\ TypeOf[e.id] = TypeOf[f.id] => e = f
      BY <1>4, <1>5 DEF Place
    <2> QED BY <1>1, <1>4, <1>5, <2>1 DEF Mapped
  <1>9. Current'
    <2>1. \A e \in idmap' : \A b \in Addresses : e.id \in tofu[b] => tofu[b] = {e.id}
      BY <1>3 DEF Safe, Placed
    <2> QED BY <1>1, <1>3, <2>1 DEF Current
  <1>10. Written'
    BY <1>1, <1>2 DEF Safe, Written, Moving, files
  <1>11. Cut'
    <2>1. ASSUME NEW o \in owned, LabelOf[o.key] = o.key \/ ~broke
          PROVE  \E e \in idmap' : e.key = o.key /\ e.id \in o.ids
      <3>1. o.key \in Keys /\ o.type \in Types /\ o.ids \subseteq Ids
        BY DEF Safe, Cut, TypeOK
      <3>2. LabelOf[o.key] \in Labels /\ Home(o) \in Addresses /\ Home(o)[2] = LabelOf[o.key]
            /\ Home(o)[1] = o.type
        BY <3>1, Addressing DEF Home
      <3>3. PICK x \in o.ids : tofu[Home(o)] = {x}
        BY DEF Safe, Cut
      <3>4. PICK e \in idmap' : e.id = x /\ Place(e) = Home(o) /\ e.label = LabelOf[o.key]
        BY <1>3, <3>1, <3>2, <3>3
      <3>5. e.key = KeyOfLabel(o.type, LabelOf[o.key])
        BY <1>3, <3>2, <3>4
      <3>6. CASE readable
        <4>1. PICK f \in idmap : f.key = o.key /\ f.id \in o.ids
          BY <2>1, <3>6 DEF Safe, Cut
        <4>2. Place(f) = <<o.type, LabelOf[o.key]>>
          BY <4>1 DEF Safe, Cut, Mapped, Place
        <4>3. KeyOfLabel(o.type, LabelOf[o.key]) = f.key
          BY <3>1, <3>2, <3>6, <4>1, <4>2, KeyRead DEF Safe
        <4> QED BY <3>3, <3>4, <3>5, <4>1, <4>3
      <3>7. CASE ~readable
        <4>1. LabelOf[o.key] = o.key
          BY <2>1, <3>7 DEF Safe, Mapped
        <4>2. KeyOfLabel(o.type, LabelOf[o.key]) = LabelOf[o.key]
          BY <3>1, <3>2, <3>7, KeyRead DEF Safe
        <4> QED BY <3>3, <3>4, <3>5, <4>1, <4>2
      <3> QED BY <3>6, <3>7
    <2> QED BY <1>1, <1>2, <2>1 DEF Safe, Cut
  <1> QED BY <1>7, <1>8, <1>9, <1>10, <1>11 DEF Safe

\* A row that does not exist yet is nowhere.
LEMMA NewRow ==
  ASSUME Safe, NEW j \in Ids, live[j] = None
  PROVE  /\ j \notin Held /\ \A a \in Addresses : j \notin tofu[a]
         /\ \A o \in owned : j \notin o.ids
  <1>1. j \notin Held
    BY Typing, CutoverAssumption DEF Safe, Kept, Exists
  <1> QED BY <1>1 DEF Safe, Placed, Cut

\* OpenTofu replaces a row of its own by a new one.
LEMMA TofuReplaceSafe ==
  ASSUME Safe, TypeOK', NEW a \in Addresses, NEW j \in Ids, TofuReplace(a, j) PROVE Safe'
  <1>1. /\ applied /\ Single(a) /\ live[j] = None /\ TypeOf[j] = a[1] /\ tofu[a] \cap Held = {}
        /\ tofu' = [tofu EXCEPT ![a] = {j}] /\ behind' = TRUE
        /\ owned' = (owned \ OwnedAt(a)) \cup {[o EXCEPT !.ids = @ \cup {j}] : o \in OwnedAt(a)}
        /\ UNCHANGED <<managed, idmap, readable, files, broke>>
    BY DEF TofuReplace, Held
  <1>2. PICK i \in Ids : tofu[a] = {i}
    BY <1>1, OneInstance DEF Safe
  <1>3. live' = [live EXCEPT ![i] = Deleted, ![j] = live[i]]
    <2>1. (CHOOSE x \in tofu[a] : TRUE) = i
      BY <1>2
    <2> QED BY <2>1 DEF TofuReplace
  <1>4. /\ live[i] # None /\ i # j /\ i \notin Held /\ Deleted # None
        /\ j \notin Held /\ \A b \in Addresses : j \notin tofu[b]
    BY <1>1, <1>2, NewRow, CutoverAssumption DEF Safe, Placed
  <1>5. /\ \A x \in Ids : live[x] # None => live'[x] # None
        /\ live'[j] # None /\ \A x \in Held : live'[x] = live[x]
    BY <1>1, <1>3, <1>4, Typing DEF Safe, TypeOK
  <1>6. Held' = Held /\ Rows' = Rows
    BY <1>1 DEF Held, Rows, BoundIds, Managed
  <1>7. /\ tofu'[a] = {j} /\ \A b \in Addresses \ {a} : tofu'[b] = tofu[b]
        /\ tofu' \in [Addresses -> SUBSET Ids]
    BY <1>1 DEF Safe, TypeOK
  <1>8. \A o \in owned' : \/ o \in owned /\ Home(o) # a
                          \/ \E p \in owned : /\ Home(p) = a /\ o.type = p.type /\ o.key = p.key
                                              /\ o.ids = p.ids \cup {j}
    <2> SUFFICES ASSUME NEW o \in owned'
                 PROVE  \/ o \in owned /\ Home(o) # a
                        \/ \E p \in owned : /\ Home(p) = a /\ o.type = p.type /\ o.key = p.key
                                            /\ o.ids = p.ids \cup {j}
      OBVIOUS
    <2>1. CASE o \in owned /\ Home(o) # a
      BY <2>1
    <2>2. CASE \E p \in OwnedAt(a) : o = [p EXCEPT !.ids = @ \cup {j}]
      BY <2>2 DEF OwnedAt, Home, Safe, TypeOK
    <2> QED BY <1>1, <2>1, <2>2 DEF OwnedAt, Home
  <1>10. Kept'
    BY <1>1, <1>5, <1>6, Typing DEF Safe, Kept, files, Exists, Moving
  <1>11. Placed'
    <2>1. ASSUME NEW k \in Rows PROVE tofu'[Address(k)'] \subseteq Held
      <3>1. Address(k)' = Address(k) /\ Address(k) \in Addresses
        BY <1>1, PlaceOfKey DEF Safe, Address
      <3>2. Address(k) # a
        BY <1>2, <1>4 DEF Safe, Placed
      <3> QED BY <1>7, <3>1, <3>2 DEF Safe, Placed
    <2>2. \A k \in Rows' : (tofu[Address(k)] \subseteq Held)'
      BY <1>6, <2>1
    <2>3. \A b \in Addresses : \A x \in tofu'[b] : TypeOf[x] = b[1] /\ live'[x] # None
      BY <1>1, <1>5, <1>7 DEF Safe, Placed, TypeOK
    <2>4. \A b, c \in Addresses : \A x \in tofu'[b] \cap tofu'[c] : b = c
      BY <1>4, <1>7 DEF Safe, Placed
    <2>5. \A b \in Addresses : \A x \in tofu'[b] \cap Held : tofu'[b] = {x}
      BY <1>4, <1>7 DEF Safe, Placed
    <2> QED BY <1>6, <2>2, <2>3, <2>4, <2>5 DEF Placed
  <1>12. Mapped' /\ Current' /\ Written'
    BY <1>1 DEF Safe, Mapped, Current, Written, files
  <1>13. Cut'
    <2> SUFFICES ASSUME NEW o \in owned'
                 PROVE  /\ o.ids \cap Held = {}
                        /\ \A x \in o.ids : TypeOf[x] = o.type /\ live'[x] # None
                        /\ \E x \in o.ids : tofu'[Home(o)] = {x}
                        /\ readable /\ (LabelOf[o.key] = o.key \/ ~broke) =>
                             \E e \in idmap : e.key = o.key /\ e.id \in o.ids
      BY <1>1, <1>6 DEF Cut
    <2>1. CASE o \in owned /\ Home(o) # a
      <3>1. Home(o) \in Addresses
        BY <2>1, Addressing DEF Safe, TypeOK, Home
      <3> QED BY <1>5, <1>7, <2>1, <3>1 DEF Safe, Cut, TypeOK
    <2>2. ASSUME NEW p \in owned, Home(p) = a, o.type = p.type, o.key = p.key,
                 o.ids = p.ids \cup {j}
          PROVE  /\ o.ids \cap Held = {}
                 /\ \A x \in o.ids : TypeOf[x] = o.type /\ live'[x] # None
                 /\ \E x \in o.ids : tofu'[Home(o)] = {x}
                 /\ readable /\ (LabelOf[o.key] = o.key \/ ~broke) =>
                      \E e \in idmap : e.key = o.key /\ e.id \in o.ids
      <3>1. Home(o) = a /\ o.type = a[1]
        BY <2>2, Addressing DEF Home, Safe, TypeOK
      <3>2. o.ids \cap Held = {}
        BY <1>4, <2>2 DEF Safe, Cut
      <3>3. \A x \in o.ids : TypeOf[x] = o.type /\ live'[x] # None
        BY <1>1, <1>5, <2>2, <3>1 DEF Safe, Cut, TypeOK
      <3>4. j \in o.ids /\ tofu'[Home(o)] = {j}
        BY <1>7, <2>2, <3>1
      <3>5. readable /\ (LabelOf[o.key] = o.key \/ ~broke) =>
              \E e \in idmap : e.key = o.key /\ e.id \in o.ids
        BY <2>2 DEF Safe, Cut
      <3> QED BY <3>2, <3>3, <3>4, <3>5
    <2> QED BY <1>8, <2>1, <2>2
  <1> QED BY <1>10, <1>11, <1>12, <1>13 DEF Safe

\* A resource is added in HCL, or a block becomes one of several instances.
LEMMA TofuAddSafe ==
  ASSUME Safe, TypeOK', NEW p \in Added, TofuAdd(p[1], p[2], p[3]) PROVE Safe'
  <1> PICK a : a = p[1]
    OBVIOUS
  <1> PICK j : j = p[2]
    OBVIOUS
  <1>1. a \in Addresses /\ j \in Ids /\ p[3] \in Names /\ None \notin Names
    BY CutoverAssumption DEF Addresses, Labels
  <1>2. /\ applied /\ live[j] = None /\ TypeOf[j] = a[1] /\ \A k \in Rows : Address(k) # a
        /\ tofu[a] \cap Held = {} /\ live' = [live EXCEPT ![j] = p[3]]
        /\ tofu' = [tofu EXCEPT ![a] = @ \cup {j}] /\ behind' = TRUE
        /\ blocks' = {b \in blocks : b.at # a} \cup {Block(a, {})}
        /\ owned' = owned \ OwnedAt(a)
        /\ UNCHANGED <<managed, idmap, readable, imports, moved, blocked, skipped, applied, broke>>
    BY DEF TofuAdd, Held, Rows
  <1>3. j \notin Held /\ \A b \in Addresses : j \notin tofu[b]
    BY <1>1, <1>2, NewRow
  <1>4. /\ \A x \in Ids : live[x] # None => live'[x] # None
        /\ live'[j] # None /\ \A x \in Held : live'[x] = live[x]
    BY <1>1, <1>2, <1>3, Typing DEF Safe, TypeOK
  <1>5. Held' = Held /\ Rows' = Rows
    BY <1>2 DEF Held, Rows, BoundIds, Managed
  <1>6. /\ tofu'[a] = tofu[a] \cup {j} /\ \A b \in Addresses \ {a} : tofu'[b] = tofu[b]
        /\ tofu' \in [Addresses -> SUBSET Ids]
    BY <1>1, <1>2 DEF Safe, TypeOK
  <1>7. \A o \in owned' : o \in owned /\ Home(o) # a
    BY <1>2 DEF OwnedAt, Home
  <1>9. Kept'
    BY <1>2, <1>4, <1>5, Typing DEF Safe, Kept, Exists, Moving
  <1>10. Placed'
    <2>1. ASSUME NEW k \in Rows PROVE tofu'[Address(k)'] \subseteq Held
      <3>1. Address(k)' = Address(k) /\ Address(k) \in Addresses /\ Address(k) # a
        BY <1>2, PlaceOfKey DEF Safe, Address
      <3> QED BY <1>6, <3>1 DEF Safe, Placed
    <2>2. \A k \in Rows' : (tofu[Address(k)] \subseteq Held)'
      BY <1>5, <2>1
    <2>3. \A b \in Addresses : \A x \in tofu'[b] : TypeOf[x] = b[1] /\ live'[x] # None
      BY <1>2, <1>4, <1>6 DEF Safe, Placed, TypeOK
    <2>4. \A b, c \in Addresses : \A x \in tofu'[b] \cap tofu'[c] : b = c
      BY <1>3, <1>6 DEF Safe, Placed
    <2>5. \A b \in Addresses : \A x \in tofu'[b] \cap Held : tofu'[b] = {x}
      BY <1>2, <1>3, <1>6 DEF Safe, Placed
    <2> QED BY <1>5, <2>2, <2>3, <2>4, <2>5 DEF Placed
  <1>11. Mapped' /\ Current' /\ Written'
    BY <1>2 DEF Safe, Mapped, Current, Written
  <1>12. Cut'
    <2>1. \A o \in owned' : Home(o) \in Addresses
      BY <1>7, Addressing DEF Safe, TypeOK, Home
    <2>2. \A o \in owned' : tofu'[Home(o)] = tofu[Home(o)]
      BY <1>6, <1>7, <2>1
    <2> QED BY <1>2, <1>4, <1>5, <1>7, <2>2 DEF Safe, Cut, TypeOK
  <1> QED BY <1>9, <1>10, <1>11, <1>12 DEF Safe

\* An export that was not applied wrote its moves and import blocks at addresses.
LEMMA Destinations ==
  ASSUME TypeOK, Kept
  PROVE  /\ \A v \in Moving : /\ v.id \in Ids /\ From(v) \in Addresses /\ To(v) \in Addresses
                              /\ To(v)[1] = TypeOf[v.id] /\ From(v)[1] = TypeOf[v.id]
                              /\ To(v)[2] = v.to /\ From(v)[2] = v.from
         /\ \A m \in imports : m.at \in Addresses /\ m.id \in Ids
         /\ \A e \in idmap : /\ e.id \in Ids /\ Place(e) \in Addresses
                             /\ Place(e)[1] = TypeOf[e.id] /\ Place(e)[2] = e.label
         /\ \A o \in owned : Home(o) \in Addresses
  <1>1. \A v \in Moving : v.id \in Ids /\ v.type = TypeOf[v.id] /\ v.type \in Types
                          /\ v.from \in Labels /\ v.to \in Labels
    BY DEF Kept, TypeOK, Moving
  <1>2. \A e \in idmap : e.id \in Ids /\ e.label \in Labels /\ TypeOf[e.id] \in Types
    BY CutoverAssumption DEF TypeOK, MapEntry
  <1> QED BY <1>1, <1>2, Addressing DEF Kept, TypeOK, From, To, Place, Home

\* The moves the export left to the operator are made with `tofu state mv`.
LEMMA HandMoveSafe ==
  ASSUME Safe, TypeOK', HandMove PROVE Safe'
  <1> DEFINE Comes(x, a) == \E v \in blocked : v.id = x /\ To(v) = a /\ x \in tofu[From(v)]
             Goes(x, a) == \E v \in blocked : v.id = x /\ From(v) = a
  <1>1. /\ blocked # {} /\ blocked' = {}
        /\ UNCHANGED <<live, managed, idmap, readable, blocks, imports, moved, skipped,
                       applied, owned, broke>>
    BY DEF HandMove
  <1>2. \A a \in Addresses : \A x :
          x \in tofu'[a] <=> (x \in tofu[a] /\ ~Goes(x, a)) \/ Comes(x, a)
    BY DEF HandMove, From, To, At
  <1>3. /\ behind => behind'
        /\ ~behind' => \A a \in Addresses, x \in Ids : Comes(x, a) => Listed(x, a[2])
    <2>1. PICK come : /\ behind' = (behind \/ \E a \in Addresses : \E i \in come[a] : ~Listed(i, a[2]))
                      /\ \A a \in Addresses : \A x : Comes(x, a) => x \in come[a]
      <3> PICK come : come = [a \in Addresses |->
                                {m.id : m \in {m \in blocked : /\ <<m.type, m.to>> = a
                                                               /\ m.id \in At(m.type, m.from)}}]
        OBVIOUS
      <3>1. behind' = (behind \/ \E a \in Addresses : \E i \in come[a] : ~Listed(i, a[2]))
        BY DEF HandMove
      <3>2. \A a \in Addresses : \A x : Comes(x, a) => x \in come[a]
        BY DEF From, To, At
      <3> QED BY <3>1, <3>2
    <2> QED BY <2>1
  <1> HIDE DEF Comes, Goes
  <1>4. /\ ~applied /\ ~skipped /\ Held' = Held /\ Rows' = Rows /\ Moving' = moved
        /\ blocked \subseteq Moving /\ moved \subseteq Moving
    BY <1>1 DEF Safe, Kept, Held, Rows, BoundIds, Managed, Moving
  <1>5. \A x, a : Comes(x, a) => /\ x \in Held
                                 /\ \E m \in imports : m.id = x /\ m.at = a
                                 /\ \E b \in Addresses : x \in tofu[b] /\ Goes(x, b)
    BY <1>4, Destinations DEF Comes, Goes, Safe, Written
  <1>6. \A x, a : Goes(x, a) => x \in Held
    BY <1>4 DEF Goes, Safe, Written
  <1>7. \A m \in imports : tofu'[m.at] \subseteq {m.id}
    <2> SUFFICES ASSUME NEW m \in imports, NEW x \in tofu'[m.at] PROVE x = m.id
      OBVIOUS
    <2>1. m.at \in Addresses
      BY Destinations DEF Safe
    <2>2. CASE x \in tofu[m.at] /\ ~Goes(x, m.at)
      BY <1>4, <2>2 DEF Safe, Written, Goes
    <2>3. CASE Comes(x, m.at)
      BY <1>4, <1>5, <2>3 DEF Safe, Written
    <2> QED BY <1>2, <2>1, <2>2, <2>3
  <1>8. \A a \in Addresses : \A x : Comes(x, a) => tofu'[a] = {x}
    BY <1>2, <1>5, <1>7
  <1>9. \A a \in Addresses : \A x : tofu[a] = {x} /\ x \notin Held => tofu'[a] = {x}
    <2> SUFFICES ASSUME NEW a \in Addresses, NEW x, tofu[a] = {x}, x \notin Held
                 PROVE  tofu'[a] = {x}
      OBVIOUS
    <2>1. x \in tofu'[a]
      BY <1>2, <1>6
    <2>2. \A y : Comes(y, a) => y = x
      BY <1>8, <2>1
    <2> QED BY <1>2, <2>1, <2>2
  <1>11. Kept'
    BY <1>1, <1>4 DEF Safe, Kept, Exists, Moving
  <1>12. Placed'
    <2>1. \A a \in Addresses : \A x \in tofu'[a] : TypeOf[x] = a[1] /\ live[x] # None
      <3> SUFFICES ASSUME NEW a \in Addresses, NEW x \in tofu'[a]
                   PROVE  TypeOf[x] = a[1] /\ live[x] # None
        OBVIOUS
      <3>1. CASE x \in tofu[a]
        BY <3>1 DEF Safe, Placed
      <3>2. CASE Comes(x, a)
        <4>1. PICK m \in imports : m.id = x /\ m.at = a
          BY <1>5, <3>2
        <4> QED BY <1>5, <3>2, <4>1 DEF Safe, Kept, Placed
      <3> QED BY <1>2, <3>1, <3>2
    <2>2. ASSUME NEW a \in Addresses, NEW b \in Addresses, NEW x \in tofu'[a] \cap tofu'[b]
          PROVE  a = b
      <3>1. CASE Comes(x, a) /\ Comes(x, b)
        BY <1>4, <1>5, <3>1 DEF Safe, Written
      <3>2. ASSUME NEW c \in Addresses, x \in tofu[c], ~Goes(x, c), NEW d, Comes(x, d)
            PROVE  FALSE
        BY <1>5, <3>2 DEF Safe, Placed
      <3>3. CASE x \in tofu[a] /\ x \in tofu[b]
        BY <3>3 DEF Safe, Placed
      <3> QED BY <1>2, <3>1, <3>2, <3>3
    <2>3. ASSUME NEW a \in Addresses, NEW x \in tofu'[a] \cap Held PROVE tofu'[a] = {x}
      <3>1. CASE \E y : Comes(y, a)
        BY <1>8, <3>1
      <3>2. CASE \A y : ~Comes(y, a)
        BY <1>2, <3>2 DEF Safe, Placed
      <3> QED BY <3>1, <3>2
    <2>4. ASSUME NEW k \in Rows PROVE tofu'[Address(k)'] \subseteq Held
      <3>1. Address(k)' = Address(k) /\ Address(k) \in Addresses
        BY <1>1, PlaceOfKey DEF Safe, Address
      <3> QED BY <1>2, <1>5, <3>1 DEF Safe, Placed
    <2>5. \A k \in Rows' : (tofu[Address(k)] \subseteq Held)'
      BY <1>4, <2>4
    <2> QED BY <1>1, <1>4, <2>1, <2>2, <2>3, <2>5 DEF Placed
  <1>13. Mapped'
    BY <1>1 DEF Safe, Mapped
  <1>14. Current'
    <2> SUFFICES ASSUME readable, ~behind' PROVE Current'
      BY <1>1 DEF Current
    <2>1. ~behind /\ \A a \in Addresses, x \in Ids : Comes(x, a) => Listed(x, a[2])
      BY <1>3
    <2>2. ASSUME NEW a \in Addresses, NEW i \in Ids, tofu'[a] = {i}
          PROVE  \E e \in idmap : /\ e.id = i
                                  /\ \/ e.label = a[2]
                                     \/ \E v \in moved : v.id = i /\ From(v) = a /\ v.to = e.label
      <3>1. CASE Comes(i, a)
        BY <2>1, <3>1 DEF Listed
      <3>2. CASE i \in tofu[a] /\ ~Goes(i, a)
        <4>1. tofu[a] = {i}
          <5> SUFFICES ASSUME NEW y \in tofu[a], y # i PROVE FALSE
            BY <3>2
          <5>1. Goes(y, a)
            BY <1>2, <2>2
          <5> QED BY <1>6, <3>2, <5>1 DEF Safe, Placed
        <4> QED BY <1>4, <2>1, <3>2, <4>1 DEF Safe, Current, Moving, Goes
      <3> QED BY <1>2, <2>2, <3>1, <3>2
    <2>3. ASSUME NEW e \in idmap, NEW x \in tofu'[Place(e)], x # e.id
          PROVE  \E v \in moved : v.id = x /\ From(v) = Place(e)
      <3>1. Place(e) \in Addresses /\ Place(e)[1] = TypeOf[e.id] /\ Place(e)[2] = e.label
        BY Destinations DEF Safe
      <3>2. CASE x \in tofu[Place(e)] /\ ~Goes(x, Place(e))
        BY <2>1, <2>3, <3>2 DEF Safe, Current, Moving, Goes
      <3>3. CASE Comes(x, Place(e))
        <4>1. x \in Ids /\ TypeOf[x] = Place(e)[1]
          BY <1>5, <3>3, Typing DEF Safe, Kept
        <4>2. PICK f \in idmap : f.id = x /\ f.label = e.label
          BY <2>1, <3>1, <3>3, <4>1 DEF Listed
        <4>3. Place(f) = Place(e)
          BY <3>1, <4>1, <4>2 DEF Place
        <4> QED BY <2>3, <4>2, <4>3 DEF Safe, Mapped
      <3> QED BY <1>2, <3>1, <3>2, <3>3
    <2>4. ASSUME NEW e \in idmap, NEW b \in Addresses, e.id \in tofu'[b]
          PROVE  tofu'[b] = {e.id}
      <3>1. CASE \E y : Comes(y, b)
        BY <1>8, <2>4, <3>1
      <3>2. CASE \A y : ~Comes(y, b)
        BY <1>2, <2>1, <2>4, <3>2 DEF Safe, Current
      <3> QED BY <3>1, <3>2
    <2>5. \A e \in idmap : e.id \in Held \/ tofu'[Place(e)] = {e.id}
      BY <1>1, <1>9, <2>1, Destinations DEF Safe, Current
    <2> QED BY <1>1, <1>4, <2>2, <2>3, <2>4, <2>5 DEF Current
  <1>15. Written'
    <2>1. ASSUME NEW m \in imports PROVE m.id \in Held \/ m.id \in tofu'[m.at]
      BY <1>2, <1>4, <1>6, Destinations DEF Safe, Written
    <2>2. ASSUME NEW v \in moved PROVE tofu'[From(v)] \subseteq {v.id}
      <3>1. \A y : ~Comes(y, From(v))
        BY <1>4, <1>5 DEF Safe, Written
      <3> QED BY <1>2, <1>4, <3>1, Destinations DEF Safe, Written
    <2>3. ASSUME NEW m \in imports, NEW b \in Addresses, m.id \in tofu'[b]
          PROVE  b = m.at \/ \E v \in moved : v.id = m.id /\ From(v) = b
      <3>1. CASE m.id \in tofu[b] /\ ~Goes(m.id, b)
        BY <1>4, <3>1 DEF Safe, Written, Moving, Goes
      <3>2. CASE Comes(m.id, b)
        BY <1>4, <1>5, <3>2 DEF Safe, Written
      <3> QED BY <1>2, <2>3, <3>1, <3>2
    <2> QED BY <1>1, <1>4, <1>7, <2>1, <2>2, <2>3 DEF Safe, Written
  <1>16. Cut'
    <2>1. ASSUME NEW o \in owned PROVE \E x \in o.ids : tofu'[Home(o)] = {x}
      BY <1>9, Destinations DEF Safe, Cut
    <2> QED BY <1>1, <1>4, <2>1 DEF Safe, Cut
  <1> QED BY <1>11, <1>12, <1>13, <1>14, <1>15, <1>16 DEF Safe

--------------------------------------------------------------------------------
(* What applying an export does, once no move is left to the operator.      *)

LEMMA MovesDone ==
  ASSUME Safe, ~applied, ~skipped, NEW a \in Addresses
  PROVE  /\ \A x \in AfterMoves[a] :
              x \in tofu[a] \/ \E v \in moved : v.id = x /\ To(v) = a /\ x \in tofu[From(v)]
         /\ tofu[a] # {} /\ (\A v \in moved : From(v) # a) => AfterMoves[a] = tofu[a]
         /\ \A v \in moved : From(v) = a /\ tofu[To(v)] = {} /\ tofu[a] # {} => AfterMoves[a] = {}
         /\ \A v \in moved : To(v) = a /\ tofu[a] = {} /\ v.id \in tofu[From(v)]
                             => v.id \in AfterMoves[a]
  <1> PICK into : into = {m \in moved : <<m.type, m.to>> = a /\ At(m.type, m.from) # {}}
    OBVIOUS
  <1> PICK out : out = {m \in moved : <<m.type, m.from>> = a /\ At(m.type, m.to) = {}}
    OBVIOUS
  <1>1. AfterMoves[a] = IF into # {} /\ tofu[a] = {} THEN UNION {At(m.type, m.from) : m \in into}
                        ELSE IF out # {} THEN {} ELSE tofu[a]
    BY DEF AfterMoves
  <1>2. \A v : v \in into <=> v \in moved /\ To(v) = a /\ tofu[From(v)] # {}
    BY DEF To, From, At
  <1>3. \A v : v \in out <=> v \in moved /\ From(v) = a /\ tofu[To(v)] = {}
    BY DEF To, From, At
  <1>4. \A v \in into : At(v.type, v.from) = tofu[From(v)] /\ tofu[From(v)] \subseteq {v.id}
    BY <1>2 DEF At, From, Safe, Written
  <1>5. ASSUME NEW x \in AfterMoves[a], x \notin tofu[a]
        PROVE  \E v \in moved : v.id = x /\ To(v) = a /\ x \in tofu[From(v)]
    <2>1. PICK v \in into : x \in tofu[From(v)]
      BY <1>1, <1>4, <1>5
    <2> QED BY <1>2, <1>4, <2>1
  <1>6. ASSUME NEW v \in moved, To(v) = a, tofu[a] = {}, v.id \in tofu[From(v)]
        PROVE  v.id \in AfterMoves[a]
    BY <1>1, <1>2, <1>4, <1>6
  <1> QED BY <1>1, <1>2, <1>3, <1>5, <1>6

LEMMA Lands ==
  ASSUME Safe, ~applied, ~skipped, blocked = {}
  PROVE  /\ \A m \in imports : AfterImports[m.at] = {m.id}
         /\ \A m \in imports : \A a \in Addresses \ {m.at} : m.id \notin AfterImports[a]
         /\ \A a \in Addresses : \A x \in AfterImports[a] :
              \/ \E m \in imports : m.id = x /\ m.at = a
              \/ x \in tofu[a] /\ \A m \in imports : m.id # x
         /\ \A a \in Addresses : tofu[a] # {} /\ (\A m \in imports : m.id \notin tofu[a])
              => AfterImports[a] = tofu[a]
  <1>1. \A a \in Addresses :
          AfterImports[a] = IF AfterMoves[a] # {} THEN AfterMoves[a]
                            ELSE {m.id : m \in {m \in imports : m.at = a}}
    BY DEF AfterImports
  <1>2. /\ Moving = moved
        /\ \A m \in imports : m.at \in Addresses
        /\ \A v \in moved : From(v) \in Addresses /\ To(v) \in Addresses
    BY Destinations DEF Safe, Moving
  <1>3. \A m \in imports : tofu[m.at] \subseteq {m.id}
    BY DEF Safe, Written
  <1>4. \A m \in imports : \A v \in moved : To(v) = m.at <=> v.id = m.id
    BY <1>2 DEF Safe, Written
  <1>5. ASSUME NEW m \in imports PROVE AfterImports[m.at] = {m.id}
    <2>1. \A x \in AfterMoves[m.at] : x = m.id
      BY <1>2, <1>3, <1>4, MovesDone
    <2>2. CASE AfterMoves[m.at] = {}
      <3>1. {n.id : n \in {n \in imports : n.at = m.at}} = {m.id}
        BY DEF Safe, Written
      <3> QED BY <1>1, <1>2, <2>2, <3>1
    <2>3. CASE AfterMoves[m.at] # {}
      <3>1. AfterMoves[m.at] = {m.id}
        BY <2>1, <2>3
      <3> QED BY <1>1, <1>2, <2>3, <3>1
    <2> QED BY <2>2, <2>3
  <1>6. ASSUME NEW m \in imports, NEW a \in Addresses, a # m.at, m.id \in tofu[a]
        PROVE  AfterMoves[a] = {}
    <2>1. PICK v \in moved : v.id = m.id /\ From(v) = a
      BY <1>2, <1>6 DEF Safe, Written
    <2>2. tofu[To(v)] = {}
      BY <1>2, <1>3, <1>4, <1>6, <2>1 DEF Safe, Placed
    <2> QED BY <1>6, <2>1, <2>2, MovesDone
  <1>7. ASSUME NEW m \in imports, NEW a \in Addresses, a # m.at PROVE m.id \notin AfterImports[a]
    <2> SUFFICES ASSUME m.id \in AfterImports[a] PROVE FALSE
      OBVIOUS
    <2>1. CASE m.id \in AfterMoves[a]
      <3>1. CASE m.id \in tofu[a]
        BY <1>6, <1>7, <2>1, <3>1
      <3>2. CASE \E v \in moved : v.id = m.id /\ To(v) = a
        BY <1>2, <1>4, <1>7, <3>2
      <3> QED BY <2>1, <3>1, <3>2, MovesDone
    <2>2. CASE AfterMoves[a] = {}
      <3>1. AfterImports[a] = {n.id : n \in {n \in imports : n.at = a}}
        BY <1>1, <2>2
      <3>2. PICK n \in imports : n.at = a /\ n.id = m.id
        BY <3>1
      <3> QED BY <1>7, <3>2 DEF Safe, Written
    <2>3. AfterMoves[a] # {} => AfterImports[a] = AfterMoves[a]
      BY <1>1
    <2> QED BY <2>1, <2>2, <2>3
  <1>8. ASSUME NEW a \in Addresses, NEW x \in AfterImports[a],
               ~\E m \in imports : m.id = x /\ m.at = a
        PROVE  x \in tofu[a] /\ \A m \in imports : m.id # x
    <2>1. \A m \in imports : m.id # x
      BY <1>7, <1>8
    <2>2. x \in AfterMoves[a]
      <3>1. CASE AfterMoves[a] = {}
        <4>1. AfterImports[a] = {m.id : m \in {m \in imports : m.at = a}}
          BY <1>1, <3>1
        <4> QED BY <1>8, <4>1
      <3>2. AfterMoves[a] # {} => AfterImports[a] = AfterMoves[a]
        BY <1>1
      <3> QED BY <1>8, <3>1, <3>2
    <2>3. \A v \in moved : v.id = x => \E m \in imports : m.id = x
      BY <1>2 DEF Safe, Written
    <2> QED BY <2>1, <2>2, <2>3, MovesDone
  <1>9. ASSUME NEW a \in Addresses, tofu[a] # {}, \A m \in imports : m.id \notin tofu[a]
        PROVE  AfterImports[a] = tofu[a]
    <2>1. \A v \in moved : From(v) # a
      <3> SUFFICES ASSUME NEW v \in moved, From(v) = a PROVE FALSE
        OBVIOUS
      <3>1. v.id \in tofu[a] /\ \E m \in imports : m.id = v.id
        BY <1>2, <1>9 DEF Safe, Written
      <3> QED BY <1>9, <3>1
    <2> QED BY <1>1, <1>9, <2>1, MovesDone
  <1> QED BY <1>5, <1>7, <1>8, <1>9

\* The plan passes the gate and is applied.
LEMMA TofuApplySafe ==
  ASSUME Safe, TypeOK', TofuApply PROVE Safe'
  <1>1. /\ ~applied /\ ~skipped /\ blocked = {} /\ tofu' = AfterImports /\ applied' = TRUE
        /\ behind' = (behind \/ \E m \in imports : ~Listed(m.id, m.at[2]))
        /\ UNCHANGED <<live, managed, idmap, readable, blocks, imports, moved, blocked,
                       skipped, owned, broke>>
    BY DEF TofuApply
  <1>2. /\ \A m \in imports : tofu'[m.at] = {m.id}
        /\ \A m \in imports : \A a \in Addresses \ {m.at} : m.id \notin tofu'[a]
        /\ \A a \in Addresses : \A x \in tofu'[a] :
             \/ \E m \in imports : m.id = x /\ m.at = a
             \/ x \in tofu[a] /\ \A m \in imports : m.id # x
        /\ \A a \in Addresses : tofu[a] # {} /\ (\A m \in imports : m.id \notin tofu[a])
             => tofu'[a] = tofu[a]
    BY <1>1, Lands
  <1>3. /\ Held' = Held /\ Rows' = Rows /\ Moving' = Moving /\ Moving = moved
        /\ \A m \in imports : m.at \in Addresses /\ m.id \in Ids /\ TypeOf[m.id] = m.at[1]
    BY <1>1, Destinations DEF Safe, Kept, Held, Rows, BoundIds, Managed, Moving
  \* a row at its address before and after, and not imported, is as alone as it was
  <1>4. ASSUME NEW a \in Addresses, NEW x \in tofu'[a], \A m \in imports : m.id # x
        PROVE  x \in tofu[a] /\ tofu'[a] \subseteq tofu[a]
    <2>1. x \in tofu[a]
      BY <1>2, <1>4
    <2>2. \A m \in imports : m.at # a
      BY <1>2, <1>4
    <2> QED BY <1>2, <2>1, <2>2
  <1>6. Kept'
    BY <1>1, <1>3 DEF Safe, Kept, Exists
  <1>7. Placed'
    <2>1. ASSUME NEW a \in Addresses, NEW x \in tofu'[a] PROVE TypeOf[x] = a[1] /\ live[x] # None
      <3>1. CASE x \in tofu[a]
        BY <3>1 DEF Safe, Placed
      <3>2. CASE \E m \in imports : m.id = x /\ m.at = a
        <4>1. x \in Held \/ x \in tofu[a]
          BY <1>1, <3>2 DEF Safe, Written
        <4>2. x \in Held => live[x] # None
          BY Typing, CutoverAssumption DEF Safe, Kept, Exists
        <4> QED BY <1>3, <3>1, <3>2, <4>1, <4>2
      <3> QED BY <1>2, <3>1, <3>2
    <2>2. ASSUME NEW a \in Addresses, NEW b \in Addresses, NEW x \in tofu'[a] \cap tofu'[b]
          PROVE  a = b
      <3>1. CASE \E m \in imports : m.id = x
        BY <1>2, <3>1
      <3>2. CASE \A m \in imports : m.id # x
        BY <1>4, <3>2 DEF Safe, Placed
      <3> QED BY <3>1, <3>2
    <2>3. ASSUME NEW a \in Addresses, NEW x \in tofu'[a] \cap Held PROVE tofu'[a] = {x}
      <3>1. CASE \E m \in imports : m.id = x
        BY <1>2, <3>1
      <3>2. CASE \A m \in imports : m.id # x
        BY <1>4, <2>3, <3>2 DEF Safe, Placed
      <3> QED BY <3>1, <3>2
    <2>4. ASSUME NEW k \in Rows, NEW x \in tofu'[Address(k)'] PROVE x \in Held
      <3>1. Address(k)' = Address(k) /\ Address(k) \in Addresses
        BY <1>1, PlaceOfKey DEF Safe, Address
      <3>2. CASE x \in tofu[Address(k)]
        BY <3>2 DEF Safe, Placed
      <3>3. CASE \E m \in imports : m.id = x /\ m.at = Address(k)
        BY <1>1, <3>2, <3>3 DEF Safe, Written
      <3> QED BY <1>2, <2>4, <3>1, <3>2, <3>3
    <2>5. \A k \in Rows' : (tofu[Address(k)] \subseteq Held)'
      BY <1>3, <2>4
    <2> QED BY <1>1, <1>3, <2>1, <2>2, <2>3, <2>5 DEF Placed
  <1>8. Mapped'
    BY <1>1 DEF Safe, Mapped
  <1>9. Current'
    <2> SUFFICES ASSUME readable, ~behind' PROVE Current'
      BY <1>1 DEF Current
    <2>1. ~behind /\ \A m \in imports : \E e \in idmap : e.id = m.id /\ e.label = m.at[2]
      BY <1>1 DEF Listed
    <2>2. ASSUME NEW a \in Addresses, NEW i \in Ids, tofu'[a] = {i}
          PROVE  \E e \in idmap : e.id = i /\ e.label = a[2]
      <3>1. CASE \E m \in imports : m.id = i /\ m.at = a
        BY <2>1, <3>1
      <3>2. CASE i \in tofu[a] /\ \A m \in imports : m.id # i
        <4>1. \A v \in moved : v.id # i
          BY <1>1, <1>3, <3>2 DEF Safe, Written
        <4>2. \A m \in imports : m.id \notin tofu[a]
          <5> SUFFICES ASSUME NEW m \in imports, m.id \in tofu[a] PROVE FALSE
            OBVIOUS
          <5>1. PICK e \in idmap : e.id = m.id
            BY <2>1
          <5> QED BY <2>1, <3>2, <5>1 DEF Safe, Current
        <4>3. tofu[a] = {i}
          BY <1>2, <2>2, <3>2, <4>2
        <4> QED BY <1>3, <2>1, <4>1, <4>3 DEF Safe, Current
      <3> QED BY <1>2, <2>2, <3>1, <3>2
    <2>3. ASSUME NEW e \in idmap, NEW x \in tofu'[Place(e)] PROVE x = e.id
      <3>1. Place(e) \in Addresses /\ Place(e)[1] = TypeOf[e.id] /\ Place(e)[2] = e.label
        BY Destinations DEF Safe
      <3>2. CASE \E m \in imports : m.id = x /\ m.at = Place(e)
        <4>1. PICK f \in idmap : f.id = x /\ f.label = e.label
          BY <2>1, <3>1, <3>2
        <4>2. Place(f) = Place(e)
          BY <1>3, <3>1, <3>2, <4>1 DEF Place
        <4> QED BY <4>1, <4>2 DEF Safe, Mapped
      <3>3. CASE x \in tofu[Place(e)] /\ \A m \in imports : m.id # x
        <4>1. \A v \in moved : v.id # x
          BY <1>1, <1>3, <3>3 DEF Safe, Written
        <4> QED BY <1>3, <2>1, <3>3, <4>1 DEF Safe, Current
      <3> QED BY <1>2, <2>3, <3>1, <3>2, <3>3
    <2>4. ASSUME NEW e \in idmap, NEW b \in Addresses, e.id \in tofu'[b] PROVE tofu'[b] = {e.id}
      <3>1. CASE \E m \in imports : m.id = e.id
        BY <1>2, <2>4, <3>1
      <3>2. CASE \A m \in imports : m.id # e.id
        BY <1>4, <2>1, <2>4, <3>2 DEF Safe, Current
      <3> QED BY <3>1, <3>2
    <2>5. ASSUME NEW e \in idmap, e.id \notin Held PROVE tofu'[Place(e)] = {e.id}
      <3>1. Place(e) \in Addresses /\ tofu[Place(e)] = {e.id}
        BY <2>1, <2>5, Destinations DEF Safe, Current
      <3>2. CASE \E m \in imports : m.id = e.id
        <4>1. PICK m \in imports : m.id = e.id
          BY <3>2
        <4>2. \A v \in moved : v.id # m.id
          BY <1>1, <1>3, <2>5, <4>1 DEF Safe, Written
        <4>3. m.at = Place(e)
          BY <1>1, <1>3, <3>1, <4>1, <4>2 DEF Safe, Written
        <4> QED BY <1>2, <4>1, <4>3
      <3>3. CASE \A m \in imports : m.id # e.id
        BY <1>2, <3>1, <3>3
      <3> QED BY <3>2, <3>3
    <2> QED BY <1>1, <1>3, <2>2, <2>3, <2>4, <2>5 DEF Current
  <1>10. Written'
    BY <1>1 DEF Written
  <1>11. Cut'
    <2>1. ASSUME NEW o \in owned PROVE \E x \in o.ids : tofu'[Home(o)] = {x}
      <3>1. PICK x \in o.ids : tofu[Home(o)] = {x}
        BY DEF Safe, Cut
      <3>2. Home(o) \in Addresses /\ x \notin Held
        BY <3>1, Destinations DEF Safe, Cut
      <3>3. CASE \E m \in imports : m.id = x
        <4>1. PICK m \in imports : m.id = x
          BY <3>3
        <4>2. \A v \in moved : v.id # m.id
          BY <1>1, <1>3, <3>2, <4>1 DEF Safe, Written
        <4>3. m.at = Home(o)
          BY <1>1, <1>3, <3>1, <3>2, <4>1, <4>2 DEF Safe, Written
        <4> QED BY <1>2, <3>1, <4>1, <4>3
      <3>4. CASE \A m \in imports : m.id # x
        BY <1>2, <3>1, <3>2, <3>4
      <3> QED BY <3>3, <3>4
    <2> QED BY <1>1, <1>3, <2>1 DEF Safe, Cut
  <1> QED BY <1>6, <1>7, <1>8, <1>9, <1>10, <1>11 DEF Safe

--------------------------------------------------------------------------------
(* The export.                                                              *)

\* After the migration guide's steps the map describes OpenTofu exactly.
LEMMA Strict ==
  ASSUME Safe, Disciplined, readable
  PROVE  /\ \A a \in Addresses, i \in Ids :
              tofu[a] = {i} => \E e \in idmap : e.id = i /\ e.label = a[2]
         /\ \A e \in idmap : \A x \in tofu[Place(e)] : x = e.id
         /\ \A e \in idmap : \A b \in Addresses : e.id \in tofu[b] => tofu[b] = {e.id}
         /\ \A e \in idmap : e.id \in Held \/ tofu[Place(e)] = {e.id}
  <1>1. ~behind /\ (applied \/ Moving = {})
    BY DEF Disciplined, Moving
  <1> QED BY <1>1 DEF Safe, Current

\* The keys an export selects: all those of a type, or none.
LEMMA WholeTypes ==
  ASSUME Safe, NEW only
  PROVE  /\ Selected(only) \subseteq Rows
         /\ \A k \in Selected(only), j \in Rows :
              TypeOf[managed[j].id] = TypeOf[managed[k].id] => j \in Selected(only)
         /\ \A k \in Selected(only), x \in Held :
              TypeOf[x] = TypeOf[managed[k].id] => \E j \in Selected(only) : managed[j].id = x
  <1>1. /\ Selected(only) \subseteq Rows
        /\ \A k \in Selected(only), j \in Rows :
             TypeOf[managed[j].id] = TypeOf[managed[k].id] => j \in Selected(only)
    BY DEF Selected, Rows
  <1> QED BY <1>1, Typing DEF Safe

\* The moves of an export, and which of them it writes.
LEMMA MovesOf ==
  ASSUME Safe, NEW sel \in SUBSET Rows, NEW e \in idmap, readable, NEW k \in sel,
         e.id = managed[k].id, e.label # LabelOf[k]
  PROVE  /\ \E v \in Moves(sel) : v.id = e.id /\ From(v) = Place(e) /\ v.to = LabelOf[k]
         /\ \A j \in sel : Address(j) = Place(e) =>
              \E v \in Blocked(sel) : v.id = e.id /\ From(v) = Place(e) /\ v.to = LabelOf[k]
  <1> PICK v : v = [type |-> TypeOf[e.id], id |-> e.id, from |-> e.label, to |-> LabelOf[k]]
    OBVIOUS
  <1>1. v \in Moves(sel)
    BY DEF Moves, LoadIdMap
  <1>2. v.id = e.id /\ From(v) = Place(e) /\ v.to = LabelOf[k]
    BY DEF From, Place
  <1>3. ASSUME NEW j \in sel, Address(j) = Place(e) PROVE v \in Blocked(sel)
    BY <1>1, <1>3 DEF Blocked, Place
  <1> QED BY <1>1, <1>2, <1>3

\* The files and the map are written.
LEMMA ExportSafe ==
  ASSUME Safe, TypeOK', NEW only, NEW w \in BOOLEAN, Export(only, w) PROVE Safe'
  <1> PICK sel : sel = Selected(only)
    OBVIOUS
  <1>1. /\ Disciplined /\ WriteFiles(sel)
        /\ UNCHANGED <<live, managed, readable, behind, tofu, owned, broke>>
    BY DEF Export
  <1>2. /\ imports' = {[at |-> Address(k), id |-> managed[k].id] : k \in sel}
        /\ moved' = Moves(sel) \ Blocked(sel) /\ blocked' = Blocked(sel)
        /\ Moving' = Moves(sel)
        /\ skipped' = ~readable /\ applied' = FALSE
    BY <1>1 DEF WriteFiles, ImportBlocks, MovedBlocks, Moving, Blocked
  <1>3. /\ sel \subseteq Rows
        /\ \A k \in sel, x \in Held :
             TypeOf[x] = TypeOf[managed[k].id] => \E j \in sel : managed[j].id = x
    BY WholeTypes
  <1>0. \A j, k \in sel : Address(j) = Address(k) => j = k
    BY DEF Export, LabelsUnique
  <1>4. Held' = Held /\ Rows' = Rows
    BY <1>1 DEF Held, Rows, BoundIds, Managed
  <1>5. idmap' = idmap \/ (readable /\ idmap' = CarryOver(Fresh(sel)))
    BY DEF Export
  <1>6. \A k \in sel : /\ Address(k) \in Addresses /\ Address(k)[1] = TypeOf[managed[k].id]
                       /\ Address(k)[2] = LabelOf[k] /\ managed[k].id \in Ids
                       /\ managed[k].id \in Held /\ k \in Keys
    BY <1>3, PlaceOfKey, Typing DEF Safe, Kept
  <1>7. ASSUME NEW m \in imports' PROVE \E k \in sel : m.at = Address(k) /\ m.id = managed[k].id
                                          /\ m = [at |-> Address(k), id |-> managed[k].id]
    BY <1>2, <1>7
  \* what stands at an address that is written is to be moved away by hand
  <1>8. ASSUME readable, NEW k \in sel, NEW x \in tofu[Address(k)], x # managed[k].id
        PROVE  \E v \in Blocked(sel) : v.id = x /\ From(v) = Address(k)
    <2>1. x \in Held /\ TypeOf[x] = TypeOf[managed[k].id] /\ tofu[Address(k)] = {x}
      BY <1>3, <1>6, <1>8 DEF Safe, Placed
    <2>2. PICK j \in sel : managed[j].id = x
      BY <1>3, <2>1
    <2>3. x \in Ids
      BY <1>6, <2>2
    <2>4. PICK e \in idmap : e.id = x /\ e.label = Address(k)[2]
      BY <1>1, <1>6, <1>8, <2>1, <2>3, Strict
    <2>5. Place(e) = Address(k)
      BY <2>1, <2>4 DEF Place, Address
    <2>6. e.label # LabelOf[j]
      <3> SUFFICES ASSUME e.label = LabelOf[j] PROVE FALSE
        OBVIOUS
      <3>1. Address(j) = Address(k)
        BY <2>1, <2>2, <2>5 DEF Address, Place
      <3> QED BY <1>0, <1>8, <2>2, <3>1
    <2> QED BY <1>3, <1>8, <2>2, <2>4, <2>5, <2>6, MovesOf
  \* what stands elsewhere has a move
  <1>9. ASSUME readable, NEW k \in sel, NEW b \in Addresses, managed[k].id \in tofu[b],
               b # Address(k)
        PROVE  \E v \in Moves(sel) : v.id = managed[k].id /\ From(v) = b /\ v.to = LabelOf[k]
    <2>1. tofu[b] = {managed[k].id} /\ b[1] = TypeOf[managed[k].id]
      BY <1>6, <1>9 DEF Safe, Placed
    <2>2. PICK e \in idmap : e.id = managed[k].id /\ e.label = b[2]
      BY <1>1, <1>6, <1>9, <2>1, Strict
    <2>3. Place(e) = b
      BY <2>1, <2>2, Addressing DEF Place
    <2>4. e.label # LabelOf[k]
      BY <1>9, <2>2, <2>3 DEF Place, Address
    <2> QED BY <1>3, <1>9, <2>2, <2>3, <2>4, MovesOf
  <1> DEFINE New(k) == [id |-> managed[k].id, key |-> k, label |-> LabelOf[k]]
             Other(e) == \A k \in sel : /\ managed[k].id # e.id
                                        /\ TypeOf[managed[k].id] = TypeOf[e.id] => k # e.key
  <1>10. ASSUME idmap' # idmap
         PROVE  /\ readable
                /\ \A k \in sel : New(k) \in idmap'
                /\ \A e \in idmap : Other(e) => e \in idmap'
                /\ \A e \in idmap' : (\E k \in sel : e = New(k)) \/ (e \in idmap /\ Other(e))
    <2>1. readable /\ idmap' = CarryOver(Fresh(sel)) /\ LoadIdMap = idmap
      BY <1>5, <1>10 DEF LoadIdMap
    <2>2. \A k \in sel : New(k) \in Fresh(sel) /\ New(k).id = managed[k].id /\ New(k).key = k
      BY DEF Fresh
    <2>3. \A n \in Fresh(sel) : \E k \in sel : n = New(k) /\ n.id = managed[k].id /\ n.key = k
      BY DEF Fresh
    <2>4. \A e \in idmap : Other(e) <=> \A n \in Fresh(sel) :
            n.id # e.id /\ (TypeOf[n.id] = TypeOf[e.id] => n.key # e.key)
      <3> HIDE DEF New
      <3>1. ASSUME NEW e \in idmap, Other(e), NEW n \in Fresh(sel)
            PROVE  n.id # e.id /\ (TypeOf[n.id] = TypeOf[e.id] => n.key # e.key)
        BY <2>3, <3>1
      <3>2. ASSUME NEW e \in idmap, NEW k \in sel,
                   \A n \in Fresh(sel) :
                     n.id # e.id /\ (TypeOf[n.id] = TypeOf[e.id] => n.key # e.key)
            PROVE  managed[k].id # e.id /\ (TypeOf[managed[k].id] = TypeOf[e.id] => k # e.key)
        BY <2>2, <3>2
      <3> QED BY <3>1, <3>2
    <2>5. idmap' = Fresh(sel) \cup {e \in idmap : Other(e)}
      BY <2>1, <2>4 DEF CarryOver
    <2> QED BY <2>1, <2>2, <2>3, <2>5
  \* an entry that is no exported row's has no exported key's address either
  <1>11. ASSUME readable, NEW e \in idmap, \A k \in sel : managed[k].id # e.id
         PROVE  (\A k \in sel : Address(k) # Place(e)) /\ Other(e)
    <2>1. ASSUME NEW k \in sel, Address(k) = Place(e) PROVE FALSE
      <3>1. e.id \notin Held
        BY <1>3, <1>11, <2>1 DEF Address, Place
      <3>2. tofu[Address(k)] = {e.id}
        BY <1>1, <1>11, <2>1, <3>1, Strict
      <3> QED BY <1>3, <3>1, <3>2 DEF Safe, Placed
    <2>2. ASSUME NEW k \in sel, TypeOf[managed[k].id] = TypeOf[e.id], k = e.key PROVE FALSE
      <3>1. Address(k) = Place(e)
        BY <2>2 DEF Safe, Mapped, Address, Place
      <3> QED BY <2>1, <3>1
    <2> QED BY <1>11, <2>1, <2>2
  <1>12. \A k \in sel : /\ New(k).id = managed[k].id /\ New(k).key = k
                        /\ New(k).label = LabelOf[k] /\ Place(New(k)) = Address(k)
                        /\ New(k) \in MapEntry
    BY <1>6, Addressing DEF Place, Address, MapEntry
  <1> HIDE DEF New, Other
  <1>14. Kept'
    <2>1. \A m \in imports' : TypeOf[m.id] = m.at[1]
      BY <1>6, <1>7
    <2>2. \A v \in Moves(sel) : v.type = TypeOf[v.id]
      BY MoveRead
    <2>3. skipped' => moved' = {} /\ blocked' = {}
      BY <1>2, MoveRead DEF Blocked
    <2> QED BY <1>1, <1>2, <1>4, <2>1, <2>2, <2>3 DEF Safe, Kept, Exists
  <1>15. Placed'
    BY <1>1, <1>4 DEF Safe, Placed, Address
  <1>16. Mapped'
    <2>1. \A e \in idmap' : e.label = LabelOf[e.key]
      BY <1>6, <1>10, <1>12 DEF Safe, Mapped
    <2>2. ASSUME idmap' # idmap, NEW e \in idmap', NEW f \in idmap',
                 Place(e) = Place(f) \/ e.id = f.id
          PROVE  e = f
      <3>1. CASE \E j \in sel : e = New(j)
        <4>1. PICK j \in sel : e = New(j)
          BY <3>1
        <4>2. CASE \E k \in sel : f = New(k)
          BY <1>0, <1>3, <1>12, <2>2, <4>1, <4>2, Typing DEF Safe
        <4>3. CASE f \in idmap /\ Other(f)
          BY <1>10, <1>11, <1>12, <2>2, <4>1, <4>3 DEF Other
        <4> QED BY <1>10, <2>2, <4>2, <4>3
      <3>2. CASE e \in idmap /\ Other(e)
        <4>1. CASE \E k \in sel : f = New(k)
          BY <1>10, <1>11, <1>12, <2>2, <3>2, <4>1 DEF Other
        <4>2. CASE f \in idmap
          BY <2>2, <3>2, <4>2 DEF Safe, Mapped
        <4> QED BY <1>10, <2>2, <4>1, <4>2
      <3> QED BY <1>10, <2>2, <3>1, <3>2
    <2>3. \A e, f \in idmap' : Place(e) = Place(f) \/ e.id = f.id => e = f
      BY <2>2 DEF Safe, Mapped
    <2>4. ~readable => idmap' = idmap
      BY <1>10
    <2>5. ASSUME NEW e \in idmap', NEW f \in idmap', e.key = f.key,
                 TypeOf[e.id] = TypeOf[f.id], idmap' # idmap
          PROVE  e = f
      <3>1. CASE \E k \in sel : e = New(k)
        BY <1>10, <1>12, <2>5, <3>1 DEF Other
      <3>2. CASE \E k \in sel : f = New(k)
        BY <1>10, <1>12, <2>5, <3>2 DEF Other
      <3> QED BY <1>10, <2>5, <3>1, <3>2 DEF Safe, Mapped
    <2>6. \A e, f \in idmap' : e.key = f.key /\ TypeOf[e.id] = TypeOf[f.id] => e = f
      BY <2>5 DEF Safe, Mapped
    <2> QED BY <1>1, <2>1, <2>3, <2>4, <2>6 DEF Safe, Mapped
  <1>17. Current'
    <2> SUFFICES ASSUME readable PROVE Current'
      BY <1>1 DEF Current
    <2>1. ASSUME NEW a \in Addresses, NEW i \in Ids, tofu[a] = {i}
          PROVE  \E e \in idmap' : /\ e.id = i
                                   /\ \/ e.label = a[2]
                                      \/ \E v \in Moves(sel) :
                                           v.id = i /\ From(v) = a /\ v.to = e.label
      <3>1. PICK e \in idmap : e.id = i /\ e.label = a[2]
        BY <1>1, <2>1, Strict
      <3>2. CASE idmap' = idmap
        BY <3>1, <3>2
      <3>3. CASE idmap' # idmap /\ \A k \in sel : managed[k].id # i
        BY <1>10, <1>11, <3>1, <3>3
      <3>4. CASE idmap' # idmap /\ \E k \in sel : managed[k].id = i
        <4>1. PICK k \in sel : managed[k].id = i
          BY <3>4
        <4>2. New(k) \in idmap' /\ New(k).id = i /\ New(k).label = LabelOf[k]
          BY <1>10, <1>12, <3>4, <4>1
        <4>3. CASE a = Address(k)
          BY <1>6, <4>2, <4>3
        <4>4. CASE a # Address(k)
          BY <1>9, <2>1, <4>1, <4>2, <4>4
        <4> QED BY <4>3, <4>4
      <3> QED BY <3>2, <3>3, <3>4
    <2>2. ASSUME NEW e \in idmap', NEW x \in tofu[Place(e)], x # e.id
          PROVE  \E v \in Moves(sel) : v.id = x /\ From(v) = Place(e)
      <3>1. CASE e \in idmap
        BY <1>1, <2>2, <3>1, Strict
      <3>2. CASE \E k \in sel : e = New(k)
        BY <1>8, <1>12, <2>2, <3>2 DEF Blocked
      <3> QED BY <1>10, <3>1, <3>2
    <2>3. ASSUME NEW e \in idmap', NEW b \in Addresses, e.id \in tofu[b] PROVE tofu[b] = {e.id}
      <3>1. CASE e \in idmap
        BY <1>1, <2>3, <3>1, Strict
      <3>2. CASE \E k \in sel : e = New(k)
        BY <1>6, <1>12, <2>3, <3>2 DEF Safe, Placed
      <3> QED BY <1>10, <3>1, <3>2
    <2>4. ASSUME NEW e \in idmap' PROVE e.id \in Held \/ tofu[Place(e)] = {e.id}
      <3>1. CASE e \in idmap
        BY <1>1, <3>1, Strict
      <3>2. CASE \E k \in sel : e = New(k)
        BY <1>6, <1>12, <3>2
      <3> QED BY <1>10, <3>1, <3>2
    <2> QED BY <1>1, <1>2, <1>4, <2>1, <2>2, <2>3, <2>4 DEF Current
  <1>18. Written'
    <2> SUFFICES ASSUME readable PROVE Written'
      BY <1>2 DEF Written
    <2>1. ASSUME NEW m \in imports', NEW n \in imports', m.id = n.id \/ m.at = n.at PROVE m = n
      BY <1>0, <1>3, <1>7, <2>1, Typing DEF Safe
    <2>2. \A m \in imports' : m.id \in Held
      BY <1>6, <1>7
    <2>3. ASSUME NEW v \in Moves(sel)
          PROVE  v.id \in Held /\ \E m \in imports' : m.id = v.id /\ m.at = To(v)
      <3>1. PICK k \in sel, e \in idmap :
              /\ e.id = managed[k].id /\ v.id = e.id /\ v.type = TypeOf[e.id]
              /\ v.from = e.label /\ v.to = LabelOf[k]
        BY MoveRead
      <3>2. [at |-> Address(k), id |-> managed[k].id] \in imports' /\ To(v) = Address(k)
        BY <1>2, <3>1 DEF To, Address
      <3> QED BY <1>6, <3>1, <3>2
    <2>4. ASSUME NEW v \in moved' PROVE tofu[From(v)] \subseteq {v.id}
      <3>1. PICK e \in idmap : v.id = e.id /\ From(v) = Place(e)
        BY <1>2, MoveRead DEF From, Place
      <3> QED BY <1>1, <3>1, Strict
    <2>5. ASSUME NEW v \in moved', NEW m \in imports' PROVE m.at # From(v)
      <3>1. v \in Moves(sel) /\ v \notin Blocked(sel)
        BY <1>2
      <3>2. \A k \in sel : Address(k) # From(v)
        BY <3>1 DEF Blocked, From
      <3> QED BY <1>7, <3>2
    <2>6. ASSUME NEW m \in imports', NEW b \in Addresses, m.id \in tofu[b]
          PROVE  b = m.at \/ \E v \in Moves(sel) : v.id = m.id /\ From(v) = b
      BY <1>7, <1>9, <2>6
    <2>7. ASSUME NEW m \in imports', NEW x \in tofu[m.at]
          PROVE  x = m.id \/ \E v \in Blocked(sel) : v.id = x /\ From(v) = m.at
      BY <1>7, <1>8, <2>7
    <2> QED BY <1>1, <1>2, <1>4, <2>1, <2>2, <2>3, <2>4, <2>5, <2>6, <2>7 DEF Written
  <1>19. Cut'
    <2>1. ASSUME NEW o \in owned, readable, LabelOf[o.key] = o.key \/ ~broke
          PROVE  \E e \in idmap' : e.key = o.key /\ e.id \in o.ids
      <3>1. PICK e \in idmap : e.key = o.key /\ e.id \in o.ids
        BY <2>1 DEF Safe, Cut
      <3>2. \A k \in sel : managed[k].id # e.id
        BY <1>6, <3>1 DEF Safe, Cut
      <3> QED BY <1>10, <1>11, <2>1, <3>1, <3>2
    <2> QED BY <1>1, <1>4, <2>1 DEF Safe, Cut
  <1> QED BY <1>14, <1>15, <1>16, <1>17, <1>18, <1>19 DEF Safe

--------------------------------------------------------------------------------
(* The theorems.                                                            *)

LEMMA StandingStill ==
  ASSUME Safe, TypeOK',
         UNCHANGED <<live, managed, idmap, readable, blocks, imports, moved, blocked, skipped,
                     applied, behind, tofu, owned, broke>>
  PROVE  Safe'
  <1>2. Held' = Held /\ Rows' = Rows
    BY DEF Held, Rows, BoundIds, Managed
  <1>3. Kept' /\ Placed'
    BY <1>2 DEF Safe, Kept, Placed, Exists, Moving, Address
  <1>4. Mapped' /\ Current' /\ Written' /\ Cut'
    BY <1>2 DEF Safe, Mapped, Current, Written, Cut, Moving
  <1> QED BY <1>3, <1>4 DEF Safe

LEMMA StepSafe ==
  ASSUME Safe, [Next]_vars, ~shadowed' PROVE Safe'
  <1> TypeOK'
    BY TypedStep DEF Safe
  <1>1. CASE \E only \in {{"group-type"}, {"group"}, Exportable}, w \in BOOLEAN : Export(only, w)
    BY <1>1, ExportSafe
  <1>2. CASE TofuApply
    BY <1>2, TofuApplySafe
  <1>3. CASE HandMove
    BY <1>3, HandMoveSafe
  <1>4. CASE RestoreBlocks
    BY <1>4, RestoreBlocksSafe
  <1>5. CASE Sync
    BY <1>5, SyncSafe
  <1>6. CASE BreakMap
    BY <1>6, BreakMapSafe
  <1>7. CASE \E a \in Addresses, j \in Ids : TofuReplace(a, j)
    BY <1>7, TofuReplaceSafe
  <1>8. CASE \E p \in Added : TofuAdd(p[1], p[2], p[3])
    BY <1>8, TofuAddSafe
  <1>9. CASE \E k \in Keys : StateRm(k)
    BY <1>9, StateRmSafe
  <1>10. CASE \E p \in Adoptions, r \in BOOLEAN : Adopt(p[1], p[2], r)
    <2>1. \A p \in Adoptions : p[1] \in Ids /\ p[2] \in Keys \cup {None}
      BY CutoverAssumption
    <2> QED BY <1>10, <2>1, AdoptSafe
  <1>11. CASE \E r \in Renames : UiEdit(r[1], r[2])
    BY <1>11, UiEditSafe
  <1>12. CASE \E i \in InRulesets : Capture(i)
    BY <1>12, StandingStill DEF Capture, files
  <1>13. CASE UNCHANGED vars
    BY <1>13, StandingStill DEF vars, files
  <1> QED BY <1>1, <1>2, <1>3, <1>4, <1>5, <1>6, <1>7, <1>8, <1>9, <1>10, <1>11, <1>12, <1>13
          DEF Next

\* What was handed over in the shadow of another key stays so.
LEMMA ShadowStays ==
  ASSUME TypeOK, [Next]_vars, shadowed PROVE shadowed'
  BY DEF Next, vars, notes, Export, TofuApply, HandMove, RestoreBlocks, Sync, BreakMap,
         TofuReplace, TofuAdd, StateRm, Adopt, UiEdit, Capture

\* Every variable keeps its type, and ct's state names no resource twice.
THEOREM CutoverTyped == Spec => []TypeOK
  <1>1. TypeOK /\ [Next]_vars => TypeOK'
    BY TypedStep
  <1> QED BY <1>1, InitTyped, PTL DEF Spec

LEMMA AlwaysSafe == Spec => [](shadowed \/ Safe)
  <1>1. Init => shadowed \/ Safe
    BY InitSafe
  <1>2. TypeOK /\ (shadowed \/ Safe) /\ [Next]_vars => (shadowed \/ Safe)'
    BY StepSafe, ShadowStays
  <1> QED BY <1>1, <1>2, CutoverTyped, PTL DEF Spec

\* The lookup of a reference that names exactly one thing.
LEMMA OnlyOne ==
  ASSUME NEW S, NEW i, S = {i} PROVE Only(S) = i
  <1>1. IsFiniteSet(S) /\ Cardinality(S) = 1
    BY FS_Singleton
  <1> QED BY <1>1 DEF Only

\* What an export writes is applied with every exported resource at the address
\* its import block names, and nowhere else (export-tf.ts:255), whatever was
\* re-keyed, moved by hand, synced or renamed in between and whatever labels
\* keys share, unless a row was handed over at the address of another managed
\* key.
THEOREM ExportedAlwaysOne == Spec => []ExportedStaysOne
  <1>1. shadowed \/ Safe => ExportedStaysOne
    BY Lands DEF ExportedStaysOne
  <1> QED BY <1>1, AlwaysSafe, PTL

\* With the same exception, every move an export writes is one tofu can carry
\* out (export/imports.ts:39).
THEOREM MovesAlwaysLand == Spec => []MovesLand
  <1>1. ASSUME Safe PROVE MovesLand
    <2> SUFFICES ASSUME ~applied, ~skipped, blocked = {},
                        NEW v \in moved, v.id \in tofu[From(v)]
                 PROVE  AfterMoves[To(v)] = {v.id}
      BY DEF MovesLand, At, From, To
    <2>1. From(v) \in Addresses /\ To(v) \in Addresses /\ v \in Moving /\ Moving = moved
      BY <1>1, Destinations DEF Safe, Moving
    <2>2. PICK m \in imports : m.id = v.id /\ m.at = To(v)
      BY <1>1, <2>1 DEF Safe, Written
    <2>3. To(v) # From(v)
      BY <1>1, <2>2 DEF Safe, Written
    <2>4. tofu[To(v)] = {}
      <3>1. \A x \in tofu[To(v)] : x = v.id
        BY <1>1, <2>2 DEF Safe, Written
      <3>2. v.id \notin tofu[To(v)]
        BY <1>1, <2>1, <2>3 DEF Safe, Placed
      <3> QED BY <3>1, <3>2
    <2>5. v.id \in AfterMoves[To(v)]
      BY <1>1, <2>1, <2>4, MovesDone
    <2>6. ASSUME NEW x \in AfterMoves[To(v)] PROVE x = v.id
      <3>1. PICK w \in moved : w.id = x /\ To(w) = To(v)
        BY <1>1, <2>1, <2>4, MovesDone
      <3>2. PICK n \in imports : n.id = w.id /\ n.at = To(w)
        BY <1>1, <2>1 DEF Safe, Written
      <3> QED BY <1>1, <2>2, <3>1, <3>2 DEF Safe, Written
    <2> QED BY <2>5, <2>6
  <1>2. shadowed \/ Safe => MovesLand
    BY <1>1 DEF MovesLand
  <1> QED BY <1>2, AlwaysSafe, PTL

\* A key that was handed over resolves to what OpenTofu holds for it, through
\* the committed id map and never through a live name.
THEOREM CutOversAlwaysStay == Spec => []CutOverStays
  <1>1. ASSUME Safe PROVE CutOverStays
    <2> SUFFICES ASSUME readable, NEW o \in owned, LabelOf[o.key] = o.key \/ ~broke
                 PROVE  Resolve(o.type, o.key) \in o.ids
      BY DEF CutOverStays
    <2>1. PICK e \in idmap : e.key = o.key /\ e.id \in o.ids
      BY <1>1 DEF Safe, Cut
    <2>2. TypeOf[e.id] = o.type /\ e.id \in Ids
      BY <1>1, <2>1 DEF Safe, Cut, TypeOK
    <2>3. OfMap(o.type, o.key) = {e.id}
      <3>1. \A f \in idmap : TypeOf[f.id] = o.type /\ f.key = o.key => f = e
        BY <1>1, <2>1, <2>2 DEF Safe, Mapped
      <3> QED BY <2>1, <2>2, <3>1 DEF OfMap, LoadIdMap
    <2>4. OfState(o.type, o.key) = {}
      <3> SUFFICES ASSUME o.key \in Rows, TypeOf[managed[o.key].id] = o.type PROVE FALSE
        BY DEF OfState, Rows
      <3>1. Address(o.key) = Home(o)
        BY DEF Address, Home
      <3> QED BY <1>1, <3>1 DEF Safe, Placed, Cut
    <2>5. Only(OfMap(o.type, o.key)) = e.id
      BY <2>3, OnlyOne
    <2> QED BY <2>1, <2>3, <2>4, <2>5 DEF Resolve
  <1>2. shadowed \/ Safe => CutOverStays
    BY <1>1 DEF CutOverStays
  <1> QED BY <1>2, AlwaysSafe, PTL

\* The roles markers were captured for are roles.
MarkersOfRoles == \A c \in captured : c.role \in Ids /\ TypeOf[c.role] = "group-role"

LEMMA MarkersOfRolesAlways == Spec => []MarkersOfRoles
  <1>1. Init => MarkersOfRoles
    BY DEF Init, MarkersOfRoles
  <1>2. ASSUME MarkersOfRoles, [Next]_vars PROVE MarkersOfRoles'
    <2>1. ASSUME NEW i \in InRulesets, Capture(i) PROVE MarkersOfRoles'
      BY <1>2, <2>1, CutoverAssumption DEF MarkersOfRoles, Capture
    <2>2. \/ \E i \in InRulesets : Capture(i)
          \/ UNCHANGED captured
      BY <1>2 DEF Next, vars, notes, Export, TofuApply, HandMove, RestoreBlocks, Sync, BreakMap,
                  TofuReplace, TofuAdd, StateRm, Adopt, UiEdit
    <2> QED BY <1>2, <2>1, <2>2 DEF MarkersOfRoles
  <1> QED BY <1>1, <1>2, PTL DEF Spec

\* A captured marker, whenever it was captured and whatever was renamed, adopted,
\* exported or handed over since, denotes its role or fails the plan, as long as
\* the role bears the name or key and the type's key names no other type.
THEOREM RoleMarkersAlwaysDenote == Spec => []RoleMarkersResolveBack
  <1>1. ASSUME MarkersOfRoles PROVE RoleMarkersResolveBack
    <2> SUFFICES ASSUME NEW c \in captured, Bears(c), ~Displaced(c)
                 PROVE  ResolveMarker(c.role, c.marker) \in {c.role, Missing}
      BY DEF RoleMarkersResolveBack
    <2> PICK i : i = c.role
      OBVIOUS
    <2> PICK k : k = c.marker.key
      OBVIOUS
    <2>1. i \in Ids /\ TypeOf[i] = "group-role"
      BY <1>1 DEF MarkersOfRoles
    <2>2. CASE c.marker.kind = "role-def"
      <3>1. k \in Rows /\ managed[k].id = i
        BY <2>2 DEF Bears, RoleDefKeys, Holders, Rows, Managed
      <3>2. OfState("group-role", k) = {i}
        BY <2>1, <3>1 DEF OfState, Rows
      <3>3. Only(OfState("group-role", k)) = i
        BY <3>2, OnlyOne
      <3>4. Resolve("group-role", k) \in {i, Missing}
        BY <3>2, <3>3 DEF Resolve
      <3> QED BY <2>2, <3>4 DEF ResolveMarker
    <2>3. CASE c.marker.kind = "pair"
      <3> PICK gt : gt = Resolve("group-type", k)
        OBVIOUS
      <3> PICK found : found = SameRole(gt, c.marker.role)
        OBVIOUS
      <3>1. ResolveMarker(i, c.marker) = Only(found)
        BY <2>3 DEF ResolveMarker, ResolvePair
      <3>2. Only(found) \in found \cup {Missing}
        <4>1. found \subseteq Ids
          BY DEF SameRole
        <4>2. IsFiniteSet(found)
          BY <4>1, FS_Subset, CutoverAssumption
        <4>3. CASE Cardinality(found) = 1
          <5>1. PICK x : found = {x}
            BY <4>2, <4>3, FS_Singleton
          <5> QED BY <5>1, OnlyOne
        <4>4. CASE Cardinality(found) # 1
          BY <4>4 DEF Only
        <4> QED BY <4>3, <4>4
      <3>3. CASE gt = GroupType[i]
        <4>1. i \in found
          BY <2>1, <2>3, <3>3 DEF Bears, SameRole
        <4>2. Only(found) \in {i, Missing}
          <5>1. CASE Cardinality(found) = 1
            <6>1. IsFiniteSet(found)
              <7>1. found \subseteq Ids
                BY DEF SameRole
              <7> QED BY <7>1, FS_Subset, CutoverAssumption
            <6>2. found = {i}
              BY <4>1, <5>1, <6>1, FS_Singleton
            <6> QED BY <6>2, OnlyOne
          <5>2. CASE Cardinality(found) # 1
            BY <5>2 DEF Only
          <5> QED BY <5>1, <5>2
        <4> QED BY <3>1, <4>2
      <3>4. CASE gt = Missing
        <4>1. found = {}
          BY <3>4, CutoverAssumption DEF SameRole
        <4> QED BY <3>1, <3>2, <4>1
      <3> QED BY <2>3, <3>3, <3>4 DEF Displaced
    <2>4. CASE c.marker.kind \notin {"role-def", "pair"}
      BY <2>4 DEF ResolveMarker
    <2> QED BY <2>2, <2>3, <2>4
  <1> QED BY <1>1, MarkersOfRolesAlways, PTL
===============================================================================
