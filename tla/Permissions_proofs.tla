------------------------- MODULE Permissions_proofs -------------------------
(***************************************************************************)
(* For any rights, resources, declarations, rows, workers, edits and       *)
(* faults: the variables of module Permissions keep their types, every     *)
(* step it takes is one that module GrantRegister promises, and an         *)
(* undisturbed apply leaves to the next plan what failed and nothing else. *)
(***************************************************************************)
EXTENDS Permissions, TLAPS

USE DEF Logical

--------------------------------------------------------------------------------
(* The inductive invariant.                                                 *)

\* What exists, and what is named by number, is older than the next identity.
Older ==
  /\ FirstId <= nextId
  /\ \A k \in Keys : state[k] # None => state[k] < nextId
  /\ \A i \in alive : i < nextId
  /\ \A r \in rows : r.dom < nextId /\ (r.data \in Ids => r.data < nextId)
  /\ \A d \in Active : \A i \in Numbers(config[d]) : i < nextId

\* The declaration a write belongs to: its domain is final, or the pair of a
\* resource this apply creates.
Home(o, d) ==
  \/ /\ o.dom \in Ids /\ o.dom = Domain(d)
     /\ config[d].target.form = "num" \/ config[d].target.of \notin creates
  \/ /\ o.dom \in Keys /\ o.put /\ o.dom \in Declared
     /\ config[d].target.form = "ref" /\ config[d].target.of = o.dom

\* A grant to write is declared, its scope to be resolved from the same key.
PutDue(o) ==
  o.put => \E d \in Active : Home(o, d) /\ \E t \in Desired(d) :
             /\ t.right = o.tuple.right /\ t.key = o.tuple.key
             /\ t.key = None => t.data = o.tuple.data

\* A grant to remove is none that is declared, and ct answers for it.
DelDue(o) ==
  ~o.put =>
    /\ o.dom < nextId /\ (o.tuple.data \in Ids => o.tuple.data < nextId)
    /\ o.tuple.key = None /\ o.tuple.data \in Datas /\ o.tuple.right \in Host
    /\ \E d \in Active : Home(o, d) /\ ScopeField[o.tuple.right] \notin config[d].keep
    /\ \A e \in Active : Domain(e) = o.dom => \A t \in Desired(e) : Pair(t) # Pair(o.tuple)

\* In flight, the scope of a grant is resolved.
FlightDue(o) ==
  /\ o.dom \in Ids
  /\ o.put => \E d \in Active : o.dom = Domain(d) /\ \E t \in Desired(d) :
                Pair(t) = Pair(o.tuple) /\ Concrete(t)

\* How far a run has come.
Course ==
  /\ pc = "idle" => todo = {}
  /\ pc # "write" => flight = {}
  /\ pc \in {"domains", "write"} => creates = {}
  /\ pc = "write" => \A o \in todo : o.dom \in Ids
  /\ pc # "idle" => \A k \in Declared : state[k] = None => k \in creates
  /\ \A o \in todo : PutDue(o) /\ DelDue(o)
  /\ \A o \in flight : FlightDue(o) /\ DelDue(o)

Inv == TypeOK /\ Older /\ Course

--------------------------------------------------------------------------------
(* What declarations stand for.                                             *)

LEMMA Apart ==
  /\ Keys \cap Ids = {} /\ All \notin Keys \cup Ids /\ NoData \notin Keys \cup Ids
  /\ None \notin Keys \cup Ids /\ All # None /\ NoData # None /\ All # NoData
BY IdsAssumption

\* The declarations are typed.
LEMMA DeclFacts ==
  ASSUME TypeOK, NEW d \in Active
  PROVE  /\ d \in Decls /\ IsDecl(config[d])
         /\ config[d].target.form \in {"ref", "num"}
         /\ config[d].target.form = "num" <=> config[d].target.of \in Ids
         /\ config[d].target.form = "ref" <=> config[d].target.of \in Keys
<1>1. d \in Decls /\ IsDecl(config[d])
  BY DEF TypeOK, Active
<1>2. IsTarget(config[d].target)
  BY <1>1 DEF IsDecl
<1> QED BY <1>1, <1>2, Apart DEF IsTarget, Entry

\* What a reference resolves to.
LEMMA ResolveFacts ==
  ASSUME TypeOK, NEW k \in Keys
  PROVE  /\ state[k] # None => Resolve(k) = [data |-> state[k], key |-> k] /\ state[k] \in Ids
         /\ state[k] = None /\ k \in Declared => Resolve(k) = [data |-> k, key |-> k]
         /\ state[k] = None /\ k \notin Declared =>
              Resolve(k) = [data |-> LiveName[k], key |-> None]
         /\ Resolve(k).key \in {k, None}
         /\ Resolve(k).data \in Ids \cup {k, None}
         /\ Resolve(k).key = None => Resolve(k).data \in Ids \cup {None}
BY IdsAssumption DEF TypeOK, Resolve

\* A tuple that is resolved from a key once more, and one that is final.
LEMMA TupleFacts ==
  ASSUME TypeOK, NEW d \in Active, NEW t \in Desired(d)
  PROVE  /\ t.key \in Keys \cup {None}
         /\ t.key # None => /\ t.data = Resolve(t.key).data /\ Resolve(t.key).key = t.key
         /\ t.key = None => Concrete(t)
         /\ t = [right |-> t.right, data |-> t.data, key |-> t.key]
<1>1. PICK g \in config[d].grants : t \in Tuples(g)
  BY DEF Desired
<1>2. CASE g.scope = None
  <2>1. t = [right |-> g.right, data |-> NoData, key |-> None]
    BY <1>1, <1>2 DEF Tuples
  <2> QED BY <2>1, Apart DEF Concrete
<1>3. CASE g.scope # None
  <2>1. PICK e \in g.scope : t = [right |-> g.right, data |-> Scope(e).data, key |-> Scope(e).key]
    BY <1>1, <1>3 DEF Tuples
  <2>2. e \in Entry /\ (e.form = "num" <=> e.of \in Ids \cup {All})
    BY <1>3, DeclFacts DEF IsDecl
  <2>3. CASE e.form = "num"
    <3>1. Scope(e) = [data |-> e.of, key |-> None]
      BY <2>3 DEF Scope
    <3> QED BY <2>1, <2>2, <2>3, <3>1, Apart DEF Concrete
  <2>4. CASE e.form # "num"
    <3>1. e.of \in Keys /\ Scope(e) = Resolve(e.of)
      BY <2>2, <2>4 DEF Scope, Entry
    <3>2. t.data = Resolve(e.of).data /\ t.key = Resolve(e.of).key
      BY <2>1, <3>1
    <3> QED BY <2>1, <3>1, <3>2, ResolveFacts, Apart DEF Concrete
  <2> QED BY <2>3, <2>4
<1> QED BY <1>2, <1>3

\* As long as configuration and state stay, so does what is declared.
LEMMA Views ==
  ASSUME UNCHANGED <<config, state>>
  PROVE  /\ Active' = Active
         /\ \A d : Domain(d)' = Domain(d) /\ Desired(d)' = Desired(d)
         /\ Wanted' = Wanted /\ Duty' = Duty
<1>1. \A k : Resolve(k)' = Resolve(k)
  BY DEF Resolve
<1>2. \A e : Scope(e)' = Scope(e)
  BY <1>1 DEF Scope
<1>3. \A g : Tuples(g)' = Tuples(g)
  BY <1>2 DEF Tuples
<1>4. \A d : Domain(d)' = Domain(d)
  BY <1>1 DEF Domain
<1>5. \A d : Desired(d)' = Desired(d)
  BY <1>3 DEF Desired
<1>6. Active' = Active
  BY DEF Active
<1>7. Settling' = Settling
  BY <1>4, <1>6 DEF Settling
<1>8. Wanted' = Wanted
  BY <1>4, <1>5, <1>7 DEF Wanted
<1>9. Duty' = Duty
  BY <1>4, <1>7 DEF Duty
<1> QED BY <1>4, <1>5, <1>6, <1>8, <1>9

\* What a plan that is not refused declares.
LEMMA AcceptedTuple ==
  ASSUME TypeOK, ~Rejected, NEW d \in Active, NEW t \in Desired(d)
  PROVE  t \in Tuple
<1>1. PICK g \in config[d].grants : t \in Tuples(g)
  BY DEF Desired
<1>2. ~HostMissing(g.right) /\ ~BadGrant(g) /\ g.right \in Rights
  BY <1>1, DeclFacts DEF Rejected, Tuples, IsDecl
<1>3. CASE g.scope = None
  <2>1. t = [right |-> g.right, data |-> NoData, key |-> None]
    BY <1>1, <1>2, <1>3 DEF Tuples
  <2> QED BY <1>2, <2>1 DEF Tuple, Datas
<1>4. CASE g.scope # None
  <2>1. PICK e \in g.scope : t = [right |-> g.right, data |-> Scope(e).data, key |-> Scope(e).key]
    BY <1>1, <1>2, <1>4 DEF Tuples
  <2>2. e \in Entry /\ (e.form = "num" <=> e.of \in Ids \cup {All})
    BY <1>4, DeclFacts DEF IsDecl
  <2>3. CASE e.form = "num"
    <3>1. Scope(e) = [data |-> e.of, key |-> None]
      BY <2>3 DEF Scope
    <3> QED BY <1>2, <2>1, <2>2, <2>3, <3>1 DEF Tuple, Datas
  <2>4. CASE e.form # "num"
    <3>1. e.of \in Keys /\ Scope(e) = Resolve(e.of)
      BY <2>2, <2>4 DEF Scope, Entry
    <3>2. ~BadEntry(e, ScopeField[g.right])
      BY <1>2, <1>4 DEF BadGrant
    <3>3. Resolve(e.of).data # None
      <4>1. e.form = "ref" => Resolve(e.of).data # None
        BY <3>2 DEF BadEntry
      <4>2. e.form = "bare" => Resolve(e.of).key # None
        BY <3>2 DEF BadEntry
      <4> QED BY <2>2, <2>4, <3>1, <4>1, <4>2, ResolveFacts, Apart DEF Entry
    <3>4. Resolve(e.of).data \in Ids \cup Keys /\ Resolve(e.of).key \in Keys \cup {None}
      BY <3>1, <3>3, ResolveFacts
    <3> QED BY <1>2, <2>1, <3>1, <3>4 DEF Tuple, Datas
  <2> QED BY <2>3, <2>4
<1> QED BY <1>3, <1>4

LEMMA LiveOlder ==
  ASSUME TypeOK, Older, NEW k \in Keys, LiveName[k] \in Ids
  PROVE  LiveName[k] < nextId
<1>1. LiveName[k] \in Nat /\ LiveName[k] < FirstId /\ FirstId \in Nat
  BY IdsAssumption, Apart
<1>2. nextId \in Nat /\ FirstId <= nextId
  BY DEF TypeOK, Older
<1> QED BY <1>1, <1>2

\* The id of a domain or of a scope is in use, or a number that was.
LEMMA DomainOlder ==
  ASSUME TypeOK, Older, NEW d \in Active, Domain(d) \in Ids
  PROVE  Domain(d) < nextId
<1>1. CASE config[d].target.form = "num"
  BY <1>1, DeclFacts DEF Domain, Older, Numbers
<1>2. CASE config[d].target.form # "num"
  <2> DEFINE k == config[d].target.of
  <2>1. k \in Keys /\ Domain(d) = Resolve(k).data
    BY <1>2, DeclFacts DEF Domain
  <2>2. LiveName[k] \in Ids => LiveName[k] < nextId
    BY <2>1, LiveOlder
  <2> HIDE DEF k
  <2> QED BY <2>1, <2>2, ResolveFacts, Apart DEF Older
<1> QED BY <1>1, <1>2

LEMMA ScopeOlder ==
  ASSUME TypeOK, Older, NEW d \in Active, NEW t \in Desired(d), t.data \in Ids
  PROVE  t.data < nextId
<1>1. PICK g \in config[d].grants : t \in Tuples(g)
  BY DEF Desired
<1>2. g.scope # None
  BY <1>1, Apart DEF Tuples
<1>3. PICK e \in g.scope : t = [right |-> g.right, data |-> Scope(e).data, key |-> Scope(e).key]
  BY <1>1, <1>2 DEF Tuples
<1>4. e \in Entry /\ (e.form = "num" <=> e.of \in Ids \cup {All})
  BY <1>2, DeclFacts DEF IsDecl
<1>5. CASE e.form = "num"
  <2>1. t.data = e.of
    BY <1>3, <1>5 DEF Scope
  <2> QED BY <1>1, <1>2, <2>1 DEF Older, Numbers
<1>6. CASE e.form # "num"
  <2> DEFINE k == e.of
  <2>1. k \in Keys /\ t.data = Resolve(k).data
    BY <1>3, <1>4, <1>6 DEF Scope, Entry
  <2>2. LiveName[k] \in Ids => LiveName[k] < nextId
    BY <2>1, LiveOlder
  <2> HIDE DEF k
  <2> QED BY <2>1, <2>2, ResolveFacts, Apart DEF Older
<1> QED BY <1>5, <1>6

--------------------------------------------------------------------------------
(* What the creation of a resource changes.                                 *)

LEMMA CreateFacts ==
  ASSUME TypeOK, NEW k \in Keys, Create(k)
  PROVE  /\ k \in Declared /\ nextId \in Ids /\ nextId' = nextId + 1
         /\ state'[k] = nextId /\ \A j \in Keys \ {k} : state'[j] = state[j]
         /\ Active' = Active /\ UNCHANGED config
         /\ \A j \in Keys \ {k} : Resolve(j)' = Resolve(j)
         /\ Resolve(k)' = [data |-> nextId, key |-> k]
<1>1. /\ k \in Declared /\ nextId \in Ids /\ nextId' = nextId + 1
      /\ state' = [state EXCEPT ![k] = nextId] /\ UNCHANGED config
  BY DEF Create, TypeOK
<1>2. state'[k] = nextId /\ \A j \in Keys \ {k} : state'[j] = state[j]
  BY <1>1 DEF TypeOK
<1>3. Active' = Active
  BY <1>1 DEF Active
<1>4. \A j \in Keys \ {k} : Resolve(j)' = Resolve(j)
  BY <1>2 DEF Resolve
<1>5. Resolve(k)' = [data |-> nextId, key |-> k]
  BY <1>1, <1>2, Apart DEF Resolve
<1> QED BY <1>1, <1>2, <1>3, <1>4, <1>5

\* A domain stays what it is, or becomes the new group's.
LEMMA CreateDomain ==
  ASSUME TypeOK, NEW k \in Keys, Create(k), NEW d \in Active
  PROVE  /\ config[d].target.form = "num" \/ config[d].target.of # k => Domain(d)' = Domain(d)
         /\ config[d].target.form = "ref" /\ config[d].target.of = k => Domain(d)' = nextId
<1>1. UNCHANGED config
  BY CreateFacts
<1>2. CASE config[d].target.form = "num"
  BY <1>1, <1>2 DEF Domain
<1>3. CASE config[d].target.form # "num"
  <2>1. config[d].target.of \in Keys
    BY <1>3, DeclFacts
  <2>2. Domain(d)' = (Resolve(config[d].target.of)').data
    BY <1>1, <1>3 DEF Domain
  <2>3. Domain(d) = Resolve(config[d].target.of).data
    BY <1>3 DEF Domain
  <2> QED BY <1>3, <2>1, <2>2, <2>3, CreateFacts
<1> QED BY <1>2, <1>3

\* So does the scope of a grant.
LEMMA CreateTuple ==
  ASSUME TypeOK, NEW k \in Keys, Create(k), NEW d \in Active
  PROVE  /\ \A t \in Desired(d) : \E u \in Desired(d)' :
              u.right = t.right /\ u.key = t.key /\ (t.key # k => u.data = t.data)
         /\ \A u \in Desired(d)' : \E t \in Desired(d) :
              u.right = t.right /\ u.key = t.key /\ (t.key # k => u.data = t.data)
         /\ \A u \in Desired(d)' : u \in Desired(d) \/ u.data = nextId
<1> DEFINE Made(g, e) == [right |-> g.right, data |-> Scope(e).data, key |-> Scope(e).key]
<1>1. Desired(d)' = UNION {Tuples(g)' : g \in config[d].grants}
  BY CreateFacts DEF Desired
<1>2. ASSUME NEW g \in config[d].grants, g.scope = None \/ HostMissing(g.right)
      PROVE  Tuples(g)' = Tuples(g)
  BY <1>2 DEF Tuples
<1>3. ASSUME NEW g \in config[d].grants, g.scope # None, ~HostMissing(g.right), NEW e \in g.scope
      PROVE  /\ (Scope(e)').key = Scope(e).key
             /\ Scope(e).key # k => Scope(e)' = Scope(e)
             /\ Scope(e)' = Scope(e) \/ (Scope(e)').data = nextId
  <2>1. e \in Entry /\ (e.form = "num" <=> e.of \in Ids \cup {All})
    BY <1>3, DeclFacts DEF IsDecl
  <2>2. CASE e.form = "num"
    BY <2>2 DEF Scope
  <2>3. CASE e.form # "num"
    <3>1. e.of \in Keys
      BY <2>1, <2>3 DEF Entry
    <3>2. Scope(e) = Resolve(e.of) /\ Scope(e)' = Resolve(e.of)'
      BY <2>3 DEF Scope
    <3>3. CASE e.of = k
      <4>1. Resolve(k)' = [data |-> nextId, key |-> k] /\ k \in Declared
        BY CreateFacts
      <4>2. Resolve(k).key = k
        BY <4>1, ResolveFacts
      <4> QED BY <3>2, <3>3, <4>1, <4>2, Apart
    <3>4. CASE e.of # k
      BY <3>1, <3>2, <3>4, CreateFacts
    <3> QED BY <3>3, <3>4
  <2> QED BY <2>2, <2>3
<1>4. ASSUME NEW g \in config[d].grants, g.scope # None, ~HostMissing(g.right)
      PROVE  /\ Tuples(g) = {Made(g, e) : e \in g.scope}
             /\ Tuples(g)' = {Made(g, e)' : e \in g.scope}
  BY <1>4 DEF Tuples
<1>5. ASSUME NEW g \in config[d].grants, g.scope # None, ~HostMissing(g.right), NEW e \in g.scope
      PROVE  /\ (Made(g, e)').right = Made(g, e).right /\ (Made(g, e)').key = Made(g, e).key
             /\ Made(g, e).key # k => (Made(g, e)').data = Made(g, e).data
  BY <1>3, <1>5
<1>6. \A g \in config[d].grants : Tuples(g) \subseteq Desired(d) /\ Tuples(g)' \subseteq Desired(d)'
  BY <1>1 DEF Desired
<1>7. ASSUME NEW t \in Desired(d)
      PROVE  \E u \in Desired(d)' :
               u.right = t.right /\ u.key = t.key /\ (t.key # k => u.data = t.data)
  <2>1. PICK g \in config[d].grants : t \in Tuples(g)
    BY DEF Desired
  <2>2. CASE g.scope = None \/ HostMissing(g.right)
    BY <1>2, <1>6, <2>1, <2>2
  <2>3. CASE g.scope # None /\ ~HostMissing(g.right)
    <3>1. PICK e \in g.scope : t = Made(g, e)
      BY <1>4, <2>1, <2>3
    <3>2. Made(g, e)' \in Desired(d)'
      BY <1>4, <1>6, <2>3
    <3> QED BY <1>5, <2>3, <3>1, <3>2
  <2> QED BY <2>2, <2>3
<1>8. ASSUME NEW u \in Desired(d)'
      PROVE  /\ u \in Desired(d) \/ u.data = nextId
             /\ \E t \in Desired(d) :
                  u.right = t.right /\ u.key = t.key /\ (t.key # k => u.data = t.data)
  <2>1. PICK g \in config[d].grants : u \in Tuples(g)'
    BY <1>1
  <2>2. CASE g.scope = None \/ HostMissing(g.right)
    BY <1>2, <1>6, <2>1, <2>2
  <2>3. CASE g.scope # None /\ ~HostMissing(g.right)
    <3>1. PICK e \in g.scope : u = Made(g, e)'
      BY <1>4, <2>1, <2>3
    <3>2. Made(g, e) \in Desired(d)
      BY <1>4, <1>6, <2>3
    <3>3. u \in Desired(d) \/ u.data = nextId
      BY <1>3, <2>3, <3>1, <3>2
    <3> QED BY <1>5, <2>3, <3>1, <3>2, <3>3
  <2> QED BY <2>2, <2>3
<1> QED BY <1>7, <1>8

--------------------------------------------------------------------------------
(* The invariant holds at the start, and every step keeps it.               *)

LEMMA Begins == Init => Inv
<1> SUFFICES ASSUME Init PROVE Inv
  OBVIOUS
<1> USE DEF Init
<1>1. \A d \in Decls : config[d] = None \/ IsDecl(config[d])
  BY ConfigsAssumption
<1>2. DOMAIN config = Decls
  BY ConfigsAssumption
<1>3. state \in [Keys -> Ids \cup {None}] /\ nextId \in Nat /\ rows \subseteq Row
  BY IdsAssumption, RowsAssumption
<1>4. configs \in 0 .. MaxConfigs /\ edits \in 0 .. MaxEdits /\ faults \in 0 .. MaxFaults
  BY ConfigsAssumption
<1>5. TypeOK
  BY <1>1, <1>2, <1>3, <1>4 DEF TypeOK
<1>6. \A d \in Active : \A i \in Numbers(config[d]) : i < FirstId
  BY ConfigsAssumption DEF Active
<1>7. Older
  <2>1. FirstId <= nextId
    BY IdsAssumption
  <2>2. \A k \in Keys : state[k] # None => state[k] < nextId
    BY IdsAssumption
  <2>3. \A i \in alive : i < nextId
    OBVIOUS
  <2>4. \A r \in rows : r.dom < nextId /\ (r.data \in Ids => r.data < nextId)
    BY RowsAssumption
  <2>5. nextId = FirstId
    OBVIOUS
  <2> QED BY <1>6, <2>1, <2>2, <2>3, <2>4, <2>5 DEF Older
<1>8. Course
  BY DEF Course
<1> QED BY <1>5, <1>7, <1>8 DEF Inv

\* A write stays due as long as configuration and state stay.
LEMMA StaysDue ==
  ASSUME UNCHANGED <<config, state, nextId>>, creates' \subseteq creates, NEW o
  PROVE  /\ PutDue(o) => PutDue(o)'
         /\ DelDue(o) => DelDue(o)'
         /\ FlightDue(o) => FlightDue(o)'
<1>1. \A d : Home(o, d) => Home(o, d)'
  BY Views DEF Home
<1>2. PutDue(o) => PutDue(o)'
  BY <1>1, Views DEF PutDue
<1>3. DelDue(o) => DelDue(o)'
  BY <1>1, Views DEF DelDue
<1>4. FlightDue(o) => FlightDue(o)'
  BY Views DEF FlightDue, Concrete
<1> QED BY <1>2, <1>3, <1>4

\* The domains of a plan that is not refused.
LEMMA AcceptedDomain ==
  ASSUME TypeOK, ~Rejected, NEW d \in Active
  PROVE  /\ Domain(d) \in Ids \cup Keys
         /\ Domain(d) \in Ids => \/ config[d].target.form = "num"
                                 \/ config[d].target.of \in Keys /\ Domain(d) \in alive
         /\ Domain(d) \in Keys => /\ config[d].target.form = "ref"
                                  /\ config[d].target.of = Domain(d)
                                  /\ Domain(d) \in Declared
<1>1. ~BadDomain(d)
  BY DEF Rejected
<1>2. CASE config[d].target.form = "num"
  BY <1>2, DeclFacts, Apart DEF Domain
<1>3. CASE config[d].target.form # "num"
  <2> DEFINE k == config[d].target.of
  <2>1. k \in Keys /\ config[d].target.form = "ref" /\ Domain(d) = Resolve(k).data
    BY <1>3, DeclFacts DEF Domain
  <2>2. Domain(d) # None /\ (Domain(d) \in Ids => Domain(d) \in alive)
    BY <1>1, <2>1 DEF BadDomain
  <2> HIDE DEF k
  <2>3. Domain(d) \in Keys => Domain(d) = k /\ k \in Declared
    BY <2>1, ResolveFacts, Apart
  <2> QED BY <2>1, <2>2, <2>3, ResolveFacts DEF k
<1> QED BY <1>2, <1>3

\* What a plan holds is due.
LEMMA PlannedDue ==
  ASSUME Inv, Plan, NEW o \in Ops
  PROVE  o \in Op /\ PutDue(o)' /\ DelDue(o)'
<1>1. PICK d \in Active : o \in OpsOf(d, rows)
  BY DEF Ops
<1>2. /\ ~Rejected /\ UNCHANGED <<config, state, nextId>>
      /\ creates' = {k \in Declared : state[k] = None \/ state[k] \notin alive}
      /\ TypeOK /\ Older
  BY DEF Plan, hostVars, Inv
<1>3. ASSUME NEW x, x.dom = Domain(d), x.put \/ Domain(d) \in Ids
      PROVE  Home(x, d)'
  <2>1. CASE Domain(d) \in Keys
    BY <1>2, <1>3, <2>1, AcceptedDomain, Views, Apart DEF Home
  <2>2. CASE Domain(d) \in Ids
    <3> DEFINE k == config[d].target.of
    <3>1. config[d].target.form = "num" \/ (k \in Keys /\ Domain(d) \in alive)
      BY <1>2, <2>2, AcceptedDomain
    <3>2. CASE config[d].target.form = "num"
      BY <1>2, <1>3, <2>2, <3>2, Views DEF Home
    <3>3. CASE config[d].target.form # "num"
      <4>1. k \in Keys /\ Domain(d) \in alive /\ Domain(d) = Resolve(k).data
        BY <3>1, <3>3 DEF Domain
      <4>2. k \notin creates'
        BY <1>2, <2>2, <4>1, ResolveFacts, Apart
      <4> QED BY <1>2, <1>3, <2>2, <4>2, Views DEF Home
    <3> QED BY <3>2, <3>3
  <2> QED BY <1>2, <2>1, <2>2, AcceptedDomain
<1>4. CASE o.put
  <2>1. PICK t \in Desired(d) : o = [put |-> TRUE, dom |-> Domain(d), tuple |-> t]
    BY <1>1, <1>4 DEF OpsOf, Puts
  <2>2. o \in Op
    BY <1>2, <2>1, AcceptedTuple, AcceptedDomain DEF Op
  <2>3. Home(o, d)'
    BY <1>3, <2>1
  <2>4. PutDue(o)'
    BY <1>2, <2>1, <2>3, Views DEF PutDue
  <2> QED BY <1>4, <2>2, <2>4 DEF DelDue
<1>5. CASE ~o.put
  <2>1. PICK t \in Dels(d, rows) :
          o = [put |-> FALSE, dom |-> Domain(d),
               tuple |-> [right |-> t.right, data |-> t.data, key |-> None]]
    BY <1>1, <1>5 DEF OpsOf
  <2>2. PICK r \in rows : r.dom = Domain(d) /\ t = [right |-> r.right, data |-> r.data]
    BY <2>1 DEF Dels, Owned, Pair
  <2>3. r.dom \in Ids /\ r.right \in Rights /\ r.data \in Datas
    BY <1>2 DEF TypeOK, Row
  <2>4. o \in Op
    BY <2>1, <2>2, <2>3 DEF Op, Tuple
  <2>5. o.dom < nextId /\ (o.tuple.data \in Ids => o.tuple.data < nextId)
    BY <1>2, <2>1, <2>2 DEF Older
  <2>6. ~Spared(d, t) /\ t \notin {Pair(u) : u \in Desired(d)}
    BY <2>1 DEF Dels
  <2>7. o.tuple.right \in Host /\ ScopeField[o.tuple.right] \notin config[d].keep
    BY <2>1, <2>6 DEF Spared
  <2>8. Home(o, d)'
    BY <1>3, <2>1, <2>2, <2>3
  <2>9. ASSUME NEW e \in Active, Domain(e) = o.dom PROVE \A u \in Desired(e) : Pair(u) # Pair(o.tuple)
    <3>1. e = d
      BY <1>2, <2>1, <2>9 DEF Rejected
    <3>2. Pair(o.tuple) = t
      BY <2>1, <2>2 DEF Pair
    <3> QED BY <2>6, <3>1, <3>2
  <2>10. DelDue(o)'
    <3>1. o.tuple.key = None /\ o.tuple.data \in Datas
      BY <2>1, <2>2, <2>3
    <3>2. d \in Active' /\ UNCHANGED <<config, nextId>>
      BY <1>2, Views
    <3>3. \A e \in Active' : Domain(e)' = o.dom => \A u \in Desired(e)' : Pair(u) # Pair(o.tuple)
      BY <1>2, <2>9, Views
    <3> QED BY <2>5, <2>7, <2>8, <3>1, <3>2, <3>3 DEF DelDue, Pair
  <2> QED BY <1>5, <2>4, <2>10 DEF PutDue
<1> QED BY <1>4, <1>5

LEMMA PlanStep == ASSUME Inv, Plan PROVE Inv'
<1>1. /\ pc = "idle" /\ pc' = "resources" /\ todo' = Ops /\ failed' = {} /\ quiet' = TRUE
      /\ creates' = {k \in Declared : state[k] = None \/ state[k] \notin alive}
      /\ UNCHANGED <<config, state, alive, nextId, rows, flight, configs, edits, faults>>
  BY DEF Plan, hostVars
<1>2. \A o \in todo' : o \in Op /\ PutDue(o)' /\ DelDue(o)'
  BY <1>1, PlannedDue
<1>3. TypeOK'
  BY <1>1, <1>2 DEF Inv, TypeOK
<1>4. Older'
  BY <1>1 DEF Inv, Older, Active
<1>5. Course'
  BY <1>1, <1>2 DEF Inv, Course
<1> QED BY <1>3, <1>4, <1>5 DEF Inv

\* Between two runs nothing is due, whatever the declarations become.
LEMMA ConfigStep ==
  ASSUME Inv, pc = "idle", configs < MaxConfigs, configs' = configs + 1, quiet' = FALSE,
         UNCHANGED <<state, hostVars, runVars, edits, faults>>,
         DOMAIN config' = Decls, \A d \in Decls : config'[d] = None \/ IsDecl(config'[d]),
         \A d \in Decls : config'[d] # None => \A i \in Numbers(config'[d]) : i < nextId
  PROVE  Inv'
<1> USE DEF hostVars, runVars
<1>1. configs' \in 0 .. MaxConfigs
  BY ConfigsAssumption DEF Inv, TypeOK
<1>2. TypeOK'
  BY <1>1 DEF Inv, TypeOK
<1>3. Older'
  BY DEF Inv, Older, Active
<1>4. Course'
  BY DEF Inv, Course
<1> QED BY <1>2, <1>3, <1>4 DEF Inv

\* An adopted block is a declaration, and names only what exists by number.
LEMMA BlockFacts ==
  ASSUME Inv, NEW x \in alive, NEW target, IsTarget(target),
         target.of \in Ids => target.of < nextId
  PROVE  /\ IsDecl(Block(x, target))
         /\ \A i \in Numbers(Block(x, target)) : i < nextId
<1> DEFINE b == Block(x, target)
<1>1. b = [target |-> target, grants |-> Grants(x), keep |-> {}]
  BY DEF Block
<1>2. ASSUME NEW t \in Expressed(x)
      PROVE  /\ t.right \in Rights /\ t.data \in Datas
             /\ ScopeField[t.right] # None => t.data \in Ids \cup {All}
             /\ t.data \in Ids => t.data < nextId
  <2>1. PICK r \in rows : t = [right |-> r.right, data |-> r.data]
    BY <1>2 DEF Expressed, Effective, Pair
  <2>2. r.right \in Rights /\ r.data \in Datas /\ (r.data \in Ids => r.data < nextId)
    BY <2>1 DEF Inv, TypeOK, Row, Older
  <2>3. t \in Effective(x, rows) /\ t \notin Omitted(x)
    BY <1>2 DEF Expressed
  <2>4. (ScopeField[t.right] = None) = (t.data = NoData)
    BY <2>3 DEF Omitted
  <2> QED BY <2>1, <2>2, <2>4 DEF Datas
<1>3. ASSUME NEW field, NEW id \in Ids \cup {All}
      PROVE  /\ EntryFor(field, id) \in Entry
             /\ EntryFor(field, id).form = "num" <=> EntryFor(field, id).of \in Ids \cup {All}
             /\ EntryFor(field, id).of \in Ids => EntryFor(field, id).of = id
  <2>1. CASE Holder(field, id) = {}
    BY <2>1, Apart DEF EntryFor, Entry
  <2>2. CASE Holder(field, id) # {}
    <3>1. (CHOOSE k \in Holder(field, id) : TRUE) \in Keys
      BY <2>2 DEF Holder
    <3> QED BY <2>2, <3>1, Apart DEF EntryFor, Entry
  <2> QED BY <2>1, <2>2
<1>4. ASSUME NEW g \in Grants(x)
      PROVE  /\ g.right \in Rights
             /\ g.scope # None => \A e \in g.scope :
                  /\ e \in Entry /\ (e.form = "num" <=> e.of \in Ids \cup {All})
                  /\ e.of \in Ids => e.of < nextId
  <2>1. PICK r \in {t.right : t \in Expressed(x)} :
          g = [right |-> r,
               scope |-> IF ScopeField[r] = None THEN None
                         ELSE {EntryFor(ScopeField[r], t.data) :
                                 t \in {u \in Expressed(x) : u.right = r}}]
    BY <1>4 DEF Grants
  <2>2. g.right \in Rights
    BY <1>2, <2>1
  <2>3. ASSUME g.scope # None, NEW e \in g.scope
        PROVE  /\ e \in Entry /\ (e.form = "num" <=> e.of \in Ids \cup {All})
               /\ e.of \in Ids => e.of < nextId
    <3>1. ScopeField[r] # None
      BY <2>1, <2>3
    <3>2. PICK t \in Expressed(x) : t.right = r /\ e = EntryFor(ScopeField[r], t.data)
      BY <2>1, <2>3, <3>1
    <3>3. t.data \in Ids \cup {All} /\ (t.data \in Ids => t.data < nextId)
      BY <1>2, <3>1, <3>2
    <3> QED BY <1>3, <3>2, <3>3, Apart
  <2> QED BY <2>2, <2>3
<1>5. IsDecl(b)
  <2>1. DOMAIN b = {"target", "grants", "keep"} /\ b.target = target /\ b.grants = Grants(x)
    BY <1>1
  <2> HIDE DEF b
  <2> QED BY <1>4, <2>1 DEF IsDecl
<1>6. \A i \in Numbers(b) : i < nextId
  <2>1. b.target = target /\ b.grants = Grants(x)
    BY <1>1
  <2> HIDE DEF b
  <2> QED BY <1>4, <2>1 DEF Numbers
<1> QED BY <1>5, <1>6

LEMMA NewBlockStep ==
  ASSUME Inv, NEW d \in Decls, NEW x \in alive, NEW target, IsTarget(target),
         target.of \in Ids => target.of < nextId, NewBlock(d, x, target)
  PROVE  Inv'
<1>1. /\ pc = "idle" /\ configs < MaxConfigs /\ configs' = configs + 1 /\ quiet' = FALSE
      /\ config' = [config EXCEPT ![d] = Block(x, target)]
      /\ UNCHANGED <<state, hostVars, runVars, edits, faults>>
  BY DEF NewBlock
<1>2. /\ DOMAIN config' = Decls
      /\ \A e \in Decls : config'[e] = IF e = d THEN Block(x, target) ELSE config[e]
  BY <1>1 DEF Inv, TypeOK
<1>3. \A e \in Decls : config'[e] = None \/ IsDecl(config'[e])
  BY <1>2, BlockFacts DEF Inv, TypeOK
<1>4. \A e \in Decls : config'[e] # None => \A i \in Numbers(config'[e]) : i < nextId
  BY <1>2, BlockFacts DEF Inv, Older, Active
<1> QED BY <1>1, <1>2, <1>3, <1>4, ConfigStep

LEMMA OutsideStep == ASSUME Inv, Outside PROVE Inv'
<1>1. ASSUME NEW c \in Configs, EditConfig(c) PROVE Inv'
  <2>1. FirstId \in Nat /\ nextId \in Nat /\ FirstId <= nextId
    BY IdsAssumption DEF Inv, TypeOK, Older
  <2>2. \A d \in Decls : c[d] # None => \A i \in Numbers(c[d]) : i < nextId
    <3>1. \A d \in Decls : c[d] # None => \A i \in Numbers(c[d]) : i < FirstId /\ i \in Nat
      BY ConfigsAssumption, IdsAssumption DEF Numbers
    <3> QED BY <2>1, <3>1
  <2> QED BY <1>1, <2>2, ConfigStep, ConfigsAssumption DEF EditConfig
<1>2. ASSUME NEW d \in Decls, NEW x \in alive, AdoptOne(d, x) \/ AdoptBulk(d, x) PROVE Inv'
  <2>1. x \in Ids /\ x < nextId
    BY DEF Inv, TypeOK, Older
  <2>2. IsTarget([form |-> "num", of |-> x])
    BY <2>1, Apart DEF IsTarget, Entry
  <2>3. CASE NewBlock(d, x, [form |-> "num", of |-> x])
    BY <2>1, <2>2, <2>3, NewBlockStep
  <2>4. CASE Holder("group", x) # {} /\
             NewBlock(d, x, [form |-> "ref", of |-> CHOOSE k \in Holder("group", x) : TRUE])
    <3> DEFINE k == CHOOSE k \in Holder("group", x) : TRUE
    <3>1. k \in Keys
      BY <2>4 DEF Holder
    <3> HIDE DEF k
    <3>2. IsTarget([form |-> "ref", of |-> k]) /\ k \notin Ids
      BY <3>1, Apart DEF IsTarget, Entry
    <3> QED BY <2>4, <3>2, NewBlockStep DEF k
  <2> QED BY <1>2, <2>3, <2>4 DEF AdoptOne, AdoptBulk
<1>3. ASSUME UNCHANGED <<config, state, nextId, runVars, configs, faults>>,
             alive' \subseteq alive, rows' \subseteq rows \cup UiRows, Edited
      PROVE  Inv'
  <2> USE DEF runVars
  <2>1. edits' \in 0 .. MaxEdits /\ quiet' \in BOOLEAN
    <3>1. edits \in 0 .. MaxEdits /\ MaxEdits \in Nat
      BY ConfigsAssumption DEF Inv, TypeOK
    <3>2. edits < MaxEdits /\ edits' = edits + 1 /\ quiet' = FALSE
      BY <1>3 DEF Edited
    <3>3. quiet' \in BOOLEAN
      BY <3>2
    <3> QED BY <3>1, <3>2, <3>3
  <2>2. TypeOK'
    BY <1>3, <2>1, RowsAssumption DEF Inv, TypeOK
  <2>3. \A r \in rows' : r.dom < nextId /\ (r.data \in Ids => r.data < nextId)
    <3>1. FirstId \in Nat /\ nextId \in Nat /\ FirstId <= nextId
      BY IdsAssumption DEF Inv, TypeOK, Older
    <3>2. \A r \in UiRows : /\ r.dom \in Nat /\ r.dom < FirstId
                            /\ r.data \in Ids => r.data \in Nat /\ r.data < FirstId
      BY RowsAssumption, IdsAssumption DEF Row
    <3> QED BY <1>3, <3>1, <3>2 DEF Inv, Older
  <2>4. Older'
    BY <1>3, <2>3 DEF Inv, Older, Active
  <2>5. Course'
    BY <1>3, StaysDue DEF Inv, Course
  <2> QED BY <2>2, <2>4, <2>5 DEF Inv
<1>4. ASSUME NEW r \in UiRows, UiToggle(r) PROVE Inv'
  BY <1>3, <1>4 DEF UiToggle
<1>5. ASSUME NEW i \in alive, UiDelete(i) PROVE Inv'
  BY <1>3, <1>5 DEF UiDelete
<1> QED BY <1>1, <1>2, <1>4, <1>5 DEF Outside

LEMMA FaultCounts == ASSUME TypeOK, Fault PROVE faults' \in 0 .. MaxFaults
BY ConfigsAssumption DEF TypeOK, Fault

LEMMA CreateStep == ASSUME Inv, NEW k \in Keys, Create(k) PROVE Inv'
<1> USE DEF Inv
<1>1. PICK b \in Baseline :
        rows' = rows \cup {[dom |-> nextId, right |-> b.right, data |-> NoData,
                            type |-> "grant", prov |-> b.prov]}
  BY DEF Create
<1>2. /\ pc = "resources" /\ k \in creates /\ nextId \in Ids /\ creates' = creates \ {k}
      /\ state' = [state EXCEPT ![k] = nextId] /\ alive' = alive \cup {nextId}
      /\ nextId' = nextId + 1 /\ quiet' = (quiet /\ state[k] = None)
      /\ UNCHANGED <<config, pc, todo, flight, failed, configs, edits, faults>>
  BY DEF Create
<1>3. /\ nextId \in Nat /\ nextId' \in Nat /\ nextId < nextId'
      /\ \A i \in Ids : i < nextId => i < nextId'
  BY <1>2, IdsAssumption DEF TypeOK
<1>4. TypeOK'
  <2>1. rows' \subseteq Row
    BY <1>1, <1>2, CatalogAssumption DEF TypeOK, Row, Datas
  <2>2. quiet' \in BOOLEAN
    BY <1>2 DEF TypeOK
  <2> QED BY <1>2, <1>3, <2>1, <2>2 DEF TypeOK
<1>5. Older'
  <2>1. FirstId <= nextId'
    BY <1>2, <1>3, IdsAssumption DEF Older
  <2>2. \A j \in Keys : state'[j] # None => state'[j] < nextId'
    <3>1. \A j \in Keys \ {k} : state'[j] = state[j]
      BY <1>2 DEF TypeOK
    <3>2. \A j \in Keys : state[j] # None => state[j] \in Ids /\ state[j] < nextId
      BY DEF TypeOK, Older
    <3>3. state'[k] = nextId
      BY <1>2 DEF TypeOK
    <3> QED BY <1>3, <3>1, <3>2, <3>3
  <2>3. \A i \in alive' : i < nextId'
    <3>1. \A i \in alive : i \in Ids /\ i < nextId
      BY DEF TypeOK, Older
    <3> QED BY <1>2, <1>3, <3>1
  <2>4. \A r \in rows' : r.dom < nextId' /\ (r.data \in Ids => r.data < nextId')
    <3>1. \A r \in rows : r.dom < nextId' /\ (r.data \in Ids => r.data < nextId')
      <4>1. \A r \in rows : r.dom \in Ids /\ r.dom < nextId /\ (r.data \in Ids => r.data < nextId)
        BY DEF TypeOK, Row, Older
      <4> QED BY <1>3, <4>1
    <3>2. NoData \notin Ids /\ nextId < nextId'
      BY <1>3, Apart
    <3> QED BY <1>1, <3>1, <3>2
  <2>5. \A d \in Active' : \A i \in Numbers(config'[d]) : i < nextId'
    BY <1>2, <1>3 DEF Older, Active, Numbers
  <2> QED BY <2>1, <2>2, <2>3, <2>4, <2>5 DEF Older
<1>6. ASSUME NEW o, NEW d \in Active, Home(o, d) PROVE Home(o, d)'
  <2>1. config[d].target.form # "num" => config[d].target.form = "ref"
    BY DeclFacts
  <2> QED BY <1>2, <1>6, <2>1, CreateDomain DEF Home
<1>7. ASSUME NEW o \in todo PROVE PutDue(o)'
  <2> SUFFICES ASSUME o.put
               PROVE  \E d \in Active' : Home(o, d)' /\ \E t \in Desired(d)' :
                        /\ t.right = o.tuple.right /\ t.key = o.tuple.key
                        /\ t.key = None => t.data = o.tuple.data
    BY DEF PutDue
  <2>1. PICK d \in Active : Home(o, d) /\ \E t \in Desired(d) :
          /\ t.right = o.tuple.right /\ t.key = o.tuple.key
          /\ t.key = None => t.data = o.tuple.data
    BY DEF Course, PutDue
  <2>2. \E u \in Desired(d)' : /\ u.right = o.tuple.right /\ u.key = o.tuple.key
                               /\ u.key = None => u.data = o.tuple.data
    BY <2>1, CreateTuple, Apart
  <2>3. d \in Active'
    BY CreateFacts
  <2> QED BY <1>6, <2>1, <2>2, <2>3
<1>8. ASSUME NEW o \in todo PROVE DelDue(o)'
  <2> SUFFICES ASSUME ~o.put PROVE DelDue(o)'
    BY DEF DelDue
  <2>0. DelDue(o)
    BY DEF Course
  <2>1. /\ o.dom < nextId /\ (o.tuple.data \in Ids => o.tuple.data < nextId)
        /\ o.tuple.key = None /\ o.tuple.data \in Datas /\ o.tuple.right \in Host
    BY <2>0 DEF DelDue
  <2>2. PICK d \in Active : Home(o, d) /\ ScopeField[o.tuple.right] \notin config[d].keep
    BY <2>0 DEF DelDue
  <2>3. o.dom \in Ids
    BY <2>2 DEF Home
  <2>4. o.dom < nextId' /\ (o.tuple.data \in Ids => o.tuple.data < nextId')
    BY <1>3, <2>1, <2>3
  <2>5. d \in Active' /\ Home(o, d)' /\ config' = config
    BY <1>2, <1>6, <2>2, CreateFacts
  <2>6. ASSUME NEW e \in Active, Domain(e)' = o.dom, NEW u \in Desired(e)'
        PROVE  Pair(u) # Pair(o.tuple)
    <3>1. Domain(e) = o.dom
      <4>1. Domain(e)' # nextId
        <5>1. o.dom \in Nat
          BY <2>3, IdsAssumption
        <5> QED BY <1>3, <2>1, <2>6, <5>1
      <4> QED BY <2>6, <4>1, CreateDomain, DeclFacts
    <3>2. CASE u \in Desired(e)
      BY <2>0, <3>1, <3>2 DEF DelDue
    <3>3. CASE u.data = nextId
      <4>1. o.tuple.data # nextId
        BY <1>2, <1>3, <2>1
      <4> QED BY <3>3, <4>1 DEF Pair
    <3> QED BY <3>2, <3>3, CreateTuple
  <2>7. \A e \in Active' : Domain(e)' = o.dom => \A u \in Desired(e)' : Pair(u) # Pair(o.tuple)
    BY <2>6, CreateFacts
  <2> QED BY <2>1, <2>2, <2>4, <2>5, <2>7 DEF DelDue, Pair
<1>9. Course'
  <2>1. \A j \in Declared : state'[j] = None => j \in creates'
    <3>1. Declared \subseteq Keys /\ nextId # None
      BY <1>2, IdsAssumption, Apart
    <3> QED BY <1>2, <3>1 DEF Course, TypeOK
  <2> QED BY <1>2, <1>7, <1>8, <2>1 DEF Course
<1> QED BY <1>4, <1>5, <1>9

\* A write in flight asks for a row of an existing identity.
LEMMA FlightRow ==
  ASSUME Inv, NEW o \in flight, o.put
  PROVE  /\ RowOf(o) \in Row /\ RowOf(o).dom < nextId
         /\ RowOf(o).data \in Ids => RowOf(o).data < nextId
<1> USE DEF Inv
<1>1. /\ o.dom \in Ids
      /\ \E d \in Active : o.dom = Domain(d) /\ \E t \in Desired(d) :
           Pair(t) = Pair(o.tuple) /\ Concrete(t)
  BY DEF Course, FlightDue
<1>2. PICK d \in Active : o.dom = Domain(d) /\ \E t \in Desired(d) :
        Pair(t) = Pair(o.tuple) /\ Concrete(t)
  BY <1>1
<1>3. PICK t \in Desired(d) : Pair(t) = Pair(o.tuple) /\ Concrete(t)
  BY <1>2
<1>4. t.right = o.tuple.right /\ t.data = o.tuple.data
  BY <1>3 DEF Pair
<1>5. o.tuple.right \in Rights /\ o.tuple.data \in Datas \cup Keys
  BY DEF TypeOK, Op, Tuple
<1>6. o.tuple.data \in Datas
  BY <1>3, <1>4, <1>5 DEF Concrete
<1>7. o.dom < nextId
  BY <1>1, <1>2, DomainOlder
<1>8. o.tuple.data \in Ids => o.tuple.data < nextId
  BY <1>4, ScopeOlder
<1> QED BY <1>1, <1>5, <1>6, <1>7, <1>8 DEF RowOf, Row

\* Writes carried out, whether or not anybody learns of it.
LEMMA ServedRows ==
  ASSUME Inv, NEW os \in SUBSET flight, rows' = Served(os)
  PROVE  /\ rows' \subseteq Row
         /\ \A r \in rows' : r.dom < nextId /\ (r.data \in Ids => r.data < nextId)
<1>1. \A r \in rows' : r \in rows \/ \E o \in flight : o.put /\ r = RowOf(o)
  BY DEF Served
<1> QED BY <1>1, FlightRow DEF Inv, TypeOK, Older

\* A step of a run that creates nothing and plans nothing.
LEMMA GoesOn ==
  ASSUME Inv, UNCHANGED <<config, state, alive, nextId, configs, edits>>,
         rows' = rows \/ \E os \in SUBSET flight : rows' = Served(os),
         faults' \in 0 .. MaxFaults, quiet' \in BOOLEAN,
         failed' \subseteq failed \cup flight,
         \/ pc' = "idle" /\ creates' = {} /\ todo' = {} /\ flight' = {}
         \/ /\ UNCHANGED <<pc, creates, todo>> /\ pc = "write"
            /\ flight' \subseteq flight
         \/ /\ pc = "resources" /\ creates = {} /\ pc' = "domains"
            /\ UNCHANGED <<creates, todo, flight>>
  PROVE  Inv'
<1>1. /\ rows' \subseteq Row
      /\ \A r \in rows' : r.dom < nextId /\ (r.data \in Ids => r.data < nextId)
  <2>1. CASE rows' = rows
    BY <2>1 DEF Inv, TypeOK, Older
  <2>2. CASE \E os \in SUBSET flight : rows' = Served(os)
    BY <2>2, ServedRows
  <2> QED BY <2>1, <2>2
<1>2. TypeOK'
  <2>1. pc' \in {"idle", "resources", "domains", "write"} /\ creates' \subseteq Declared
    BY DEF Inv, TypeOK
  <2>2. todo' \subseteq Op /\ flight' \subseteq Op /\ failed' \subseteq Op
    BY DEF Inv, TypeOK
  <2> QED BY <1>1, <2>1, <2>2 DEF Inv, TypeOK
<1>3. Older'
  BY <1>1 DEF Inv, Older, Active
<1>4. creates' \subseteq creates
  OBVIOUS
<1>5. Course'
  BY <1>4, StaysDue DEF Inv, Course
<1> QED BY <1>2, <1>3, <1>5 DEF Inv

LEMMA DomainsDoneStep == ASSUME Inv, DomainsDone PROVE Inv'
<1> USE DEF Inv
<1>1. /\ pc = "domains" /\ todo' = {Complete(o) : o \in todo} /\ pc' = "write" /\ creates = {}
      /\ UNCHANGED <<config, state, alive, nextId, rows, creates, flight, failed, quiet,
                     configs, edits, faults>>
  BY DEF DomainsDone, hostVars, Course
<1>2. flight = {}
  BY <1>1 DEF Course
<1>3. ASSUME NEW o \in todo, NEW c, c = Complete(o)
      PROVE  c \in Op /\ c.dom \in Ids /\ PutDue(c)' /\ DelDue(c)'
  <2>1. PutDue(o) /\ DelDue(o) /\ o \in Op
    BY DEF Course, TypeOK
  <2>2. PutDue(o)' /\ DelDue(o)'
    BY <1>1, <2>1, StaysDue
  <2>3. CASE o.dom \in Ids
    <3>1. c = o
      BY <1>3, <2>3, Apart DEF Complete
    <3> QED BY <2>1, <2>2, <2>3, <3>1
  <2>4. CASE o.dom \notin Ids
    <3>1. o.dom \in Keys
      BY <2>1, <2>4 DEF Op
    <3>2. o.put
      BY <2>1, <2>4 DEF DelDue, Home
    <3>3. PICK d \in Active : Home(o, d) /\ \E t \in Desired(d) :
            /\ t.right = o.tuple.right /\ t.key = o.tuple.key
            /\ t.key = None => t.data = o.tuple.data
      BY <2>1, <3>2 DEF PutDue
    <3>4. config[d].target.form = "ref" /\ config[d].target.of = o.dom
      BY <2>4, <3>3 DEF Home
    <3>5. state[o.dom] \in alive
      <4>1. o.dom \in Pending
        BY <3>1 DEF Pending
      <4> QED BY <4>1 DEF DomainsDone
    <3>6. state[o.dom] \in Ids
      BY <3>5 DEF TypeOK
    <3>7. Domain(d) = state[o.dom]
      <4>1. Domain(d) = Resolve(o.dom).data
        BY <3>4 DEF Domain
      <4> QED BY <3>1, <3>6, <4>1, ResolveFacts, Apart
    <3>8. c = [o EXCEPT !.dom = state[o.dom]]
      BY <1>3, <3>1 DEF Complete
    <3>9. c \in Op /\ c.dom = state[o.dom] /\ c.put /\ c.tuple = o.tuple
      BY <2>1, <3>2, <3>6, <3>8 DEF Op
    <3>10. Home(c, d)'
      BY <1>1, <3>6, <3>7, <3>9, Views DEF Home
    <3>11. PutDue(c)'
      BY <1>1, <3>3, <3>9, <3>10, Views DEF PutDue
    <3> QED BY <3>6, <3>9, <3>11 DEF DelDue
  <2> QED BY <2>3, <2>4
<1>4. \A c \in todo' : c \in Op /\ c.dom \in Ids /\ PutDue(c)' /\ DelDue(c)'
  BY <1>1, <1>3
<1>5. TypeOK'
  BY <1>1, <1>4 DEF TypeOK
<1>6. Older'
  BY <1>1 DEF Older, Active
<1>7. Course'
  BY <1>1, <1>2, <1>4 DEF Course
<1> QED BY <1>5, <1>6, <1>7

LEMMA DispatchStep == ASSUME Inv, NEW o \in todo, Dispatch(o) PROVE Inv'
<1> USE DEF Inv
<1>0. PICK b : b = Body(o)
  OBVIOUS
<1>1. /\ pc = "write" /\ creates = {} /\ todo' = todo \ {o} /\ flight' = flight \cup {b}
      /\ UNCHANGED <<config, state, alive, nextId, rows, pc, creates, failed, quiet,
                     configs, edits, faults>>
  BY <1>0 DEF Dispatch, hostVars, Course
<1>2. PutDue(o) /\ DelDue(o) /\ o \in Op /\ o.dom \in Ids
  BY <1>1 DEF Course, TypeOK
<1>3. b \in Op /\ FlightDue(b) /\ DelDue(b)
  <2>1. CASE ~o.put
    <3>1. b = o
      BY <1>0, <2>1 DEF Body
    <3> QED BY <1>2, <2>1, <3>1 DEF FlightDue
  <2>2. CASE o.put
    <3>1. PICK d \in Active : Home(o, d) /\ \E t \in Desired(d) :
            /\ t.right = o.tuple.right /\ t.key = o.tuple.key
            /\ t.key = None => t.data = o.tuple.data
      BY <1>2, <2>2 DEF PutDue
    <3>2. PICK t \in Desired(d) : /\ t.right = o.tuple.right /\ t.key = o.tuple.key
                                  /\ t.key = None => t.data = o.tuple.data
      BY <3>1
    <3>3. o.dom = Domain(d)
      BY <1>2, <3>1, Apart DEF Home
    <3>4. CASE o.tuple.key = None
      <4>1. b = o
        BY <1>0, <3>4 DEF Body
      <4>2. Pair(t) = Pair(o.tuple) /\ Concrete(t)
        BY <3>2, <3>4, TupleFacts DEF Pair
      <4>3. FlightDue(o)
        BY <1>2, <3>3, <4>2 DEF FlightDue
      <4> QED BY <1>2, <4>1, <4>3
    <3>5. CASE o.tuple.key # None
      <4> DEFINE k == o.tuple.key
      <4>1. b = [o EXCEPT !.tuple.data = state[k]]
        BY <1>0, <2>2, <3>5 DEF Body
      <4>2. k \in Keys /\ t.data = Resolve(k).data /\ Resolve(k).key = k
        BY <3>2, <3>5, TupleFacts
      <4> HIDE DEF k
      <4>3. state[k] # None
        BY <1>1, <4>2, ResolveFacts, Apart DEF Course
      <4>4. t.data = state[k] /\ state[k] \in Ids
        BY <4>2, <4>3, ResolveFacts
      <4>5. /\ b \in Op /\ b.put /\ b.dom = o.dom
            /\ b.tuple.right = o.tuple.right /\ b.tuple.data = state[k]
        BY <1>2, <2>2, <4>1, <4>4 DEF Op, Tuple, Datas
      <4>6. Pair(t) = Pair(b.tuple) /\ Concrete(t)
        BY <3>2, <4>4, <4>5, Apart DEF Pair, Concrete
      <4> QED BY <1>2, <3>3, <4>5, <4>6 DEF FlightDue, DelDue
    <3> QED BY <3>4, <3>5
  <2> QED BY <2>1, <2>2
<1>4. TypeOK'
  BY <1>1, <1>3 DEF TypeOK
<1>5. Older'
  BY <1>1 DEF Older, Active
<1>6. FlightDue(b)' /\ DelDue(b)'
  BY <1>1, <1>3, StaysDue
<1>7. Course'
  BY <1>1, <1>6, StaysDue DEF Course
<1> QED BY <1>4, <1>5, <1>7

LEMMA AnswerStep ==
  ASSUME Inv, NEW o \in flight, Write(o) \/ WriteFails(o) \/ WriteLost(o)
  PROVE  Inv'
<1>1. /\ pc = "write" /\ flight' = flight \ {o} /\ UNCHANGED <<pc, creates, todo, quiet>>
      /\ UNCHANGED <<config, state, alive, nextId, configs, edits>>
      /\ failed' \in {failed, failed \cup {o}} /\ rows' \in {rows, Served({o})}
      /\ faults' = faults \/ Fault
  BY DEF Write, WriteFails, WriteLost, Answered, hostVars
<1>2. faults' \in 0 .. MaxFaults
  BY <1>1, FaultCounts DEF Inv, TypeOK
<1>3. quiet' \in BOOLEAN
  BY <1>1 DEF Inv, TypeOK
<1> QED BY <1>1, <1>2, <1>3, GoesOn

LEMMA EndStep ==
  ASSUME Inv, ResourceFails \/ DomainFails \/ Finish \/ Crash
  PROVE  Inv'
<1>1. /\ End /\ UNCHANGED <<config, state, alive, nextId, configs, edits, failed>>
      /\ rows' = rows \/ \E os \in SUBSET flight : rows' = Served(os)
      /\ quiet' \in {quiet, FALSE} /\ (faults' = faults \/ Fault)
  BY DEF ResourceFails, DomainFails, Finish, Crash, hostVars
<1>2. faults' \in 0 .. MaxFaults
  BY <1>1, FaultCounts DEF Inv, TypeOK
<1>3. quiet' \in BOOLEAN
  BY <1>1 DEF Inv, TypeOK
<1> QED BY <1>1, <1>2, <1>3, GoesOn DEF End

LEMMA ResourcesDoneStep == ASSUME Inv, ResourcesDone PROVE Inv'
<1>1. /\ pc = "resources" /\ creates = {} /\ pc' = "domains"
      /\ UNCHANGED <<config, state, alive, nextId, rows, creates, todo, flight, failed, quiet,
                     configs, edits, faults>>
  BY DEF ResourcesDone, hostVars
<1>2. faults' \in 0 .. MaxFaults /\ quiet' \in BOOLEAN
  BY <1>1 DEF Inv, TypeOK
<1> QED BY <1>1, <1>2, GoesOn

LEMMA Step == Inv /\ [Next]_vars => Inv'
<1> SUFFICES ASSUME Inv, [Next]_vars PROVE Inv'
  OBVIOUS
<1>1. CASE UNCHANGED vars
  <2> USE <1>1 DEF vars, Inv
  <2>1. TypeOK'
    BY DEF TypeOK
  <2>2. Older'
    BY DEF Older, Active
  <2>3. Course'
    BY StaysDue DEF Course
  <2> QED BY <2>1, <2>2, <2>3
<1>2. CASE Work
  BY <1>2, CreateStep, ResourcesDoneStep, DomainsDoneStep, DispatchStep, AnswerStep, EndStep
     DEF Work
<1> QED BY <1>1, <1>2, PlanStep, OutsideStep, AnswerStep, EndStep DEF Next

LEMMA Stays == Spec => []Inv
BY Begins, Step, PTL DEF Spec

\* The variables keep their types, whatever is adopted, edited, created or fails.
THEOREM Typed == Spec => []TypeOK
BY Stays, PTL DEF Inv

--------------------------------------------------------------------------------
(* Every step is one of GrantRegister's, or none of its variables changes.  *)

\* Every write carried out is right as things stand.
LEMMA ServedReconciles ==
  ASSUME Inv, NEW os \in SUBSET flight, rows' = Served(os),
         UNCHANGED <<config, state, configs, edits>>
  PROVE  Register!Reconcile
<1> USE DEF Inv
<1>1. Wanted' = Wanted /\ Duty' = Duty
  BY Views
<1>2. Fixed' = Fixed
  <2>1. \A r : (r.type # "grant" \/ r.prov # "direct") => (r \in rows' <=> r \in rows)
    BY DEF Served, RowOf
  <2> QED BY <2>1 DEF Fixed
<1>3. ASSUME NEW x \in Granted' \ Granted PROVE x \in Wanted
  <2>1. PICK r \in rows' : r.type = "grant" /\ r.prov = "direct" /\ x = Triple(r.dom, r)
    BY <1>3 DEF Granted, Triple
  <2>2. r \notin rows
    BY <1>3, <2>1 DEF Granted
  <2>3. PICK o \in os : o.put /\ r = RowOf(o)
    BY <2>1, <2>2 DEF Served
  <2>4. FlightDue(o)
    BY <2>3 DEF Course
  <2>5. PICK d \in Active : o.dom = Domain(d) /\ o.dom \in Ids /\ \E t \in Desired(d) :
          Pair(t) = Pair(o.tuple) /\ Concrete(t)
    BY <2>3, <2>4 DEF FlightDue
  <2>6. PICK t \in Desired(d) : Pair(t) = Pair(o.tuple) /\ Concrete(t)
    BY <2>5
  <2>7. x = Triple(Domain(d), t)
    BY <2>1, <2>3, <2>5, <2>6 DEF RowOf, Triple, Pair
  <2>8. d \in Settling
    BY <2>5 DEF Settling
  <2> QED BY <2>6, <2>7, <2>8 DEF Wanted
<1>4. ASSUME NEW x \in Granted \ Granted' PROVE x \in Duty \ Wanted
  <2>1. PICK r \in rows : r.type = "grant" /\ r.prov = "direct" /\ x = Triple(r.dom, r)
    BY <1>4 DEF Granted, Triple
  <2>2. r \notin rows'
    BY <1>4, <2>1 DEF Granted, Triple
  <2>3. PICK o \in os : ~o.put /\ r = RowOf(o)
    BY <2>1, <2>2 DEF Served
  <2>4. FlightDue(o) /\ DelDue(o)
    BY <2>3 DEF Course
  <2>5. o.dom \in Ids /\ x = [dom |-> o.dom, right |-> o.tuple.right, data |-> o.tuple.data]
    BY <2>1, <2>3, <2>4 DEF RowOf, Triple, FlightDue
  <2>6. x \in Duty
    <3>1. PICK d \in Active : Home(o, d) /\ ScopeField[o.tuple.right] \notin config[d].keep
      BY <2>3, <2>4 DEF DelDue
    <3>2. o.dom = Domain(d) /\ d \in Settling
      BY <2>5, <3>1, Apart DEF Home, Settling
    <3>3. o.tuple.right \in Host /\ o.tuple.data \in Datas
      BY <2>3, <2>4 DEF DelDue
    <3>4. x \in [dom : {Domain(d)}, right : {q \in Host : ScopeField[q] \notin config[d].keep},
                 data : Datas]
      BY <2>5, <3>1, <3>2, <3>3
    <3> QED BY <3>2, <3>4 DEF Duty
  <2>7. ASSUME x \in Wanted PROVE FALSE
    <3>1. PICK e \in Settling : x \in {Triple(Domain(e), t) : t \in {u \in Desired(e) : Concrete(u)}}
      BY <2>7 DEF Wanted
    <3>2. PICK t \in Desired(e) : x = Triple(Domain(e), t)
      BY <3>1
    <3>3. Domain(e) = o.dom /\ Pair(t) = Pair(o.tuple)
      BY <2>5, <3>2 DEF Triple, Pair
    <3>4. e \in Active
      BY <3>1 DEF Settling
    <3> QED BY <2>3, <2>4, <3>2, <3>3, <3>4 DEF DelDue
  <2> QED BY <2>6, <2>7
<1> QED BY <1>1, <1>2, <1>3, <1>4 DEF Register!Reconcile

\* A new group brings rows of its own, which are nobody's grants.
LEMMA CreateRetargets ==
  ASSUME Inv, NEW k \in Keys, Create(k)
  PROVE  Register!Retarget
<1>1. PICK b \in Baseline :
        rows' = rows \cup {[dom |-> nextId, right |-> b.right, data |-> NoData,
                            type |-> "grant", prov |-> b.prov]}
  BY DEF Create
<1>2. b.prov # "direct"
  BY CatalogAssumption
<1>3. Granted' = Granted
  BY <1>1, <1>2 DEF Granted
<1>4. Fixed \subseteq Fixed'
  BY <1>1 DEF Fixed
<1>5. configs' + edits' = configs + edits
  BY DEF Create
<1> QED BY <1>3, <1>4, <1>5 DEF Register!Retarget

\* A step that changes neither configuration, state nor rows is not seen.
LEMMA NotSeen ==
  ASSUME UNCHANGED <<config, state, rows, configs, edits>>
  PROVE  UNCHANGED Register!vars
<1>1. Wanted' = Wanted /\ Duty' = Duty
  BY Views
<1>2. Granted' = Granted /\ Fixed' = Fixed
  BY DEF Granted, Fixed
<1> QED BY <1>1, <1>2 DEF Register!vars

\* The rest is the world's.
LEMMA OutsideSeen == ASSUME Inv, Outside PROVE Register!Outside
<1>1. configs \in Nat /\ edits \in Nat
  BY ConfigsAssumption DEF Inv, TypeOK
<1>2. \/ configs' = configs + 1 /\ edits' = edits
      \/ edits' = edits + 1 /\ configs' = configs
  BY DEF Outside, EditConfig, AdoptOne, AdoptBulk, NewBlock, UiToggle, UiDelete, Edited
<1>3. configs' + edits' = configs + edits + 1
  BY <1>1, <1>2
<1> QED BY <1>3 DEF Register!Outside

LEMMA StepSeen ==
  ASSUME Inv, [Next]_vars
  PROVE  [Register!Next]_Register!vars
<1> USE DEF hostVars
<1>1. ASSUME NEW os \in SUBSET flight, rows' = Served(os),
             UNCHANGED <<config, state, configs, edits>>
      PROVE  [Register!Next]_Register!vars
  BY <1>1, ServedReconciles DEF Register!Next
<1>2. ASSUME NEW o \in flight, Write(o) \/ WriteLost(o) \/ WriteFails(o)
      PROVE  [Register!Next]_Register!vars
  <2>1. CASE Write(o) \/ WriteLost(o)
    BY <1>1, <2>1 DEF Write, WriteLost
  <2>2. CASE WriteFails(o)
    BY <2>2, NotSeen DEF WriteFails
  <2> QED BY <1>2, <2>1, <2>2
<1>3. CASE Crash
  BY <1>1, <1>3 DEF Crash
<1>4. CASE Outside
  BY <1>4, OutsideSeen DEF Register!Next
<1>5. ASSUME NEW k \in Keys, Create(k) PROVE [Register!Next]_Register!vars
  BY <1>5, CreateRetargets DEF Register!Next
<1>6. CASE Plan \/ ResourceFails \/ ResourcesDone \/ DomainsDone \/ DomainFails \/ Finish
           \/ UNCHANGED vars
  <2>1. UNCHANGED <<config, state, rows, configs, edits>>
    BY <1>6 DEF Plan, ResourceFails, ResourcesDone, DomainsDone, DomainFails, Finish, vars
  <2> QED BY <2>1, NotSeen
<1>7. ASSUME NEW o \in todo, Dispatch(o) PROVE [Register!Next]_Register!vars
  BY <1>7, NotSeen DEF Dispatch
<1> QED BY <1>2, <1>3, <1>4, <1>5, <1>6, <1>7 DEF Next, Work

\* However old the plan, whatever fails, is lost or is edited meanwhile: every
\* write gives a grant that is declared, or takes one that is not and that ct
\* answers for, and no inherited, system or denied row is touched.
THEOREM Implements == Spec => Promise
<1>1. Init => Register!Init
  BY DEF Init, Register!Init
<1>2. Inv /\ [Next]_vars => [Register!Next]_Register!vars
  BY StepSeen
<1> QED BY <1>1, <1>2, Stays, PTL DEF Spec, Promise, Register!Spec

--------------------------------------------------------------------------------
(* After an undisturbed apply the next plan holds what failed, no more.     *)

\* A write planned for the domain of a declaration, or for the resource that
\* will be its domain.
AimsAt(o, d) ==
  \/ o.dom \in Ids /\ o.dom = Domain(d)
  \/ o.dom \in Keys /\ config[d].target.form = "ref" /\ config[d].target.of = o.dom

\* A declared grant is on the host, still to be written, or among the failures.
PutAccounted(d, t) ==
  \/ Domain(d) \in Ids /\ Pair(t) \in Effective(Domain(d), rows)
  \/ \E o \in todo : /\ o.put /\ AimsAt(o, d)
                     /\ o.tuple.right = t.right /\ o.tuple.key = t.key
                     /\ t.key = None => o.tuple.data = t.data
  \/ \E o \in flight \cup failed : o.put /\ o.dom = Domain(d) /\ Pair(o.tuple) = Pair(t)

\* A direct grant of the host is left alone or declared, or its removal is
\* still to come or among the failures.
DelAccounted(d, t) ==
  \/ Spared(d, t)
  \/ \E e \in Active : Domain(e) = Domain(d) /\ \E u \in Desired(e) : Pair(u) = t
  \/ \E o \in todo \cup flight \cup failed :
       ~o.put /\ o.dom = Domain(d) /\ Pair(o.tuple) = t

Accounted ==
  quiet =>
    /\ \A d \in Active : \A t \in Desired(d) : PutAccounted(d, t)
    /\ \A d \in Active : Domain(d) \in Ids =>
         \A t \in Owned(Domain(d), rows) : DelAccounted(d, t)
    /\ pc \in {"resources", "domains"} => failed = {}

\* What is still to be written keeps accounting for the same grants.
LEMMA StaysAccounted ==
  ASSUME UNCHANGED <<config, state, rows, todo, flight>>, failed \subseteq failed', NEW d
  PROVE  /\ \A t : PutAccounted(d, t) => PutAccounted(d, t)'
         /\ \A t : DelAccounted(d, t) => DelAccounted(d, t)'
         /\ Owned(Domain(d), rows)' = Owned(Domain(d), rows)
<1>1. Active' = Active /\ \A e : Domain(e)' = Domain(e) /\ Desired(e)' = Desired(e)
  BY Views
<1>2. \A o : AimsAt(o, d)' = AimsAt(o, d)
  BY <1>1 DEF AimsAt
<1>3. /\ Effective(Domain(d), rows)' = Effective(Domain(d), rows)
      /\ Owned(Domain(d), rows)' = Owned(Domain(d), rows)
  BY <1>1 DEF Effective, Owned, Pair
<1>4. ASSUME NEW t, PutAccounted(d, t) PROVE PutAccounted(d, t)'
  BY <1>1, <1>2, <1>3, <1>4 DEF PutAccounted, Pair
<1>5. ASSUME NEW t, DelAccounted(d, t) PROVE DelAccounted(d, t)'
  BY <1>1, <1>5 DEF DelAccounted, Pair, Spared
<1> QED BY <1>3, <1>4, <1>5

\* A plan accounts for every difference.
LEMMA PlanAccounts == ASSUME Inv, Plan PROVE Accounted'
<1>1. /\ ~Rejected /\ todo' = Ops /\ failed' = {}
      /\ UNCHANGED <<config, state, alive, nextId, rows, flight>> /\ TypeOK
  BY DEF Plan, hostVars, Inv
<1>2. Active' = Active /\ \A e : Domain(e)' = Domain(e) /\ Desired(e)' = Desired(e)
  BY <1>1, Views
<1>3. ASSUME NEW d \in Active
      PROVE  /\ Effective(Domain(d), rows)' = Effective(Domain(d), rows)
             /\ Owned(Domain(d), rows)' = Owned(Domain(d), rows)
  BY <1>1, <1>2 DEF Effective, Owned, Pair
<1>4. ASSUME NEW d \in Active, NEW t \in Desired(d) PROVE PutAccounted(d, t)'
  <2>1. CASE Domain(d) \in Ids /\ Pair(t) \in Effective(Domain(d), rows)
    BY <1>2, <1>3, <2>1 DEF PutAccounted, Pair
  <2>2. CASE Domain(d) \in Keys \/ Pair(t) \notin Effective(Domain(d), rows)
    <3>1. PICK o : o = [put |-> TRUE, dom |-> Domain(d), tuple |-> t]
      OBVIOUS
    <3>2. o \in OpsOf(d, rows)
      BY <2>2, <3>1 DEF OpsOf, Puts
    <3>3. o \in todo'
      BY <1>1, <3>2 DEF Ops
    <3>4. AimsAt(o, d)'
      BY <1>1, <1>2, <3>1, AcceptedDomain DEF AimsAt
    <3> QED BY <3>1, <3>3, <3>4 DEF PutAccounted
  <2> QED BY <1>1, <2>1, <2>2, AcceptedDomain
<1>5. ASSUME NEW d \in Active, NEW t \in Owned(Domain(d), rows) PROVE DelAccounted(d, t)'
  <2>1. CASE Spared(d, t)
    BY <1>1, <2>1 DEF DelAccounted, Spared
  <2>2. CASE t \in {Pair(u) : u \in Desired(d)}
    BY <1>2, <2>2 DEF DelAccounted, Pair
  <2>3. CASE ~Spared(d, t) /\ t \notin {Pair(u) : u \in Desired(d)}
    <3>1. PICK o : o = [put |-> FALSE, dom |-> Domain(d),
                        tuple |-> [right |-> t.right, data |-> t.data, key |-> None]]
      OBVIOUS
    <3>2. t \in Dels(d, rows)
      BY <2>3 DEF Dels
    <3>3. o \in OpsOf(d, rows)
      BY <3>1, <3>2 DEF OpsOf
    <3>4. o \in todo'
      BY <1>1, <3>3 DEF Ops
    <3>5. t = Pair(o.tuple)
      BY <3>1 DEF Owned, Pair
    <3> QED BY <1>2, <3>1, <3>4, <3>5 DEF DelAccounted, Pair
  <2> QED BY <2>1, <2>2, <2>3
<1> QED BY <1>1, <1>2, <1>3, <1>4, <1>5 DEF Accounted

\* A new group or campus turns no planned write into another one.
LEMMA CreateAccounts ==
  ASSUME Inv, Accounted, NEW k \in Keys, Create(k)
  PROVE  Accounted'
<1> SUFFICES ASSUME quiet' PROVE Accounted'
  BY DEF Accounted
<1>1. PICK b \in Baseline :
        rows' = rows \cup {[dom |-> nextId, right |-> b.right, data |-> NoData,
                            type |-> "grant", prov |-> b.prov]}
  BY DEF Create
<1>2. b.prov # "direct"
  BY CatalogAssumption
<1>3. /\ pc = "resources" /\ pc' = "resources" /\ quiet /\ state[k] = None
      /\ UNCHANGED <<config, todo, flight, failed>> /\ TypeOK /\ Older
  BY DEF Create, Inv
<1>4. flight = {} /\ failed = {}
  BY <1>3 DEF Inv, Course, Accounted
<1>5. k \in Declared /\ nextId \in Ids /\ Active' = Active
  BY <1>3, CreateFacts
<1>6. ASSUME NEW d \in Active
      PROVE  \/ config[d].target.form = "ref" /\ config[d].target.of = k
                /\ Domain(d) = k /\ Domain(d)' = nextId
             \/ (config[d].target.form = "num" \/ config[d].target.of # k)
                /\ Domain(d)' = Domain(d)
  <2>1. Resolve(k).data = k
    BY <1>3, <1>5, ResolveFacts
  <2>2. config[d].target.form \in {"ref", "num"}
    BY <1>3, DeclFacts
  <2>3. config[d].target.form = "ref" => Domain(d) = Resolve(config[d].target.of).data
    BY DEF Domain
  <2> QED BY <1>3, <2>1, <2>2, <2>3, CreateDomain
<1>7. ASSUME NEW d \in Active, Domain(d) \in Ids
      PROVE  /\ Domain(d)' = Domain(d)
             /\ Effective(Domain(d), rows) \subseteq Effective(Domain(d), rows)'
  <2>1. Domain(d)' = Domain(d)
    BY <1>6, <1>7, Apart
  <2> QED BY <1>1, <2>1 DEF Effective, Pair
<1>8. ASSUME NEW r \in rows PROVE r.data \notin Keys
  BY <1>3, Apart DEF TypeOK, Row, Datas
<1>9. ASSUME NEW d \in Active, NEW t \in Desired(d), t.key = k PROVE t.data = k
  <2>1. t.data = Resolve(k).data
    BY <1>3, <1>9, TupleFacts, Apart
  <2> QED BY <1>3, <1>5, <2>1, ResolveFacts
<1>10. ASSUME NEW d \in Active, NEW u \in Desired(d)' PROVE PutAccounted(d, u)'
  <2>1. PICK t \in Desired(d) :
          u.right = t.right /\ u.key = t.key /\ (t.key # k => u.data = t.data)
    BY <1>3, CreateTuple
  <2>2. PutAccounted(d, t)
    BY <1>3 DEF Accounted
  <2>3. CASE Domain(d) \in Ids /\ Pair(t) \in Effective(Domain(d), rows)
    <3>1. PICK r \in rows : Pair(t) = Pair(r)
      BY <2>3 DEF Effective
    <3>2. t.data \notin Keys
      BY <1>8, <3>1 DEF Pair
    <3>3. Pair(u) = Pair(t)
      BY <1>9, <2>1, <3>2 DEF Pair
    <3>4. Domain(d)' \in Ids /\ Pair(u) \in Effective(Domain(d), rows)'
      BY <1>7, <2>3, <3>3
    <3> QED BY <3>4 DEF PutAccounted, Pair
  <2>4. CASE \E o \in todo : /\ o.put /\ AimsAt(o, d)
                             /\ o.tuple.right = t.right /\ o.tuple.key = t.key
                             /\ t.key = None => o.tuple.data = t.data
    <3>1. PICK o \in todo : /\ o.put /\ AimsAt(o, d)
                            /\ o.tuple.right = t.right /\ o.tuple.key = t.key
                            /\ t.key = None => o.tuple.data = t.data
      BY <2>4
    <3>2. AimsAt(o, d)'
      BY <1>3, <1>7, <3>1 DEF AimsAt
    <3>3. u.key = None => o.tuple.data = u.data
      BY <2>1, <3>1, Apart
    <3> QED BY <1>3, <2>1, <3>1, <3>2, <3>3 DEF PutAccounted
  <2> QED BY <1>4, <2>2, <2>3, <2>4 DEF PutAccounted
<1>11. ASSUME NEW d \in Active, Domain(d)' \in Ids, NEW t \in Owned(Domain(d), rows)'
       PROVE  DelAccounted(d, t)'
  <2>1. PICK r \in rows' : /\ r.dom = Domain(d)' /\ r.type = "grant" /\ r.prov = "direct"
                           /\ t = Pair(r)
    BY <1>11 DEF Owned, Pair
  <2>2. r \in rows
    BY <1>1, <1>2, <2>1
  <2>3. r.dom # nextId
    <3>1. nextId \in Nat /\ r.dom < nextId
      BY <1>3, <2>2 DEF TypeOK, Older
    <3> QED BY <3>1
  <2>4. Domain(d)' = Domain(d) /\ Domain(d) \in Ids
    BY <1>6, <1>11, <2>1, <2>3
  <2>5. t \in Owned(Domain(d), rows)
    BY <2>1, <2>2, <2>4 DEF Owned
  <2>6. DelAccounted(d, t)
    BY <1>3, <2>4, <2>5 DEF Accounted
  <2>7. CASE Spared(d, t)
    BY <1>3, <2>7 DEF DelAccounted, Spared
  <2>8. CASE \E e \in Active : Domain(e) = Domain(d) /\ \E u \in Desired(e) : Pair(u) = t
    <3>1. PICK e \in Active : Domain(e) = Domain(d) /\ \E u \in Desired(e) : Pair(u) = t
      BY <2>8
    <3>2. PICK u \in Desired(e) : Pair(u) = t
      BY <3>1
    <3>3. u.key # k
      BY <1>8, <1>9, <2>1, <2>2, <3>2 DEF Pair
    <3>4. PICK v \in Desired(e)' : v.right = u.right /\ v.data = u.data
      BY <1>3, <3>3, CreateTuple
    <3>5. Pair(v) = t /\ Domain(e)' = Domain(d)'
      BY <1>7, <2>4, <3>1, <3>2, <3>4 DEF Pair
    <3> QED BY <1>5, <3>5 DEF DelAccounted, Pair
  <2>9. CASE \E o \in todo \cup flight \cup failed :
               ~o.put /\ o.dom = Domain(d) /\ Pair(o.tuple) = t
    BY <1>3, <2>4, <2>9 DEF DelAccounted, Pair
  <2> QED BY <2>6, <2>7, <2>8, <2>9 DEF DelAccounted
<1> QED BY <1>3, <1>4, <1>5, <1>10, <1>11 DEF Accounted

\* Completing a domain and handing a write to a worker change what it names,
\* not what it is for.
LEMMA DomainsAccount == ASSUME Inv, Accounted, DomainsDone PROVE Accounted'
<1> SUFFICES ASSUME quiet' PROVE Accounted'
  BY DEF Accounted
<1>1. /\ pc' = "write" /\ quiet /\ todo' = {Complete(o) : o \in todo}
      /\ UNCHANGED <<config, state, rows, flight, failed>> /\ TypeOK
  BY DEF DomainsDone, hostVars, Inv
<1>2. Active' = Active /\ \A e : Domain(e)' = Domain(e) /\ Desired(e)' = Desired(e)
  BY <1>1, Views
<1>3. \A d : /\ Effective(Domain(d), rows)' = Effective(Domain(d), rows)
             /\ Owned(Domain(d), rows)' = Owned(Domain(d), rows)
  BY <1>1, <1>2 DEF Effective, Owned, Pair
<1>4. ASSUME NEW o \in todo
      PROVE  \E c \in todo' : /\ c.put = o.put /\ c.tuple = o.tuple
                              /\ o.dom \in Ids => c.dom = o.dom
                              /\ o.dom \in Keys => c.dom = state[o.dom] /\ c.dom \in Ids
  <2>1. PICK c : c = Complete(o)
    OBVIOUS
  <2>2. c \in todo' /\ o \in Op
    BY <1>1, <2>1 DEF TypeOK
  <2>3. CASE o.dom \in Keys
    <3>1. state[o.dom] \in Ids
      BY <1>1, <2>3 DEF DomainsDone, Pending, TypeOK
    <3>2. c = [o EXCEPT !.dom = state[o.dom]]
      BY <2>1, <2>3 DEF Complete
    <3> QED BY <2>2, <2>3, <3>1, <3>2, Apart DEF Op
  <2>4. CASE o.dom \notin Keys
    BY <2>1, <2>2, <2>4 DEF Complete
  <2> QED BY <2>3, <2>4
<1>5. ASSUME NEW d \in Active, NEW o \in todo, AimsAt(o, d), NEW c,
             o.dom \in Ids => c.dom = o.dom,
             o.dom \in Keys => c.dom = state[o.dom] /\ c.dom \in Ids
      PROVE  AimsAt(c, d)'
  <2>1. CASE o.dom \in Ids /\ o.dom = Domain(d)
    BY <1>2, <1>5, <2>1 DEF AimsAt
  <2>2. CASE o.dom \in Keys /\ config[d].target.form = "ref" /\ config[d].target.of = o.dom
    <3>1. Domain(d) = Resolve(o.dom).data
      BY <2>2 DEF Domain
    <3>2. Resolve(o.dom).data = state[o.dom]
      BY <1>1, <1>5, <2>2, ResolveFacts, Apart
    <3> QED BY <1>2, <1>5, <2>2, <3>1, <3>2 DEF AimsAt
  <2> QED BY <1>5, <2>1, <2>2 DEF AimsAt
<1>6. ASSUME NEW d \in Active, NEW t \in Desired(d) PROVE PutAccounted(d, t)'
  <2>1. PutAccounted(d, t)
    BY <1>1 DEF Accounted
  <2>2. CASE Domain(d) \in Ids /\ Pair(t) \in Effective(Domain(d), rows)
    BY <1>2, <1>3, <2>2 DEF PutAccounted, Pair
  <2>3. CASE \E o \in todo : /\ o.put /\ AimsAt(o, d)
                             /\ o.tuple.right = t.right /\ o.tuple.key = t.key
                             /\ t.key = None => o.tuple.data = t.data
    <3>1. PICK o \in todo : /\ o.put /\ AimsAt(o, d)
                            /\ o.tuple.right = t.right /\ o.tuple.key = t.key
                            /\ t.key = None => o.tuple.data = t.data
      BY <2>3
    <3>2. PICK c \in todo' : /\ c.put = o.put /\ c.tuple = o.tuple
                             /\ o.dom \in Ids => c.dom = o.dom
                             /\ o.dom \in Keys => c.dom = state[o.dom] /\ c.dom \in Ids
      BY <1>4
    <3>3. AimsAt(c, d)'
      BY <1>5, <3>1, <3>2
    <3> QED BY <3>1, <3>2, <3>3 DEF PutAccounted
  <2>4. CASE \E o \in flight \cup failed :
               o.put /\ o.dom = Domain(d) /\ Pair(o.tuple) = Pair(t)
    BY <1>1, <1>2, <2>4 DEF PutAccounted, Pair
  <2> QED BY <2>1, <2>2, <2>3, <2>4 DEF PutAccounted
<1>7. ASSUME NEW d \in Active, Domain(d) \in Ids, NEW t \in Owned(Domain(d), rows)
      PROVE  DelAccounted(d, t)'
  <2>1. DelAccounted(d, t)
    BY <1>1, <1>7 DEF Accounted
  <2>2. CASE \E o \in todo : ~o.put /\ o.dom = Domain(d) /\ Pair(o.tuple) = t
    <3>1. PICK o \in todo : ~o.put /\ o.dom = Domain(d) /\ Pair(o.tuple) = t
      BY <2>2
    <3>2. PICK c \in todo' : ~c.put /\ c.tuple = o.tuple /\ c.dom = Domain(d)'
      BY <1>2, <1>4, <1>7, <3>1
    <3> QED BY <3>1, <3>2 DEF DelAccounted, Pair
  <2> QED BY <1>1, <1>2, <2>1, <2>2 DEF DelAccounted, Pair, Spared
<1> QED BY <1>1, <1>2, <1>3, <1>6, <1>7 DEF Accounted

LEMMA DispatchAccounts ==
  ASSUME Inv, Accounted, NEW o \in todo, Dispatch(o)
  PROVE  Accounted'
<1> SUFFICES ASSUME quiet' PROVE Accounted'
  BY DEF Accounted
<1>1. PICK b : b = Body(o)
  OBVIOUS
<1>2. /\ pc = "write" /\ pc' = "write" /\ quiet /\ creates = {}
      /\ todo' = todo \ {o} /\ flight' = flight \cup {b}
      /\ UNCHANGED <<config, state, rows, failed>> /\ TypeOK
      /\ o \in Op /\ o.dom \in Ids
  BY <1>1 DEF Dispatch, hostVars, Inv, TypeOK, Course
<1>3. Active' = Active /\ \A e : Domain(e)' = Domain(e) /\ Desired(e)' = Desired(e)
  BY <1>2, Views
<1>4. \A d : /\ Effective(Domain(d), rows)' = Effective(Domain(d), rows)
             /\ Owned(Domain(d), rows)' = Owned(Domain(d), rows)
             /\ \A p : AimsAt(p, d)' = AimsAt(p, d)
  BY <1>2, <1>3 DEF Effective, Owned, Pair, AimsAt
<1>5. ASSUME NEW d \in Active, NEW t \in Desired(d) PROVE PutAccounted(d, t)'
  <2>1. PutAccounted(d, t)
    BY <1>2 DEF Accounted
  <2>2. CASE Domain(d) \in Ids /\ Pair(t) \in Effective(Domain(d), rows)
    BY <1>3, <1>4, <2>2 DEF PutAccounted, Pair
  <2>3. CASE /\ o.put /\ AimsAt(o, d)
             /\ o.tuple.right = t.right /\ o.tuple.key = t.key
             /\ t.key = None => o.tuple.data = t.data
    <3>1. o.dom = Domain(d)
      BY <1>2, <2>3, Apart DEF AimsAt
    <3>2. CASE t.key = None
      <4>1. b = o /\ Pair(o.tuple) = Pair(t)
        BY <1>1, <2>3, <3>2 DEF Body, Pair
      <4> QED BY <1>2, <1>3, <2>3, <3>1, <4>1 DEF PutAccounted, Pair
    <3>3. CASE t.key # None
      <4>1. t.key \in Keys /\ t.data = Resolve(t.key).data /\ Resolve(t.key).key = t.key
        BY <1>2, <3>3, TupleFacts
      <4>2. state[t.key] # None
        BY <1>2, <3>3, <4>1, ResolveFacts DEF Inv, Course
      <4>3. t.data = state[t.key]
        BY <1>2, <4>1, <4>2, ResolveFacts
      <4>4. b = [o EXCEPT !.tuple.data = state[t.key]]
        BY <1>1, <2>3, <3>3 DEF Body
      <4>5. b.put /\ b.dom = o.dom /\ Pair(b.tuple) = Pair(t)
        BY <1>2, <2>3, <4>3, <4>4 DEF Op, Tuple, Pair
      <4> QED BY <1>2, <1>3, <3>1, <4>5 DEF PutAccounted, Pair
    <3> QED BY <3>2, <3>3
  <2>4. CASE \E p \in todo' : /\ p.put /\ AimsAt(p, d)
                              /\ p.tuple.right = t.right /\ p.tuple.key = t.key
                              /\ t.key = None => p.tuple.data = t.data
    BY <1>4, <2>4 DEF PutAccounted
  <2>5. CASE \E p \in flight \cup failed :
               p.put /\ p.dom = Domain(d) /\ Pair(p.tuple) = Pair(t)
    BY <1>2, <1>3, <2>5 DEF PutAccounted, Pair
  <2> QED BY <1>2, <2>1, <2>2, <2>3, <2>4, <2>5 DEF PutAccounted
<1>6. ASSUME NEW d \in Active, Domain(d) \in Ids, NEW t \in Owned(Domain(d), rows)
      PROVE  DelAccounted(d, t)'
  <2>1. DelAccounted(d, t)
    BY <1>2, <1>6 DEF Accounted
  <2>2. ~o.put => b = o
    BY <1>1 DEF Body
  <2> QED BY <1>2, <1>3, <2>1, <2>2 DEF DelAccounted, Pair, Spared
<1> QED BY <1>2, <1>3, <1>4, <1>5, <1>6 DEF Accounted

\* A write carried out is done; one that failed, or whose answer never came,
\* is among the failures.
LEMMA AnswerAccounts ==
  ASSUME Inv, Accounted, NEW o \in flight, Write(o) \/ WriteFails(o) \/ WriteLost(o)
  PROVE  Accounted'
<1> SUFFICES ASSUME quiet' PROVE Accounted'
  BY DEF Accounted
<1>1. /\ pc = "write" /\ pc' = "write" /\ quiet /\ flight' = flight \ {o}
      /\ UNCHANGED <<config, state, todo>> /\ TypeOK
      /\ \/ rows' = Served({o}) /\ failed' \in {failed, failed \cup {o}}
         \/ rows' = rows /\ failed' = failed \cup {o}
  BY DEF Write, WriteFails, WriteLost, Answered, hostVars, Inv
<1>2. FlightDue(o) /\ DelDue(o)
  BY DEF Inv, Course
<1>3. Active' = Active /\ \A e : Domain(e)' = Domain(e) /\ Desired(e)' = Desired(e)
  BY <1>1, Views
<1>4. \A d, p : AimsAt(p, d)' = AimsAt(p, d)
  BY <1>1, <1>3 DEF AimsAt
<1>5. /\ \A r \in rows : r \in rows' \/ (~o.put /\ r = RowOf(o))
      /\ \A r \in rows' : r \in rows \/ (o.put /\ r = RowOf(o))
  BY <1>1 DEF Served
<1>6. o \in failed' \/ (rows' = Served({o}) /\ (o.put => RowOf(o) \in rows')
                                            /\ (~o.put => RowOf(o) \notin rows'))
  BY <1>1 DEF Served
<1>7. /\ RowOf(o).dom = o.dom /\ RowOf(o).type = "grant" /\ RowOf(o).prov = "direct"
      /\ Pair(RowOf(o)) = Pair(o.tuple)
  BY DEF RowOf, Pair
<1>8. ASSUME NEW d \in Active, NEW t \in Desired(d) PROVE PutAccounted(d, t)'
  <2>1. PutAccounted(d, t)
    BY <1>1 DEF Accounted
  <2>2. CASE Domain(d) \in Ids /\ Pair(t) \in Effective(Domain(d), rows)
    <3>1. PICK r \in rows : r.dom = Domain(d) /\ r.type = "grant" /\ Pair(t) = Pair(r)
      BY <2>2 DEF Effective
    <3>2. ~(~o.put /\ r = RowOf(o))
      BY <1>2, <1>7, <3>1 DEF DelDue
    <3>3. r \in rows'
      BY <1>5, <3>2
    <3>4. Domain(d)' \in Ids /\ (Pair(t) \in Effective(Domain(d), rows))'
      BY <1>3, <2>2, <3>1, <3>3 DEF Effective, Pair
    <3> QED BY <3>4 DEF PutAccounted
  <2>3. CASE \E p \in todo : /\ p.put /\ AimsAt(p, d)
                             /\ p.tuple.right = t.right /\ p.tuple.key = t.key
                             /\ t.key = None => p.tuple.data = t.data
    BY <1>1, <1>4, <2>3 DEF PutAccounted
  <2>4. CASE o.put /\ o.dom = Domain(d) /\ Pair(o.tuple) = Pair(t) /\ o \notin failed'
    <3>1. RowOf(o) \in rows' /\ Domain(d)' \in Ids
      BY <1>2, <1>3, <1>6, <2>4 DEF FlightDue
    <3>2. (Pair(t) \in Effective(Domain(d), rows))'
      BY <1>3, <1>7, <2>4, <3>1 DEF Effective, Pair
    <3> QED BY <3>1, <3>2 DEF PutAccounted
  <2>5. CASE \E p \in flight' \cup failed' :
               p.put /\ p.dom = Domain(d) /\ Pair(p.tuple) = Pair(t)
    BY <1>3, <2>5 DEF PutAccounted, Pair
  <2> QED BY <1>1, <2>1, <2>2, <2>3, <2>4, <2>5 DEF PutAccounted
<1>9. ASSUME NEW d \in Active, Domain(d) \in Ids, NEW t \in Owned(Domain(d), rows)'
      PROVE  DelAccounted(d, t)'
  <2>1. PICK r \in rows' : /\ r.dom = Domain(d) /\ r.type = "grant" /\ r.prov = "direct"
                           /\ t = Pair(r)
    BY <1>3, <1>9 DEF Owned, Pair
  <2>2. CASE r \notin rows
    <3>1. o.put /\ r = RowOf(o)
      BY <1>5, <2>1, <2>2
    <3>2. PICK e \in Active : o.dom = Domain(e) /\ \E u \in Desired(e) :
            Pair(u) = Pair(o.tuple) /\ Concrete(u)
      BY <1>2, <3>1 DEF FlightDue
    <3>3. Domain(e)' = Domain(d)' /\ \E u \in Desired(e)' : Pair(u) = t
      BY <1>3, <1>7, <2>1, <3>1, <3>2
    <3> QED BY <1>3, <3>3 DEF DelAccounted, Pair
  <2>3. CASE r \in rows
    <3>1. t \in Owned(Domain(d), rows)
      BY <2>1, <2>3 DEF Owned
    <3>2. DelAccounted(d, t)
      BY <1>1, <1>9, <3>1 DEF Accounted
    <3>3. CASE ~o.put /\ o.dom = Domain(d) /\ Pair(o.tuple) = t
      <4>1. r = RowOf(o)
        <5>1. r \in Row
          BY <1>1, <2>3 DEF TypeOK
        <5> QED BY <2>1, <3>3, <5>1 DEF RowOf, Row, Pair
      <4>2. o \in failed'
        BY <1>6, <2>1, <3>3, <4>1
      <4> QED BY <1>3, <3>3, <4>2 DEF DelAccounted, Pair
    <3>4. CASE \E p \in todo' \cup flight' \cup failed' :
                 ~p.put /\ p.dom = Domain(d) /\ Pair(p.tuple) = t
      BY <1>3, <3>4 DEF DelAccounted, Pair
    <3>5. CASE Spared(d, t)
      BY <1>1, <3>5 DEF DelAccounted, Spared
    <3>6. CASE \E e \in Active : Domain(e) = Domain(d) /\ \E u \in Desired(e) : Pair(u) = t
      BY <1>3, <3>6 DEF DelAccounted, Pair
    <3> QED BY <1>1, <3>2, <3>3, <3>4, <3>5, <3>6 DEF DelAccounted
  <2> QED BY <2>2, <2>3
<1>10. \A d \in Active : Domain(d)' = Domain(d) /\ Desired(d)' = Desired(d)
  BY <1>3
<1> QED BY <1>1, <1>3, <1>8, <1>9, <1>10 DEF Accounted

\* A step that leaves the writes and the rows alone accounts for the same.
LEMMA RestAccounts ==
  ASSUME Inv, Accounted, ResourcesDone \/ Finish \/ UNCHANGED vars
  PROVE  Accounted'
<1>1. /\ UNCHANGED <<config, state, rows, todo, flight, failed, quiet>>
      /\ pc' \in {"resources", "domains"} => pc \in {"resources", "domains"}
  BY DEF ResourcesDone, Finish, End, hostVars, vars
<1>2. Active' = Active /\ \A d : Domain(d)' = Domain(d) /\ Desired(d)' = Desired(d)
  BY <1>1, Views
<1> QED BY <1>1, <1>2, StaysAccounted DEF Accounted

LEMMA AccountsStep == Inv /\ Accounted /\ [Next]_vars => Accounted'
<1> SUFFICES ASSUME Inv, Accounted, [Next]_vars PROVE Accounted'
  OBVIOUS
<1>1. CASE DomainFails \/ ResourceFails \/ Crash \/ Outside
  <2>1. quiet' = FALSE
    BY <1>1 DEF DomainFails, ResourceFails, Crash, Outside, EditConfig, AdoptOne, AdoptBulk,
                NewBlock, UiToggle, UiDelete, Edited
  <2> QED BY <2>1 DEF Accounted
<1>2. CASE Work
  BY <1>1, <1>2, CreateAccounts, DomainsAccount, DispatchAccounts, AnswerAccounts, RestAccounts
     DEF Work
<1> QED BY <1>1, <1>2, PlanAccounts, AnswerAccounts, RestAccounts DEF Next

\* However the writes of an apply end, once it has run undisturbed to its end
\* the next plan holds writes of it that failed, and nothing else.
THEOREM ResumeAlwaysExact == Spec => []ResumeIsExact
<1>1. Init => Accounted
  BY DEF Init, Accounted
<1>2. Inv /\ Accounted => ResumeIsExact
  <2> SUFFICES ASSUME Inv, Accounted, quiet, pc = "idle", ~Rejected, NEW o \in Ops
               PROVE  \E p \in failed : Bare(p) = Bare(o)
    BY DEF ResumeIsExact
  <2>1. todo = {} /\ flight = {} /\ TypeOK
    BY DEF Inv, Course
  <2>2. PICK d \in Active : o \in OpsOf(d, rows)
    BY DEF Ops
  <2>3. CASE o.put
    <3>1. PICK t \in Puts(d, rows) : o = [put |-> TRUE, dom |-> Domain(d), tuple |-> t]
      BY <2>2, <2>3 DEF OpsOf
    <3>2. PutAccounted(d, t)
      BY <3>1 DEF Accounted, Puts
    <3>3. ~(Domain(d) \in Ids /\ Pair(t) \in Effective(Domain(d), rows))
      BY <3>1, Apart DEF Puts
    <3>4. PICK p \in failed : p.put /\ p.dom = Domain(d) /\ Pair(p.tuple) = Pair(t)
      BY <2>1, <3>2, <3>3 DEF PutAccounted
    <3>5. p.put = TRUE
      BY <2>1, <3>4 DEF TypeOK, Op
    <3> QED BY <3>1, <3>4, <3>5 DEF Bare, Pair
  <2>4. CASE ~o.put
    <3>1. PICK t \in Dels(d, rows) :
            o = [put |-> FALSE, dom |-> Domain(d),
                 tuple |-> [right |-> t.right, data |-> t.data, key |-> None]]
      BY <2>2, <2>4 DEF OpsOf
    <3>2. /\ t \in Owned(Domain(d), rows) /\ ~Spared(d, t)
          /\ t \notin {Pair(u) : u \in Desired(d)}
      BY <3>1 DEF Dels
    <3>3. Domain(d) \in Ids
      BY <2>1, <3>2 DEF Owned, TypeOK, Row
    <3>4. DelAccounted(d, t)
      BY <3>2, <3>3 DEF Accounted
    <3>5. ~\E e \in Active : Domain(e) = Domain(d) /\ \E u \in Desired(e) : Pair(u) = t
      BY <3>2 DEF Rejected
    <3>6. PICK p \in failed : ~p.put /\ p.dom = Domain(d) /\ Pair(p.tuple) = t
      BY <2>1, <3>2, <3>4, <3>5 DEF DelAccounted
    <3>7. p.put = FALSE
      BY <2>1, <3>6 DEF TypeOK, Op
    <3> QED BY <3>1, <3>6, <3>7 DEF Bare, Pair
  <2> QED BY <2>3, <2>4
<1> QED BY <1>1, <1>2, AccountsStep, Stays, PTL DEF Spec

--------------------------------------------------------------------------------
(* The way back: an adopted block declares what it was adopted from.        *)

\* The reference written for an id resolves to it again.
LEMMA EntryResolves ==
  ASSUME TypeOK, NEW field, NEW id \in Ids \cup {All}
  PROVE  Scope(EntryFor(field, id)).data = id
<1>1. CASE Holder(field, id) = {}
  BY <1>1 DEF EntryFor, Scope
<1>2. CASE Holder(field, id) # {}
  <2> DEFINE k == CHOOSE k \in Holder(field, id) : TRUE
  <2>1. k \in Keys /\ state[k] = id
    BY <1>2 DEF Holder
  <2>2. EntryFor(field, id).form # "num" /\ EntryFor(field, id).of = k
    BY <1>2 DEF EntryFor
  <2> HIDE DEF k
  <2>3. Scope(EntryFor(field, id)) = Resolve(k)
    BY <2>2 DEF Scope
  <2> QED BY <2>1, <2>3, ResolveFacts, Apart
<1> QED BY <1>1, <1>2

LEMMA EntryTyped ==
  ASSUME NEW field, NEW id \in Ids \cup {All} PROVE EntryFor(field, id) \in Entry
<1>1. Holder(field, id) # {} => (CHOOSE k \in Holder(field, id) : TRUE) \in Keys
  BY DEF Holder
<1> QED BY <1>1 DEF EntryFor, Entry

\* The block declares the grants it expresses, no more and no fewer.
LEMMA BlockMeans ==
  ASSUME None \notin SUBSET Entry, TypeOK, NEW x \in alive, NEW d, NEW target,
         config'[d] = Block(x, target), UNCHANGED <<state, rows>>
  PROVE  {Pair(t) : t \in Desired(d)'} = Expressed(x)
<1> DEFINE Made(g, e) == [right |-> g.right, data |-> Scope(e).data, key |-> Scope(e).key]
<1>1. Desired(d)' = UNION {Tuples(g)' : g \in Grants(x)}
  BY DEF Desired, Block
<1>2. \A e : Scope(e)' = Scope(e)
  BY DEF Scope, Resolve
<1>3. \A g : Tuples(g)' = Tuples(g)
  BY <1>2 DEF Tuples
<1>4. ASSUME NEW t \in Expressed(x)
      PROVE  /\ t = Pair(t) /\ ~HostMissing(t.right)
             /\ ScopeField[t.right] = None => t.data = NoData
             /\ ScopeField[t.right] # None => t.data \in Ids \cup {All}
  <2>1. PICK r \in rows : t = [right |-> r.right, data |-> r.data]
    BY <1>4 DEF Expressed, Effective, Pair
  <2>2. r.data \in Datas
    BY <2>1 DEF TypeOK, Row
  <2>3. t \in Effective(x, rows) /\ t \notin Omitted(x)
    BY <1>4 DEF Expressed
  <2>4. t.right \in Host /\ (ScopeField[t.right] = None) = (t.data = NoData)
    BY <2>3 DEF Omitted
  <2> QED BY <2>1, <2>2, <2>4 DEF Datas, HostMissing, Pair
<1> DEFINE Named(r) == {EntryFor(ScopeField[r], t.data) : t \in {u \in Expressed(x) : u.right = r}}
           Grant(r) == [right |-> r, scope |-> IF ScopeField[r] = None THEN None ELSE Named(r)]
<1>5. Grants(x) = {Grant(r) : r \in {t.right : t \in Expressed(x)}}
  BY DEF Grants
<1>6. ASSUME NEW r \in {t.right : t \in Expressed(x)}, ScopeField[r] = None
      PROVE  Tuples(Grant(r)) = {[right |-> r, data |-> NoData, key |-> None]}
  BY <1>4, <1>6 DEF Tuples
<1>7. ASSUME NEW r \in {t.right : t \in Expressed(x)}, ScopeField[r] # None
      PROVE  Tuples(Grant(r)) = {Made(Grant(r), e) : e \in Named(r)}
  <2>1. Named(r) # None
    <3>1. ASSUME NEW t \in Expressed(x), t.right = r
          PROVE  EntryFor(ScopeField[r], t.data) \in Entry
      BY <1>4, <1>7, <3>1, EntryTyped
    <3> QED BY <3>1
  <2> QED BY <1>4, <1>7, <2>1 DEF Tuples
<1>8. ASSUME NEW u \in Desired(d)' PROVE Pair(u) \in Expressed(x)
  <2>1. PICK r \in {t.right : t \in Expressed(x)} : u \in Tuples(Grant(r))
    BY <1>1, <1>3, <1>5
  <2>2. CASE ScopeField[r] = None
    <3>1. PICK t \in Expressed(x) : t.right = r
      BY <2>1
    <3>2. t.data = NoData /\ t = Pair(t)
      BY <1>4, <2>2, <3>1
    <3>3. Pair(u) = t
      BY <1>6, <2>1, <2>2, <3>1, <3>2 DEF Pair
    <3> QED BY <3>3
  <2>3. CASE ScopeField[r] # None
    <3>1. PICK e \in Named(r) : u = Made(Grant(r), e)
      BY <1>7, <2>1, <2>3
    <3>2. PICK t \in Expressed(x) : t.right = r /\ e = EntryFor(ScopeField[r], t.data)
      BY <3>1
    <3>3. Scope(e).data = t.data /\ t = Pair(t)
      BY <1>4, <2>3, <3>2, EntryResolves
    <3>4. Pair(u) = t
      BY <3>1, <3>2, <3>3 DEF Pair
    <3> QED BY <3>4
  <2> QED BY <2>2, <2>3
<1>9. ASSUME NEW t \in Expressed(x) PROVE \E u \in Desired(d)' : Pair(u) = t
  <2> DEFINE r == t.right
  <2>1. Grant(r) \in Grants(x)
    BY <1>5
  <2>2. Tuples(Grant(r)) \subseteq Desired(d)'
    BY <1>1, <1>3, <2>1
  <2>3. t = Pair(t)
    BY <1>4
  <2>4. CASE ScopeField[r] = None
    <3>1. [right |-> r, data |-> NoData, key |-> None] \in Desired(d)'
      BY <1>6, <2>2, <2>4
    <3>2. t.data = NoData
      BY <1>4, <2>4
    <3> QED BY <2>3, <3>1, <3>2 DEF Pair
  <2>5. CASE ScopeField[r] # None
    <3> DEFINE e == EntryFor(ScopeField[r], t.data)
    <3>1. e \in Named(r)
      OBVIOUS
    <3>2. Made(Grant(r), e) \in Desired(d)'
      BY <1>7, <2>2, <2>5, <3>1
    <3>3. Scope(e).data = t.data
      BY <1>4, <2>5, EntryResolves
    <3> HIDE DEF e
    <3>4. Pair(Made(Grant(r), e)) = t
      BY <2>3, <3>3 DEF Pair
    <3> QED BY <3>2, <3>4
  <2> QED BY <2>4, <2>5
<1> QED BY <1>8, <1>9

\* The host that records every row as a direct one grants the same.
LEMMA AllDirectSame ==
  ASSUME NEW x, rows \subseteq Row
  PROVE  /\ Effective(x, AllDirect(rows)) = Effective(x, rows)
         /\ Owned(x, AllDirect(rows)) \subseteq Effective(x, rows)
         /\ Owned(x, rows) \subseteq Effective(x, rows)
<1>1. ASSUME NEW r \in rows
      PROVE  /\ [r EXCEPT !.prov = "direct"].dom = r.dom
             /\ [r EXCEPT !.prov = "direct"].type = r.type
             /\ Pair([r EXCEPT !.prov = "direct"]) = Pair(r)
  BY DEF Row, Pair
<1>2. Effective(x, AllDirect(rows)) \subseteq Effective(x, rows)
  BY <1>1 DEF Effective, AllDirect
<1>3. Effective(x, rows) \subseteq Effective(x, AllDirect(rows))
  BY <1>1 DEF Effective, AllDirect
<1>4. \A rs : Owned(x, rs) \subseteq Effective(x, rs)
  BY DEF Owned, Effective
<1> QED BY <1>2, <1>3, <1>4

\* A block adopted with nothing left out plans nothing, neither here nor on a
\* host that grants the same by direct rows.  (None is no list of scopes.)
THEOREM AdoptionPlansNothing ==
  ASSUME None \notin SUBSET Entry PROVE Spec => AdoptedIsNoop
<1>1. ASSUME Inv, NEW d \in Decls, NEW x \in alive,
             AdoptBulk(d, x) \/ (AdoptOne(d, x) /\ Omitted(x) = {})
      PROVE  /\ (Puts(d, rows) = {} /\ Dels(d, rows) = {})'
             /\ (Puts(d, AllDirect(rows)) = {} /\ Dels(d, AllDirect(rows)) = {})'
  <2>1. PICK target \in {[form |-> "num", of |-> x]} \cup
                        {[form |-> "ref", of |-> k] : k \in Holder("group", x)} :
          NewBlock(d, x, target)
    BY <1>1 DEF AdoptBulk, AdoptOne
  <2>2. config'[d] = Block(x, target) /\ UNCHANGED <<state, rows>> /\ TypeOK
    BY <1>1, <2>1 DEF NewBlock, hostVars, Inv, TypeOK
  <2>3. Domain(d)' = x /\ x \in Ids
    <3>1. x \in Ids
      BY <2>2 DEF TypeOK
    <3>2. config'[d].target = target
      BY <2>2 DEF Block
    <3>3. CASE target = [form |-> "num", of |-> x]
      BY <3>2, <3>3, <3>1 DEF Domain
    <3>4. ASSUME NEW k \in Holder("group", x), target = [form |-> "ref", of |-> k]
          PROVE  Domain(d)' = x
      <4>1. k \in Keys /\ state[k] = x
        BY DEF Holder
      <4>2. Resolve(k)' = Resolve(k)
        BY <2>2 DEF Resolve
      <4>3. Resolve(k).data = x
        BY <2>2, <3>1, <4>1, ResolveFacts, Apart
      <4> QED BY <3>2, <3>4, <4>2, <4>3 DEF Domain
    <3> QED BY <2>1, <3>1, <3>3, <3>4
  <2>4. {Pair(t) : t \in Desired(d)'} = Effective(x, rows)
    <3>1. Omitted(x) = {}
      BY <1>1 DEF AdoptBulk
    <3> QED BY <2>2, <3>1, BlockMeans DEF Expressed
  <2>5. rows' = rows /\ rows \subseteq Row
    BY <2>2 DEF TypeOK
  <2>6. /\ Effective(x, AllDirect(rows)) = Effective(x, rows)
        /\ Owned(x, AllDirect(rows)) \subseteq Effective(x, rows)
        /\ Owned(x, rows) \subseteq Effective(x, rows)
    BY <2>5, AllDirectSame
  <2>7. /\ \A t \in Desired(d)' : Pair(t) \in Effective(x, rows)
        /\ \A u \in Effective(x, rows) : \E t \in Desired(d)' : u = Pair(t)
    BY <2>4
  <2>8. Domain(d)' \notin Keys
    BY <2>3, Apart
  <2>9. /\ Effective(Domain(d), rows)' = Effective(x, rows)
        /\ Owned(Domain(d), rows)' = Owned(x, rows)
    BY <2>3, <2>5 DEF Effective, Owned, Pair
  <2>10. AllDirect(rows)' = AllDirect(rows)
    BY <2>5 DEF AllDirect
  <2>11. /\ Effective(Domain(d), AllDirect(rows))' = Effective(x, AllDirect(rows))
         /\ Owned(Domain(d), AllDirect(rows))' = Owned(x, AllDirect(rows))
    BY <2>3, <2>10 DEF Effective, Owned, Pair
  <2>12. (Puts(d, rows) = {} /\ Dels(d, rows) = {})'
    BY <2>6, <2>7, <2>8, <2>9 DEF Puts, Dels, Pair
  <2>13. (Puts(d, AllDirect(rows)) = {} /\ Dels(d, AllDirect(rows)) = {})'
    BY <2>6, <2>7, <2>8, <2>11 DEF Puts, Dels, Pair
  <2> QED BY <2>12, <2>13
<1>2. Inv => [\A d \in Decls, x \in alive :
                AdoptBulk(d, x) \/ (AdoptOne(d, x) /\ Omitted(x) = {})
                  => /\ (Puts(d, rows) = {} /\ Dels(d, rows) = {})'
                     /\ (Puts(d, AllDirect(rows)) = {} /\ Dels(d, AllDirect(rows)) = {})']_vars
  BY <1>1
<1> QED BY <1>2, Stays, PTL DEF Spec, AdoptedIsNoop
=============================================================================
