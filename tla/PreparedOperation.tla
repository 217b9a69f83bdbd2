-------------------------- MODULE PreparedOperation --------------------------
(***************************************************************************)
(* Several ct operations on one state file.  apply and destroy work in two *)
(* phases: prepare (load the state, fetch, fingerprint the file, store the *)
(* proposal under an id) and execute (peek, confirm, lock, take, compare   *)
(* the fingerprint, write).  adopt, adopt group and state rm take the lock *)
(* first and load inside it.  Sources: application/prepared-operation-     *)
(* store.ts, ports.ts and operations/{plan,apply,destroy,adopt,            *)
(* adopt-group,state}.ts.                                                  *)
(*                                                                         *)
(* The content of the state file is the set of saves it includes: a save   *)
(* writes the operation's own copy, so it adds one and drops every other   *)
(* save the copy does not have.                                            *)
(***************************************************************************)
EXTENDS Naturals

CONSTANTS Ops,         \* the operations started on this state file
          TwoPhase,    \* those that are an apply or a destroy
          Procs,       \* ct processes
          ProcOf,      \* the process an operation runs in
          Locks,       \* mutation locks: fail-fast, each local to a process
          LockOf,      \* the lock an operation runs under
          Ttl,         \* lifetime of a proposal, NoTtl for none (the CLI)
          NoTtl,
          Free,        \* "nobody holds the lock"
          MaxSaves,    \* bound: saves of one apply or destroy
          MaxClock     \* bound: the clock

ASSUME OperationsAssumption ==
  /\ TwoPhase \subseteq Ops /\ Free \notin Ops
  /\ ProcOf \in [Ops -> Procs] /\ LockOf \in [Ops -> Locks]
  /\ Ttl \in [Ops -> Nat \cup {NoTtl}] /\ NoTtl \notin Nat
  /\ MaxSaves \in Nat \ {0} /\ MaxClock \in Nat

\* a lock object lives in one process
ASSUME LocksAreLocal ==
  \A o, p \in Ops : LockOf[o] = LockOf[p] => ProcOf[o] = ProcOf[p]

Saves == Ops \X (1 .. MaxSaves)
Own(o) == {o} \X (1 .. MaxSaves)

VARIABLES file,     \* the saves the state file includes
          clock,
          stage,    \* where each operation stands
          mem,      \* the saves each operation's copy includes
          print,    \* the content each fingerprint was taken of
          expires,  \* store: when each proposal expires
          used,     \* store: proposals taken
          active,   \* per lock: who runs under it
          saved,    \* how often each operation has saved
          runs,     \* history: how often each proposal was executed
          beside    \* history: what others wrote into the file while an operation
                    \* wrote, under another lock

opsVars == <<file, clock, stage, mem, print, expires, used, active, saved, runs,
             beside>>

Running(o) == stage[o] \in {"locked", "checking", "writing"}

Goto(o, s) == stage' = [stage EXCEPT ![o] = s]

--------------------------------------------------------------------------------
(* apply and destroy: prepare.                                              *)

\* loadState, at the start of planning
Load(o) ==
  /\ o \in TwoPhase /\ stage[o] = "new" /\ Goto(o, "loaded")
  /\ mem' = [mem EXCEPT ![o] = file]
  /\ UNCHANGED <<file, clock, print, expires, used, active, saved, runs, beside>>

\* after the fetches: fingerprint the file as it is now, store the proposal
Put(o) ==
  /\ stage[o] = "loaded" /\ Goto(o, "prepared")
  /\ print' = [print EXCEPT ![o] = file]
  /\ expires' = [expires EXCEPT ![o] =
                   IF Ttl[o] = NoTtl THEN NoTtl ELSE clock + Ttl[o]]
  /\ UNCHANGED <<file, clock, mem, used, active, saved, runs, beside>>

\* getEntry: unknown, used and expired proposals are refused
Usable(o) ==
  /\ stage[o] \notin {"new", "loaded"} /\ o \notin used
  /\ expires[o] # NoTtl => clock < expires[o]

\* the operator declines, or nobody confirms in time
Discard(o) ==
  /\ stage[o] = "prepared" /\ Goto(o, "done")
  /\ UNCHANGED <<file, clock, mem, print, expires, used, active, saved, runs, beside>>

--------------------------------------------------------------------------------
(* apply and destroy: execute.                                              *)

Acquire(o) == active[LockOf[o]] = Free /\ active' = [active EXCEPT ![LockOf[o]] = o]
Release(o) == active' = [active EXCEPT ![LockOf[o]] = Free]

\* mutated: the proposal is not taken
Begin_NotTaken(o) ==
  /\ o \in TwoPhase /\ Usable(o) /\ Acquire(o) /\ Goto(o, "checking")
  /\ runs' = [runs EXCEPT ![o] = @ + 1]
  /\ UNCHANGED <<file, clock, mem, print, expires, used, saved, beside>>

\* peek, confirm, lock and take: no await in between, one step.  A refused or
\* busy attempt throws and leaves everything as it was; it may be repeated.
Begin(o) ==
  /\ o \in TwoPhase /\ Usable(o) /\ Acquire(o) /\ Goto(o, "checking")
  /\ used' = used \cup {o} /\ runs' = [runs EXCEPT ![o] = @ + 1]
  /\ UNCHANGED <<file, clock, mem, print, expires, saved, beside>>

\* mutated: the fingerprints are not compared
Check_Unchecked(o) ==
  /\ stage[o] = "checking" /\ Goto(o, "writing")
  /\ UNCHANGED <<file, clock, mem, print, expires, used, active, saved, runs, beside>>

\* "The state file changed after this apply was prepared."
Check(o) ==
  /\ stage[o] = "checking" /\ file = print[o] /\ Goto(o, "writing")
  /\ UNCHANGED <<file, clock, mem, print, expires, used, active, saved, runs, beside>>

\* mutated: compared again and again instead of refused
Mismatch_Retries(o) ==
  /\ stage[o] = "checking" /\ file # print[o] /\ UNCHANGED opsVars

Mismatch(o) ==
  /\ stage[o] = "checking" /\ file # print[o] /\ Goto(o, "done") /\ Release(o)
  /\ UNCHANGED <<file, clock, mem, print, expires, used, saved, runs, beside>>

--------------------------------------------------------------------------------
(* adopt, adopt group, state rm: lock, then load.                           *)

Enter(o) ==
  /\ o \notin TwoPhase /\ stage[o] = "new" /\ Acquire(o) /\ Goto(o, "locked")
  /\ UNCHANGED <<file, clock, mem, print, expires, used, saved, runs, beside>>

LoadLocked(o) ==
  /\ stage[o] = "locked" /\ Goto(o, "writing")
  /\ mem' = [mem EXCEPT ![o] = file]
  /\ UNCHANGED <<file, clock, print, expires, used, active, saved, runs, beside>>

--------------------------------------------------------------------------------

\* saveState: the file becomes the operation's copy.  An apply or destroy saves
\* after every action, the others once.
Save(o) ==
  /\ stage[o] = "writing"
  /\ saved[o] < IF o \in TwoPhase THEN MaxSaves ELSE 1
  /\ saved' = [saved EXCEPT ![o] = @ + 1]
  /\ mem' = [mem EXCEPT ![o] = @ \cup {<<o, saved[o] + 1>>}]
  /\ file' = mem'[o]
  /\ beside' = [p \in Ops |-> IF stage[p] = "writing" /\ LockOf[p] # LockOf[o]
                              THEN beside[p] \cup file' ELSE beside[p]]
  /\ UNCHANGED <<clock, stage, print, expires, used, active, runs>>

\* It finished, or an item failed, or a guard of adopt or state rm refused.
End(o) ==
  /\ stage[o] \in {"locked", "writing"} /\ Goto(o, "done") /\ Release(o)
  /\ UNCHANGED <<file, clock, mem, print, expires, used, saved, runs, beside>>

\* The process dies: its store and its locks with it.
Crash(p) ==
  /\ \E o \in Ops : ProcOf[o] = p /\ stage[o] # "done"
  /\ stage' = [o \in Ops |-> IF ProcOf[o] = p THEN "done" ELSE stage[o]]
  /\ used' = used \cup {o \in Ops : ProcOf[o] = p}
  /\ active' = [l \in Locks |-> IF active[l] # Free /\ ProcOf[active[l]] = p
                                THEN Free ELSE active[l]]
  /\ UNCHANGED <<file, clock, mem, print, expires, saved, runs, beside>>

Tick ==
  /\ clock < MaxClock /\ clock' = clock + 1
  /\ UNCHANGED <<file, stage, mem, print, expires, used, active, saved, runs, beside>>

OpsInit ==
  /\ file = {} /\ clock = 0
  /\ stage = [o \in Ops |-> "new"]
  /\ mem = [o \in Ops |-> {}] /\ print = [o \in Ops |-> {}]
  /\ expires = [o \in Ops |-> NoTtl] /\ used = {}
  /\ active = [l \in Locks |-> Free]
  /\ saved = [o \in Ops |-> 0] /\ runs = [o \in Ops |-> 0]
  /\ beside = [o \in Ops |-> {}]

Step(o) ==
  \/ Load(o) \/ Put(o) \/ Discard(o) \/ Begin(o) \/ Check(o) \/ Mismatch(o)
  \/ Enter(o) \/ LoadLocked(o) \/ Save(o) \/ End(o)

OpsNext == Tick \/ (\E o \in Ops : Step(o)) \/ (\E p \in Procs : Crash(p))

OpsSpec == OpsInit /\ [][OpsNext]_opsVars

--------------------------------------------------------------------------------

\* Types of all variables.
OpsTypeOK ==
  /\ file \subseteq Saves /\ clock \in 0 .. MaxClock
  /\ stage \in [Ops -> {"new", "loaded", "prepared", "locked", "checking",
                        "writing", "done"}]
  /\ mem \in [Ops -> SUBSET Saves] /\ print \in [Ops -> SUBSET Saves]
  /\ expires \in [Ops -> Nat \cup {NoTtl}] /\ used \subseteq Ops
  /\ active \in [Locks -> Ops \cup {Free}]
  /\ saved \in [Ops -> 0 .. MaxSaves] /\ runs \in [Ops -> Nat]
  /\ beside \in [Ops -> SUBSET Saves]

\* A proposal is executed at most once, however often its id is presented and
\* whatever became of the first execution.
SingleUse == \A o \in Ops : runs[o] <= 1

\* Operations under one lock exclude each other from the lock to its release,
\* and a lock is never left behind by an operation that is over.
LockedAlone ==
  /\ \A o, p \in Ops : Running(o) /\ Running(p) /\ LockOf[o] = LockOf[p] => o = p
  /\ \A l \in Locks : active[l] # Free => Running(active[l])

\* What an apply or destroy saw too early: saved after it loaded the state and
\* before it took the fingerprint.
Window(o) == IF o \in TwoPhase THEN print[o] \ mem[o] ELSE {}

\* A save drops what other operations saved only if they did so between the
\* writer's load and its fingerprint (apply.ts:187), or beside it, under a lock
\* that is not the writer's (each operation module makes its own, apply.ts:85).
\* What was in the file when the writer compared the fingerprint, or loaded under
\* its lock, it keeps, and operations of one lock overwrite nothing of each other.
LossNeedsWindow ==
  [][\A o \in Ops : saved'[o] # saved[o] => file \ file' \subseteq Window(o) \cup beside[o]]_opsVars

\* The fairness of an event loop: an operation in progress goes on until it is
\* over; a pending proposal is confirmed or discarded.
OpsFairness ==
  \A o \in Ops : /\ WF_opsVars(Load(o) \/ Put(o) \/ Check(o) \/ Mismatch(o))
                 /\ WF_opsVars(LoadLocked(o)) /\ WF_opsVars(End(o))
                 /\ WF_opsVars(stage[o] = "prepared" /\ (Discard(o) \/ Begin(o)))
                 /\ SF_opsVars(Enter(o))

OpsFairSpec == OpsSpec /\ OpsFairness

\* Nothing waits for ever: the locks are fail-fast and always released.
EveryOperationEnds == \A o \in Ops : <>(stage[o] = "done")
=============================================================================
