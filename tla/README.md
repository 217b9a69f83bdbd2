# ct: a TLA+ model of applying, granting, destroying, adopting and handing over

`ct` manages the structure of a ChurchTools instance (campuses, group types,
groups, member fields, permissions) from a TypeScript configuration, the way
Terraform manages a cloud. A *state file* maps logical keys to ChurchTools ids.
This directory models the parts of ct where mistakes cost data or access: what is
written to ChurchTools and to the state file, in which order, and what is left
when something fails in between; the permissions; the way out to OpenTofu; and
the layers all of it goes through, the stored logins, the authenticated session
and the pacing and retrying of requests.

- [The system](#the-system): components, state, operations, interactions
- [Modules](#modules): which module models what, and how
- [Runs](#runs): what TLC checks, the bounds, the fairness
- [Proofs](#proofs): what TLAPS proves, and along which argument
- [Where the code departs from its documentation](#where-the-code-departs-from-its-documentation)
- [Limits](#limits) and [Plan](#plan)

Run a model with `tlc -config Apply.cfg MCApplyRun`, a proof with
`tlapm ApplyRun_proofs.tla`.

## The system

| component | state it keeps | operations | interacts with |
|---|---|---|---|
| state file (`state/state.ts`) | key → type, id, snapshot of fields, `preventDestroy`, member-field bindings | `loadState`, `saveState`, `upsert`, `chooseAdoptKey`, lookups | every mutating operation |
| plan (`engine/plan.ts`, `build.ts`, `graph.ts`, `operations/plan.ts`) | none: config + state + fetched actuals → items | `buildPlan`, `computePlan`, `orderKeys` | HTTP client, resolver, state |
| apply (`operations/apply.ts`, `engine/execute.ts`) | prepared proposals, the copy of the state in memory | `prepareApply`, `executePreparedApply`, `executePlan` | plan, backup, lock, state, ChurchTools |
| prepared operations (`prepared-operation-store.ts`) | proposals with expiry and `used`; active locks | `put`, `peek`, `take`, `runExclusive` | apply, destroy, adopt, state rm |
| destroy (`operations/destroy.ts`) | as apply; the backup | `prepareDestroy`, `executePreparedDestroy` | backup, lock, state, ChurchTools |
| adoption (`operations/adopt.ts`, `adopt-group.ts`) | `rulesets/<key>.json` files | `runAdoptResource`, `runAdoptGroup` | state, id map |
| state removal (`operations/state.ts`) | | `removeStateEntry`, `listState` | state, config, id map |
| synthetic fields (`engine/synthetic.ts`, `member-fields.ts`, `hierarchy.ts`, `dynamic.ts`) | bindings in the state | per field: augment, fetch, apply | execute, destroy |
| group-type roles (`engine/grouptype.ts`) | | plan and execute a migration of members | execute |
| permissions (`permissions/*`, `operations/adopt-grants.ts`) | grant catalog | resolve, diff, write; adopt from live rows | plan, execute, resolver |
| resolution (`resolve/*`) | id map file, catalogs | `Resolver.resolve`, `reresolveValue`, reverse lookup | plan, execute, permissions |
| OpenTofu export and id sync (`export/*`, `operations/export-tf.ts`, `ids.ts`) | `.tf` files, `imports.tf`, `.ct/ids.<host>.json` | `export tf`, `ids sync` | state, OpenTofu, resolver |
| HTTP client (`api/*`) | session cookie, CSRF token, pacer | `request`, `login`, 401 self-heal | everything that talks to ChurchTools |
| auth (`auth/*`, `env/*`) | Keychain accounts, stored session, login throttle file | `auth login`, `logout`, `status`, resolve a host and token, acquire a login slot | HTTP client |
| gateway (`gateway/*`) | cached AWS credentials | filter, forward | auth, ChurchTools |
| refresh, reports, coverage, completion, init, rendering | none | read, recompute, print | state, config |

Who calls whom: a command resolves a host and a token, gets a session, builds a
plan, the operator confirms, the operation takes the mutation lock and then
alternates calls to ChurchTools with saves of the state file. Nothing is
transactional. Between any two of these calls the process can die, a colleague
can edit the instance in the browser, and another ct can run.

What is hard about each component, and what makes it correct:

- **State file**: one resource under one key, through every sequence of creates,
  recreates, adoptions, re-keyings and removals; protection is never lost.
- **Apply**: a crash or a lost answer after any call; the re-run must continue,
  not repeat. It may touch only what it manages. The recorded snapshot is
  computed, so it must be what ChurchTools then holds. References to resources of
  the same run decide the order.
- **One group** takes up to a dozen calls (migration, columns, parents, member
  fields, ruleset, status), each of which may be the last: a re-run has to see
  what the interrupted run still owed, must not create a field twice, and must
  move memberships only where somebody decided.
- **Permissions**: an old plan meets rows that colleagues changed; writes run
  concurrently and fail one by one; scopes and domains may be resources the same
  run creates; what is adopted must declare what the host grants, no less.
- **Prepared operations**: proposals presented twice or late, state changed by
  somebody else between prepare and execute, locks left behind.
- **Destroy**: only named, unprotected, backed-up resources; children before
  parents; member fields first; a living resource never loses its entry.
- **Adoption**: a list that fails in the middle, keys that are taken, groups
  that are renamed, groups another tool (the OpenTofu id map) owns.
- **Cutover**: names live in five places (ct's state, the id map, the `.tf`
  files, OpenTofu's state, ChurchTools) that are updated one after the other;
  a key must go on naming its object all the way.
- **Logins**: a token lies in two Keychain accounts, its session in a third, and
  every process remembers what it read: a token must not reach another host, a
  logout must find all copies, a host's login budget is a shared file.
- **Session**: requests that are refused at the same time, a server that refuses
  everything, a session stored by one process and used by another: one login at
  a time, not one too many, never another user's session, no write repeated.
- **Pacer**: slots claimed before a pause began, two retry budgets in one loop: no
  burst, no start in a pause, no blind repetition of a write, an end.

`PROJECT.json` lists every hazard at its line, with the properties that cover it.

## Modules

| module | models | composes / uses |
|---|---|---|
| `CtState` | the state file as a map, `upsert`, `chooseAdoptKey`, lookups (operators only) | |
| `ApplyRun` | plan, confirm, execute, save; config edits; ChurchTools and its UI | extends `CtState` |
| `GroupItem` | one group of a plan, call by call | |
| `Permissions` | grants: resolve, diff, write, adopt | implements `GrantRegister` |
| `GrantRegister` | what reconciling grants promises (abstract) | |
| `PreparedOperation` | several operations on one state file: proposals, fingerprints, locks | |
| `DestroyRun` | prepare with backup, member fields, resources, saves | |
| `Adoption` | `adopt`, `adopt group` over a selection, `state rm` | extends `CtState` |
| `Cutover` | adopt, `export tf`, `tofu apply`, `state rm`, `ids sync`, and resolution meanwhile | extends `CtState` |
| `Credentials` | Keychain accounts, login, logout, status, the throttle file; several processes | |
| `CtSession` | login, stored session, concurrent requests, 401 self-heal, CSRF tokens; several processes | |
| `Pacer` | start slots, the pause of a 429, the two retry budgets | |
| `MC*` | small instances | extend their module |
| `*_proofs` | theorems and lemmas; `Operations_proofs` those of `PreparedOperation` and of `Cutover`, `CtSession_proofs` also those of `Pacer` | extend their modules |

Operators named `X_Something` right before `X`, with a comment "mutated", are
deliberately wrong variants of `X`; no specification uses them. Each property
was checked to fail when `X` is replaced by one of them.

### CtState

A state is a function from keys to an entry or `None`. A ChurchTools identity
(type and id) is one element of `Ids`. `Upsert` is `upsert` of state.ts: it
moves the entry of a resource that is re-keyed and keeps its `preventDestroy`;
the collision, an exception in the code, is the predicate `Collides`, and
callers decide what follows from it. `AdoptKey` is `chooseAdoptKey`.

### ApplyRun

`live` is ChurchTools, `disk` the state file, `mem` the copy the run holds. A
resource has plain attributes, one reference (`ref`) and one synthetic
sub-resource (`sub`, written by a call of its own after the columns).

| code | action |
|---|---|
| `prepareApply`: load, resolve, fetch, diff | `Prepare` (`PlanItem` is `computePlan` for one key) |
| prompt, backup failure | `Abandon`, `Execute`, `ExecuteEmpty` (the early return) |
| `executePlan`, order by `orderKeys` | any item of `Ready` may be next |
| no-op and delete items, `preventDestroy` mirror | `Skip`, `Mirror` |
| create: POST, drop stale entry, upsert, save | `Create`, then `Save("save1", "syn")` |
| update: PUT over the fetched actual, or PATCH | `Update` |
| synthetic fields and the second save | `ApplySynthetic`, `SyntheticGone`, `Save("save2", "run")` |
| 404, unresolvable reference, collision | `ItemError` |
| rejected write, lost answer, failed save, crash | `WriteRejected`, `CreateLost`, `UpdateLost`, `SyntheticFails`, `SaveFails`, `Crash` |
| outside | `EditConfig`, `UiEdit`, `UiDelete` |

Fetching is one step with loading: what the UI does *during* the fetches is a UI
step before or after it. Every real order is some order of `Ready`, so a
property that holds for all of them holds for `orderKeys`' one.

### GroupItem

What `ApplyRun` folds into one synthetic write, for one group. `todo` is what is
still to be sent, in the order of the fields; `read` the member fields as read
once per item; the state entry keeps the bindings from local keys to rows.

| code | action or operator |
|---|---|
| what the DSL accepts of a group (`config/context.ts`) | `Accepted` and its parts |
| the diff of each field, the role mapping, the refusals of a plan | `Rejected`, `Synthetic`, `Item`, `Prepare` |
| migration to another group type (`grouptype.ts`) | `Migrate`: roles by mapping, by equal name, else refused |
| create and update of the columns, first save | `Create`, `Columns`, `Save("save1", "syn")` |
| parents | `AddParent`, `RemoveParent` |
| member fields: known row, match by referenceName, near name, conflict, POST | `PatchField`, `PostField` |
| ruleset and status, two calls | `PutRuleset`, `DropRuleset`, `PutStatus` |
| second save, next item | `SyntheticDone`, `Save("save2", "done")`, `Finish` |
| a 4xx, a lost answer, a vanished group, a failed save | `Fails`, `Crash` |
| outside | `EditConfig`, `UiJoin`, `UiAddRow`, `UiRow`, `UiDynamic`, `UiParent`, `UiDelete` |

A member field's row has an identity (`ref`), a display name and properties, and
may belong to the group (`own`) or to the person or the type; the match ct makes
is by all of these, as in `member-fields.ts`.

### Permissions and GrantRegister

A domain is a (group, role) pairing; a row of ChurchTools is a domain, a right,
its data (a scope id, `All`, or none), whether it grants or denies, and its
provenance. `Desired` resolves a declaration, `Puts` and `Dels` are the diff,
`Ops` the plan. What refers to a resource the same run creates is a key and is
resolved again: the domain before the first write (`DomainsDone`), the scope when
the write is handed to a worker (`Dispatch`, `Body`). `Create` stands for the
resources of the run, which `ApplyRun` has in detail. `Write`, `WriteFails` and
`WriteLost` are the outcomes of a write, up to `Workers` of them in flight
(`mapConcurrent`). `AdoptOne` and `AdoptBulk` build a declaration from live rows.

`GrantRegister` has neither plans nor workers nor failures: its steps add declared
grants, remove undeclared ones of the duty (`Reconcile`), or are the world's.
`Permissions` maps its rows and declarations to it (`Granted`, `Fixed`, `Wanted`,
`Duty`), and `Promise` says it implements it. So no write is excused by the age
of its plan.

### PreparedOperation

The content of the file is the set of saves it includes; a save writes the
operation's own copy and so drops what the copy lacks. `Load` is the load at
the start of planning, `Put` the fingerprint and the stored proposal, `Begin`
peek, confirm, lock and take (no await in between), `Check` and `Mismatch` the
comparison. Operations that lock before they load are `Enter` and `LoadLocked`.
`LockOf` says which lock each operation runs under: by default every operation
module of every process has its own, a service can inject a shared one. The run
takes the defaults, the proofs any assignment. `beside` records what others wrote
while an operation wrote, under another lock: `LossNeedsWindow` excuses the loss
of that and of the window before the fingerprint, and of nothing else.

### DestroyRun

Keys stand for the resources at the start. `Matches` is
`matchingMemberFieldRows`: the bound row if there is a binding, else every row
that answers to the name. `Turn` is the reverse of `orderKeys`: highest tier
first, a child before its parent when the hierarchy could be read (`edges`).
`FieldDelete`, `FieldAmbiguous`, `FieldUnreadable` and `FieldFails` are the
branches of the member-field loop, `HoldBack` its refusal to go on, `Delete`
covers DELETE and 404, `DeleteFails` an error before or after the effect. A save
that fails or is interrupted may leave the state file `torn`; no later run can load it.

### Adoption

`name` is the key an adoption would derive now; a rename changes it. The
selection is a list of ids, all groups of a type, or a group and everything below
it in a hierarchy that may be cyclic (`Selections`). `Fetch`
is the work on one group up to the key and the ruleset file, `Bind` the
`upsert`, `Save` the one save for the list, `FetchMapped` a group the id map
owns, `StrictRefusal` and `Conflict` the two refusals, `Fail` any failed call,
failed save or crash, `Remove` `ct state rm` with its guards and its two
degraded modes (config unreadable, map unreadable). `ct adopt` is a list of one that
does not ask the map. The two files are written in place: a save that breaks off
leaves the state `torn` (`Fail`, `RemoveFails`), a ruleset no ruleset (`RulesetBreaks`).

### Cutover

`managed` is ct's state, `idmap` the committed map, `blocks`, `imports` and
`moved` the files an export writes, `tofu` OpenTofu's state. `Export` is
`export tf` for any subset of the types, with and without `--write-ids`;
`StateRm`, `Sync`, `Adopt` are ct's other commands. `TofuApply`, `HandMove`,
`TofuReplace`, `TofuAdd` and `RestoreBlocks` are OpenTofu and its operator, external
to ct; `BreakMap` is a map that cannot be read. `Resolve` is the resolver's
order: ct's state, the map, a live name. Role definitions are named by markers: a
pair of names, a key or a number. `Capture` computes one (`Portable`) and keeps it in
`captured`; `ResolveMarker` reads it back at any later time.

The operator follows `docs/opentofu-migration.md`: before the next export the
last one is applied and a map that OpenTofu has outrun is synced (`Disciplined`,
`behind`); a plan that would create or destroy something is not applied (the
zero-change gate in `TofuApply`); a key that OpenTofu already uses for something
else is not chosen (`FreeKey`); and rows leave ct's state only after OpenTofu has
imported them (`StateRm`). ChurchTools never hands out an id twice (`Deleted`).

### Credentials

One Keychain with an account per host, the default account of the last login and
a session per host; every call on it is a step. A process runs one command at a
time (`pc` names the step): an ordinary command (`Resolve`, `ReadToken`, `Resume`,
`Gate`, `Pass`, `Whoami`, `Save`), `auth login` (`Obtain`, `Store`,
`StoreDefault`), `auth logout` (`DeleteKeyed`, `DeleteSession`, `LookAtDefault`,
`DeleteDefault`) or `auth status --all` (`CheckNext` over the profiles). What a
process read of the default account stays in its memory (`memo`), as in
`keychain.ts`. Its deletes may fail, and nobody is told (`Tried`). `Gate` reads the
throttle file and decides, unless `CT_NO_LOGIN_THROTTLE` passes it by; an unreadable
file counts as empty. `Pass` writes the file in place: what other processes wrote in
between is lost, a write that fails is swallowed and the handshake goes ahead, one
that breaks off leaves nothing that can be read. `CtSession` takes over from there.

### CtSession

Processes share one keychain entry. A session is one number, which stands for
its cookie and for the CSRF token that goes with it, so "the token of another
session" can be said. Every client (its `authenticate()`) and every request is
a thread whose `pc` names the `await` it is at; the actions are what runs between
two awaits. ChurchTools answers a call (`Serve`) at some moment after it was sent
and may end any session at any time (`Expire`).

| code | action |
|---|---|
| `requestEnvelope`, up to the fetch | `Start`, `Open` (the headers are taken here, `hdr`) |
| `refreshCsrfToken` inside a write or a legacy call | `CsrfArrives`; a REST write keeps the cookie header it took before (`held`), a legacy call reads the field again |
| a 401: `reauthenticate` | `Heal`, then `Drop`, `LoggedIn`, `LoginCsrf`, `Save` and the replay |
| a 401 it refuses to heal | `Surface`; of a resumed session: `Reject` |
| 2xx; the replay's `reauthAttempts = 0` | `Answered` |
| `captureCookie` after every answer | `Capture`: the answer may bring the cookie of its call, a refusal one of nobody's session (`Anonymous`), whatever cookie the client has by then |
| errors, lost answers, refused logins | `Lose`, `LoginRefused` |
| `authenticate`, `resumeCachedSession`, `readSession` | `Resume`, `Load`, `Usable` |
| `storeSession`, `clearSession`, both best effort | `Save`, `Drop`; `Logout` from elsewhere |

### Pacer

Moments are counted down: `nextStartAt`, `pausedUntil` and `wake` say how far
ahead they are, and `Tick` brings them closer. `Claim` is `reserve`, `Wake` one
turn of the inner loop (if a pause began meanwhile, another slot is claimed),
`Throttled`, `Err`, `Refuse`, `GiveUp` and `Succeed` the branches after a fetch.
Whatever `Retry-After` and the backoff compute is any delay up to a cap. With
`Punctual` a due timer fires before the time moves on; `Spaced` needs it, the
other properties hold without.

## Runs

| run | what it asks | states |
|---|---|---|
| `apply` | Does an interrupted apply leave the state file one item behind at most, only references of this run open, one unmanaged leftover per fault at most? Is completed work a no-op in the next plan, and the snapshot what ChurchTools holds? Is anything unmanaged touched? Does re-running reconcile for good? | 0.2 million |
| `prepared_shared` | Is a proposal used once, a save lost only in the writer's window or beside it under another lock, and does every operation end? | 0.12 million |
| `destroy` | Does ct forget only what is gone, delete only backed-up unprotected targets, children and member fields first, and can a destroy be re-run to completion? | 0.27 million |
| `adoption` | Through lists, selections, renames, re-keyings, removals and failures: one key per resource, all or nothing, protection kept, unforced removals harmless? | 4.7 million |
| `group_item` | One group, call by call: one member field per declared key, a ruleset that names it, memberships only where somebody decided; does re-running arrive at what is declared? | 0.19 million |
| `group_demoted` | expected violation: the comment on demoted groups | |
| `permissions` | Is what an interrupted apply left exactly what the next plan does? Is what is adopted a no-op? Does the whole implement `GrantRegister`? Do the grants settle? | 0.22 million |
| `cutover` | Does what went to OpenTofu stay out of ct's hands, does an exported block stay one object, do captured role markers keep naming their role? | 1.7 million |
| `credentials` | Does a token reach only its host, does a logout find every copy, are the logins of an hour spaced and counted? | 1.6 million |
| `session` | One login at a time, no login storm, only the own session, everything ends? | 1.6 million |
| `pacer` | Starts spaced, no write repeated blindly, every request ends? | 95 thousand |
| `apply_protection` | expected violation: the claim on `preventDestroy` | |

**Bounds.** Each is the smallest instance in which the cases below happen.

- *Apply*: two declared resources, one with PUT and one with PATCH, the second
  referring to the first and carrying a sub-resource; two plain attributes with
  two values; two configurations (both resources, or the first alone with changed
  protection), one UI edit, two faults, six identities, which are enough for a
  create that is lost, a recreate and two re-runs.
- *Prepared operations*: two applies of one process, which share a lock, and an adopt
  of another, which has its own; two saves for each apply, a lifetime of one tick
  against a clock of two.
- *Destroy*: a parent and its child (a hierarchy), a department, which cannot be
  deleted (a second tier); two member-field rows, one UI change, one fault.
- *Adoption*: two adoptable groups and one of the id map, three keys, a hierarchy,
  one rename, one fault.
- *Group item*: two local member-field keys and two referenceNames, so that names
  may collide; group types with three and two roles, one of equal name and one
  without a counterpart; two members; a managed and a foreign parent; a
  configuration change, a UI edit, two faults.
- *Permissions*: a group in the state, one that is still to be created, a campus of
  the live catalog and one group of somebody else; rights without a scope, scoped
  by group, campus and category, one of a missing module, one no catalog knows;
  two workers, one edit of the configuration, one of the instance, one fault.
- *Cutover*: three group types (one exists only once created), a group, three role
  definitions, one of another type and of equal name; two keys that HCL writes alike;
  two adoptions, two exports, one captured ruleset, one rename, one change by
  OpenTofu, one unreadable map.
- *Credentials*: two hosts and a gateway, two tokens, three profiles, two processes,
  three commands, one environment with `CT_NO_LOGIN_THROTTLE`; two faults (crashes,
  failed deletes, failed or torn writes, unreadable files); an interval of one tick,
  an hour of three with two logins in it.
- *Session*: a client with a read and a write, which may resume a stored session,
  and one of another user that logs in afresh for a legacy call; seven sessions,
  enough that no login ever lacks one, and one fault.
- *Pacer*: a read, a write and a login, one retry, two 429s (the login one), an
  interval of two ticks and delays up to three, longer than the interval.

Where elements are interchangeable for the safety properties alone, a run uses
symmetry (`credentials`). Most counters only grow (edits, faults, identities,
commands): the bounds stand in the guards, and `CHECK_DEADLOCK FALSE` is there
because everything may simply be over.

**Fairness.** Faults, UI edits and edits of the configuration have none; their
bounds make them stop.

- *Apply, Destroy*: the process runs on until it is done (weak fairness of `Work`),
  the operator re-runs while something is left to do, and a plan with changes is in
  the end confirmed (strong fairness, since declining is always possible).
- *Prepared operations*: an event loop goes on with every operation that can; a
  proposal at the prompt is in the end executed or discarded; an adopt that found
  the lock busy is tried again (strong, since the lock is fail-fast).
- *Permissions*: the process and its workers run on (weak), the operator plans
  again while the grants are not settled (strong, since a plan can be refused).
- *Group item*: as apply; a call that must fail (the group vanished) does.
- *Session*: ChurchTools answers what it is asked and the event loops run on;
  sessions may end for ever. *Pacer*: time passes, timers fire, and a request sent
  is answered or fails.

The liveness properties except a session's and the pacer's are of the form
"in the end, for good": settled, or refused with a reason the operator has to act
on (`Blocked`).

## Proofs

All are about any number of keys, resources, operations, edits and faults; the
bounds are parameters. Assumed are only the named `ASSUME`s of the modules, which
TLC evaluates on every instance, and the hypotheses written in a theorem.

`Permissions_proofs`
- `Implements`: `Permissions` implements `GrantRegister`. `AdoptionPlansNothing`:
  adopted with nothing left out, a declaration plans no write.
- What has to be shown is that a write planned long ago is right *now*: that the
  tuple it puts is still declared, that the row it deletes is still undeclared,
  direct and within the duty. `Course` says so of every planned, dispatched and
  running write, after the resolution of late references. A step can break it in
  two ways. The run creates a resource, and a declaration means more than it did:
  what it adds has the new id, and `Older` says that no row, number or planned
  write names an id that was not handed out before. The world edits: it never makes
  a direct row of what was not one, and a new row has an id of its own.
- The assumption behind `Older` is that a number in a configuration names something
  that exists when it is written (`ConfigsAssumption`). Without it the run could
  create a group under a number that a declaration names as another's scope.
- `AdoptionPlansNothing` has the hypothesis that `None`, which stands for "no
  scope", is not itself a set of scopes.
- `ResumeAlwaysExact`: after an apply that went through its grants undisturbed, the
  next plan holds what failed and nothing else. The invariant is `Accounted`: every
  declared grant is on the host, or its write is still to come, in flight or among
  the failures; every direct grant of the duty is spared, declared, or its removal
  is. It has to hold while the workers write in any order and references of the run
  are still being resolved.

`DestroyRun_proofs`
- `NothingLiveForgotten`, `NothingElseDeleted`, `ChildrenGoFirst`, `FieldsGoFirst`.
- Argument: `Course` is `Sync` (what the copy in memory lacks against the file, entry
  or binding, is gone from ChurchTools), `Targets` (what is still to be deleted is
  unprotected, managed and in the backup; what is done is gone) and `Turns` (the
  resources come after the last member field, each of which is gone by then if it
  was to be deleted).

`Adoption_proofs`
- Lemmas of the state file: what `Upsert` leaves under every key (`UpsertAt`), that
  it keeps a sound state sound (`UpsertSound`) and, where the key is free or its
  own, loses no resource and no protection (`UpsertKeeps`).
- `AlwaysSound`, `FailedListChangesNothing`, `RefreshKeepsTheKey`,
  `ProtectionSurvives`, `RemovalGuarded`.
- Argument: `Faithful` relates the copy to the file at every moment of an adoption:
  nothing is lost, protection is kept, and a key changes only on request;
  `UpsertKeeps` carries it over each `Bind`, and the save makes the copy the file.
  `Handled` says of every group the adoption is done with that the copy has it and its
  ruleset lies under its key; a later group can overwrite that file only when it is
  about to be refused for the key.

`ApplyRun_proofs`
- `AlwaysSound`, `OneActionLost` (the file lacks at most the entry of the item
  being written), `TouchesOnlyItsOwn`.
- Argument: `Inv` is types, soundness and lag, strengthened by `Fresh` (what
  exists or is named by a state is older than the next identity, so a POST
  cannot collide), `ItemsFit` (only a reference can be pending, an update has
  an id and an actual), `InProgress` (an item still to come has its entry as
  planned; without it an update could move another key's entry, and the lag
  would be two items) and `CurrentBound`. `WriteInv` covers both writes,
  `EndInv` every way an operation ends.
- `PendingAlwaysResolves`, `DuplicatesNeedFaults`: `Progress` adds how far the
  work has come. The target of a pending reference is a create still to come or
  bound already (`PendingTargets`), the entry a create replaces names a resource
  that is gone (`StaleIsGone`), and what is being saved is no longer to come
  (`CurrentDone`). From it follows that a step which leaves a resource without a
  key is a fault, so the count of such resources stays within the count of faults.
- `SnapshotAlwaysExact`, `ReRunContinues`: `History` relates, as long as nobody
  edits, three things for every key the run completed: the entry recorded, in
  memory and on disk, the resource in ChurchTools, and the declaration. An item
  that was never reached is as it was found.

`GroupItem_proofs`
- `NobodyMovedByAGuess`, `FieldsNotDuplicated`, `RulesetsNameTheirField`.
- `NobodyMovedByAGuess` needs only that a migration under way is the one of the plan
  (`AtWork`): what moves a membership is a role of the mapping or of the same name.
- `FieldsNotDuplicated`: a POST may have had its effect before the crash that lost
  its answer, so a binding says nothing; what has to be shown is that the match by
  referenceName finds that row. `Once`: the rows ct created have one identity each,
  and what the item read of the rows lacks only rows of fields it is done with.
- `RulesetsNameTheirField`: `Aimed` says that what a ruleset still to be sent names
  is a row of the declared field, or the key of a field that is bound to such a row
  by the time the ruleset is sent: member fields go first.

`Operations_proofs`, of `PreparedOperation`
- `ExecutedOnce` from "a proposal not taken was never executed"; `LocksExclude`
  from `Holding` (who runs holds its lock, who holds it runs).
- `FingerprintCatchesTheRest`: whichever locks and processes the operations run
  under, a save drops only what was saved between the writer's load and its
  fingerprint, or beside it under another lock. The invariant `Covered` says that
  what the file holds and the writer's copy lacks, its fingerprint was taken of or
  somebody under another lock wrote since; `Holding` excludes those of its own.

`Operations_proofs`, of `Cutover`
- `CutOversAlwaysStay`, `ExportedAlwaysOne`, `MovesAlwaysLand`: as long as no row was
  handed over at the address of another managed key (`shadowed`, see below). Which
  keys share a label is not restricted.
- `RoleMarkersAlwaysDenote`: every marker captured at any time. All that has to be kept
  is that markers are of roles: what refuses a namesake is the resolution itself, which
  takes one match or none.
- Argument: one object is named in five places that disagree while an export is
  not applied. `Placed` says where OpenTofu holds a row, `Mapped` that the map has
  rows and addresses once, `Current` that a map which does not lag knows every
  instance at its address or at the one it moves to, `Written` that a row which is
  not where its import block says has a move from there, and `Cut` that of every
  key handed over OpenTofu holds one row and the map names one. Each is needed for
  the next export or sync to keep the others.
- What an apply makes of it is shown once: `MovesDone` says where the moves leave
  each row, `Lands` that each imported row then is at its address only.

`Credentials_proofs`
- `StoredTokensGoHome`: whatever other processes store or delete between two
  reads, a token read from the Keychain is sent to the host that issued it. The
  invariant says it of every account and of every process's memory.
- `LogoutsAreThorough`: a logout that ran alone, and whose deletes succeeded, leaves
  nothing of the host.
- `LoginsAreSpaced`: a login comes an interval after every one that was noted when
  its command looked at the file, and of logins each of which was noted when the
  command of the next looked, the hour's budget holds. Neither assumes that a write
  succeeds, that the file can be read or that processes take turns: the log keeps
  with each login what a reader of the file had to wait for (`after`), `noted` what
  one would have to wait for now. `Knows` says what the times in the file, or those a
  waiting process took from it, tell of that: a noted login is there, or a later one,
  or it is an interval ago; and the chain that ends in the last login of all is there
  as far as it still counts. `Brake` says it of every file and every waiting process.
  The assumption is that the interval is not longer than the hour; with a longer one
  the file would drop a login while it still counts.

`CtSession_proofs`, of `CtSession`
- `OneLoginAtATime`, `LoginsAreBounded`, `SessionsAreOwn`, `StoredIsOwn`,
  `EffectsHappenOnce`, for any number of processes, requests, tokens, sessions and
  faults: every safety property of the module.
- Argument: `Lanes` and `OneHealer` say who is where. Requests wait for their
  client's login, whose thread holds `resuming` or `loggingIn`; a request that
  buys a session has spent the one attempt, and only its own replay gives it
  back. That gives one login at a time. `Own` says of everything a client holds,
  sends or stores that its token bought it, or that it is a cookie of nobody;
  `Carried` that an answer is that of a session and that a login always has
  something to store, although answers to other requests change the client's cookie
  between a login and its save. `Budget` counts a login in progress apart from a
  finished one.

`CtSession_proofs`, of `Pacer`
- `StartsAreSpaced`, `PausesHold`, `WritesNotRepeated`, for any number of requests,
  budgets, intervals and delays. `Apart` says that two sleeping requests wake an
  interval apart, after the last start and before the next free slot; `Settled`
  that a write whose outcome is unknown has ended.

Every module's types are proved too (`Typed`, `OpsTyped`, `CutoverTyped`,
`PacerTyped`), so no run repeats them. Proved and not a property of a run are
`AlwaysSound` of `ApplyRun`, `RefreshKeepsTheKey`, `LocksExclude`, `StoredIsOwn`,
`EffectsHappenOnce`, `PausesHold` and `MovesAlwaysLand`
(`MovesLand` follows from `ExportedStaysOne`: a move that cannot land leaves the
import at an address of another object).

Only model-checked are the liveness properties (`EventuallyReconciled`,
`EventuallySettled`, `EventuallyAsDeclared` and the others named `Eventually...` or
`Every...Ends`); every safety property of a passing run is a theorem. Out of the
prover's reach are liveness under fairness and ENABLED, induction over recursive
definitions, and recursive operators (the modules have none).

## Where the code departs from its documentation

Two claims are runs whose violation is expected.

| run | what happens |
|---|---|
| `apply_protection` | a plan without changes returns before `executePlan`, so a changed `preventDestroy` alone is never saved |
| `group_demoted` | a demotion deletes the ruleset and then writes the status; interrupted in between, it leaves an active status that the next plan reads as nothing to do |

More follow from the models and have no run of their own.

*Apply and the state file*
- A crash between the POST and the save leaves a resource nobody manages, and
  the re-run creates it again (`OrphansNeedFaults` allows one per fault); the
  design document says a re-run only continues.
- A PUT sends back the other fields as fetched at plan time and so reverts what
  changed since, against `execute.ts:252`.
- An interrupted `writeFile` leaves a truncated state file (`TornWrites` in `ApplyRun`,
  `torn` in `DestroyRun` and `Adoption`), against the "consistent, resumable state
  file" of `execute.ts`.
- A reference to a resource that vanished resolves to its old id (`resolver.ts`),
  so the second plan after such an apply is not clean.
- A managed group that vanished, and whose ruleset or grants name its own member
  field or role, makes every plan fail with a 404 until it is removed from the state.
- Locks are made per operation module and process, so the defaults do not
  "serialize mutations that target the same state file" (`ports.ts`): what they save
  beside each other overwrites. So does an apply what was saved between its load and
  its fingerprint. `LossNeedsWindow` allows both.

*Destroy and adoption*
- A member field without a binding is looked up again at delete time: one that
  was replaced in the browser since prepare is deleted though the backup holds
  another (`FieldDelete`), against `destroy.ts:459`.
- A ruleset file is overwritten before the key conflict is noticed
  (`Fetch` before `Conflict`); with a group of the map in the same list, so is one that
  ct keeps under the map's key, and there no conflict is reported.
- A failed list leaves nothing in the state (`AllOrNothing`), while a comment has "the
  earlier groups already written to state" (`adopt-group.ts:249`): there is one save.
- In a list of groups the rulesets of the first ones are on disk when
  `--strict-rulesets` refuses a later one with "nothing was written".

*Permissions*
- A scope group that is created anew has a new id, while its grants were
  resolved against the old one: a second apply puts them right.
- The strict flag and the catalog are variables of the process: of two plans that
  overlap in one process, the second to end restores the flag it found, so it can
  stay strict, "a setting silently outliving its request" (`operations/plan.ts:128`).
- `coverage/report.ts` says that both normalizers drop the baseline the system adds
  by itself; `normalizeEffective` does not.

*Cutover*
- A straggler of a type that is adopted after the type went to OpenTofu makes the
  next `export tf` overwrite that type's file, and OpenTofu plans to destroy every
  row of it that only the old file had.
- Adopting under a key that OpenTofu uses for another object silently retargets
  the references to it; an `ids sync` after an unreadable map forgets what was relabelled.
- Keys that HCL writes alike (`3`, `g_3`) are noticed within one export only
  (`assertLabelsUnique`). With one of them handed over and another resource managed
  under the other (`shadowed`), the next export writes a move or an import onto the
  address the first still holds, which OpenTofu refuses, against "tofu moves first and
  the import of the same id is then a no-op" (`imports.ts:39`); and a sync can give
  the one's key to the other. The properties of the export end there.
- A role marker follows names. One the role gave up goes to its next bearer; a key of
  a group type that ct's state or the map has for another type by now sends the
  marker to that type's roles; a role taken out of ct's state under its own key is
  looked for by that key among names (`Bears`, `Displaced`).
- `adopt` writes `slug(name)` for a group type without looking at ct's state, so
  with `--key dienst` on another type the reference it emits resolves to that one,
  against `reverse.ts:13`; `adopt-grants.ts:190` does look.

*Logins and sessions*
- `auth login`, `auth status --all` and the password flow pass the throttle by,
  while `loginThrottle.ts` says that the gate "covers EVERY ct command"; parallel
  processes lose each other's entries, as the file says. A note that was not
  written, or that a torn write took with it, spaces nothing: the comments say that
  reads and writes are best-effort (hence `after` and `noted` in `LoginsSpaced`).
- A command that overlaps a logout stores its session after the logout deleted it,
  and a delete that fails (a locked Keychain) is swallowed by `keychainDelete`: the
  logout says that it is done while the account or the session is still there (hence
  `alone` in `LoggedOut`).
- A session that expires with two requests under way: the first 401 starts a login,
  the other request fails with its 401 or with "Not authenticated"
  (`ExpirySelfHeals` in `CtSession` states the opposite, `ctClient.ts:596`).
- The answer to a call sent before a login may arrive during or after it and set the
  client's cookie back to that of the earlier session, or, if it is a refusal, to one
  of nobody's; `performLogin` then stores that cookie with the CSRF token of the new
  session. The next command drops it when `whoami` is refused, or heals at its first
  write (hence `StoredSessionIsOwn`, which does not say that it is one session).

The passing properties are stated with these in mind.

## Limits

- ChurchTools, the Keychain and OpenTofu are external: modelled from how ct uses
  them (POST hands out a fresh id and fills in defaults, PUT replaces the columns
  sent, PATCH changes some, 404 on a missing resource; a session is accepted until it
  ends, a write only with the CSRF token of its session). In the models of the
  operations the retries of the HTTP layer are inside one call; `Pacer` models them
  by themselves.
- Values, names and request bodies are small sets; formatting, prompts' wording and
  layout are left out.
- A planning error (a fetch that fails, a reference nothing resolves) leaves
  everything as it was; only where it lasts and so concerns liveness is it in a model
  (`Rejected`, `Blocked`).
- `DestroyRun` has one member field per group; adoption's member-field bindings are
  those of `GroupItem` only.
- In `Credentials` a process runs one command at a time, which is how the CLI works;
  a read of the Keychain that fails, which the code takes for an absent entry, is not
  modelled.
- In `CtSession` a cookie stands for the whole cookie header: `captureCookie` merges
  by name, and the session's is the one modelled. A stored session that is too old,
  unreadable or memoised by the process is one that `Load` passes over.
  Requests of one client can be left with the CSRF token of the session before:
  the next write is refused and heals or fails.
- `Cutover` assumes the operator's discipline described above; the last list says
  what happens without it.

Not modelled, or only in the part named, with the reason:

- *Gateway*: forwards a request under a cached AWS credential; its one piece of state
  is refreshed on expiry and has no partner it could disagree with.
- *Refresh* and the refresh after an apply: ask ChurchTools to recompute the members of
  dynamic groups; they change neither the state file nor anything declared.
- *Coverage, reports, completion, init, rendering, markdown*: read and print.
- *Environment profiles*: the part that decides a host and a token is in
  `Credentials` (`WiredHost`, `WiredToken`); the rest is a file format.
- *Configuration DSL*: what it accepts of groups and permissions is in `GroupItem`
  (`Accepted`) and `Permissions` (`IsDecl`); the rest builds objects.

## Plan

What would come next, in this order.

1. An abstract specification `Reconcile` (a declared key is absent, or bound to a
   living resource; a step creates, updates or forgets one) that `ApplyRun`,
   `DestroyRun` and `Adoption` implement, as `Permissions` implements `GrantRegister`.
2. `Credentials` composed with `CtSession`: a login that heals a 401 passes the
   throttle, whose wait may outlast the session.
3. Several member fields per group in `DestroyRun`, with the bindings of
   `GroupItem`.
