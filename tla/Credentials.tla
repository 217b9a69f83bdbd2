----------------------------- MODULE Credentials -----------------------------
(***************************************************************************)
(* Logins kept on one machine: which host and which token a command uses,  *)
(* `ct auth login`, `logout` and `status --all`, and the file that spaces  *)
(* login handshakes over processes.                                        *)
(* Sources: auth/tokenStore.ts, keychain.ts, sessionStore.ts, login.ts,    *)
(* loginThrottle.ts, status.ts, api/session.ts, application/project.ts,    *)
(* application/operations/auth.ts, env/envs.ts, env/context.ts, config.ts. *)
(*                                                                         *)
(* The Keychain holds an account per host, the default account of the last *)
(* login, and a session per host; every call on it is a step of its own.   *)
(* Every process runs one command at a time and remembers what it read of  *)
(* the default account.  A session is named by the token that bought it;   *)
(* CtSession models its life within a command.                             *)
(***************************************************************************)
EXTENDS Integers, Sequences, FiniteSets

CONSTANTS Hosts, Tokens,
          HostOf,       \* the instance that issued each token
          Profiles,     \* ct.envs.json: environments ...
          ProfileHost,  \* ... their hosts
          ProfileToken, \* ... the token in the variable they name
          Gateways,     \* ... and those behind the read-only gateway
          Ambient,      \* CT_HOST, CT_LOGINTOKEN, CT_NO_LOGIN_THROTTLE of an invocation
          Procs,
          Interval,     \* MIN_INTERVAL_MS
          Hour,         \* HOUR_MS
          MaxPerHour,   \* MAX_PER_HOUR
          MaxTime,      \* bound: the clock
          MaxRuns,      \* bound: commands
          MaxFaults,    \* bound: processes that die, deletes in the Keychain and
                        \* reads and writes of the throttle file that fail
          None, Unread

Blob == [host : Hosts, token : Tokens]
HostOrNone == Hosts \cup {None}
TokenOrNone == Tokens \cup {None}
Ambients == [host : HostOrNone, token : TokenOrNone, free : BOOLEAN]

\* A token in an environment variable belongs to the instance it is set for.
ASSUME CredentialsAssumption ==
  /\ HostOf \in [Tokens -> Hosts]
  /\ ProfileHost \in [Profiles -> Hosts] /\ ProfileToken \in [Profiles -> TokenOrNone]
  /\ Gateways \subseteq Profiles
  /\ Ambient \subseteq Ambients
  /\ None \notin Hosts \cup Tokens \cup Blob \cup Profiles
  /\ Unread \notin Blob \cup {None}
  /\ Interval \in Nat \ {0} /\ Hour \in Nat /\ Interval <= Hour
  /\ MaxPerHour \in Nat \ {0}
  /\ MaxTime \in Nat /\ MaxRuns \in Nat /\ MaxFaults \in Nat

VARIABLES keyed,    \* Keychain: the token in the account of each host
          default,  \* Keychain: the default account
          session,  \* Keychain: the token that bought the session of each host
          budget,   \* the throttle file of each host: times of handshakes
          now,      \* the clock
          run,      \* what each process is doing
          out,      \* history: hosts logged out of and not into again
          log,      \* history: the handshakes that passed the throttle
          noted,    \* history: those among them that a reader of the file waits for
          runs, faults

keychain == <<keyed, default, session>>
throttle == <<budget, log, noted>>
vars == <<keychain, throttle, now, run, out, runs, faults>>

--------------------------------------------------------------------------------
(* A process *)

Idle == [pc |-> "idle"]

\* env and ambient are what it was given; host, token and origin what it uses;
\* memo and recent what it read of the default account and the throttle file,
\* after the handshakes noted by then; rest what `status --all` has still to
\* check; alone says that no other command has run beside it and that what it
\* deleted is gone.
Command(c, e, a, l) ==
  [pc |-> CASE c = "command" -> "resolve" [] c = "login" -> "obtain"
            [] c = "logout" -> "out" [] OTHER -> "next",
   cmd |-> c, env |-> e, ambient |-> a, host |-> None, token |-> None,
   origin |-> "none", memo |-> Unread, recent |-> {},
   after |-> {}, rest |-> IF c = "status" THEN Profiles ELSE {}, alone |-> l]

At(p, l) == run[p].pc = l

Goto(p, l) == run' = [run EXCEPT ![p] = IF l = "idle" THEN Idle ELSE [@ EXCEPT !.pc = l]]

Start(p, c, e, a) ==
  /\ At(p, "idle") /\ runs < MaxRuns /\ runs' = runs + 1
  /\ run' = [q \in Procs |->
               IF q = p THEN Command(c, e, a, \A r \in Procs : At(r, "idle"))
               ELSE IF At(q, "idle") THEN Idle ELSE [run[q] EXCEPT !.alone = FALSE]]
  /\ UNCHANGED <<keychain, throttle, now, out, faults>>

Still == UNCHANGED <<keychain, throttle, now, out, runs, faults>>

\* a call that is only tried: it may fail, and nobody is told
Tried(ok) == (ok \/ faults < MaxFaults) /\ faults' = IF ok THEN faults ELSE faults + 1
Fault == Tried(FALSE)

--------------------------------------------------------------------------------
(* Reading the store *)

\* the default account as this process sees it: read once
Default(p) == IF run[p].memo = Unread THEN default ELSE run[p].memo

DefaultHost(p) == IF Default(p) = None THEN None ELSE Default(p).host

\* mutated: the default account answers for every host
ReadCredentials_AnyHost(p, h) ==
  IF keyed[h] # None THEN [host |-> h, token |-> keyed[h]] ELSE Default(p)

\* the account of the host, else the default account if it is of that host
ReadCredentials(p, h) ==
  IF keyed[h] # None THEN [host |-> h, token |-> keyed[h]]
  ELSE IF DefaultHost(p) = h THEN Default(p) ELSE None

\* what the process remembers of the default account after that
Looked(p, h) == IF keyed[h] # None THEN run[p].memo ELSE Default(p)

\* CT_HOST as the selected environment sets it, else as it was
WiredHost(p) ==
  IF run[p].env # None THEN ProfileHost[run[p].env] ELSE run[p].ambient.host

\* CT_LOGINTOKEN likewise: an environment without a token leaves it
WiredToken(p) ==
  IF run[p].env # None /\ ProfileToken[run[p].env] # None
  THEN ProfileToken[run[p].env] ELSE run[p].ambient.token

--------------------------------------------------------------------------------
(* An ordinary command: host, token, session, throttle, handshake *)

\* The host is resolved; a gateway environment needs no token of its own.
Resolve(p) ==
  LET h == IF WiredHost(p) # None THEN WiredHost(p) ELSE DefaultHost(p)
      m == IF WiredHost(p) # None THEN run[p].memo ELSE Default(p)
  IN  /\ At(p, "resolve")
      /\ \/ (h = None \/ run[p].env \in Gateways) /\ Goto(p, "idle")
         \/ /\ h # None /\ run[p].env \notin Gateways
            /\ run' = [run EXCEPT ![p] = [@ EXCEPT !.pc = "token", !.host = h, !.memo = m]]
      /\ Still

\* the process goes on with this token
Use(p, l, h, t, o, m) ==
  run' = [run EXCEPT ![p] = [@ EXCEPT !.pc = l, !.host = h, !.token = t,
                                      !.origin = o, !.memo = m]]

\* CT_LOGINTOKEN, else the stored token, which must be of this host
ReadToken(p) ==
  LET h      == run[p].host
      stored == ReadCredentials(p, h)
      ofHost == stored # None /\ stored.host = h
  IN  /\ At(p, "token")
      /\ \/ /\ WiredToken(p) # None
            /\ Use(p, "session", h, WiredToken(p), "env", Looked(p, h))
         \/ /\ WiredToken(p) = None /\ ofHost
            /\ Use(p, "session", h, stored.token, "stored", Looked(p, h))
         \/ WiredToken(p) = None /\ ~ofHost /\ Goto(p, "idle")
      /\ Still

\* A session bought with this token is tried first; ChurchTools may refuse it,
\* and then it is deleted, or that fails.
Resume(p) ==
  LET h     == run[p].host
      bought == session[h] = run[p].token
  IN  /\ At(p, "session")
      /\ \/ bought /\ Goto(p, "idle") /\ UNCHANGED session
         \/ /\ bought /\ Goto(p, "gate")
            /\ session' \in {session, [session EXCEPT ![h] = None]}
         \/ ~bought /\ Goto(p, "gate") /\ UNCHANGED session
      /\ UNCHANGED <<keyed, default, throttle, now, out, runs, faults>>

\* The handshakes in the file that count; no two are at the same time.
Counted(h) == {t \in budget[h] : t <= now /\ now - t < Hour}

\* what the process found in the throttle file
Look(p, seen, known) ==
  run' = [run EXCEPT ![p] = [@ EXCEPT !.pc = "wait", !.recent = seen, !.after = known]]

\* The throttle reads its file: too many refuse, else it waits its turn.  A file
\* that cannot be read, as while another process writes it, counts as empty.
Gate(p) ==
  LET h == run[p].host IN
  /\ At(p, "gate")
  /\ \/ run[p].ambient.free /\ Goto(p, "whoami") /\ UNCHANGED faults
     \/ /\ ~run[p].ambient.free /\ Cardinality(Counted(h)) >= MaxPerHour
        /\ Goto(p, "idle") /\ UNCHANGED faults
     \/ /\ ~run[p].ambient.free /\ Cardinality(Counted(h)) < MaxPerHour
        /\ Look(p, Counted(h), noted[h]) /\ UNCHANGED faults
     \/ ~run[p].ambient.free /\ Look(p, {}, {}) /\ Fault
  /\ UNCHANGED <<keychain, throttle, now, out, runs>>

Waited(p) == \A t \in run[p].recent : now - t >= Interval

Logged(p) == [at |-> now, after |-> run[p].after]

\* a write in place that breaks off: nothing can be read any more
Torn(h) ==
  budget' = [budget EXCEPT ![h] = {}] /\ noted' = [noted EXCEPT ![h] = {}]

\* mutated: the file keeps the last handshake alone
Pass_ForgetsOthers(p) ==
  LET h == run[p].host IN
  /\ At(p, "wait") /\ Waited(p) /\ Goto(p, "whoami")
  /\ log' = [log EXCEPT ![h] = Append(@, Logged(p))]
  /\ \/ /\ budget' = [budget EXCEPT ![h] = {now}]
        /\ noted' = [noted EXCEPT ![h] = @ \cup {Len(log'[h])}] /\ UNCHANGED faults
     \/ UNCHANGED <<budget, noted>> /\ Fault
     \/ Torn(h) /\ Fault
  /\ UNCHANGED <<keychain, now, out, runs>>

\* ... and writes back what it had read and this handshake, or fails to: that
\* is swallowed and the handshake goes ahead.
Pass(p) ==
  LET h == run[p].host IN
  /\ At(p, "wait") /\ Waited(p) /\ Goto(p, "whoami")
  /\ log' = [log EXCEPT ![h] = Append(@, Logged(p))]
  /\ \/ /\ budget' = [budget EXCEPT ![h] = run[p].recent \cup {now}]
        /\ noted' = [noted EXCEPT ![h] = @ \cup {Len(log'[h])}] /\ UNCHANGED faults
     \/ UNCHANGED <<budget, noted>> /\ Fault
     \/ Torn(h) /\ Fault
  /\ UNCHANGED <<keychain, now, out, runs>>

\* The handshake is answered: a token is good at the host that issued it, and a
\* call may fail for any reason.
Whoami(p) ==
  LET status == run[p].cmd = "status" IN
  /\ At(p, "whoami")
  /\ \/ HostOf[run[p].token] = run[p].host /\ ~status /\ Goto(p, "save")
     \/ Goto(p, IF status THEN "next" ELSE "idle")
  /\ Still

\* The session is stored for the next command.
Save(p) ==
  LET h == run[p].host IN
  /\ At(p, "save")
  /\ session' = [session EXCEPT ![h] = run[p].token]
  /\ out' = IF run[p].origin = "stored" THEN out ELSE out \ {h}
  /\ Goto(p, IF run[p].cmd = "login" THEN "store" ELSE "idle")
  /\ UNCHANGED <<keyed, default, throttle, now, runs, faults>>

--------------------------------------------------------------------------------
(* auth login *)

\* A token for the host: passed, or typed, or had with user name and password.
\* Skipping, a wrong password or code, and a platform without a store end here.
Obtain(p) ==
  /\ At(p, "obtain")
  /\ \/ Goto(p, "idle")
     \/ \E h \in Hosts, t \in Tokens : Use(p, "whoami", h, t, "given", Unread)
  /\ Still

Store(p) ==
  LET h == run[p].host IN
  /\ At(p, "store") /\ Goto(p, "store default")
  /\ keyed' = [keyed EXCEPT ![h] = run[p].token] /\ out' = out \ {h}
  /\ UNCHANGED <<default, session, throttle, now, runs, faults>>

StoreDefault(p) ==
  LET h == run[p].host IN
  /\ At(p, "store default") /\ Goto(p, "idle")
  /\ default' = [host |-> h, token |-> run[p].token] /\ out' = out \ {h}
  /\ UNCHANGED <<keyed, session, throttle, now, runs, faults>>

--------------------------------------------------------------------------------
(* auth logout *)

\* With an environment its host, else that of the default account
Target(p) ==
  IF run[p].env # None THEN ProfileHost[run[p].env] ELSE DefaultHost(p)

\* The Keychain's deletes swallow every error: the logout goes on, and says so.
Without(ok, store, h) == IF ok THEN [store EXCEPT ![h] = None] ELSE store

\* the process goes on as if it were gone
GoOn(p, ok, l) ==
  run' = [run EXCEPT ![p] = [@ EXCEPT !.pc = l, !.alone = run[p].alone /\ ok]]

DeleteKeyed(p) ==
  LET h == Target(p) IN
  /\ At(p, "out")
  /\ \/ h = None /\ Goto(p, "out default") /\ UNCHANGED <<keyed, faults>>
     \/ h # None /\ \E ok \in BOOLEAN :
          /\ Tried(ok) /\ keyed' = Without(ok, keyed, h)
          /\ run' = [run EXCEPT ![p] = [@ EXCEPT !.pc = "out session", !.host = h,
                       !.memo = IF run[p].env # None THEN run[p].memo ELSE Default(p),
                       !.alone = run[p].alone /\ ok]]
  /\ UNCHANGED <<default, session, throttle, now, out, runs>>

DeleteSession(p) ==
  /\ At(p, "out session")
  /\ \E ok \in BOOLEAN :
       /\ Tried(ok) /\ session' = Without(ok, session, run[p].host)
       /\ GoOn(p, ok, IF run[p].env = None THEN "out default" ELSE "out look")
  /\ UNCHANGED <<keyed, default, throttle, now, out, runs>>

\* mutated: with an environment the default account is left alone
SharesDefault_Never(p) == FALSE

\* the default account holds a copy of the token that goes
SharesDefault(p) == DefaultHost(p) = run[p].host

LoggedOutOf(p) ==
  IF run[p].alone /\ run[p].host # None THEN out \cup {run[p].host} ELSE out

LookAtDefault(p) ==
  /\ At(p, "out look")
  /\ \/ SharesDefault(p) /\ Goto(p, "out default") /\ UNCHANGED out
     \/ ~SharesDefault(p) /\ Goto(p, "idle") /\ out' = LoggedOutOf(p)
  /\ UNCHANGED <<keychain, throttle, now, runs, faults>>

DeleteDefault(p) ==
  /\ At(p, "out default") /\ Goto(p, "idle")
  /\ \/ default' = None /\ out' = LoggedOutOf(p) /\ UNCHANGED faults
     \/ Fault /\ UNCHANGED <<default, out>>
  /\ UNCHANGED <<keyed, session, throttle, now, runs>>

--------------------------------------------------------------------------------
(* auth status --all: every environment in turn, unthrottled and uncached *)

\* the host a token in CT_LOGINTOKEN belongs to
AmbientHost(p) ==
  IF run[p].ambient.host # None THEN run[p].ambient.host ELSE DefaultHost(p)

\* the variable the environment names, else CT_LOGINTOKEN for the host it
\* belongs to, else the stored token
Candidate(p, e) ==
  LET h == ProfileHost[e] IN
  IF ProfileToken[e] # None THEN [token |-> ProfileToken[e], origin |-> "env"]
  ELSE IF run[p].ambient.token # None /\ AmbientHost(p) = h
       THEN [token |-> run[p].ambient.token, origin |-> "ambient"]
  ELSE IF ReadCredentials(p, h) # None
       THEN [token |-> ReadCredentials(p, h).token, origin |-> "stored"]
  ELSE [token |-> None, origin |-> "none"]

\* what looking for it remembers of the default account
CandidateLooks(p, e) ==
  IF e \in Gateways \/ ProfileToken[e] # None THEN run[p].memo
  ELSE IF run[p].ambient.token # None /\ run[p].ambient.host = None THEN Default(p)
  ELSE IF Candidate(p, e).origin = "ambient" THEN run[p].memo
  ELSE Looked(p, ProfileHost[e])

\* the environments are tried in the order of the file: any order here
CheckNext(p) ==
  /\ At(p, "next")
  /\ \/ run[p].rest = {} /\ Goto(p, "idle")
     \/ \E e \in run[p].rest : LET c == Candidate(p, e) IN
          run' = [run EXCEPT ![p] = [@ EXCEPT !.rest = run[p].rest \ {e}, !.host = ProfileHost[e],
                    !.token = c.token, !.origin = c.origin, !.memo = CandidateLooks(p, e),
                    !.pc = IF e \in Gateways \/ c.token = None THEN "next" ELSE "whoami"]]
  /\ Still

--------------------------------------------------------------------------------
\* The process dies, possibly while it writes the throttle file.
Crash(p) ==
  /\ ~At(p, "idle") /\ Fault /\ Goto(p, "idle")
  /\ \/ UNCHANGED <<budget, noted>>
     \/ At(p, "wait") /\ Waited(p) /\ Torn(run[p].host)
  /\ UNCHANGED <<keychain, log, now, out, runs>>

Tick ==
  /\ now < MaxTime /\ now' = now + 1
  /\ UNCHANGED <<keychain, throttle, run, out, runs, faults>>

Init ==
  /\ keyed = [h \in Hosts |-> None] /\ default = None
  /\ session = [h \in Hosts |-> None] /\ budget = [h \in Hosts |-> {}]
  /\ now = 0 /\ run = [p \in Procs |-> Idle]
  /\ out = {} /\ log = [h \in Hosts |-> <<>>] /\ noted = [h \in Hosts |-> {}]
  /\ runs = 0 /\ faults = 0

\* no environment variables
Bare == [host |-> None, token |-> None, free |-> FALSE]

Begin(p) ==
  \/ Start(p, "login", None, Bare)
  \/ \E e \in Profiles \cup {None} : Start(p, "logout", e, Bare)
  \/ \E e \in Profiles \cup {None}, a \in Ambient : Start(p, "command", e, a)
  \/ \E a \in Ambient : Start(p, "status", None, a)

Next ==
  \/ \E p \in Procs :
       \/ Begin(p) \/ Resolve(p) \/ ReadToken(p) \/ Resume(p) \/ Gate(p) \/ Pass(p)
       \/ Whoami(p) \/ Save(p) \/ Obtain(p) \/ Store(p) \/ StoreDefault(p)
       \/ DeleteKeyed(p) \/ DeleteSession(p) \/ LookAtDefault(p) \/ DeleteDefault(p)
       \/ CheckNext(p) \/ Crash(p)
  \/ Tick

Spec == Init /\ [][Next]_vars

--------------------------------------------------------------------------------
Labels == {"resolve", "token", "session", "gate", "wait", "whoami", "save", "obtain",
           "store", "store default", "out", "out session", "out look", "out default",
           "next"}

Commands ==
  [pc : Labels, cmd : {"command", "login", "logout", "status"},
   env : Profiles \cup {None}, ambient : Ambients,
   host : HostOrNone, token : TokenOrNone,
   origin : {"none", "env", "stored", "given", "ambient"},
   memo : Blob \cup {None, Unread}, recent : SUBSET Nat, after : SUBSET Nat,
   rest : SUBSET Profiles, alone : BOOLEAN]

TypeOK ==
  /\ keyed \in [Hosts -> TokenOrNone] /\ default \in Blob \cup {None}
  /\ session \in [Hosts -> TokenOrNone]
  /\ budget \in [Hosts -> SUBSET Nat] /\ now \in Nat
  /\ log \in [Hosts -> Seq([at : Nat, after : SUBSET Nat])] /\ noted \in [Hosts -> SUBSET Nat]
  /\ run \in [Procs -> Commands \cup {Idle}]
  /\ out \subseteq Hosts /\ runs \in Nat /\ faults \in Nat

\* A token from the store reaches only the instance that issued it, whatever
\* was logged in and out by other processes between the reads (session.ts:46,
\* status.ts:102).
TokenGoesHome ==
  \A p \in Procs : At(p, "whoami") =>
    (run[p].origin = "stored" => HostOf[run[p].token] = run[p].host)

\* After a logout that ran by itself, and whose deletes were carried out, nothing
\* is left that would let a command in: no account of the host, no default account
\* of it, and no session, in whatever order logins and interrupted logins or
\* logouts went before (tokenStore.ts:159).
LoggedOut ==
  \A h \in out : /\ keyed[h] = None /\ session[h] = None
                 /\ default # None => default.host # h

\* A handshake comes Interval after every one that was noted before its command
\* looked, also after those that parallel commands overwrote; and of commands that
\* passed the throttle one after the other at most MaxPerHour come within an Hour.
\* What is excused is what the file's comments give away: commands that looked at
\* the same moment, a file that broke, a note that was not written.  A command
\* that died on its way excuses nothing else (loginThrottle.ts:145).
LoginsSpaced ==
  \A h \in Hosts : LET s == log[h] IN
    /\ \A j \in DOMAIN s : \A i \in s[j].after : s[j].at - s[i].at >= Interval
    /\ \A j \in MaxPerHour + 1 .. Len(s) :
         (\A i \in j - MaxPerHour + 1 .. j : i - 1 \in s[i].after)
           => s[j].at - s[j - MaxPerHour].at >= Hour
=============================================================================
