------------------------ MODULE Credentials_proofs -------------------------
(***************************************************************************)
(* Tokens go home, logouts are thorough and logins are spaced, for any     *)
(* number of processes, instances, environments and commands.              *)
(***************************************************************************)
EXTENDS Credentials, FiniteSetTheorems, TLAPS

\* while a command uses its token, and once its token was answered for
Using == {"session", "gate", "wait", "whoami", "save"}
Verified == {"save", "store", "store default"}

\* What a process holds of the store belongs to the host it is kept for.
HomeRun(r) ==
  r # Idle => /\ r.memo \notin {None, Unread} => HostOf[r.memo.token] = r.memo.host
              /\ r.pc \in Verified => HostOf[r.token] = r.host
              /\ r.pc \in Using /\ r.origin = "stored" => HostOf[r.token] = r.host
              /\ r.pc \in Using \cup Verified \cup {"token"} => r.host # None
              /\ r.pc \in Using \cup Verified => r.token # None

HomeStore ==
  /\ \A h \in Hosts : keyed[h] # None => HostOf[keyed[h]] = h
  /\ default # None => HostOf[default.token] = default.host

Home == HomeStore /\ \A p \in Procs : HomeRun(run[p])

\* A process holds nothing of the store about this host.
Clean(r, h) ==
  r # Idle => /\ r.memo \notin {None, Unread} => r.memo.host # h
              /\ ~(r.pc \in Using /\ r.origin = "stored" /\ r.host = h)

CleanStore(h) ==
  keyed[h] = None /\ session[h] = None /\ (default # None => default.host # h)

\* How far a logout that runs by itself has come.
Leaving(r) ==
  r # Idle =>
    /\ r.pc = "out" => r.memo = Unread /\ r.host = None
    /\ r.pc \in {"out session", "out look"} => r.host # None
    /\ r.pc = "out session" /\ r.env # None => r.memo = Unread
    /\ r.pc = "out look" => r.memo = Unread
    /\ r.alone /\ r.pc \in {"out session", "out look", "out default"} /\ r.host # None
         => keyed[r.host] = None
    /\ r.alone /\ r.pc \in {"out look", "out default"} /\ r.host # None
         => session[r.host] = None

Lonely ==
  \A p, q \in Procs : p # q /\ run[p] # Idle /\ run[p].alone => run[q] = Idle

Gone ==
  /\ \A h \in out : CleanStore(h) /\ \A p \in Procs : Clean(run[p], h)
  /\ \A p \in Procs : Leaving(run[p])
  /\ Lonely

--------------------------------------------------------------------------------
LEMMA Places ==
  ASSUME TypeOK, NEW p \in Procs
  PROVE  /\ At(p, "idle") <=> run[p] = Idle
         /\ run[p] # Idle => run[p] \in Commands
         /\ \A l \in Labels : At(p, l) => run[p] \in Commands /\ run[p] # Idle
  <1>1. Idle.pc = "idle" /\ \A r \in Commands : r.pc \in Labels
    BY DEF Idle, Commands
  <1>2. "idle" \notin Labels
    BY DEF Labels
  <1>3. run[p] \in Commands \cup {Idle}
    BY DEF TypeOK
  <1> QED BY <1>1, <1>2, <1>3 DEF At

\* what a step of one process leaves alone of its record
Same(r, s) ==
  /\ s.cmd = r.cmd /\ s.env = r.env /\ s.ambient = r.ambient /\ s.host = r.host
  /\ s.token = r.token /\ s.origin = r.origin /\ s.memo = r.memo /\ s.rest = r.rest
  /\ s.alone = r.alone

LEMMA GotoStep ==
  ASSUME TypeOK, NEW p \in Procs, run[p] # Idle, NEW l \in Labels \cup {"idle"}, Goto(p, l)
  PROVE  /\ run' \in [Procs -> Commands \cup {Idle}]
         /\ \A q \in Procs \ {p} : run'[q] = run[q]
         /\ l = "idle" => run'[p] = Idle
         /\ l # "idle" => /\ run'[p] \in Commands /\ run'[p].pc = l
                          /\ Same(run[p], run'[p])
  <1>1. run[p] \in Commands /\ run \in [Procs -> Commands \cup {Idle}]
    BY Places DEF TypeOK
  <1>2. run' = [run EXCEPT ![p] = IF l = "idle" THEN Idle ELSE [run[p] EXCEPT !.pc = l]]
    BY DEF Goto
  <1>3. l # "idle" => /\ [run[p] EXCEPT !.pc = l] \in Commands
                      /\ [run[p] EXCEPT !.pc = l].pc = l
                      /\ Same(run[p], [run[p] EXCEPT !.pc = l])
    BY <1>1 DEF Commands, Same
  <1> QED BY <1>1, <1>2, <1>3

\* An invariant step of one process is a matter of its own record, the store
\* and, when it logs out by itself, of nobody else.
LEMMA StepOf ==
  ASSUME TypeOK, Home, Gone, NEW p \in Procs, run[p] # Idle,
         \A q \in Procs \ {p} : run'[q] = run[q],
         run'[p] = Idle \/ (run'[p].alone => run[p].alone),
         run[p].alone \/ out' \subseteq out,
         HomeStore', HomeRun(run'[p]),
         \A h \in out' : CleanStore(h)' /\ Clean(run'[p], h),
         Leaving(run[p])'
  PROVE  Home' /\ Gone'
  <1>1. Home'
    BY DEF Home, HomeRun
  <1>2. ASSUME NEW q \in Procs \ {p}, run[q] # Idle
        PROVE  ~run[q].alone /\ ~run[p].alone
    BY <1>2 DEF Gone, Lonely
  <1>3. ASSUME NEW q \in Procs \ {p}, NEW h \in out' PROVE Clean(run'[q], h)
    BY <1>3, <1>2 DEF Gone, Clean
  <1>4. ASSUME NEW q \in Procs \ {p} PROVE Leaving(run[q])'
    BY <1>4, <1>2 DEF Gone, Leaving
  <1>5. Lonely'
    BY <1>2 DEF Gone, Lonely
  <1>6. Gone'
    BY <1>3, <1>4, <1>5 DEF Gone
  <1> QED BY <1>1, <1>6

--------------------------------------------------------------------------------
LEMMA Beginnings == Init => TypeOK /\ Home /\ Gone
  <1> SUFFICES ASSUME Init PROVE TypeOK /\ Home /\ Gone
    OBVIOUS
  <1>1. TypeOK
    BY CredentialsAssumption DEF Init, TypeOK, TokenOrNone, HostOrNone
  <1>2. Home
    BY DEF Init, Home, HomeStore, HomeRun
  <1>3. Gone
    BY DEF Init, Gone, Clean, CleanStore, Leaving, Lonely
  <1> QED BY <1>1, <1>2, <1>3

LEMMA StartStep ==
  ASSUME TypeOK, Home, Gone, NEW p \in Procs,
         NEW c \in {"command", "login", "logout", "status"}, NEW e \in Profiles \cup {None},
         NEW a \in Ambients, Start(p, c, e, a)
  PROVE  TypeOK' /\ Home' /\ Gone'
  <1>1. PICK al \in BOOLEAN : /\ al <=> \A r \in Procs : At(r, "idle")
                              /\ run'[p] = Command(c, e, a, al)
    BY DEF Start
  <1>2. /\ \A q \in Procs \ {p} :
             run'[q] = IF run[q] = Idle THEN Idle ELSE [run[q] EXCEPT !.alone = FALSE]
        /\ run'[p] \in Commands /\ run'[p] # Idle
    <2>1. Command(c, e, a, al) \in Commands
      BY CredentialsAssumption
      DEF Command, Commands, Labels, HostOrNone, TokenOrNone
    <2>2. Command(c, e, a, al).pc # "idle" /\ Idle.pc = "idle"
      BY DEF Command, Idle
    <2>3. \A q \in Procs \ {p} :
            run'[q] = IF run[q] = Idle THEN Idle ELSE [run[q] EXCEPT !.alone = FALSE]
      BY Places DEF Start
    <2> QED BY <1>1, <2>1, <2>2, <2>3
  <1>3. \A q \in Procs \ {p} : run[q] # Idle =>
          /\ run'[q] \in Commands /\ run'[q] # Idle /\ ~run'[q].alone
          /\ run'[q].pc = run[q].pc /\ run'[q].memo = run[q].memo /\ run'[q].env = run[q].env
          /\ run'[q].host = run[q].host /\ run'[q].token = run[q].token
          /\ run'[q].origin = run[q].origin
    <2> SUFFICES ASSUME NEW q \in Procs \ {p}, run[q] # Idle
                 PROVE  /\ run'[q] \in Commands /\ run'[q] # Idle /\ ~run'[q].alone
                        /\ run'[q].pc = run[q].pc /\ run'[q].memo = run[q].memo
                        /\ run'[q].env = run[q].env
                        /\ run'[q].host = run[q].host /\ run'[q].token = run[q].token
                        /\ run'[q].origin = run[q].origin
      OBVIOUS
    <2>1. run[q] \in Commands /\ run'[q] = [run[q] EXCEPT !.alone = FALSE]
      BY <1>2, Places
    <2>2. run[q].pc \in Labels /\ "idle" \notin Labels /\ Idle.pc = "idle"
      BY <2>1 DEF Commands, Labels, Idle
    <2>3. run'[q] \in Commands
      BY <2>1 DEF Commands
    <2>4. /\ ~run'[q].alone
          /\ run'[q].pc = run[q].pc /\ run'[q].memo = run[q].memo /\ run'[q].env = run[q].env
          /\ run'[q].host = run[q].host /\ run'[q].token = run[q].token
          /\ run'[q].origin = run[q].origin
      BY <2>1 DEF Commands
    <2> QED BY <2>2, <2>3, <2>4
  <1>4. /\ run'[p].memo = Unread /\ run'[p].origin = "none" /\ run'[p].host = None
        /\ run'[p].pc \in {"resolve", "obtain", "out", "next"}
        /\ (run'[p].alone => \A r \in Procs : run[r] = Idle)
    BY <1>1, Places DEF Command
  <1>5. UNCHANGED <<keyed, default, session, budget, log, noted, now, out, faults>>
        /\ runs' = runs + 1
    BY DEF Start, keychain, throttle
  <1>6. TypeOK'
    <2>1. run' \in [Procs -> Commands \cup {Idle}]
      <3>1. \A q \in Procs : run'[q] \in Commands \cup {Idle}
        BY <1>2, <1>3
      <3>2. run' = [q \in Procs |-> run'[q]]
        BY DEF Start
      <3> QED BY <3>1, <3>2
    <2> QED BY <2>1, <1>5 DEF TypeOK
  <1>7. Home'
    <2>1. HomeRun(run'[p])
      BY <1>4 DEF HomeRun, Using, Verified
    <2>2. ASSUME NEW q \in Procs \ {p} PROVE HomeRun(run'[q])
      <3>1. HomeRun(run[q])
        BY DEF Home
      <3> QED BY <3>1, <1>2, <1>3 DEF HomeRun
    <2>3. HomeStore'
      BY <1>5 DEF Home, HomeStore
    <2> QED BY <2>1, <2>2, <2>3 DEF Home, HomeRun
  <1>8. ASSUME NEW h \in out', NEW q \in Procs PROVE Clean(run'[q], h)
    <2>1. CASE q = p
      BY <2>1, <1>4 DEF Clean
    <2>2. CASE q # p /\ run[q] = Idle
      BY <2>2, <1>2 DEF Clean
    <2>3. CASE q # p /\ run[q] # Idle
      <3>1. Clean(run[q], h)
        BY <1>5, <1>8 DEF Gone
      <3> QED BY <2>3, <3>1, <1>3 DEF Clean
    <2> QED BY <2>1, <2>2, <2>3
  <1>9. ASSUME NEW q \in Procs PROVE Leaving(run[q])'
    <2>1. CASE q = p
      BY <2>1, <1>4 DEF Leaving
    <2>2. CASE q # p /\ run[q] = Idle
      BY <2>2, <1>2 DEF Leaving
    <2>3. CASE q # p /\ run[q] # Idle
      <3>1. Leaving(run[q])
        BY DEF Gone
      <3> QED BY <2>3, <3>1, <1>3 DEF Leaving
    <2> QED BY <2>1, <2>2, <2>3
  <1>10. Lonely'
    <2>1. ASSUME NEW q \in Procs \ {p}, run'[q] # Idle PROVE ~run'[q].alone /\ ~run'[p].alone
      BY <2>1, <1>2, <1>3, <1>4
    <2> QED BY <2>1 DEF Lonely
  <1>11. Gone'
    BY <1>5, <1>8, <1>9, <1>10 DEF Gone, CleanStore
  <1> QED BY <1>6, <1>7, <1>11

--------------------------------------------------------------------------------
Origins == {"none", "env", "stored", "given", "ambient"}
Memos == Blob \cup {None, Unread}

LEMMA Blobs ==
  /\ \A b \in Blob : b # None /\ b # Unread /\ b.host \in Hosts /\ b.token \in Tokens
  /\ \A h \in Hosts, t \in Tokens :
       [host |-> h, token |-> t] \in Blob /\ h # None /\ t # None
  /\ None # Unread
BY CredentialsAssumption DEF Blob

\* What a process reads of the store now is at home, and nothing of a host that
\* was logged out of.
LEMMA Reads ==
  ASSUME TypeOK, Home, Gone, NEW p \in Procs, run[p] # Idle
  PROVE  /\ Default(p) \in Blob \cup {None}
         /\ Default(p) # None => /\ HostOf[Default(p).token] = Default(p).host
                                /\ Default(p).host \notin out
         /\ DefaultHost(p) \in HostOrNone
         /\ \A h \in Hosts : ReadCredentials(p, h) # None =>
              /\ ReadCredentials(p, h) \in Blob /\ ReadCredentials(p, h).host = h
              /\ HostOf[ReadCredentials(p, h).token] = h /\ h \notin out
         /\ \A h \in Hosts : Looked(p, h) \in {run[p].memo, Default(p)}
  <1>1. run[p].memo \in Memos
    BY Places DEF Commands, Memos
  <1>2. Default(p) \in Blob \cup {None}
    BY <1>1 DEF Default, Memos, TypeOK
  <1>3. Default(p) # None => /\ HostOf[Default(p).token] = Default(p).host
                             /\ \A h \in out : Default(p).host # h
    <2>1. CASE run[p].memo = Unread
      BY <2>1 DEF Default, Home, HomeStore, Gone, CleanStore
    <2>2. CASE run[p].memo # Unread
      BY <2>2 DEF Default, Home, HomeRun, Gone, Clean
    <2> QED BY <2>1, <2>2
  <1>4. DefaultHost(p) \in HostOrNone
    BY <1>2, Blobs DEF DefaultHost, HostOrNone
  <1>5. ASSUME NEW h \in Hosts, ReadCredentials(p, h) # None
        PROVE  /\ ReadCredentials(p, h) \in Blob /\ ReadCredentials(p, h).host = h
               /\ HostOf[ReadCredentials(p, h).token] = h /\ h \notin out
    <2>1. CASE keyed[h] # None
      <3>1. keyed[h] \in Tokens /\ HostOf[keyed[h]] = h /\ h \notin out
        BY <2>1 DEF TypeOK, TokenOrNone, Home, HomeStore, Gone, CleanStore
      <3>2. ReadCredentials(p, h) = [host |-> h, token |-> keyed[h]]
        BY <2>1 DEF ReadCredentials
      <3> QED BY <3>1, <3>2, Blobs
    <2>2. CASE keyed[h] = None
      <3>1. ReadCredentials(p, h) = Default(p) /\ DefaultHost(p) = h /\ Default(p) # None
        BY <2>2, <1>5 DEF ReadCredentials
      <3> QED BY <3>1, <1>2, <1>3 DEF DefaultHost
    <2> QED BY <2>1, <2>2
  <1>6. \A h \in Hosts : Looked(p, h) \in {run[p].memo, Default(p)}
    BY DEF Looked
  <1> QED BY <1>2, <1>3, <1>4, <1>5, <1>6

LEMMA Replaced ==
  ASSUME TypeOK, NEW p \in Procs, NEW r \in Commands, run' = [run EXCEPT ![p] = r]
  PROVE  /\ run' \in [Procs -> Commands \cup {Idle}]
         /\ \A q \in Procs \ {p} : run'[q] = run[q]
         /\ run'[p] = r /\ r # Idle
  <1>1. r.pc # "idle" /\ Idle.pc = "idle"
    BY DEF Commands, Labels, Idle
  <1> QED BY <1>1 DEF TypeOK

\* A step that only goes on, without a token it had not.
LEMMA Moves ==
  ASSUME TypeOK, Home, Gone, NEW p \in Procs, run[p] # Idle,
         NEW l \in {"idle", "next", "gate", "wait", "whoami", "save"}, Goto(p, l),
         l \in {"idle", "next"} \/ run[p].pc \in Using,
         l = "save" => HostOf[run[p].token] = run[p].host,
         UNCHANGED <<keyed, default, out>>,
         \A h \in Hosts : session'[h] \in {session[h], None}
  PROVE  Home' /\ Gone'
  <1>1. l \in Labels \cup {"idle"}
    BY DEF Labels
  <1>2. /\ \A q \in Procs \ {p} : run'[q] = run[q]
        /\ l = "idle" => run'[p] = Idle
        /\ l # "idle" => /\ run'[p] \in Commands /\ run'[p].pc = l
                         /\ Same(run[p], run'[p])
    BY <1>1, GotoStep
  <1>3. HomeStore'
    BY DEF Home, HomeStore
  <1>4. HomeRun(run'[p])
    <2>1. HomeRun(run[p])
      BY DEF Home
    <2> QED BY <2>1, <1>2 DEF HomeRun, Same, Using, Verified
  <1>5. ASSUME NEW h \in out' PROVE CleanStore(h)' /\ Clean(run'[p], h)
    <2>1. CleanStore(h) /\ Clean(run[p], h) /\ h \in Hosts
      BY <1>5 DEF Gone, TypeOK
    <2> QED BY <2>1, <1>2 DEF CleanStore, Clean, Same, Using
  <1>6. Leaving(run[p])'
    BY <1>2 DEF Leaving
  <1>7. run'[p] = Idle \/ run'[p].alone = run[p].alone
    BY <1>2 DEF Same
  <1> QED BY <1>2, <1>3, <1>4, <1>5, <1>6, <1>7, StepOf

\* A step that takes a token, or a host, of the store.
LEMMA Takes ==
  ASSUME TypeOK, Home, Gone, NEW p \in Procs, run[p] # Idle, NEW r \in Commands,
         run' = [run EXCEPT ![p] = r], r.alone = run[p].alone,
         r.pc \in {"token", "session", "whoami", "next", "wait"},
         r.memo \in {run[p].memo, Default(p), Unread},
         r.pc \in Using /\ r.origin = "stored" =>
           HostOf[r.token] = r.host /\ r.host \notin out,
         r.pc \in Using \cup {"token"} => r.host # None,
         r.pc \in Using => r.token # None,
         UNCHANGED <<keyed, default, session, out>>
  PROVE  Home' /\ Gone'
  <1>1. /\ \A q \in Procs \ {p} : run'[q] = run[q]
        /\ run'[p] = r /\ r # Idle
    BY Replaced
  <1>2. HomeStore'
    BY DEF Home, HomeStore
  <1>3. r.memo \notin {None, Unread} =>
          HostOf[r.memo.token] = r.memo.host /\ r.memo.host \notin out
    BY Reads DEF Home, HomeRun, Gone, Clean
  <1>4. HomeRun(run'[p])
    BY <1>1, <1>3 DEF HomeRun, Using, Verified
  <1>5. ASSUME NEW h \in out' PROVE CleanStore(h)' /\ Clean(run'[p], h)
    <2>1. CleanStore(h)
      BY <1>5 DEF Gone
    <2> QED BY <2>1, <1>1, <1>3, <1>5 DEF CleanStore, Clean
  <1>6. Leaving(run[p])'
    BY <1>1 DEF Leaving
  <1> QED BY <1>1, <1>2, <1>4, <1>5, <1>6, StepOf

--------------------------------------------------------------------------------
(* One lemma per step of a process.                                         *)

Held == TypeOK /\ Home /\ Gone

LEMMA ResolveStep ==
  ASSUME Held, NEW p \in Procs, Resolve(p)
  PROVE  Held'
  <1> USE DEF Held
  <1> DEFINE h == IF WiredHost(p) # None THEN WiredHost(p) ELSE DefaultHost(p)
             m == IF WiredHost(p) # None THEN run[p].memo ELSE Default(p)
             r == [run[p] EXCEPT !.pc = "token", !.host = h, !.memo = m]
  <1>1. /\ run[p] \in Commands /\ run[p] # Idle
        /\ UNCHANGED <<keychain, throttle, now, out, runs, faults>>
    BY Places DEF Resolve, Still, Labels
  <1>2. CASE Goto(p, "idle")
    <2>1. Home' /\ Gone'
      BY <1>1, <1>2, Moves DEF keychain
    <2>2. TypeOK'
      BY <1>1, <1>2, GotoStep DEF TypeOK, keychain, throttle
    <2> QED BY <2>1, <2>2
  <1>3. CASE h # None /\ run' = [run EXCEPT ![p] = r]
    <2>1. h \in HostOrNone
      BY <1>1, Reads, CredentialsAssumption DEF WiredHost, Commands, Ambients, HostOrNone
    <2>2. m \in Memos /\ m \in {run[p].memo, Default(p), Unread}
      BY <1>1, Reads DEF Commands, Memos
    <2>3. /\ r \in Commands /\ r.pc = "token" /\ r.memo = m
          /\ r.alone = run[p].alone /\ r.host = h
      BY <1>1, <2>1, <2>2 DEF Commands, Labels, Memos
    <2> HIDE DEF h, m, r
    <2>4. Home' /\ Gone'
      BY <1>1, <1>3, <2>2, <2>3, Takes DEF keychain, Using
    <2>5. TypeOK'
      BY <1>1, <1>3, <2>3, Replaced DEF TypeOK, keychain, throttle
    <2> QED BY <2>4, <2>5
  <1> QED BY <1>2, <1>3 DEF Resolve

LEMMA UseStep ==
  ASSUME Held, NEW p \in Procs, run[p] # Idle,
         NEW l \in {"session", "whoami"}, NEW h \in Hosts, NEW t \in Tokens,
         NEW o \in Origins, NEW m \in {run[p].memo, Default(p), Unread}, Use(p, l, h, t, o, m),
         o = "stored" => HostOf[t] = h /\ h \notin out,
         UNCHANGED <<keychain, throttle, now, out, runs, faults>>
  PROVE  Held'
  <1> USE DEF Held
  <1> DEFINE r == [run[p] EXCEPT !.pc = l, !.host = h, !.token = t, !.origin = o, !.memo = m]
  <1>1. run[p] \in Commands /\ m \in Memos
    BY Places, Reads DEF Commands, Memos
  <1>2. /\ r \in Commands /\ r.pc = l /\ r.memo = m /\ r.alone = run[p].alone
        /\ r.host = h /\ r.token = t /\ r.origin = o
    <2>1. l \in Labels /\ h \in HostOrNone /\ t \in TokenOrNone
      BY DEF Labels, HostOrNone, TokenOrNone
    <2> QED BY <1>1, <2>1 DEF Commands, Memos, Origins
  <1>3. run' = [run EXCEPT ![p] = r]
    BY DEF Use
  <1>4. Home' /\ Gone'
    BY <1>2, <1>3, Takes, CredentialsAssumption DEF keychain
  <1>5. TypeOK'
    BY <1>2, <1>3, Replaced DEF TypeOK, keychain, throttle
  <1> QED BY <1>4, <1>5

LEMMA ReadTokenStep ==
  ASSUME Held, NEW p \in Procs, ReadToken(p)
  PROVE  Held'
  <1> USE DEF Held
  <1> DEFINE h == run[p].host
  <1>1. /\ run[p] \in Commands /\ run[p] # Idle /\ h \in Hosts
        /\ UNCHANGED <<keychain, throttle, now, out, runs, faults>>
    <2>1. run[p] \in Commands /\ run[p] # Idle
      BY Places DEF ReadToken, Labels
    <2>2. run[p].host # None
      BY <2>1 DEF Home, HomeRun, ReadToken, At
    <2> QED BY <2>1, <2>2 DEF ReadToken, Still, Commands, HostOrNone
  <1>2. Looked(p, h) \in {run[p].memo, Default(p), Unread}
    BY <1>1, Reads
  <1>3. CASE Goto(p, "idle")
    <2>1. Home' /\ Gone'
      BY <1>1, <1>3, Moves DEF keychain
    <2>2. TypeOK'
      BY <1>1, <1>3, GotoStep DEF TypeOK, keychain, throttle
    <2> QED BY <2>1, <2>2
  <1>4. CASE WiredToken(p) # None /\ Use(p, "session", h, WiredToken(p), "env", Looked(p, h))
    <2>1. WiredToken(p) \in Tokens
      BY <1>1, <1>4, CredentialsAssumption DEF WiredToken, Commands, Ambients, TokenOrNone
    <2> QED BY <1>1, <1>2, <1>4, <2>1, UseStep DEF Origins
  <1>5. CASE /\ ReadCredentials(p, h) # None
             /\ Use(p, "session", h, ReadCredentials(p, h).token, "stored", Looked(p, h))
    <2>1. /\ ReadCredentials(p, h).token \in Tokens
          /\ HostOf[ReadCredentials(p, h).token] = h /\ h \notin out
      BY <1>1, <1>5, Reads, Blobs
    <2> QED BY <1>1, <1>2, <1>5, <2>1, UseStep DEF Origins
  <1> QED BY <1>3, <1>4, <1>5 DEF ReadToken

LEMMA ResumeStep ==
  ASSUME Held, NEW p \in Procs, Resume(p)
  PROVE  Held'
  <1> USE DEF Held
  <1>1. /\ run[p] # Idle /\ run[p].pc = "session"
        /\ UNCHANGED <<keyed, default, throttle, now, out, runs, faults>>
        /\ session' = session \/ session' = [session EXCEPT ![run[p].host] = None]
    BY Places DEF Resume, Labels, At
  <1>2. PICK l \in {"idle", "gate"} : Goto(p, l)
    BY DEF Resume
  <1>3. /\ \A h \in Hosts : session'[h] \in {session[h], None}
        /\ session' \in [Hosts -> TokenOrNone]
    BY <1>1 DEF TypeOK, TokenOrNone
  <1>4. Home' /\ Gone'
    BY <1>1, <1>2, <1>3, Moves DEF Using
  <1>5. TypeOK'
    BY <1>1, <1>2, <1>3, GotoStep DEF TypeOK, throttle, Labels
  <1> QED BY <1>4, <1>5

\* Whether or not a call that is only tried fails, the count of faults is one.
LEMMA Counts ==
  ASSUME TypeOK, NEW ok \in BOOLEAN, Tried(ok)
  PROVE  faults' \in Nat
BY DEF Tried, TypeOK

LEMMA GateStep ==
  ASSUME Held, NEW p \in Procs, Gate(p)
  PROVE  Held'
  <1> USE DEF Held
  <1>1. /\ run[p] \in Commands /\ run[p] # Idle /\ run[p].pc = "gate"
        /\ UNCHANGED <<keychain, throttle, now, out, runs>> /\ faults' \in Nat
    BY Places, Counts DEF Gate, Labels, At, Fault, TypeOK
  <1>2. ASSUME NEW l \in {"idle", "whoami"}, Goto(p, l) PROVE Held'
    <2>1. Home' /\ Gone'
      BY <1>1, <1>2, Moves DEF keychain, Using
    <2>2. TypeOK'
      BY <1>1, <1>2, GotoStep DEF TypeOK, keychain, throttle, Labels
    <2> QED BY <2>1, <2>2
  <1>3. ASSUME NEW seen \in SUBSET Nat, NEW known \in SUBSET Nat, Look(p, seen, known)
        PROVE  Held'
    <2> DEFINE r == [run[p] EXCEPT !.pc = "wait", !.recent = seen, !.after = known]
    <2>1. /\ r \in Commands /\ r.pc = "wait" /\ r.memo = run[p].memo
          /\ r.alone = run[p].alone /\ r.host = run[p].host /\ r.token = run[p].token
          /\ r.origin = run[p].origin
      BY <1>1, <1>3 DEF Commands, Labels
    <2>2. run' = [run EXCEPT ![p] = r]
      BY <1>3 DEF Look
    <2>3. HomeRun(run[p]) /\ \A h \in out : Clean(run[p], h)
      BY DEF Home, Gone
    <2>4. /\ r.origin = "stored" => HostOf[r.token] = r.host /\ r.host \notin out
          /\ r.host # None /\ r.token # None
      BY <1>1, <2>1, <2>3 DEF HomeRun, Clean, Using
    <2> HIDE DEF r
    <2>5. Home' /\ Gone'
      BY <1>1, <2>1, <2>2, <2>4, Takes DEF keychain
    <2>6. TypeOK'
      BY <1>1, <2>1, <2>2, Replaced DEF TypeOK, keychain, throttle
    <2> QED BY <2>5, <2>6
  <1>4. Counted(run[p].host) \in SUBSET Nat /\ noted[run[p].host] \in SUBSET Nat
    <2>1. run[p].host \in Hosts
      BY <1>1 DEF Home, HomeRun, Using, Commands, HostOrNone
    <2> QED BY <2>1 DEF Counted, TypeOK
  <1> QED BY <1>2, <1>3, <1>4 DEF Gate

\* the throttle's file and its history after a step, in type
LEMMA TornTypes ==
  ASSUME TypeOK, NEW h \in Hosts, Torn(h)
  PROVE  budget' \in [Hosts -> SUBSET Nat] /\ noted' \in [Hosts -> SUBSET Nat]
BY DEF Torn, TypeOK

LEMMA PassStep ==
  ASSUME Held, NEW p \in Procs, Pass(p)
  PROVE  Held'
  <1> USE DEF Held
  <1> DEFINE h == run[p].host
  <1>1. /\ run[p] \in Commands /\ run[p] # Idle /\ run[p].pc = "wait" /\ Goto(p, "whoami")
        /\ UNCHANGED <<keychain, now, out, runs>> /\ faults' \in Nat
    BY Places, Counts DEF Pass, Labels, At, Fault, TypeOK
  <1>2. h \in Hosts
    BY <1>1 DEF Home, HomeRun, Using, Commands, HostOrNone
  <1>3. Home' /\ Gone'
    BY <1>1, Moves DEF keychain, Using
  <1>4. log' \in [Hosts -> Seq([at : Nat, after : SUBSET Nat])]
    <2>1. Logged(p) \in [at : Nat, after : SUBSET Nat]
      BY <1>1 DEF Logged, Commands, TypeOK
    <2>2. Append(log[h], Logged(p)) \in Seq([at : Nat, after : SUBSET Nat])
      BY <1>2, <2>1 DEF TypeOK
    <2> QED BY <2>2 DEF Pass, TypeOK
  <1>5. budget' \in [Hosts -> SUBSET Nat] /\ noted' \in [Hosts -> SUBSET Nat]
    <2>1. CASE /\ budget' = [budget EXCEPT ![h] = run[p].recent \cup {now}]
               /\ noted' = [noted EXCEPT ![h] = @ \cup {Len(log'[h])}]
      <3>1. run[p].recent \cup {now} \in SUBSET Nat
        BY <1>1 DEF Commands, TypeOK
      <3>2. noted[h] \cup {Len(log'[h])} \in SUBSET Nat
        BY <1>2, <1>4 DEF TypeOK
      <3> QED BY <2>1, <3>1, <3>2 DEF TypeOK
    <2>2. CASE UNCHANGED <<budget, noted>>
      BY <2>2 DEF TypeOK
    <2> QED BY <1>2, <2>1, <2>2, TornTypes DEF Pass
  <1>6. TypeOK'
    BY <1>1, <1>4, <1>5, GotoStep DEF TypeOK, keychain, Labels
  <1> QED BY <1>3, <1>6

LEMMA WhoamiStep ==
  ASSUME Held, NEW p \in Procs, Whoami(p)
  PROVE  Held'
  <1> USE DEF Held
  <1>1. /\ run[p] # Idle /\ run[p].pc = "whoami"
        /\ UNCHANGED <<keychain, throttle, now, out, runs, faults>>
    BY Places DEF Whoami, Labels, At, Still
  <1>2. PICK l \in {"save", "next", "idle"} :
          Goto(p, l) /\ (l = "save" => HostOf[run[p].token] = run[p].host)
    BY DEF Whoami
  <1>3. Home' /\ Gone'
    BY <1>1, <1>2, Moves DEF keychain, Using
  <1>4. TypeOK'
    BY <1>1, <1>2, GotoStep DEF TypeOK, keychain, throttle, Labels
  <1> QED BY <1>3, <1>4

LEMMA SaveStep ==
  ASSUME Held, NEW p \in Procs, Save(p)
  PROVE  Held'
  <1> USE DEF Held
  <1> DEFINE h == run[p].host
  <1>1. /\ run[p] \in Commands /\ run[p] # Idle /\ run[p].pc = "save"
        /\ session' = [session EXCEPT ![h] = run[p].token]
        /\ out' = IF run[p].origin = "stored" THEN out ELSE out \ {h}
        /\ UNCHANGED <<keyed, default, throttle, now, runs, faults>>
    BY Places DEF Save, Labels, At
  <1>2. PICK l \in {"store", "idle"} : Goto(p, l)
    BY DEF Save
  <1>3. /\ run' \in [Procs -> Commands \cup {Idle}]
        /\ \A q \in Procs \ {p} : run'[q] = run[q]
        /\ l = "idle" => run'[p] = Idle
        /\ l # "idle" => /\ run'[p] \in Commands /\ run'[p].pc = l
                         /\ Same(run[p], run'[p])
    BY <1>1, <1>2, GotoStep DEF Labels
  <1>4. HomeRun(run[p]) /\ \A x \in out : Clean(run[p], x)
    BY DEF Home, Gone
  <1>5. h \in Hosts /\ run[p].token \in TokenOrNone /\ h \notin out'
    BY <1>1, <1>4 DEF HomeRun, Clean, Using, Commands, HostOrNone
  <1>6. HomeStore'
    BY <1>1 DEF Home, HomeStore
  <1>7. HomeRun(run'[p])
    BY <1>1, <1>3, <1>4 DEF HomeRun, Same, Using, Verified
  <1>8. ASSUME NEW x \in out' PROVE CleanStore(x)' /\ Clean(run'[p], x)
    <2>1. x \in out /\ x # h /\ x \in Hosts
      BY <1>1, <1>5, <1>8 DEF TypeOK
    <2>2. CleanStore(x) /\ Clean(run[p], x)
      BY <2>1 DEF Gone
    <2>3. CleanStore(x)'
      BY <1>1, <2>1, <2>2 DEF CleanStore, TypeOK
    <2> QED BY <1>1, <1>3, <2>2, <2>3 DEF Clean, Same, Using
  <1>9. Leaving(run[p])'
    BY <1>3 DEF Leaving
  <1>10. run'[p] = Idle \/ run'[p].alone = run[p].alone
    BY <1>3 DEF Same
  <1>11. Home' /\ Gone'
    BY <1>1, <1>3, <1>6, <1>7, <1>8, <1>9, <1>10, StepOf
  <1>12. TypeOK'
    BY <1>1, <1>3, <1>5 DEF TypeOK, throttle
  <1> QED BY <1>11, <1>12

LEMMA ObtainStep ==
  ASSUME Held, NEW p \in Procs, Obtain(p)
  PROVE  Held'
  <1> USE DEF Held
  <1>1. run[p] # Idle /\ UNCHANGED <<keychain, throttle, now, out, runs, faults>>
    BY Places DEF Obtain, Still, Labels
  <1>2. CASE Goto(p, "idle")
    <2>1. Home' /\ Gone'
      BY <1>1, <1>2, Moves DEF keychain
    <2>2. TypeOK'
      BY <1>1, <1>2, GotoStep DEF TypeOK, keychain, throttle
    <2> QED BY <2>1, <2>2
  <1>3. ASSUME NEW h \in Hosts, NEW t \in Tokens, Use(p, "whoami", h, t, "given", Unread)
        PROVE  Held'
    BY <1>1, <1>3, UseStep DEF Origins
  <1> QED BY <1>2, <1>3 DEF Obtain

LEMMA StoreStep ==
  ASSUME Held, NEW p \in Procs, Store(p) \/ StoreDefault(p)
  PROVE  Held'
  <1> USE DEF Held
  <1> DEFINE h == run[p].host
             b == [host |-> h, token |-> run[p].token]
  <1>1. /\ run[p] \in Commands /\ run[p] # Idle /\ run[p].pc \in {"store", "store default"}
        /\ out' = out \ {h}
        /\ UNCHANGED <<session, throttle, now, runs, faults>>
    BY Places DEF Store, StoreDefault, Labels, At
  <1>2. PICK l \in {"store default", "idle"} : Goto(p, l)
    BY DEF Store, StoreDefault
  <1>3. /\ run' \in [Procs -> Commands \cup {Idle}]
        /\ \A q \in Procs \ {p} : run'[q] = run[q]
        /\ l = "idle" => run'[p] = Idle
        /\ l # "idle" => /\ run'[p] \in Commands /\ run'[p].pc = l
                         /\ Same(run[p], run'[p])
    BY <1>1, <1>2, GotoStep DEF Labels
  <1>4. HomeRun(run[p]) /\ \A x \in out : Clean(run[p], x)
    BY DEF Home, Gone
  <1>5. h \in Hosts /\ run[p].token \in Tokens /\ HostOf[run[p].token] = h
    BY <1>1, <1>4 DEF HomeRun, Verified, Commands, HostOrNone, TokenOrNone
  <1>6. b \in Blob /\ b.host = h /\ b.token = run[p].token
    BY <1>5, Blobs
  <1>7. \/ keyed' = [keyed EXCEPT ![h] = run[p].token] /\ default' = default
        \/ keyed' = keyed /\ default' = b
    BY DEF Store, StoreDefault
  <1>8. HomeStore'
    <2>1. CASE keyed' = [keyed EXCEPT ![h] = run[p].token] /\ default' = default
      BY <2>1, <1>5 DEF Home, HomeStore, TypeOK
    <2>2. CASE keyed' = keyed /\ default' = b
      BY <2>2, <1>5, <1>6 DEF Home, HomeStore
    <2> QED BY <1>7, <2>1, <2>2
  <1>9. HomeRun(run'[p])
    BY <1>1, <1>3, <1>4 DEF HomeRun, Same, Using, Verified
  <1>10. ASSUME NEW x \in out' PROVE CleanStore(x)' /\ Clean(run'[p], x)
    <2>1. x \in out /\ x # h /\ x \in Hosts
      BY <1>1, <1>10 DEF TypeOK
    <2>2. CleanStore(x) /\ Clean(run[p], x)
      BY <2>1 DEF Gone
    <2>3. CleanStore(x)'
      BY <1>1, <1>6, <1>7, <2>1, <2>2 DEF CleanStore, TypeOK
    <2> QED BY <1>1, <1>3, <2>2, <2>3 DEF Clean, Same, Using
  <1>11. Leaving(run[p])'
    BY <1>3 DEF Leaving
  <1>12. run'[p] = Idle \/ run'[p].alone = run[p].alone
    BY <1>3 DEF Same
  <1>13. Home' /\ Gone'
    BY <1>1, <1>3, <1>8, <1>9, <1>10, <1>11, <1>12, StepOf
  <1>14. TypeOK'
    <2>1. keyed' \in [Hosts -> TokenOrNone] /\ default' \in Blob \cup {None}
      BY <1>5, <1>6, <1>7 DEF TypeOK, TokenOrNone
    <2> QED BY <1>1, <1>3, <2>1 DEF TypeOK, throttle
  <1> QED BY <1>13, <1>14

LEMMA DeleteKeyedStep ==
  ASSUME Held, NEW p \in Procs, DeleteKeyed(p)
  PROVE  Held'
  <1> USE DEF Held
  <1> DEFINE h == Target(p)
             m == IF run[p].env # None THEN run[p].memo ELSE Default(p)
  <1>1. /\ run[p] \in Commands /\ run[p] # Idle /\ run[p].pc = "out"
        /\ UNCHANGED <<default, session, throttle, now, out, runs>> /\ faults' \in Nat
    BY Places, Counts DEF DeleteKeyed, Labels, At, TypeOK
  <1>2. run[p].memo = Unread /\ run[p].host = None
    BY <1>1 DEF Gone, Leaving
  <1>3. h \in HostOrNone
    BY <1>1, Reads, CredentialsAssumption DEF Target, Commands, HostOrNone
  <1>4. CASE Goto(p, "out default") /\ UNCHANGED keyed
    <2> HIDE DEF h, m
    <2>0. PICK l \in {"out default"} : Goto(p, l)
      BY <1>4
    <2>1. /\ run' \in [Procs -> Commands \cup {Idle}]
          /\ \A q \in Procs \ {p} : run'[q] = run[q]
          /\ run'[p] \in Commands /\ run'[p].pc = "out default" /\ Same(run[p], run'[p])
      BY <1>1, <2>0, GotoStep DEF Labels
    <2>2. HomeStore' /\ HomeRun(run'[p])
      BY <1>1, <1>2, <1>4, <2>1 DEF Home, HomeStore, HomeRun, Same, Using, Verified
    <2>3. ASSUME NEW x \in out' PROVE CleanStore(x)' /\ Clean(run'[p], x)
      BY <1>1, <1>2, <1>4, <2>1, <2>3 DEF Gone, CleanStore, Clean, Same, Using
    <2>4. Leaving(run[p])'
      BY <1>2, <2>1 DEF Leaving, Same
    <2>5. Home' /\ Gone'
      BY <1>1, <2>1, <2>2, <2>3, <2>4, StepOf DEF Same
    <2>6. TypeOK'
      BY <1>1, <1>4, <2>1 DEF TypeOK, throttle
    <2> QED BY <2>5, <2>6
  <1>5. ASSUME NEW ok \in BOOLEAN, h # None, keyed' = Without(ok, keyed, h),
               run' = [run EXCEPT ![p] = [@ EXCEPT !.pc = "out session", !.host = h, !.memo = m,
                                                  !.alone = run[p].alone /\ ok]]
        PROVE  Held'
    <2> DEFINE r == [run[p] EXCEPT !.pc = "out session", !.host = h, !.memo = m,
                                   !.alone = run[p].alone /\ ok]
    <2>0. run' = [run EXCEPT ![p] = r]
      BY <1>5
    <2>1. m \in Blob \cup {None, Unread} /\ m \in {Unread, Default(p)}
      BY <1>1, <1>2, Reads
    <2>2. /\ r \in Commands /\ r.pc = "out session" /\ r.memo = m /\ r.host = h
          /\ r.env = run[p].env /\ r.alone = (run[p].alone /\ ok)
          /\ run[p].env # None => m = Unread
      <3>1. PICK al \in BOOLEAN : al = (run[p].alone /\ ok)
        OBVIOUS
      <3>2. r = [run[p] EXCEPT !.pc = "out session", !.host = h, !.memo = m, !.alone = al]
        BY <3>1
      <3>3. "out session" \in Labels
        BY DEF Labels
      <3>4. run[p].env # None => m = Unread
        BY <1>2
      <3> HIDE DEF h, m, r
      <3>5. /\ r \in Commands /\ r.pc = "out session" /\ r.memo = m /\ r.host = h
            /\ r.env = run[p].env /\ r.alone = al
        BY <1>1, <1>3, <2>1, <3>2, <3>3 DEF Commands
      <3> QED BY <3>1, <3>4, <3>5
    <2> HIDE DEF h, m, r
    <2>3. /\ run' \in [Procs -> Commands \cup {Idle}]
          /\ \A q \in Procs \ {p} : run'[q] = run[q]
          /\ run'[p] = r /\ r # Idle
      BY <2>0, <2>2, Replaced
    <2>4. h \in Hosts /\ (ok => keyed'[h] = None)
      BY <1>3, <1>5 DEF HostOrNone, TypeOK, Without
    <2>5. HomeStore'
      BY <1>1, <1>5 DEF Home, HomeStore, TypeOK, Without
    <2>6. m \notin {None, Unread} => HostOf[m.token] = m.host /\ m.host \notin out
      BY <1>1, <2>1, Reads
    <2>7. HomeRun(run'[p])
      BY <2>2, <2>3, <2>6 DEF HomeRun, Using, Verified
    <2>8. ASSUME NEW x \in out' PROVE CleanStore(x)' /\ Clean(run'[p], x)
      <3>1. CleanStore(x) /\ x \in Hosts
        BY <1>1, <2>8 DEF Gone, TypeOK
      <3>2. CleanStore(x)'
        BY <1>1, <1>5, <3>1 DEF CleanStore, TypeOK, Without
      <3> QED BY <1>1, <2>2, <2>3, <2>6, <2>8, <3>2 DEF Clean, Using
    <2>9. Leaving(run[p])'
      BY <1>5, <2>2, <2>3, <2>4 DEF Leaving
    <2>10. Home' /\ Gone'
      BY <1>1, <2>2, <2>3, <2>5, <2>7, <2>8, <2>9, StepOf
    <2>11. TypeOK'
      BY <1>1, <1>5, <2>3 DEF TypeOK, TokenOrNone, throttle, Without
    <2> QED BY <2>10, <2>11
  <1> QED BY <1>4, <1>5 DEF DeleteKeyed

LEMMA DeleteSessionStep ==
  ASSUME Held, NEW p \in Procs, DeleteSession(p)
  PROVE  Held'
  <1> USE DEF Held
  <1> DEFINE h == run[p].host
  <1>0. PICK ok \in BOOLEAN, l \in {"out default", "out look"} :
          /\ Tried(ok) /\ session' = Without(ok, session, h) /\ GoOn(p, ok, l)
          /\ l = "out look" => run[p].env # None
    BY DEF DeleteSession
  <1>1. /\ run[p] \in Commands /\ run[p] # Idle /\ run[p].pc = "out session"
        /\ UNCHANGED <<keyed, default, throttle, now, out, runs>> /\ faults' \in Nat
    BY <1>0, Places, Counts DEF DeleteSession, Labels, At
  <1> DEFINE r == [run[p] EXCEPT !.pc = l, !.alone = run[p].alone /\ ok]
  <1>2. /\ r \in Commands /\ r.pc = l /\ r.alone = (run[p].alone /\ ok)
        /\ r.env = run[p].env /\ r.host = run[p].host /\ r.memo = run[p].memo
        /\ r.token = run[p].token /\ r.origin = run[p].origin
    <2>1. (run[p].alone /\ ok) \in BOOLEAN /\ l \in Labels
      BY DEF Labels
    <2> QED BY <1>1, <2>1 DEF Commands
  <1>3. run' = [run EXCEPT ![p] = r]
    BY <1>0 DEF GoOn
  <1> HIDE DEF r
  <1>4. /\ run' \in [Procs -> Commands \cup {Idle}]
        /\ \A q \in Procs \ {p} : run'[q] = run[q]
        /\ run'[p] = r /\ r # Idle
    BY <1>2, <1>3, Replaced
  <1>5. HomeRun(run[p]) /\ Leaving(run[p])
    BY DEF Home, Gone
  <1>6. h \in Hosts
    BY <1>1, <1>5 DEF Leaving, Commands, HostOrNone
  <1>7. HomeStore'
    BY <1>1 DEF Home, HomeStore
  <1>8. HomeRun(run'[p])
    BY <1>1, <1>2, <1>4, <1>5 DEF HomeRun, Using, Verified
  <1>9. ASSUME NEW x \in out' PROVE CleanStore(x)' /\ Clean(run'[p], x)
    <2>1. CleanStore(x) /\ Clean(run[p], x) /\ x \in Hosts
      BY <1>1, <1>9 DEF Gone, TypeOK
    <2>2. CleanStore(x)'
      BY <1>0, <1>1, <2>1 DEF CleanStore, TypeOK, Without
    <2> QED BY <1>1, <1>2, <1>4, <2>1, <2>2 DEF Clean, Using
  <1>10. ok => session'[h] = None
    BY <1>0, <1>6 DEF TypeOK, Without
  <1>11. Leaving(run[p])'
    BY <1>0, <1>1, <1>2, <1>4, <1>5, <1>10 DEF Leaving
  <1>12. Home' /\ Gone'
    BY <1>1, <1>2, <1>4, <1>7, <1>8, <1>9, <1>11, StepOf
  <1>13. TypeOK'
    BY <1>0, <1>1, <1>4 DEF TypeOK, TokenOrNone, throttle, Without
  <1> QED BY <1>12, <1>13

\* A logout by itself ends: the host is out, and all of it is gone.
LEMMA OutStep ==
  ASSUME Held, NEW p \in Procs, LookAtDefault(p) \/ DeleteDefault(p)
  PROVE  Held'
  <1> USE DEF Held
  <1> DEFINE h == run[p].host
  <1>1. /\ run[p] \in Commands /\ run[p] # Idle
        /\ run[p].pc \in {"out look", "out default"}
        /\ UNCHANGED <<keyed, session, throttle, now, runs>> /\ faults' \in Nat
    BY Places, Counts DEF LookAtDefault, DeleteDefault, Labels, At, keychain, Fault, TypeOK
  <1>2. HomeRun(run[p]) /\ Leaving(run[p])
    BY DEF Home, Gone
  <1>3. CASE Goto(p, "out default") /\ default' = default /\ out' = out /\ run[p].pc = "out look"
    <2>1. /\ run' \in [Procs -> Commands \cup {Idle}]
          /\ \A q \in Procs \ {p} : run'[q] = run[q]
          /\ run'[p] \in Commands /\ run'[p].pc = "out default" /\ Same(run[p], run'[p])
      BY <1>1, <1>3, GotoStep DEF Labels
    <2>2. HomeStore' /\ HomeRun(run'[p])
      BY <1>1, <1>2, <1>3, <2>1 DEF Home, HomeStore, HomeRun, Same, Using, Verified
    <2>3. ASSUME NEW x \in out' PROVE CleanStore(x)' /\ Clean(run'[p], x)
      <3>1. CleanStore(x) /\ Clean(run[p], x)
        BY <1>3, <2>3 DEF Gone
      <3> QED BY <1>1, <1>3, <2>1, <3>1 DEF CleanStore, Clean, Same, Using
    <2>4. Leaving(run[p])'
      BY <1>1, <1>2, <1>3, <2>1 DEF Leaving, Same
    <2>5. Home' /\ Gone'
      BY <1>1, <1>3, <2>1, <2>2, <2>3, <2>4, StepOf DEF Same
    <2>6. TypeOK'
      BY <1>1, <1>3, <2>1 DEF TypeOK, throttle
    <2> QED BY <2>5, <2>6
  <1>4. CASE /\ Goto(p, "idle") /\ out' \in {out, LoggedOutOf(p)}
             /\ default' \in {default, None}
             /\ out' # out /\ run[p].host # None /\ default' # None => default'.host # run[p].host
    <2>1. /\ run' \in [Procs -> Commands \cup {Idle}]
          /\ \A q \in Procs \ {p} : run'[q] = run[q]
          /\ run'[p] = Idle
      BY <1>1, <1>4, GotoStep
    <2>2. HomeStore' /\ HomeRun(run'[p]) /\ Leaving(run[p])'
      BY <1>1, <1>4, <2>1 DEF Home, HomeStore, HomeRun, Leaving
    <2>3. run[p].alone \/ out' \subseteq out
      BY <1>4 DEF LoggedOutOf
    <2>4. ASSUME NEW x \in out' PROVE CleanStore(x)' /\ Clean(run'[p], x)
      <3>1. CASE x \in out
        BY <1>1, <1>4, <2>1, <3>1 DEF Gone, CleanStore, Clean
      <3>2. CASE x \notin out
        <4>1. x = h /\ run[p].alone /\ h # None /\ out' # out
          BY <1>4, <2>4, <3>2 DEF LoggedOutOf
        <4>2. keyed[h] = None /\ session[h] = None
          BY <1>1, <1>2, <4>1 DEF Leaving
        <4> QED BY <1>1, <1>4, <2>1, <4>1, <4>2 DEF CleanStore, Clean
      <3> QED BY <3>1, <3>2
    <2>5. Home' /\ Gone'
      BY <1>1, <2>1, <2>2, <2>3, <2>4, StepOf
    <2>6. out' \subseteq Hosts
      BY <1>1, <1>4 DEF LoggedOutOf, TypeOK, Commands, HostOrNone
    <2>7. TypeOK'
      BY <1>1, <1>4, <2>1, <2>6 DEF TypeOK, throttle
    <2> QED BY <2>5, <2>7
  <1>5. CASE LookAtDefault(p)
    <2>1. run[p].pc = "out look" /\ default' = default
      BY <1>5 DEF LookAtDefault, At, keychain
    <2>2. run[p].memo = Unread
      BY <1>1, <1>2, <2>1 DEF Leaving
    <2>3. ~SharesDefault(p) => (default # None => default.host # run[p].host)
      BY <2>2 DEF SharesDefault, DefaultHost, Default
    <2> QED BY <1>3, <1>4, <1>5, <2>1, <2>3 DEF LookAtDefault
  <1>6. CASE DeleteDefault(p)
    BY <1>4, <1>6 DEF DeleteDefault
  <1> QED BY <1>5, <1>6

LEMMA CheckNextStep ==
  ASSUME Held, NEW p \in Procs, CheckNext(p)
  PROVE  Held'
  <1> USE DEF Held
  <1>1. /\ run[p] \in Commands /\ run[p] # Idle
        /\ UNCHANGED <<keychain, throttle, now, out, runs, faults>>
    BY Places DEF CheckNext, Still, Labels
  <1>2. CASE Goto(p, "idle")
    <2>1. Home' /\ Gone'
      BY <1>1, <1>2, Moves DEF keychain
    <2>2. TypeOK'
      BY <1>1, <1>2, GotoStep DEF TypeOK, keychain, throttle
    <2> QED BY <2>1, <2>2
  <1>3. ASSUME NEW e \in run[p].rest,
               run' = [run EXCEPT ![p] =
                 [@ EXCEPT !.rest = run[p].rest \ {e}, !.host = ProfileHost[e],
                    !.token = Candidate(p, e).token, !.origin = Candidate(p, e).origin,
                    !.memo = CandidateLooks(p, e),
                    !.pc = IF e \in Gateways \/ Candidate(p, e).token = None
                           THEN "next" ELSE "whoami"]]
        PROVE  Held'
    <2> DEFINE h == ProfileHost[e]
               c == Candidate(p, e)
               m == CandidateLooks(p, e)
               l == IF e \in Gateways \/ c.token = None THEN "next" ELSE "whoami"
               r == [run[p] EXCEPT !.rest = run[p].rest \ {e}, !.host = h, !.token = c.token,
                                   !.origin = c.origin, !.memo = m, !.pc = l]
    <2>1. e \in Profiles /\ h \in Hosts
      BY <1>1, <1>3, CredentialsAssumption DEF Commands
    <2>2. c.token \in TokenOrNone /\ c.origin \in Origins
      BY <1>1, <2>1, Reads, Blobs, CredentialsAssumption
      DEF Candidate, TokenOrNone, Origins, Commands, Ambients
    <2>3. c.origin = "stored" => HostOf[c.token] = h /\ h \notin out
      BY <1>1, <2>1, Reads DEF Candidate
    <2>4. m \in {run[p].memo, Default(p)} /\ m \in Memos
      BY <1>1, <2>1, Reads DEF CandidateLooks, Commands, Memos
    <2>5. l \in {"next", "whoami"} /\ (l = "whoami" => c.token # None)
      OBVIOUS
    <2>7. run' = [run EXCEPT ![p] = r]
      BY <1>3
    <2> HIDE DEF h, c, m, l
    <2>6. /\ r \in Commands /\ r.pc = l /\ r.memo = m /\ r.alone = run[p].alone
          /\ r.host = h /\ r.token = c.token /\ r.origin = c.origin
      <3>1. l \in Labels /\ h \in HostOrNone /\ run[p].rest \ {e} \in SUBSET Profiles
        BY <1>1, <2>1, <2>5 DEF Labels, HostOrNone, Commands
      <3> QED BY <1>1, <2>2, <2>4, <3>1 DEF Commands, Memos, Origins
    <2> HIDE DEF r
    <2>8. Home' /\ Gone'
      BY <1>1, <2>1, <2>3, <2>4, <2>5, <2>6, <2>7, Takes, CredentialsAssumption
      DEF keychain, Using
    <2>9. TypeOK'
      BY <1>1, <2>6, <2>7, Replaced DEF TypeOK, keychain, throttle
    <2> QED BY <2>8, <2>9
  <1> QED BY <1>2, <1>3 DEF CheckNext

LEMMA CrashStep ==
  ASSUME Held, NEW p \in Procs, Crash(p)
  PROVE  Held'
  <1> USE DEF Held
  <1>1. /\ run[p] # Idle /\ Goto(p, "idle") /\ faults' \in Nat
        /\ UNCHANGED <<keychain, log, now, out, runs>>
    BY Places, Counts DEF Crash, Fault
  <1>2. Home' /\ Gone'
    BY <1>1, Moves DEF keychain
  <1>3. budget' \in [Hosts -> SUBSET Nat] /\ noted' \in [Hosts -> SUBSET Nat]
    <2>1. CASE UNCHANGED <<budget, noted>>
      BY <2>1 DEF TypeOK
    <2>2. CASE At(p, "wait") /\ Torn(run[p].host)
      <3>1. run[p] \in Commands /\ run[p].pc = "wait"
        BY <1>1, <2>2, Places DEF At
      <3>2. run[p].host \in Hosts
        BY <1>1, <3>1 DEF Home, HomeRun, Using, Commands, HostOrNone
      <3> QED BY <2>2, <3>2, TornTypes
    <2> QED BY <2>1, <2>2 DEF Crash
  <1>4. TypeOK'
    BY <1>1, <1>3, GotoStep DEF TypeOK, keychain
  <1> QED BY <1>2, <1>4

LEMMA BeginStep ==
  ASSUME Held, NEW p \in Procs, Begin(p)
  PROVE  Held'
  <1>1. PICK c \in {"command", "login", "logout", "status"}, e \in Profiles \cup {None},
             a \in Ambients : Start(p, c, e, a)
    <2>1. Bare \in Ambients
      BY DEF Bare, Ambients, HostOrNone, TokenOrNone
    <2> QED BY <2>1, CredentialsAssumption DEF Begin
  <1> QED BY <1>1, StartStep DEF Held

--------------------------------------------------------------------------------
LEMMA Stays == Spec => []Held
  <1>1. Init => Held
    BY Beginnings DEF Held
  <1>2. ASSUME Held, [Next]_vars PROVE Held'
    <2>1. ASSUME NEW p \in Procs,
                 Begin(p) \/ Resolve(p) \/ ReadToken(p) \/ Resume(p) \/ Gate(p) \/ Pass(p)
          PROVE  Held'
      BY <1>2, <2>1, BeginStep, ResolveStep, ReadTokenStep, ResumeStep, GateStep, PassStep
    <2>2. ASSUME NEW p \in Procs,
                 Whoami(p) \/ Save(p) \/ Obtain(p) \/ Store(p) \/ StoreDefault(p) \/ Crash(p)
          PROVE  Held'
      BY <1>2, <2>2, WhoamiStep, SaveStep, ObtainStep, StoreStep, CrashStep
    <2>3. ASSUME NEW p \in Procs,
                 \/ DeleteKeyed(p) \/ DeleteSession(p) \/ LookAtDefault(p)
                 \/ DeleteDefault(p) \/ CheckNext(p)
          PROVE  Held'
      BY <1>2, <2>3, DeleteKeyedStep, DeleteSessionStep, OutStep, CheckNextStep
    <2>4. CASE Tick \/ UNCHANGED vars
      <3>1. UNCHANGED <<keyed, default, session, budget, log, noted, run, out, runs, faults>>
        BY <2>4 DEF Tick, vars, keychain, throttle
      <3>2. now' \in Nat
        BY <1>2, <2>4 DEF Tick, vars, Held, TypeOK
      <3>3. TypeOK'
        BY <1>2, <3>1, <3>2 DEF Held, TypeOK
      <3>4. Home' /\ Gone'
        BY <1>2, <3>1 DEF Held, Home, HomeStore, HomeRun, Gone, CleanStore, Clean, Leaving, Lonely
      <3> QED BY <3>3, <3>4 DEF Held
    <2> QED BY <1>2, <2>1, <2>2, <2>3, <2>4 DEF Next
  <1> QED BY <1>1, <1>2, PTL DEF Spec

\* The variables keep their types, for any number of processes, instances,
\* tokens and environments.
THEOREM Typed == Spec => []TypeOK
  <1>1. Held => TypeOK
    BY DEF Held
  <1> QED BY <1>1, Stays, PTL

\* A token from the store reaches only the instance that issued it, although
\* the default account changes hands between any two reads of it
\* (session.ts:46, status.ts:102).
THEOREM StoredTokensGoHome == Spec => []TokenGoesHome
  <1>1. Held => TokenGoesHome
    <2> SUFFICES ASSUME Held, NEW p \in Procs, At(p, "whoami"), run[p].origin = "stored"
                 PROVE  HostOf[run[p].token] = run[p].host
      BY DEF TokenGoesHome
    <2>1. run[p] # Idle /\ HomeRun(run[p])
      BY Places DEF Held, Home, Labels
    <2> QED BY <2>1 DEF HomeRun, At, Using
  <1> QED BY <1>1, Stays, PTL

\* After a logout that ran by itself neither an account nor a session of the
\* host is left, and no process still holds one (tokenStore.ts:159).
THEOREM LogoutsAreThorough == Spec => []LoggedOut
  <1>1. Held => LoggedOut
    BY DEF Held, Gone, CleanStore, LoggedOut
  <1> QED BY <1>1, Stays, PTL

--------------------------------------------------------------------------------
(* The throttle.                                                            *)

Of(h, i) == log[h][i].at

\* From a to b each command looked after the one before had passed.
Chain(h, a, b) == \A i \in a + 1 .. b : i - 1 \in log[h][i].after

Ordered(h) ==
  \A j \in 1 .. Len(log[h]) : /\ Of(h, j) <= now
                              /\ \A i \in 1 .. j : Of(h, i) <= Of(h, j)

\* The handshakes of a host are as far apart as they have to be.
Apart(h) ==
  /\ \A j \in 1 .. Len(log[h]) : \A i \in log[h][j].after :
       i \in 1 .. Len(log[h]) /\ Of(h, j) - Of(h, i) >= Interval
  /\ \A j \in MaxPerHour + 1 .. Len(log[h]) :
       Chain(h, j - MaxPerHour, j) => Of(h, j) - Of(h, j - MaxPerHour) >= Hour

\* What a record of handshakes tells of those that were noted: each of them is
\* an Interval ago, or one at least as late is in the record; and if the last
\* handshake of all was noted, the record has it, the one it was noted with, and
\* so on, but for those an Hour ago.
Knows(rs, as, h) ==
  /\ rs \subseteq Nat /\ \A t \in rs : t <= now
  /\ as \subseteq 1 .. Len(log[h])
  /\ \A i \in as : now - Of(h, i) >= Interval \/ \E t \in rs : Of(h, i) <= t
  /\ Len(log[h]) \in as =>
       \A i \in 1 .. Len(log[h]) :
         Chain(h, i, Len(log[h])) => Of(h, i) \in rs \/ now - Of(h, i) >= Hour

Waiting(p) ==
  At(p, "wait") => /\ run[p].host \in Hosts
                   /\ Knows(run[p].recent, run[p].after, run[p].host)
                   /\ Cardinality(run[p].recent) < MaxPerHour

Brake ==
  /\ \A h \in Hosts : Ordered(h) /\ Apart(h) /\ Knows(budget[h], noted[h], h)
  /\ \A p \in Procs : Waiting(p)

LEMMA LogFacts ==
  ASSUME TypeOK, NEW h \in Hosts
  PROVE  /\ log[h] \in Seq([at : Nat, after : SUBSET Nat]) /\ Len(log[h]) \in Nat
         /\ \A i \in 1 .. Len(log[h]) : Of(h, i) \in Nat
         /\ budget[h] \in SUBSET Nat /\ noted[h] \in SUBSET Nat /\ now \in Nat
         /\ Interval \in Nat /\ Interval > 0 /\ Hour \in Nat /\ Interval <= Hour
         /\ MaxPerHour \in Nat /\ MaxPerHour > 0
  <1>1. log[h] \in Seq([at : Nat, after : SUBSET Nat])
    BY DEF TypeOK
  <1>2. Len(log[h]) \in Nat /\ \A i \in 1 .. Len(log[h]) : log[h][i] \in [at : Nat, after : SUBSET Nat]
    <2> DEFINE S == [at : Nat, after : SUBSET Nat]
    <2>1. log[h] \in Seq(S)
      BY <1>1
    <2> HIDE DEF S
    <2>2. Len(log[h]) \in Nat /\ \A i \in 1 .. Len(log[h]) : log[h][i] \in S
      BY <2>1
    <2> QED BY <2>2 DEF S
  <1> QED BY <1>1, <1>2, CredentialsAssumption DEF Of, TypeOK

\* Time alone lets nothing be forgotten that counts.
LEMMA KnowsStays ==
  ASSUME TypeOK, NEW h \in Hosts, NEW rs, NEW as, Knows(rs, as, h), log' = log,
         now' \in Nat, now <= now'
  PROVE  Knows(rs, as, h)'
  <1>1. \A i : Of(h, i)' = Of(h, i)
    BY DEF Of
  <1>2. \A i : Chain(h, i, Len(log[h]))' = Chain(h, i, Len(log[h]))
    BY DEF Chain
  <1>3. \A i \in 1 .. Len(log[h]), d \in Nat : now - Of(h, i) >= d => now' - Of(h, i) >= d
    BY LogFacts
  <1>4. rs \subseteq Nat /\ \A t \in rs : t <= now'
    <2>1. ASSUME NEW t \in rs PROVE t <= now'
      <3>1. t \in Nat /\ t <= now /\ now \in Nat
        BY <2>1, LogFacts DEF Knows
      <3> QED BY <3>1
    <2> QED BY <2>1 DEF Knows
  <1>5. \A i \in as : now' - Of(h, i) >= Interval \/ \E t \in rs : Of(h, i) <= t
    BY <1>3, LogFacts DEF Knows
  <1>6. Len(log[h]) \in as =>
          \A i \in 1 .. Len(log[h]) :
            Chain(h, i, Len(log[h])) => Of(h, i) \in rs \/ now' - Of(h, i) >= Hour
    BY <1>3, LogFacts DEF Knows
  <1>7. as \subseteq 1 .. Len(log[h])
    BY DEF Knows
  <1> QED BY <1>1, <1>2, <1>4, <1>5, <1>6, <1>7 DEF Knows

\* Nothing is known of a file that cannot be read.
LEMMA KnowsNothing ==
  ASSUME NEW h PROVE Knows({}, {}, h)'
BY DEF Knows

LEMMA OrderStays ==
  ASSUME TypeOK, NEW h \in Hosts, Ordered(h), Apart(h), log' = log, now' \in Nat, now <= now'
  PROVE  Ordered(h)' /\ Apart(h)'
  <1>1. \A i : Of(h, i)' = Of(h, i)
    BY DEF Of
  <1>2. \A a, b : Chain(h, a, b)' = Chain(h, a, b)
    BY DEF Chain
  <1>3. Apart(h)'
    BY <1>1, <1>2 DEF Apart
  <1>4. \A i \in 1 .. Len(log[h]) : Of(h, i) <= now'
    BY LogFacts DEF Ordered
  <1> QED BY <1>1, <1>3, <1>4 DEF Ordered

\* A step that lets nobody into the throttle and nobody through it; a file may
\* break on the way.
LEMMA NobodyPasses ==
  ASSUME TypeOK, Brake, log' = log, now' \in Nat, now <= now',
         \A h \in Hosts : \/ budget'[h] = budget[h] /\ noted'[h] = noted[h]
                          \/ budget'[h] = {} /\ noted'[h] = {},
         \A q \in Procs : At(q, "wait")' =>
           /\ At(q, "wait") /\ run'[q].host = run[q].host
           /\ run'[q].recent = run[q].recent /\ run'[q].after = run[q].after
  PROVE  Brake'
  <1>1. ASSUME NEW h \in Hosts PROVE Ordered(h)' /\ Apart(h)' /\ Knows(budget[h], noted[h], h)'
    <2>1. PICK rs, as : rs = budget[h] /\ as = noted[h]
      OBVIOUS
    <2>2. Knows(rs, as, h)' /\ Knows({}, {}, h)'
      BY <2>1, KnowsStays, KnowsNothing DEF Brake
    <2>3. Knows(budget[h], noted[h], h)'
      BY <2>1, <2>2 DEF Knows
    <2> QED BY <2>3, OrderStays DEF Brake
  <1>2. ASSUME NEW q \in Procs, At(q, "wait")' PROVE Waiting(q)'
    <2>1. PICK g, rs, as : g = run[q].host /\ rs = run[q].recent /\ as = run[q].after
      OBVIOUS
    <2>2. /\ Waiting(q) /\ At(q, "wait") /\ run'[q].host = g /\ run'[q].recent = rs
          /\ run'[q].after = as
      BY <1>2, <2>1 DEF Brake
    <2>3. g \in Hosts /\ Knows(rs, as, g)' /\ Cardinality(rs) < MaxPerHour
      BY <2>1, <2>2, KnowsStays DEF Waiting
    <2> QED BY <2>2, <2>3 DEF Waiting, Knows
  <1> QED BY <1>1, <1>2 DEF Brake, Waiting

LEMMA GateBrakes ==
  ASSUME Held, Brake, NEW p \in Procs, Gate(p), HomeRun(run[p])
  PROVE  Brake'
  <1> USE DEF Held
  <1>0. PICK h, c : h = run[p].host /\ c = Counted(h)
    OBVIOUS
  <1>1. /\ run[p] \in Commands /\ run[p] # Idle /\ run[p].pc = "gate"
        /\ UNCHANGED <<budget, noted, log, now>>
    BY Places DEF Gate, Labels, At, throttle
  <1>2. h \in Hosts
    BY <1>0, <1>1 DEF HomeRun, Using, Commands, HostOrNone
  <1>3. ASSUME NEW l \in {"idle", "whoami"}, Goto(p, l) PROVE Brake'
    <2>1. \A q \in Procs \ {p} : run'[q] = run[q]
      BY <1>1, <1>3, GotoStep DEF Labels
    <2>2. l = "idle" => run'[p].pc # "wait"
      BY <1>1, <1>3, GotoStep DEF Idle
    <2>3. l = "whoami" => run'[p].pc # "wait"
      BY <1>1, <1>3, GotoStep DEF Labels
    <2>4. run'[p].pc # "wait"
      BY <1>3, <2>2, <2>3
    <2> QED BY <1>1, <1>2, <2>1, <2>4, LogFacts, NobodyPasses DEF At
  <1>4. ASSUME NEW seen, NEW known, Look(p, seen, known), Knows(seen, known, h),
               Cardinality(seen) < MaxPerHour
        PROVE  Brake'
    <2>1. /\ \A q \in Procs \ {p} : run'[q] = run[q] /\ At(q, "wait")' = At(q, "wait")
          /\ run'[p].host = h /\ run'[p].recent = seen /\ run'[p].after = known
      BY <1>0, <1>1, <1>4 DEF Look, TypeOK, Commands, At
    <2>2. ASSUME NEW g \in Hosts, NEW rs, NEW as, Knows(rs, as, g) PROVE Knows(rs, as, g)'
      <3>1. log' = log /\ now' \in Nat /\ now <= now'
        BY <1>1, <2>2, LogFacts
      <3> QED BY <2>2, <3>1, KnowsStays
    <2>3. \A g \in Hosts : Ordered(g)' /\ Apart(g)'
      BY <1>1, LogFacts, OrderStays DEF Brake
    <2>4. ASSUME NEW g \in Hosts PROVE Knows(budget[g], noted[g], g)'
      <3>1. Knows(budget[g], noted[g], g)
        BY DEF Brake
      <3> QED BY <1>1, <3>1 DEF Knows, Of, Chain
    <2>5. ASSUME NEW q \in Procs, At(q, "wait")' PROVE Waiting(q)'
      <3>1. CASE q = p
        <4>1. Knows(seen, known, h)'
          BY <1>2, <1>4, <2>2
        <4> QED BY <1>2, <1>4, <2>1, <3>1, <4>1 DEF Waiting, Knows
      <3>2. CASE q # p
        <4>1. Waiting(q) /\ At(q, "wait") /\ run'[q] = run[q]
          BY <2>1, <2>5, <3>2 DEF Brake
        <4> QED BY <1>1, <4>1 DEF Waiting, Knows, Of, Chain
      <3> QED BY <3>1, <3>2
    <2> QED BY <2>3, <2>4, <2>5 DEF Brake, Waiting
  <1>5. Knows({}, {}, h) /\ Cardinality({}) < MaxPerHour
    BY <1>2, LogFacts, FS_EmptySet DEF Knows
  <1>6. Knows(c, noted[h], h)
    <2>1. Knows(budget[h], noted[h], h) /\ Ordered(h)
      BY <1>2 DEF Brake
    <2>2. c \subseteq budget[h] /\ \A t \in budget[h] : t \in c \/ now - t >= Hour
      <3>1. ASSUME NEW t \in budget[h] PROVE t \in c \/ now - t >= Hour
        <4>1. t \in Nat /\ t <= now
          BY <2>1, <3>1 DEF Knows
        <4> QED BY <1>0, <1>2, <3>1, <4>1, LogFacts DEF Counted
      <3> QED BY <1>0, <3>1 DEF Counted
    <2>3. ASSUME NEW i \in noted[h] PROVE now - Of(h, i) >= Interval \/ \E t \in c : Of(h, i) <= t
      <3>1. i \in 1 .. Len(log[h]) /\ Of(h, i) \in Nat
        BY <1>2, <2>1, <2>3, LogFacts DEF Knows
      <3>2. ASSUME NEW t \in budget[h], Of(h, i) <= t, t \notin c PROVE now - Of(h, i) >= Interval
        <4>1. t \in Nat /\ now - t >= Hour
          BY <2>1, <2>2, <3>2 DEF Knows
        <4> QED BY <1>2, <3>1, <3>2, <4>1, LogFacts
      <3> QED BY <2>1, <2>3, <3>2 DEF Knows
    <2>4. c \subseteq Nat /\ \A t \in c : t <= now
      BY <2>1, <2>2 DEF Knows
    <2>5. noted[h] \subseteq 1 .. Len(log[h])
      BY <2>1 DEF Knows
    <2>6. Len(log[h]) \in noted[h] =>
            \A i \in 1 .. Len(log[h]) :
              Chain(h, i, Len(log[h])) => Of(h, i) \in c \/ now - Of(h, i) >= Hour
      BY <2>1, <2>2 DEF Knows
    <2> QED BY <2>3, <2>4, <2>5, <2>6 DEF Knows
  <1> QED BY <1>0, <1>3, <1>4, <1>5, <1>6 DEF Gate

\* Who has waited comes Interval after every handshake that was noted before,
\* and an Hour after the one MaxPerHour before, if none came beside them.
LEMMA PassSpaced ==
  ASSUME Held, Brake, NEW p \in Procs, At(p, "wait"), Waited(p)
  PROVE  LET h == run[p].host
             n == Len(log[h])
         IN  /\ \A i \in run[p].after : i \in 1 .. n /\ now - Of(h, i) >= Interval
             /\ n \in run[p].after /\ n + 1 > MaxPerHour /\ Chain(h, n + 1 - MaxPerHour, n)
                  => now - Of(h, n + 1 - MaxPerHour) >= Hour
  <1> USE DEF Held
  <1>0. PICK h, n, rs : h = run[p].host /\ n = Len(log[h]) /\ rs = run[p].recent
    OBVIOUS
  <1>1. h \in Hosts /\ Knows(rs, run[p].after, h) /\ Cardinality(rs) < MaxPerHour /\ Ordered(h)
        /\ Apart(h)
    BY <1>0 DEF Brake, Waiting
  <1>2. /\ n \in Nat /\ now \in Nat /\ \A i \in 1 .. n : Of(h, i) \in Nat
        /\ Interval \in Nat /\ Interval > 0 /\ Hour \in Nat /\ MaxPerHour \in Nat
        /\ MaxPerHour > 0
    BY <1>0, <1>1, LogFacts
  <1>3. ASSUME NEW i \in run[p].after PROVE i \in 1 .. n /\ now - Of(h, i) >= Interval
    <2>1. i \in 1 .. n
      BY <1>0, <1>1, <1>3 DEF Knows
    <2>2. ASSUME NEW t \in rs, Of(h, i) <= t PROVE now - Of(h, i) >= Interval
      <3>1. t \in Nat /\ now - t >= Interval
        BY <1>0, <1>1, <2>2 DEF Waited, Knows
      <3> QED BY <1>2, <2>1, <2>2, <3>1
    <2> QED BY <1>1, <1>3, <2>1, <2>2 DEF Knows
  <1>4. ASSUME n \in run[p].after, n + 1 > MaxPerHour, Chain(h, n + 1 - MaxPerHour, n)
        PROVE  now - Of(h, n + 1 - MaxPerHour) >= Hour
    <2> DEFINE a == n + 1 - MaxPerHour
               f == [j \in a .. n |-> Of(h, j)]
    <2>1. a \in 1 .. n
      BY <1>2, <1>4
    <2>2. SUFFICES ASSUME ~(now - Of(h, a) >= Hour) PROVE FALSE
      OBVIOUS
    <2>3. ASSUME NEW j \in a .. n PROVE Of(h, j) \in rs
      <3>1. j \in 1 .. n /\ a \in 1 .. j
        BY <1>2, <2>1, <2>3
      <3>2. Of(h, a) <= Of(h, j)
        BY <1>0, <1>1, <3>1 DEF Ordered
      <3>3. ~(now - Of(h, j) >= Hour)
        <4> HIDE DEF a
        <4> QED BY <1>2, <2>1, <2>2, <3>1, <3>2
      <3>4. Chain(h, j, n)
        <4>1. \A i \in j + 1 .. n : i \in a + 1 .. n
          BY <1>2, <2>1, <3>1
        <4> QED BY <1>4, <4>1 DEF Chain
      <3> QED BY <1>0, <1>1, <1>4, <3>1, <3>3, <3>4 DEF Knows
    <2>4. IsFiniteSet(rs)
      BY <1>1, <1>2, FS_BoundedSetOfNaturals DEF Knows
    <2>5. IsFiniteSet(a .. n) /\ Cardinality(a .. n) = MaxPerHour
      <3>1. n - a + 1 = MaxPerHour /\ ~(a > n) /\ a \in Int /\ n \in Int
        BY <1>2, <2>1
      <3> HIDE DEF a
      <3> QED BY <3>1, FS_Interval
    <2>6. f \in [a .. n -> rs]
      BY <2>3
    <2>7. PICK x, y \in a .. n : x # y /\ f[x] = f[y]
      <3> HIDE DEF a, f
      <3> QED BY <1>1, <2>4, <2>5, <2>6, FS_PigeonHole
    <2>8. ASSUME NEW i \in a .. n, NEW j \in a .. n, i < j PROVE Of(h, i) < Of(h, j)
      <3>1. /\ i \in 1 .. n /\ i + 1 \in 1 .. n /\ j \in 1 .. n /\ i + 1 \in 1 .. j
            /\ i + 1 \in a + 1 .. n /\ (i + 1) - 1 = i
        BY <1>2, <2>1, <2>8
      <3>2. i \in log[h][i + 1].after
        BY <1>4, <3>1 DEF Chain
      <3>3. Of(h, i + 1) - Of(h, i) >= Interval
        BY <1>0, <1>1, <3>1, <3>2 DEF Apart
      <3>4. Of(h, i + 1) <= Of(h, j)
        BY <1>0, <1>1, <3>1 DEF Ordered
      <3>5. Of(h, i) \in Nat /\ Of(h, i + 1) \in Nat /\ Of(h, j) \in Nat
        BY <1>2, <3>1
      <3> QED BY <1>2, <3>3, <3>4, <3>5
    <2>9. Of(h, x) = Of(h, y) /\ Of(h, x) \in Nat /\ (x < y \/ y < x)
      BY <1>2, <2>1, <2>7
    <2> QED BY <2>8, <2>9
  <1> QED BY <1>0, <1>3, <1>4

LEMMA PassBrakes ==
  ASSUME Held, Brake, NEW p \in Procs, Pass(p)
  PROVE  Brake'
  <1> USE DEF Held
  <1> DEFINE M == MaxPerHour
  <1>0. PICK h, n, rs, as : /\ h = run[p].host /\ n = Len(log[h])
                            /\ rs = run[p].recent /\ as = run[p].after
    OBVIOUS
  <1>1. /\ run[p] \in Commands /\ run[p] # Idle /\ At(p, "wait") /\ Waited(p)
        /\ Goto(p, "whoami") /\ now' = now
        /\ log' = [log EXCEPT ![h] = Append(@, [at |-> now, after |-> as])]
    BY <1>0, Places DEF Pass, Labels, Logged
  <1>2. /\ run'[p].pc = "whoami" /\ \A q \in Procs \ {p} : run'[q] = run[q]
    BY <1>1, GotoStep DEF Labels
  <1>3. h \in Hosts /\ Knows(rs, as, h) /\ Ordered(h) /\ Apart(h) /\ Knows(budget[h], noted[h], h)
    BY <1>0, <1>1 DEF Brake, Waiting
  <1>4. /\ n \in Nat /\ now \in Nat /\ \A i \in 1 .. n : Of(h, i) \in Nat
        /\ Interval \in Nat /\ Interval > 0 /\ Hour \in Nat /\ M \in Nat /\ M > 0
        /\ log[h] \in Seq([at : Nat, after : SUBSET Nat])
    BY <1>0, <1>3, LogFacts
  <1>5. /\ \A i \in as : i \in 1 .. n /\ now - Of(h, i) >= Interval
        /\ n \in as /\ n + 1 > M /\ Chain(h, n + 1 - M, n) => now - Of(h, n + 1 - M) >= Hour
    BY <1>0, <1>1, PassSpaced
  <1>6. /\ \A g \in Hosts \ {h} : log'[g] = log[g]
        /\ log'[h] = Append(log[h], [at |-> now, after |-> as])
    BY <1>1, <1>3 DEF TypeOK
  <1>7. /\ Len(log'[h]) = n + 1 /\ log'[h][n + 1] = [at |-> now, after |-> as]
        /\ \A i \in 1 .. n : log'[h][i] = log[h][i]
    BY <1>0, <1>4, <1>6
  <1>8. Of(h, n + 1)' = now /\ \A i \in 1 .. n : Of(h, i)' = Of(h, i)
    BY <1>7 DEF Of
  <1>9. \A a, b \in Nat : b <= n => Chain(h, a, b)' = Chain(h, a, b)
    <2> SUFFICES ASSUME NEW a \in Nat, NEW b \in Nat, b <= n PROVE Chain(h, a, b)' = Chain(h, a, b)
      OBVIOUS
    <2>1. \A i \in a + 1 .. b : log'[h][i] = log[h][i]
      BY <1>4, <1>7
    <2> QED BY <2>1 DEF Chain
  <1>10. ASSUME NEW a \in Nat, a <= n, Chain(h, a, n + 1)' PROVE n \in as /\ Chain(h, a, n)
    <2>1. \A i \in a + 1 .. n + 1 : i - 1 \in log'[h][i].after
      BY <1>10 DEF Chain
    <2>2. n + 1 \in a + 1 .. n + 1 /\ (n + 1) - 1 = n
      BY <1>4, <1>10
    <2>3. n \in as
      <3>1. (n + 1) - 1 \in log'[h][n + 1].after
        BY <2>1, <2>2
      <3>2. log'[h][n + 1].after = as
        BY <1>7
      <3> QED BY <2>2, <3>1, <3>2
    <2>4. \A i \in a + 1 .. n : i \in a + 1 .. n + 1 /\ i \in 1 .. n
      BY <1>4, <1>10
    <2> QED BY <1>7, <2>1, <2>3, <2>4 DEF Chain
  <1>11. Ordered(h)'
    <2>1. \A j \in 1 .. n : Of(h, j) <= now /\ \A i \in 1 .. j : Of(h, i) <= Of(h, j)
      BY <1>0, <1>3 DEF Ordered
    <2>2. ASSUME NEW j \in 1 .. n + 1
          PROVE  Of(h, j)' <= now /\ \A i \in 1 .. j : Of(h, i)' <= Of(h, j)'
      <3>1. CASE j = n + 1
        BY <1>4, <1>8, <2>1, <3>1
      <3>2. CASE j \in 1 .. n
        BY <1>4, <1>8, <2>1, <3>2
      <3> QED BY <1>4, <3>1, <3>2
    <2> QED BY <1>1, <1>7, <2>2 DEF Ordered
  <1>12. Apart(h)'
    <2>1. ASSUME NEW j \in 1 .. n + 1, NEW i \in log'[h][j].after
          PROVE  i \in 1 .. n + 1 /\ Of(h, j)' - Of(h, i)' >= Interval
      <3>1. CASE j = n + 1
        <4>1. log'[h][n + 1].after = as
          BY <1>7
        <4>2. i \in 1 .. n /\ now - Of(h, i) >= Interval
          BY <1>5, <2>1, <3>1, <4>1
        <4>3. Of(h, j)' = now /\ Of(h, i)' = Of(h, i)
          BY <1>8, <3>1, <4>2
        <4> QED BY <1>4, <4>2, <4>3
      <3>2. CASE j \in 1 .. n
        <4>1. i \in 1 .. n /\ Of(h, j) - Of(h, i) >= Interval
          BY <1>0, <1>3, <1>7, <2>1, <3>2 DEF Apart
        <4> QED BY <1>4, <1>8, <3>2, <4>1
      <3> QED BY <1>4, <3>1, <3>2
    <2>2. ASSUME NEW j \in M + 1 .. n + 1, Chain(h, j - M, j)'
          PROVE  Of(h, j)' - Of(h, j - M)' >= Hour
      <3>1. j - M \in Nat /\ j - M <= n /\ j - M \in 1 .. n /\ j \in Nat
        BY <1>4, <2>2
      <3>2. CASE j = n + 1
        <4>1. PICK a : a = j - M
          OBVIOUS
        <4>2. a = n + 1 - M /\ a \in Nat /\ a <= n /\ a \in 1 .. n /\ n + 1 > M
          BY <1>4, <3>1, <3>2, <4>1
        <4>3. Chain(h, a, n + 1)'
          BY <2>2, <3>2, <4>1
        <4>4. n \in as /\ Chain(h, a, n)
          BY <1>10, <4>2, <4>3
        <4>5. now - Of(h, a) >= Hour
          BY <1>5, <4>2, <4>4
        <4>6. Of(h, j)' = now /\ Of(h, a)' = Of(h, a)
          BY <1>8, <3>2, <4>2
        <4> QED BY <4>1, <4>5, <4>6
      <3>3. CASE j \in 1 .. n
        <4>1. j <= n /\ j \in M + 1 .. n
          BY <1>4, <2>2, <3>3
        <4>2. Chain(h, j - M, j)
          BY <1>9, <2>2, <3>1, <4>1
        <4>3. Of(h, j) - Of(h, j - M) >= Hour
          BY <1>0, <1>3, <4>1, <4>2 DEF Apart
        <4> QED BY <1>8, <3>1, <3>3, <4>3
      <3> QED BY <1>4, <2>2, <3>2, <3>3
    <2>3. Len(log[h])' = n + 1
      BY <1>7
    <2>4. \A j \in 1 .. n + 1 : \A i \in log'[h][j].after :
            i \in 1 .. n + 1 /\ Of(h, j)' - Of(h, i)' >= Interval
      BY <2>1
    <2>5. \A j \in M + 1 .. n + 1 :
            Chain(h, j - M, j)' => Of(h, j)' - Of(h, j - M)' >= Hour
      BY <2>2
    <2> QED BY <2>3, <2>4, <2>5 DEF Apart
  \* what was known before the step is known after it
  <1>13. ASSUME NEW r, NEW k, Knows(r, k, h) PROVE Knows(r, k, h)'
    <2>1. /\ r \subseteq Nat /\ \A t \in r : t <= now
          /\ k \subseteq 1 .. n
          /\ \A i \in k : now - Of(h, i) >= Interval \/ \E t \in r : Of(h, i) <= t
      BY <1>0, <1>13 DEF Knows
    <2>2. k \subseteq 1 .. n + 1 /\ n + 1 \notin k
      BY <1>4, <2>1
    <2>3. \A i \in k : now - Of(h, i)' >= Interval \/ \E t \in r : Of(h, i)' <= t
      BY <1>8, <2>1
    <2> QED BY <1>1, <1>7, <2>1, <2>2, <2>3 DEF Knows
  <1>14. ASSUME NEW r, NEW k, r = rs \cup {now}, k = noted[h] \cup {n + 1} PROVE Knows(r, k, h)'
    <2>1. noted[h] \subseteq 1 .. n /\ rs \subseteq Nat /\ \A t \in rs : t <= now
      BY <1>0, <1>3 DEF Knows
    <2>2. r \subseteq Nat /\ \A t \in r : t <= now
      BY <1>4, <1>14, <2>1
    <2>3. k \subseteq 1 .. n + 1
      BY <1>4, <1>14, <2>1
    <2>4. \A i \in 1 .. n + 1 : Of(h, i)' <= now
      BY <1>1, <1>7, <1>11 DEF Ordered
    <2>5. \A i \in k : now - Of(h, i)' >= Interval \/ \E t \in r : Of(h, i)' <= t
      BY <1>14, <2>3, <2>4
    <2>6. ASSUME NEW i \in 1 .. n + 1, Chain(h, i, n + 1)'
          PROVE  Of(h, i)' \in r \/ now - Of(h, i)' >= Hour
      <3>1. CASE i = n + 1
        BY <1>8, <1>14, <3>1
      <3>2. CASE i \in 1 .. n
        <4>1. i \in Nat /\ i <= n
          BY <1>4, <3>2
        <4>2. n \in as /\ Chain(h, i, n)
          BY <1>10, <2>6, <4>1
        <4>3. Of(h, i) \in rs \/ now - Of(h, i) >= Hour
          BY <1>0, <1>3, <3>2, <4>2 DEF Knows
        <4> QED BY <1>8, <1>14, <3>2, <4>3
      <3> QED BY <1>4, <3>1, <3>2
    <2>7. Len(log[h])' = n + 1 /\ now' = now
      BY <1>1, <1>7
    <2> QED BY <2>2, <2>3, <2>5, <2>6, <2>7 DEF Knows
  <1>15. ASSUME NEW g \in Hosts \ {h}, NEW r, NEW k, Knows(r, k, g) PROVE Knows(r, k, g)'
    <2>1. log'[g] = log[g] /\ now' = now
      BY <1>1, <1>6
    <2>2. \A i : Of(g, i)' = Of(g, i)
      BY <2>1 DEF Of
    <2>3. \A i : Chain(g, i, Len(log[g]))' = Chain(g, i, Len(log[g]))
      BY <2>1 DEF Chain
    <2> QED BY <1>15, <2>1, <2>2, <2>3 DEF Knows
  <1>16. ASSUME NEW g \in Hosts
         PROVE  Ordered(g)' /\ Apart(g)' /\ Knows(budget[g], noted[g], g)'
    <2>1. CASE g # h
      <3>1. budget'[g] = budget[g] /\ noted'[g] = noted[g]
        BY <1>0, <2>1 DEF Pass, Torn, TypeOK
      <3>2. PICK r, k : r = budget[g] /\ k = noted[g]
        OBVIOUS
      <3>3. Knows(r, k, g)'
        BY <1>15, <2>1, <3>2 DEF Brake
      <3>4. Ordered(g)' /\ Apart(g)'
        BY <1>1, <1>6, <2>1 DEF Brake, Ordered, Apart, Of, Chain
      <3> QED BY <3>1, <3>2, <3>3, <3>4 DEF Knows
    <2>2. CASE g = h
      <3>1. PICK r, k : r = budget[h] /\ k = noted[h]
        OBVIOUS
      <3>a. PICK r1, k1 : r1 = rs \cup {now} /\ k1 = k \cup {n + 1}
        OBVIOUS
      <3>2. \/ budget'[h] = r1 /\ noted'[h] = k1
            \/ budget'[h] = r /\ noted'[h] = k
            \/ budget'[h] = {} /\ noted'[h] = {}
        BY <1>0, <1>3, <1>7, <3>1, <3>a DEF Pass, Torn, TypeOK
      <3>b. Knows(r, k, h) /\ Knows({}, {}, h)'
        BY <1>3, <3>1, KnowsNothing
      <3>3. Knows(r, k, h)' /\ Knows(r1, k1, h)' /\ Knows({}, {}, h)'
        BY <1>13, <1>14, <3>1, <3>a, <3>b
      <3>4. Knows(budget[h], noted[h], h)'
        BY <3>2, <3>3 DEF Knows
      <3> QED BY <1>11, <1>12, <2>2, <3>4
    <2> QED BY <2>1, <2>2
  <1>17. ASSUME NEW q \in Procs, At(q, "wait")' PROVE Waiting(q)'
    <2>1. q # p
      BY <1>2, <1>17 DEF At
    <2>2. PICK g, r, k : g = run[q].host /\ r = run[q].recent /\ k = run[q].after
      OBVIOUS
    <2>3. /\ run'[q] = run[q] /\ g \in Hosts /\ Knows(r, k, g) /\ Cardinality(r) < MaxPerHour
      BY <1>2, <1>17, <2>1, <2>2 DEF Brake, Waiting, At
    <2>4. Knows(r, k, g)'
      BY <1>13, <1>15, <2>3
    <2> QED BY <2>2, <2>3, <2>4 DEF Waiting, Knows
  <1> QED BY <1>16, <1>17 DEF Brake, Waiting

\* A step of one process elsewhere in its command.
LEMMA ElsewhereBrakes ==
  ASSUME Held, Brake, NEW p \in Procs, UNCHANGED <<budget, log, noted, now>>,
         \A q \in Procs \ {p} : run'[q] = run[q], run'[p].pc # "wait"
  PROVE  Brake'
  <1>1. \A q \in Procs : At(q, "wait")' => At(q, "wait") /\ run'[q] = run[q]
    BY DEF At
  <1> QED BY <1>1, NobodyPasses DEF Held, TypeOK

LEMMA GotoBrakes ==
  ASSUME Held, Brake, NEW p \in Procs, UNCHANGED <<budget, log, noted, now>>,
         run[p] # Idle, NEW l \in (Labels \cup {"idle"}) \ {"wait"}, Goto(p, l)
  PROVE  Brake'
  <1>1. \A q \in Procs \ {p} : run'[q] = run[q]
    BY GotoStep DEF Held
  <1>2. run'[p].pc # "wait"
    BY GotoStep DEF Held, Idle
  <1> QED BY <1>1, <1>2, ElsewhereBrakes

LEMMA StartBrakes ==
  ASSUME Held, Brake, NEW p \in Procs, Begin(p)
  PROVE  Brake'
  <1>1. PICK c \in {"command", "login", "logout", "status"}, e \in Profiles \cup {None},
             a \in Ambients : Start(p, c, e, a)
    <2>1. Bare \in Ambients
      BY DEF Bare, Ambients, HostOrNone, TokenOrNone
    <2> QED BY <2>1, CredentialsAssumption DEF Begin
  <1>2. UNCHANGED <<budget, log, noted, now>> /\ now \in Nat
    BY <1>1 DEF Start, throttle, Held, TypeOK
  <1>3. ~At(p, "wait")'
    <2>1. PICK al : run'[p] = Command(c, e, a, al)
      BY <1>1 DEF Start
    <2>2. run'[p].pc # "wait"
      BY <2>1 DEF Command
    <2> QED BY <2>2 DEF At
  <1>4. ASSUME NEW q \in Procs \ {p}, At(q, "wait")'
        PROVE  At(q, "wait") /\ run'[q].host = run[q].host /\ run'[q].recent = run[q].recent
              /\ run'[q].after = run[q].after
    <2>1. run'[q] = IF run[q] = Idle THEN Idle ELSE [run[q] EXCEPT !.alone = FALSE]
      BY <1>1, Places DEF Start, Held
    <2>2. run[q] # Idle
      BY <1>4, <2>1 DEF At, Idle
    <2>3. run[q] \in Commands
      BY <2>2, Places DEF Held
    <2> QED BY <1>4, <2>1, <2>2, <2>3 DEF At, Commands
  <1> QED BY <1>2, <1>3, <1>4, NobodyPasses DEF Held

LEMMA RestBrakes ==
  ASSUME Held, Brake, NEW p \in Procs,
         \/ Resolve(p) \/ ReadToken(p) \/ Resume(p) \/ Whoami(p) \/ Save(p) \/ Obtain(p)
         \/ Store(p) \/ StoreDefault(p) \/ DeleteKeyed(p) \/ DeleteSession(p)
         \/ LookAtDefault(p) \/ DeleteDefault(p) \/ CheckNext(p)
  PROVE  Brake'
  <1>1. UNCHANGED <<budget, log, noted, now>>
    BY DEF Resolve, ReadToken, Resume, Whoami, Save, Obtain, Store, StoreDefault, DeleteKeyed,
           DeleteSession, LookAtDefault, DeleteDefault, CheckNext, Still, throttle
  <1>2. run[p] # Idle /\ run[p] \in Commands /\ run \in [Procs -> Commands \cup {Idle}]
    BY Places DEF Held, TypeOK, Labels, Resolve, ReadToken, Resume, Whoami, Save, Obtain, Store,
           StoreDefault, DeleteKeyed, DeleteSession, LookAtDefault, DeleteDefault, CheckNext
  <1>3. ASSUME NEW l \in (Labels \cup {"idle"}) \ {"wait"}, Goto(p, l) PROVE Brake'
    BY <1>1, <1>2, <1>3, GotoBrakes
  <1>4. ASSUME NEW r, r.pc # "wait", run' = [run EXCEPT ![p] = r] PROVE Brake'
    <2>1. run'[p] = r /\ \A q \in Procs \ {p} : run'[q] = run[q]
      BY <1>2, <1>4
    <2> QED BY <1>1, <1>4, <2>1, ElsewhereBrakes
  <1>5. CASE Resolve(p)
    <2>1. CASE Goto(p, "idle")
      BY <1>3, <2>1 DEF Labels
    <2>2. ASSUME NEW h, NEW m,
                 run' = [run EXCEPT ![p] = [@ EXCEPT !.pc = "token", !.host = h, !.memo = m]]
          PROVE  Brake'
      <3>1. PICK r : r = [run[p] EXCEPT !.pc = "token", !.host = h, !.memo = m]
        OBVIOUS
      <3> QED BY <1>2, <1>4, <2>2, <3>1 DEF Commands
    <2> QED BY <1>5, <2>1, <2>2 DEF Resolve
  <1>6. ASSUME NEW l \in {"session", "whoami"}, NEW h, NEW t, NEW o, NEW m, Use(p, l, h, t, o, m)
        PROVE  Brake'
    <2>1. PICK r : r = [run[p] EXCEPT !.pc = l, !.host = h, !.token = t, !.origin = o, !.memo = m]
      OBVIOUS
    <2> QED BY <1>2, <1>4, <1>6, <2>1 DEF Use, Commands
  <1>7. CASE ReadToken(p)
    <2>1. CASE Goto(p, "idle")
      BY <1>3, <2>1 DEF Labels
    <2> QED BY <1>6, <1>7, <2>1 DEF ReadToken
  <1>8. CASE Obtain(p)
    <2>1. CASE Goto(p, "idle")
      BY <1>3, <2>1 DEF Labels
    <2> QED BY <1>6, <1>8, <2>1 DEF Obtain
  <1>9. CASE DeleteKeyed(p)
    <2>1. CASE Goto(p, "out default")
      BY <1>3, <2>1 DEF Labels
    <2>2. ASSUME NEW h, NEW m, NEW b,
                 run' = [run EXCEPT ![p] = [@ EXCEPT !.pc = "out session", !.host = h,
                                                     !.memo = m, !.alone = b]]
          PROVE  Brake'
      <3>1. PICK r : r = [run[p] EXCEPT !.pc = "out session", !.host = h, !.memo = m, !.alone = b]
        OBVIOUS
      <3> QED BY <1>2, <1>4, <2>2, <3>1 DEF Commands
    <2>3. CASE Target(p) = None /\ Goto(p, "out default")
      BY <2>1, <2>3
    <2>4. CASE \E ok \in BOOLEAN :
            run' = [run EXCEPT ![p] = [@ EXCEPT !.pc = "out session", !.host = Target(p),
                      !.memo = IF run[p].env # None THEN run[p].memo ELSE Default(p),
                      !.alone = run[p].alone /\ ok]]
      <3>1. PICK ok \in BOOLEAN :
            run' = [run EXCEPT ![p] = [@ EXCEPT !.pc = "out session", !.host = Target(p),
                      !.memo = IF run[p].env # None THEN run[p].memo ELSE Default(p),
                      !.alone = run[p].alone /\ ok]]
        BY <2>4
      <3>2. PICK h, m, b : /\ h = Target(p) /\ b = (run[p].alone /\ ok)
                           /\ m = IF run[p].env # None THEN run[p].memo ELSE Default(p)
        OBVIOUS
      <3> QED BY <2>2, <3>1, <3>2
    <2> QED BY <1>9, <2>3, <2>4 DEF DeleteKeyed
  <1>12. CASE DeleteSession(p)
    <2>1. PICK ok \in BOOLEAN, l \in {"out default", "out look"} : GoOn(p, ok, l)
      BY <1>12 DEF DeleteSession
    <2>2. PICK r : r = [run[p] EXCEPT !.pc = l, !.alone = run[p].alone /\ ok]
      OBVIOUS
    <2>3. r.pc # "wait" /\ run' = [run EXCEPT ![p] = r]
      BY <1>2, <2>1, <2>2 DEF GoOn, Commands
    <2> QED BY <1>4, <2>3
  <1>10. CASE CheckNext(p)
    <2>1. CASE Goto(p, "idle")
      BY <1>3, <2>1 DEF Labels
    <2>2. ASSUME NEW s, NEW h, NEW t, NEW o, NEW m, NEW l \in {"next", "whoami"},
                 run' = [run EXCEPT ![p] = [@ EXCEPT !.rest = s, !.host = h, !.token = t,
                                                     !.origin = o, !.memo = m, !.pc = l]]
          PROVE  Brake'
      <3>1. PICK r : r = [run[p] EXCEPT !.rest = s, !.host = h, !.token = t,
                                        !.origin = o, !.memo = m, !.pc = l]
        OBVIOUS
      <3> QED BY <1>2, <1>4, <2>2, <3>1 DEF Commands
    <2>3. CASE \E e \in run[p].rest : LET c == Candidate(p, e) IN
            run' = [run EXCEPT ![p] = [@ EXCEPT !.rest = run[p].rest \ {e}, !.host = ProfileHost[e],
                      !.token = c.token, !.origin = c.origin, !.memo = CandidateLooks(p, e),
                      !.pc = IF e \in Gateways \/ c.token = None THEN "next" ELSE "whoami"]]
      <3>1. PICK e \in run[p].rest :
              run' = [run EXCEPT ![p] =
                [@ EXCEPT !.rest = run[p].rest \ {e}, !.host = ProfileHost[e],
                   !.token = Candidate(p, e).token, !.origin = Candidate(p, e).origin,
                   !.memo = CandidateLooks(p, e),
                   !.pc = IF e \in Gateways \/ Candidate(p, e).token = None
                          THEN "next" ELSE "whoami"]]
        BY <2>3
      <3>2. PICK l \in {"next", "whoami"} :
              l = IF e \in Gateways \/ Candidate(p, e).token = None THEN "next" ELSE "whoami"
        OBVIOUS
      <3> QED BY <2>2, <3>1, <3>2
    <2> QED BY <1>10, <2>1, <2>3 DEF CheckNext
  <1>11. CASE \/ Resume(p) \/ Whoami(p) \/ Save(p) \/ Store(p) \/ StoreDefault(p)
              \/ LookAtDefault(p) \/ DeleteDefault(p)
    <2>1. \E l \in (Labels \cup {"idle"}) \ {"wait"} : Goto(p, l)
      BY <1>11 DEF Labels, Resume, Whoami, Save, Store, StoreDefault, LookAtDefault,
                   DeleteDefault
    <2> QED BY <1>3, <2>1
  <1> QED BY <1>5, <1>7, <1>8, <1>9, <1>10, <1>11, <1>12

LEMMA CrashBrakes ==
  ASSUME Held, Brake, NEW p \in Procs, Crash(p)
  PROVE  Brake'
  <1> USE DEF Held
  <1>1. run[p] # Idle /\ Goto(p, "idle") /\ UNCHANGED <<log, now>> /\ now \in Nat
    BY Places DEF Crash, TypeOK
  <1>2. run'[p] = Idle /\ \A q \in Procs \ {p} : run'[q] = run[q]
    BY <1>1, GotoStep
  <1>3. \A q \in Procs : At(q, "wait")' => At(q, "wait") /\ run'[q] = run[q]
    BY <1>2 DEF At, Idle
  <1>4. \A h \in Hosts : \/ budget'[h] = budget[h] /\ noted'[h] = noted[h]
                         \/ budget'[h] = {} /\ noted'[h] = {}
    BY DEF Crash, Torn, TypeOK
  <1> QED BY <1>1, <1>3, <1>4, NobodyPasses

LEMMA BrakeStep == Held /\ Brake /\ [Next]_vars => Brake'
  <1> SUFFICES ASSUME Held, Brake, [Next]_vars PROVE Brake'
    OBVIOUS
  <1>1. ASSUME NEW p \in Procs, Begin(p) \/ Gate(p) \/ Pass(p) \/ Crash(p) PROVE Brake'
    BY <1>1, StartBrakes, GateBrakes, PassBrakes, CrashBrakes DEF Held, Home
  <1>2. CASE Tick \/ UNCHANGED vars
    <2>1. UNCHANGED <<budget, log, noted, run>> /\ now' \in {now, now + 1} /\ now \in Nat
      BY <1>2 DEF Tick, vars, throttle, Held, TypeOK
    <2>2. now' \in Nat /\ now <= now'
      BY <2>1
    <2>3. \A h \in Hosts : budget'[h] = budget[h] /\ noted'[h] = noted[h]
      BY <2>1
    <2>4. \A q \in Procs : At(q, "wait")' => At(q, "wait") /\ run'[q] = run[q]
      BY <2>1 DEF At
    <2>5. \A q \in Procs : At(q, "wait")' =>
            /\ At(q, "wait") /\ run'[q].host = run[q].host
            /\ run'[q].recent = run[q].recent /\ run'[q].after = run[q].after
      BY <2>4
    <2> QED BY <2>1, <2>2, <2>3, <2>5, NobodyPasses DEF Held
  <1> QED BY <1>1, <1>2, RestBrakes DEF Next

\* A handshake comes Interval after every one that was noted before its command
\* looked, and of those that came one after the other no more than MaxPerHour
\* come within an Hour: whichever commands die, however many look at once, and
\* whenever the throttle's file is lost (loginThrottle.ts:145).
THEOREM LoginsAreSpaced == Spec => []LoginsSpaced
  <1>1. Init => Brake
    <2> SUFFICES ASSUME Init PROVE Brake
      OBVIOUS
    <2>1. \A h \in Hosts : Len(log[h]) = 0 /\ budget[h] = {} /\ noted[h] = {}
      BY DEF Init
    <2>2. \A h \in Hosts : Ordered(h) /\ Apart(h) /\ Knows(budget[h], noted[h], h)
      BY <2>1, CredentialsAssumption DEF Ordered, Apart, Knows
    <2>3. \A p \in Procs : Waiting(p)
      BY DEF Init, Waiting, At, Idle
    <2> QED BY <2>2, <2>3 DEF Brake
  <1>2. Held /\ Brake => LoginsSpaced
    <2> SUFFICES ASSUME Held, Brake, NEW h \in Hosts
                 PROVE  /\ \A j \in DOMAIN log[h] : \A i \in log[h][j].after :
                             log[h][j].at - log[h][i].at >= Interval
                        /\ \A j \in MaxPerHour + 1 .. Len(log[h]) :
                             (\A i \in j - MaxPerHour + 1 .. j : i - 1 \in log[h][i].after)
                               => log[h][j].at - log[h][j - MaxPerHour].at >= Hour
      BY DEF LoginsSpaced
    <2>1. Apart(h) /\ DOMAIN log[h] = 1 .. Len(log[h])
      BY LogFacts DEF Brake, Held
    <2> QED BY <2>1 DEF Apart, Of, Chain
  <1> QED BY <1>1, <1>2, BrakeStep, Stays, PTL DEF Spec

=============================================================================
