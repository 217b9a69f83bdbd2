------------------------------ MODULE CtSession ------------------------------
(***************************************************************************)
(* The authenticated client (api/ctClient.ts) and the session it keeps     *)
(* between commands (auth/sessionStore.ts).  Several ct processes, each    *)
(* with one client, share one keychain entry and one ChurchTools; within a *)
(* process requests run concurrently on the client's cookie and CSRF       *)
(* token.  ChurchTools may end any session at any time.                    *)
(*                                                                         *)
(* A session stands for its cookie and for the CSRF token that goes with   *)
(* it.  Every client and every request is a thread: the client's own       *)
(* thread is authenticate(), run before its requests.                      *)
(***************************************************************************)
EXTENDS Integers, FiniteSets

CONSTANTS
  Clients,      \* processes, one client each
  Reads,        \* REST requests that carry no CSRF token
  Writes,       \* REST requests that do
  Legacy,       \* requests to index.php: a CSRF token, no self-heal
  ClientOf,     \* the client a request is sent with
  TokenOf,      \* the login token of a client
  Fresh,        \* clients of `ct auth login`, which never resume a session
  Earlier,      \* the login tokens whose session an earlier command may have left
  None,
  Anonymous,    \* a cookie of nobody's session
  MaxSession,   \* bound: sessions ChurchTools hands out
  MaxFaults     \* bound: refused logins and lost answers

Requests == Reads \cup Writes \cup Legacy
Posts == Writes \cup Legacy
Threads == Clients \cup Requests
Sessions == 1 .. MaxSession
Tokens == {TokenOf[c] : c \in Clients}
Of(t) == IF t \in Clients THEN t ELSE ClientOf[t]

ASSUME ClientsAssumption ==
  /\ Clients \cap Requests = {} /\ Fresh \subseteq Clients /\ Earlier \subseteq Tokens
  /\ Reads \cap Posts = {} /\ Writes \cap Legacy = {}
  /\ ClientOf \in [Requests -> Clients] /\ DOMAIN TokenOf = Clients
ASSUME BoundsAssumption ==
  /\ MaxSession \in Nat \ {0} /\ MaxFaults \in Nat
  /\ None \notin Sessions \cup Tokens /\ Anonymous \notin Sessions \cup {None}

VARIABLES
  alive,       \* the sessions ChurchTools accepts
  owner,       \* the login token a session was bought with, None if not handed out yet
  keychain,    \* the stored session: cookie, CSRF token and the token it is bound to
  cookie, csrf, loggingIn, resuming, attempts,   \* fields of each client
  pc,          \* where a thread is
  hdr,         \* the headers of its call in flight
  held,        \* the cookie a write took before it waited for a CSRF token
  heal,        \* the call it buys a new session for or replays, or "no"
  ans,         \* ChurchTools' answer to its call
  applied,     \* how often ChurchTools has carried out a request
  bought,      \* history: sessions a client has bought
  healed,      \* history: replays of a client that went through
  faults

serverVars == <<alive, owner, applied>>
historyVars == <<bought, healed>>
fieldVars == <<cookie, csrf, loggingIn, resuming, attempts>>
threadVars == <<pc, hdr, held, heal, ans>>
vars == <<alive, owner, applied, keychain, cookie, csrf, loggingIn, resuming, attempts,
          pc, hdr, held, heal, ans, bought, healed, faults>>

InFlight == {"csrf", "call", "lcsrf"}
Cookies == Sessions \cup {Anonymous}
Headers == [cookie : Cookies \cup {None}, csrf : Sessions \cup {None}]
NoHeaders == [cookie |-> None, csrf |-> None]

Stored(s, x, tok) == [cookie |-> s, csrf |-> x, token |-> tok]

\* An earlier command may have left its session in the keychain.
Init ==
  /\ \/ /\ alive = {} /\ keychain = None
        /\ owner = [s \in Sessions |-> None]
     \/ \E tok \in Earlier :
        /\ alive = {1} /\ keychain = Stored(1, 1, tok)
        /\ owner = [s \in Sessions |-> IF s = 1 THEN tok ELSE None]
  /\ applied = [r \in Requests |-> 0]
  /\ cookie = [c \in Clients |-> None] /\ csrf = [c \in Clients |-> None]
  /\ loggingIn = [c \in Clients |-> FALSE] /\ resuming = [c \in Clients |-> FALSE]
  /\ attempts = [c \in Clients |-> 0]
  /\ pc = [t \in Threads |-> IF t \in Clients THEN "load" ELSE "wait"]
  /\ hdr = [t \in Threads |-> NoHeaders]
  /\ held = [t \in Threads |-> None]
  /\ heal = [t \in Threads |-> "no"]
  /\ ans = [t \in Threads |-> "none"]
  /\ bought = [c \in Clients |-> 0] /\ healed = [c \in Clients |-> 0]
  /\ faults = 0

--------------------------------------------------------------------------------
(* ChurchTools, and what happens to the keychain from outside.              *)

Expire ==
  /\ \E s \in alive : alive' = alive \ {s}
  /\ UNCHANGED <<owner, applied, keychain, fieldVars, threadVars, historyVars, faults>>

Logout ==
  /\ keychain # None /\ keychain' = None
  /\ UNCHANGED <<serverVars, fieldVars, threadVars, historyVars, faults>>

\* A call is accepted for a session that is alive, a write only together with
\* that session's CSRF token.
Accepted(t) ==
  /\ hdr[t].cookie \in alive
  /\ (t \in Posts /\ pc[t] = "call" => hdr[t].csrf = hdr[t].cookie)

Serve(t) ==
  /\ pc[t] \in InFlight /\ ans[t] = "none"
  /\ ans' = [ans EXCEPT ![t] = IF Accepted(t) THEN "ok" ELSE "401"]
  /\ applied' = IF Accepted(t) /\ t \in Requests /\ pc[t] = "call"
                THEN [applied EXCEPT ![t] = @ + 1] ELSE applied
  /\ UNCHANGED <<alive, owner, keychain, fieldVars, pc, hdr, held, heal, historyVars, faults>>

\* captureCookie: any answer may set a cookie, which replaces the client's, whatever
\* that is by now.  It is the cookie of the call, renewed, or with a refusal one of
\* nobody's session; an error may come with either.
Capture(t) ==
  LET set == CASE ans[t] = "ok" -> {hdr[t].cookie} [] ans[t] = "401" -> {Anonymous}
               [] OTHER -> {hdr[t].cookie, Anonymous} \ {None}
  IN  cookie' \in {cookie} \cup {[cookie EXCEPT ![Of(t)] = s] : s \in set}

--------------------------------------------------------------------------------
(* requestEnvelope: the headers are read from the client when the call starts. *)

Send(t, where, c, x) ==
  /\ pc' = [pc EXCEPT ![t] = where]
  /\ hdr' = [hdr EXCEPT ![t] = [cookie |-> c, csrf |-> x]]
  /\ ans' = [ans EXCEPT ![t] = "none"]

\* The thread has no call any more.
Leave(t, where) == Send(t, where, None, None) /\ held' = [held EXCEPT ![t] = None]

\* A request starts, or is replayed.
Open(t) ==
  LET c == Of(t) IN
    \/ cookie[c] = None /\ Leave(t, "failed")     \* "Not authenticated"
    \/ /\ cookie[c] # None /\ t \in Posts /\ csrf[c] = None
       /\ Send(t, "csrf", cookie[c], None)
       /\ held' = [held EXCEPT ![t] = cookie[c]]
    \/ /\ cookie[c] # None /\ ~(t \in Posts /\ csrf[c] = None)
       /\ Send(t, "call", cookie[c], IF t \in Posts THEN csrf[c] ELSE None)
       /\ UNCHANGED held

Start(r) ==
  /\ r \in Requests /\ pc[r] = "wait" /\ pc[Of(r)] = "done"
  /\ Open(r)
  /\ UNCHANGED <<serverVars, keychain, fieldVars, heal, historyVars, faults>>

\* A write has waited for the CSRF token.  Its cookie header was taken before
\* that; a request to index.php reads the cookie now.
CsrfArrives(t) ==
  LET c == Of(t) IN
  /\ pc[t] = "csrf" /\ ans[t] = "ok"
  /\ Capture(t) /\ csrf' = [csrf EXCEPT ![c] = hdr[t].cookie]
  /\ Send(t, "call", IF t \in Legacy THEN cookie'[c] ELSE held[t], hdr[t].cookie)
  /\ held' = [held EXCEPT ![t] = None]
  /\ attempts' = IF heal[t] = "csrf" THEN [attempts EXCEPT ![c] = 0] ELSE attempts
  /\ healed' = IF heal[t] = "csrf" THEN [healed EXCEPT ![c] = @ + 1] ELSE healed
  /\ heal' = IF heal[t] = "csrf" THEN [heal EXCEPT ![t] = "no"] ELSE heal
  /\ UNCHANGED <<serverVars, keychain, loggingIn, resuming, bought, faults>>

Answered(t) ==
  LET c == Of(t) IN
  /\ pc[t] = "call" /\ ans[t] = "ok"
  /\ Capture(t) /\ Leave(t, "done")
  /\ resuming' = IF t \in Clients THEN [resuming EXCEPT ![c] = FALSE] ELSE resuming
  /\ attempts' = IF heal[t] = "call" THEN [attempts EXCEPT ![c] = 0] ELSE attempts
  /\ healed' = IF heal[t] = "call" THEN [healed EXCEPT ![c] = @ + 1] ELSE healed
  /\ heal' = [heal EXCEPT ![t] = "no"]
  /\ UNCHANGED <<serverVars, keychain, csrf, loggingIn, bought, faults>>

\* reauthenticate() is refused while a login or a resume is going on, and when
\* a new login has been bought that no replay has justified yet.
CanHeal_Unlimited(c) == ~loggingIn[c] /\ ~resuming[c]                \* mutated
CanHeal(c) == ~loggingIn[c] /\ ~resuming[c] /\ attempts[c] = 0

\* A 401: buy a new session and replay the call.
Heal(t) ==
  LET c == Of(t) IN
  /\ pc[t] \in InFlight /\ ans[t] = "401"
  /\ CanHeal(c) /\ ~(t \in Legacy /\ pc[t] = "call")
  /\ attempts' = [attempts EXCEPT ![c] = 1]
  /\ heal' = [heal EXCEPT ![t] = pc[t]]
  /\ Capture(t) /\ Send(t, "drop", None, None)
  /\ UNCHANGED <<serverVars, keychain, csrf, loggingIn, resuming, held, historyVars, faults>>

\* The thread ends with an error; what it had begun for the client ends too.
Throw(t) ==
  LET c == Of(t) IN
  /\ Leave(t, "failed")
  /\ heal' = [heal EXCEPT ![t] = "no"]
  /\ loggingIn' = IF pc[t] \in {"login", "lcsrf"} THEN [loggingIn EXCEPT ![c] = FALSE] ELSE loggingIn
  /\ resuming' = IF t \in Clients THEN [resuming EXCEPT ![c] = FALSE] ELSE resuming

\* A 401 that cannot be healed surfaces.
Surface_QueuesUp(t) ==                                               \* mutated
  /\ pc[t] \in InFlight /\ ans[t] = "401"
  /\ loggingIn[Of(t)] \/ (t \in Legacy /\ pc[t] = "call")
  /\ ~(t \in Clients /\ pc[t] = "call")
  /\ Capture(t) /\ Throw(t)
  /\ UNCHANGED <<serverVars, keychain, csrf, attempts, historyVars, faults>>
Surface(t) ==
  /\ pc[t] \in InFlight /\ ans[t] = "401"
  /\ ~CanHeal(Of(t)) \/ (t \in Legacy /\ pc[t] = "call")
  /\ ~(t \in Clients /\ pc[t] = "call")
  /\ Capture(t) /\ Throw(t)
  /\ UNCHANGED <<serverVars, keychain, csrf, attempts, historyVars, faults>>

\* No answer, or an error: reads were retried below this level, a write is not.
Lose(t) ==
  /\ pc[t] \in InFlight /\ faults < MaxFaults
  /\ faults' = faults + 1
  /\ Capture(t) /\ Throw(t)
  /\ UNCHANGED <<serverVars, keychain, csrf, attempts, historyVars>>

--------------------------------------------------------------------------------
(* authenticate, login and the keychain.                                    *)

\* readSession: bound to the token that bought it.
Usable_AnyToken(c) == keychain # None                                \* mutated
Usable(c) == keychain # None /\ keychain.token = TokenOf[c]

\* The stored session is adopted and tried with a plain GET.
Resume(c) ==
  /\ c \in Clients /\ pc[c] = "load" /\ c \notin Fresh /\ Usable(c)
  /\ cookie' = [cookie EXCEPT ![c] = keychain.cookie]
  /\ csrf' = [csrf EXCEPT ![c] = keychain.csrf]
  /\ resuming' = [resuming EXCEPT ![c] = TRUE]
  /\ Send(c, "call", keychain.cookie, None)
  /\ UNCHANGED <<serverVars, keychain, loggingIn, attempts, held, heal, historyVars, faults>>

BeginLogin(t) ==
  LET c == Of(t) IN
  /\ loggingIn' = [loggingIn EXCEPT ![c] = TRUE]
  /\ cookie' = [cookie EXCEPT ![c] = None] /\ csrf' = [csrf EXCEPT ![c] = None]
  /\ pc' = [pc EXCEPT ![t] = "login"]

\* Nothing to resume: a fresh login is asked for, nothing is stored, it is
\* another token's, too old or unreadable.
Load(c) ==
  /\ c \in Clients /\ pc[c] = "load"
  /\ BeginLogin(c)
  /\ UNCHANGED <<serverVars, keychain, resuming, attempts, hdr, held, heal, ans, historyVars, faults>>

\* The stored session is no longer accepted.
Reject(c) ==
  /\ c \in Clients /\ pc[c] = "call" /\ ans[c] = "401" /\ ~CanHeal(c)
  /\ cookie' = [cookie EXCEPT ![c] = None] /\ csrf' = [csrf EXCEPT ![c] = None]
  /\ Leave(c, "drop")
  /\ UNCHANGED <<serverVars, keychain, loggingIn, resuming, attempts, heal, historyVars, faults>>

\* The stored session is dropped, as far as the keychain lets us, and the login begins.
Drop(t) ==
  LET c == Of(t) IN
  /\ pc[t] = "drop"
  /\ keychain' \in {None, keychain}
  /\ resuming' = IF t \in Clients THEN [resuming EXCEPT ![c] = FALSE] ELSE resuming
  /\ BeginLogin(t)
  /\ UNCHANGED <<serverVars, attempts, hdr, held, heal, ans, historyVars, faults>>

\* whoami with the login token: ChurchTools hands out a session.
LoggedIn(t) ==
  LET c == Of(t) IN
  /\ pc[t] = "login"
  /\ \E s \in Sessions :
       /\ owner[s] = None /\ \A x \in Sessions : owner[x] = None => s <= x
       /\ owner' = [owner EXCEPT ![s] = TokenOf[c]] /\ alive' = alive \cup {s}
       /\ cookie' = [cookie EXCEPT ![c] = s]
       /\ Send(t, "lcsrf", s, None)
  /\ bought' = [bought EXCEPT ![c] = @ + 1]
  /\ UNCHANGED <<applied, keychain, csrf, loggingIn, resuming, attempts, held, heal,
                 healed, faults>>

\* The throttle, a 429, a token that is no longer valid, the network.
LoginRefused(t) ==
  /\ pc[t] = "login" /\ faults < MaxFaults
  /\ faults' = faults + 1
  /\ Capture(t) /\ Throw(t)
  /\ UNCHANGED <<serverVars, keychain, csrf, attempts, historyVars>>

LoginCsrf_ResetsBudget(t) ==                                         \* mutated
  LET c == Of(t) IN
  /\ pc[t] = "lcsrf" /\ ans[t] = "ok"
  /\ Capture(t) /\ csrf' = [csrf EXCEPT ![c] = hdr[t].cookie]
  /\ hdr' = [hdr EXCEPT ![t] = [cookie |-> cookie'[c], csrf |-> hdr[t].cookie]]
  /\ pc' = [pc EXCEPT ![t] = "save"]
  /\ attempts' = [attempts EXCEPT ![c] = 0]
  /\ UNCHANGED <<serverVars, keychain, loggingIn, resuming, held, heal, ans, historyVars, faults>>
LoginCsrf(t) ==
  LET c == Of(t) IN
  /\ pc[t] = "lcsrf" /\ ans[t] = "ok"
  /\ Capture(t) /\ csrf' = [csrf EXCEPT ![c] = hdr[t].cookie]
  /\ hdr' = [hdr EXCEPT ![t] = [cookie |-> cookie'[c], csrf |-> hdr[t].cookie]]
  /\ pc' = [pc EXCEPT ![t] = "save"]
  /\ UNCHANGED <<serverVars, keychain, loggingIn, resuming, attempts, held, heal, ans,
                 historyVars, faults>>

\* storeSession, best effort; then authenticate() returns or the call is replayed.
Save(t) ==
  LET c == Of(t) IN
  /\ pc[t] = "save"
  /\ keychain' \in {keychain, Stored(hdr[t].cookie, hdr[t].csrf, TokenOf[c])}
  /\ loggingIn' = [loggingIn EXCEPT ![c] = FALSE]
  /\ \/ t \in Clients /\ Leave(t, "done")
     \/ t \in Requests /\ heal[t] = "call" /\ Open(t)
     \/ t \in Requests /\ heal[t] = "csrf" /\ Send(t, "csrf", cookie[c], None) /\ UNCHANGED held
  /\ UNCHANGED <<serverVars, cookie, csrf, resuming, attempts, heal, historyVars, faults>>

--------------------------------------------------------------------------------
\* A thread begins, takes an answer, or goes on buying a session.
Progress(t) ==
  \/ pc[t] \in {"load", "wait"} /\ (Start(t) \/ Resume(t) \/ Load(t))
  \/ pc[t] \in InFlight /\ ans[t] = "ok" /\ (CsrfArrives(t) \/ Answered(t) \/ LoginCsrf(t))
  \/ pc[t] \in InFlight /\ ans[t] = "401" /\ (Heal(t) \/ Surface(t) \/ Reject(t))
  \/ pc[t] \in {"drop", "login", "save"} /\ (Drop(t) \/ LoggedIn(t) \/ Save(t))

Next ==
  \/ Expire \/ Logout
  \/ \E t \in Threads : Progress(t) \/ Serve(t) \/ Lose(t) \/ LoginRefused(t)

Spec == Init /\ [][Next]_vars

\* ChurchTools answers what it is asked, and the event loops go on.
Fairness == WF_vars(\E t \in Threads : Progress(t) \/ Serve(t))
FairSpec == Spec /\ Fairness

--------------------------------------------------------------------------------
(* What the client promises.                                                *)

TypeOK ==
  /\ alive \subseteq Sessions /\ owner \in [Sessions -> Tokens \cup {None}]
  /\ applied \in [Requests -> Nat]
  /\ keychain \in [cookie : Cookies, csrf : Sessions, token : Tokens] \cup {None}
  /\ cookie \in [Clients -> Cookies \cup {None}] /\ csrf \in [Clients -> Sessions \cup {None}]
  /\ loggingIn \in [Clients -> BOOLEAN] /\ resuming \in [Clients -> BOOLEAN]
  /\ attempts \in [Clients -> 0 .. 1]
  /\ pc \in [Threads -> {"load", "wait", "csrf", "call", "drop", "login", "lcsrf", "save",
                         "done", "failed"}]
  /\ hdr \in [Threads -> Headers] /\ held \in [Threads -> Cookies \cup {None}]
  /\ heal \in [Threads -> {"no", "call", "csrf"}]
  /\ ans \in [Threads -> {"none", "ok", "401"}]
  /\ bought \in [Clients -> Nat] /\ healed \in [Clients -> Nat] /\ faults \in Nat

Buying == {"drop", "login", "lcsrf", "save"}

\* "no self-heal while a login is already in flight" (ctClient.ts): two requests
\* that are refused at the same time never log in at the same time.
OneLogin ==
  \A t, u \in Threads : Of(t) = Of(u) /\ pc[t] \in Buying /\ pc[u] \in Buying => t = u

\* "a server that always 401s must not become a login storm": however sessions
\* end, a client logs in at most once more than its replays have gone through.
NoLoginStorm == \A c \in Clients : bought[c] <= healed[c] + 2

\* The previous user's session is not reused: a call only ever carries a session
\* that was bought with the client's own token.
OwnSession ==
  \A t \in Threads : \A s \in {hdr[t].cookie, hdr[t].csrf} \ {None, Anonymous} :
    owner[s] = TokenOf[Of(t)]

\* However the requests of the process that stored it were interleaved, and
\* whatever cookies their answers set meanwhile, nothing stored under a token
\* belongs to another user.  (It need not be one session: an answer to an earlier
\* call may bring the cookie of the session before.)
StoredSessionIsOwn ==
  keychain # None => \A s \in {keychain.cookie, keychain.csrf} \ {Anonymous} :
                       owner[s] = keychain.token

\* Replays and re-logins never make ChurchTools carry out a write twice, and a
\* request reported as done has been carried out.
CarriedOutOnce ==
  \A r \in Requests : /\ applied[r] <= 1
                      /\ pc[r] = "done" => applied[r] = 1

\* Whatever the server answers, every command comes to an end.
EveryThreadEnds ==
  <>(\A t \in Threads : pc[t] \in {"done", "failed"} \/ pc[Of(t)] = "failed")

\* "so a stale cached session self-heals instead of surfacing as \"Not
\* authenticated\"" (ctClient.ts:596): with a single expired session and nothing
\* else going wrong, no REST request fails.
ExpirySelfHeals ==
  (faults = 0 /\ Cardinality({s \in Sessions : owner[s] # None} \ alive) <= 1) =>
    \A r \in Reads \cup Writes : pc[r] # "failed"
=============================================================================
