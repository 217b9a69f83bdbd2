-------------------------- MODULE CtSession_proofs ---------------------------
(***************************************************************************)
(* The session's safety, for any number of processes, requests, tokens,    *)
(* sessions and faults, and, in the last part, that of the pacer its       *)
(* requests go through, for any interval, any waits and any budgets.       *)
(***************************************************************************)
EXTENDS CtSession, Pacer, TLAPS

Places == {"load", "wait", "csrf", "call", "drop", "login", "lcsrf", "save", "done", "failed"}

\* Who is where: requests wait until their client is authenticated, and the
\* flags of a client tell which of its threads buys a session.
Lanes ==
  /\ \A c \in Clients : pc[c] \notin {"wait", "csrf"} /\ heal[c] = "no"
  /\ \A r \in Requests : pc[r] # "load"
  /\ \A r \in Requests : pc[ClientOf[r]] # "done" => pc[r] = "wait"
  /\ \A r \in Requests : pc[r] = "wait" => heal[r] = "no"
  /\ \A c \in Clients : pc[c] \in {"call", "drop"} => resuming[c]
  /\ \A t \in Threads : pc[t] \in {"login", "lcsrf", "save"} => loggingIn[Of(t)]

\* A request buys a session only on the client's one attempt.
OneHealer ==
  /\ \A r \in Requests : pc[r] \in Buying => heal[r] # "no"
  /\ \A r \in Requests : heal[r] # "no" => attempts[ClientOf[r]] = 1
  /\ \A r, s \in Requests :
       heal[r] # "no" /\ heal[s] # "no" /\ ClientOf[r] = ClientOf[s] => r = s

\* Sessions and flags are of their types; the rest of TypeOK.
Shape ==
  /\ loggingIn \in [Clients -> BOOLEAN] /\ resuming \in [Clients -> BOOLEAN]
  /\ attempts \in [Clients -> 0 .. 1]
  /\ pc \in [Threads -> Places]
  /\ heal \in [Threads -> {"no", "call", "csrf"}]
  /\ ans \in [Threads -> {"none", "ok", "401"}]

LEMMA ThreadsOf ==
  /\ \A c \in Clients : c \in Threads /\ Of(c) = c /\ c \notin Requests
  /\ \A r \in Requests : r \in Threads /\ Of(r) = ClientOf[r] /\ ClientOf[r] \in Clients
                         /\ r \notin Clients
  /\ \A t \in Threads : Of(t) \in Clients
  /\ Threads = Clients \cup Requests
BY ClientsAssumption DEF Threads, Of

\* two threads of a client never buy a session at the same time
LEMMA Alone ==
  ASSUME Shape, Lanes, OneHealer
  PROVE  OneLogin
  <1> SUFFICES ASSUME NEW t \in Threads, NEW u \in Threads, Of(t) = Of(u),
                      pc[t] \in Buying, pc[u] \in Buying
               PROVE  t = u
    BY DEF OneLogin
  <1>1. CASE t \in Clients /\ u \in Clients
    BY <1>1, ThreadsOf
  <1>2. CASE t \in Requests /\ u \in Requests
    BY <1>2, ThreadsOf DEF OneHealer
  <1>3. CASE t \in Clients /\ u \in Requests
    BY <1>3, ThreadsOf DEF Lanes, Buying
  <1>4. CASE t \in Requests /\ u \in Clients
    BY <1>4, ThreadsOf DEF Lanes, Buying
  <1> QED BY <1>1, <1>2, <1>3, <1>4, ThreadsOf

LEMMA LanesInit == Init => Shape /\ Lanes /\ OneHealer
BY ThreadsOf DEF Init, Shape, Lanes, OneHealer, Places, Buying

LEMMA LanesStep ==
  ASSUME Shape, Lanes, OneHealer, [Next]_vars
  PROVE  Shape' /\ Lanes' /\ OneHealer'
  <1> USE ThreadsOf DEF Shape, Lanes, OneHealer, Places, Buying
  <1>0. OneLogin
    BY Alone
  <1>1. CASE UNCHANGED vars
    BY <1>1 DEF vars
  <1>2. CASE Expire \/ Logout
    BY <1>2 DEF Expire, Logout, fieldVars, threadVars
  <1>3. ASSUME NEW t \in Threads, Serve(t) PROVE Shape' /\ Lanes' /\ OneHealer'
    BY <1>3 DEF Serve, fieldVars
  <1>4. ASSUME NEW t \in Threads, Start(t) PROVE Shape' /\ Lanes' /\ OneHealer'
    BY <1>4 DEF Start, Open, Leave, Send, fieldVars
  <1>5. ASSUME NEW t \in Threads, CsrfArrives(t) PROVE Shape' /\ Lanes' /\ OneHealer'
    BY <1>5 DEF CsrfArrives, Send
  <1>6. ASSUME NEW t \in Threads, Answered(t) PROVE Shape' /\ Lanes' /\ OneHealer'
    BY <1>6 DEF Answered, Leave, Send
  <1>7. ASSUME NEW t \in Threads, Heal(t) PROVE Shape' /\ Lanes' /\ OneHealer'
    BY <1>7 DEF Heal, CanHeal, Send, InFlight
  <1>8. ASSUME NEW t \in Threads, Surface(t) \/ Lose(t) \/ LoginRefused(t)
        PROVE  Shape' /\ Lanes' /\ OneHealer'
    <2>1. /\ pc' = [pc EXCEPT ![t] = "failed"] /\ ans' = [ans EXCEPT ![t] = "none"]
          /\ heal' = [heal EXCEPT ![t] = "no"] /\ UNCHANGED attempts
      BY <1>8 DEF Surface, Lose, LoginRefused, Throw, Leave, Send
    <2>2. /\ loggingIn' = IF pc[t] \in {"login", "lcsrf"}
                          THEN [loggingIn EXCEPT ![Of(t)] = FALSE] ELSE loggingIn
          /\ resuming' = IF t \in Clients THEN [resuming EXCEPT ![Of(t)] = FALSE] ELSE resuming
      BY <1>8 DEF Surface, Lose, LoginRefused, Throw
    <2>3. pc[t] # "wait" /\ pc[t] # "done"
      BY <1>8 DEF Surface, Lose, LoginRefused, InFlight
    <2>4. \A u \in Threads \ {t} :
            pc[t] \in {"login", "lcsrf"} /\ pc[u] \in {"login", "lcsrf", "save"} => Of(u) # Of(t)
      BY <1>0 DEF OneLogin
    <2>5. Shape'
      BY <2>1, <2>2
    <2>6. OneHealer'
      BY <2>1
    <2>7. \A u \in Threads : pc'[u] \in {"login", "lcsrf", "save"} => loggingIn'[Of(u)]
      BY <2>1, <2>2, <2>4
    <2>8. Lanes'
      BY <2>1, <2>2, <2>3, <2>7
    <2> QED BY <2>5, <2>6, <2>8
  <1>9. ASSUME NEW t \in Threads, Resume(t) PROVE Shape' /\ Lanes' /\ OneHealer'
    BY <1>9 DEF Resume, Send
  <1>10. ASSUME NEW t \in Threads, Load(t) PROVE Shape' /\ Lanes' /\ OneHealer'
    BY <1>10 DEF Load, BeginLogin
  <1>11. ASSUME NEW t \in Threads, Reject(t) PROVE Shape' /\ Lanes' /\ OneHealer'
    BY <1>11 DEF Reject, Leave, Send
  <1>12. ASSUME NEW t \in Threads, Drop(t) PROVE Shape' /\ Lanes' /\ OneHealer'
    BY <1>12 DEF Drop, BeginLogin
  <1>13. ASSUME NEW t \in Threads, LoggedIn(t) PROVE Shape' /\ Lanes' /\ OneHealer'
    BY <1>13 DEF LoggedIn, Send
  <1>14. ASSUME NEW t \in Threads, LoginCsrf(t) PROVE Shape' /\ Lanes' /\ OneHealer'
    BY <1>14 DEF LoginCsrf
  <1>15. ASSUME NEW t \in Threads, Save(t) PROVE Shape' /\ Lanes' /\ OneHealer'
    BY <1>15, <1>0 DEF Save, Open, Leave, Send, OneLogin
  <1> QED
    BY <1>1, <1>2, <1>3, <1>4, <1>5, <1>6, <1>7, <1>8, <1>9, <1>10, <1>11, <1>12,
       <1>13, <1>14, <1>15 DEF Next, Progress

--------------------------------------------------------------------------------
(* Whose session a call carries, and what is stored.                        *)

MaybeSession == Sessions \cup {None}
MaybeCookie == Cookies \cup {None}

\* the values; with Shape they give the types
Values ==
  /\ alive \subseteq Sessions /\ owner \in [Sessions -> Tokens \cup {None}]
  /\ keychain \in [cookie : Cookies, csrf : Sessions, token : Tokens] \cup {None}
  /\ cookie \in [Clients -> MaybeCookie] /\ csrf \in [Clients -> MaybeSession]
  /\ hdr \in [Threads -> Headers] /\ held \in [Threads -> MaybeCookie]

\* s belongs to nobody, or was bought with this token
BoughtWith(s, token) == s \notin {None, Anonymous} => owner[s] = token
Bought(s, c) == BoughtWith(s, TokenOf[c])

\* Whatever a client holds, sends or stores is its own.
Own ==
  /\ \A c \in Clients : Bought(cookie[c], c) /\ Bought(csrf[c], c)
  /\ \A t \in Threads : /\ Bought(hdr[t].cookie, Of(t)) /\ Bought(hdr[t].csrf, Of(t))
                         /\ Bought(held[t], Of(t))
  /\ keychain # None => /\ BoughtWith(keychain.cookie, keychain.token)
                        /\ BoughtWith(keychain.csrf, keychain.token)

\* An answer is that of a session, and a login that goes on has what it is about
\* to store.
Carried ==
  /\ \A t \in Threads : ans[t] = "ok" /\ pc[t] # "save" => hdr[t].cookie \in Sessions
  /\ \A t \in Threads : pc[t] = "lcsrf" => cookie[Of(t)] # None
  /\ \A t \in Threads : pc[t] = "save" => hdr[t].cookie # None /\ hdr[t].csrf # None

LEMMA OwnInit == Init => Values /\ Own /\ Carried
  <1> SUFFICES ASSUME Init PROVE Values /\ Own /\ Carried
    OBVIOUS
  <1> USE ThreadsOf, ClientsAssumption, BoundsAssumption
  <1>1. NoHeaders \in Headers /\ NoHeaders.cookie = None /\ NoHeaders.csrf = None
    BY DEF NoHeaders, Headers
  <1>2. /\ cookie = [c \in Clients |-> None] /\ csrf = [c \in Clients |-> None]
        /\ hdr = [t \in Threads |-> NoHeaders] /\ held = [t \in Threads |-> None]
        /\ \A t \in Threads : pc[t] \in {"load", "wait"} /\ ans[t] = "none"
    BY DEF Init
  <1>3. /\ alive \subseteq Sessions /\ owner \in [Sessions -> Tokens \cup {None}]
        /\ keychain \in [cookie : Cookies, csrf : Sessions, token : Tokens] \cup {None}
        /\ keychain # None => /\ BoughtWith(keychain.cookie, keychain.token)
                              /\ BoughtWith(keychain.csrf, keychain.token)
    BY DEF Init, Stored, Sessions, Cookies, BoughtWith
  <1>4. Values
    BY <1>1, <1>2, <1>3 DEF Values, MaybeSession, MaybeCookie
  <1>5. Own /\ Carried
    BY <1>1, <1>2, <1>3 DEF Own, Carried, Bought, BoughtWith
  <1> QED BY <1>4, <1>5

\* Sessions and tokens are never None, and no session is nobody's.
LEMMA NoneIsOut ==
  /\ None \notin Cookies /\ None \notin Tokens /\ Anonymous \notin Sessions
  /\ \A c \in Clients : TokenOf[c] \in Tokens
BY BoundsAssumption DEF Tokens, Cookies

\* An answer sets no cookie but the client's own or nobody's, and takes none away.
LEMMA CaptureKeeps ==
  ASSUME Shape, Values, Own, Carried, NEW t \in Threads, pc[t] # "save", Capture(t)
  PROVE  /\ cookie' \in [Clients -> MaybeCookie] /\ \A c \in Clients : Bought(cookie'[c], c)
         /\ \A c \in Clients : cookie[c] # None => cookie'[c] # None
  <1>1. PICK s : cookie' \in {cookie, [cookie EXCEPT ![Of(t)] = s]}
                 /\ s \in {hdr[t].cookie, Anonymous} /\ s # None
    <2>1. CASE ans[t] = "ok"
      BY <2>1, NoneIsOut DEF Capture, Carried, Cookies
    <2>2. CASE ans[t] = "401"
      BY <2>2, BoundsAssumption DEF Capture
    <2>3. CASE ans[t] = "none"
      BY <2>3, BoundsAssumption DEF Capture
    <2> QED BY <2>1, <2>2, <2>3 DEF Shape
  <1>2. s \in MaybeCookie /\ Bought(s, Of(t))
    BY <1>1 DEF Values, Own, Headers, Bought, BoughtWith, MaybeCookie, Cookies
  <1> QED BY <1>1, <1>2, ThreadsOf DEF Values, Own

\* t starts a call or is left with none; whatever it sends is its client's
Kept(t) ==
  /\ hdr' \in [Threads -> Headers] /\ held' \in [Threads -> MaybeCookie]
  /\ \A u \in Threads : /\ Bought(hdr'[u].cookie, Of(u)) /\ Bought(hdr'[u].csrf, Of(u))
                         /\ Bought(held'[u], Of(u))
  /\ pc'[t] \notin {"lcsrf", "save"} /\ ans'[t] = "none"
  /\ \A u \in Threads \ {t} : pc'[u] = pc[u] /\ hdr'[u] = hdr[u] /\ ans'[u] = ans[u]

LEMMA CallKeeps ==
  ASSUME Shape, Values, Own, NEW t \in Threads, NEW where \in Places \ {"lcsrf", "save"},
         NEW c \in MaybeCookie, NEW x \in MaybeSession, Bought(c, Of(t)), Bought(x, Of(t)),
         Send(t, where, c, x),
         held' \in {held, [held EXCEPT ![t] = None], [held EXCEPT ![t] = cookie[Of(t)]]}
  PROVE  Kept(t)
  <1>1. /\ hdr' = [hdr EXCEPT ![t] = [cookie |-> c, csrf |-> x]] /\ hdr \in [Threads -> Headers]
        /\ pc' = [pc EXCEPT ![t] = where] /\ ans' = [ans EXCEPT ![t] = "none"]
        /\ [cookie |-> c, csrf |-> x] \in Headers
    BY DEF Send, Values, Headers, MaybeSession, MaybeCookie
  <1>2. hdr' \in [Threads -> Headers]
        /\ \A u \in Threads : Bought(hdr'[u].cookie, Of(u)) /\ Bought(hdr'[u].csrf, Of(u))
    BY <1>1 DEF Own
  <1>3. None \in MaybeCookie /\ Bought(None, Of(t)) /\ cookie[Of(t)] \in MaybeCookie
        /\ Bought(cookie[Of(t)], Of(t))
    BY ThreadsOf DEF Values, Own, MaybeCookie, Bought, BoughtWith
  <1>4. held' \in [Threads -> MaybeCookie] /\ \A u \in Threads : Bought(held'[u], Of(u))
    BY <1>3 DEF Values, Own
  <1>5. /\ pc'[t] \notin {"lcsrf", "save"} /\ ans'[t] = "none"
        /\ \A u \in Threads \ {t} : pc'[u] = pc[u] /\ hdr'[u] = hdr[u] /\ ans'[u] = ans[u]
    BY <1>1 DEF Shape, Values
  <1> QED BY <1>2, <1>4, <1>5 DEF Kept

\* What t holds and nothing is its client's.
LEMMA Holds ==
  ASSUME Shape, Values, Own, NEW t \in Threads
  PROVE  /\ cookie[Of(t)] \in MaybeCookie /\ Bought(cookie[Of(t)], Of(t))
         /\ csrf[Of(t)] \in MaybeSession /\ Bought(csrf[Of(t)], Of(t))
         /\ held[t] \in MaybeCookie /\ Bought(held[t], Of(t))
         /\ None \in MaybeCookie /\ None \in MaybeSession /\ Bought(None, Of(t))
BY ThreadsOf DEF Values, Own, MaybeSession, MaybeCookie, Bought, BoughtWith

LEMMA LeaveKeeps ==
  ASSUME Shape, Values, Own, NEW t \in Threads, NEW where \in Places \ {"lcsrf", "save"},
         Leave(t, where)
  PROVE  Kept(t)
BY Holds, CallKeeps DEF Leave

LEMMA OpenKeeps ==
  ASSUME Shape, Values, Own, NEW t \in Threads, Open(t)
  PROVE  Kept(t)
  <1>1. {"failed", "csrf", "call"} \subseteq Places \ {"lcsrf", "save"}
    BY DEF Places
  <1>2. CASE Leave(t, "failed")
    BY <1>1, <1>2, LeaveKeeps
  <1>3. CASE Send(t, "csrf", cookie[Of(t)], None) /\ held' = [held EXCEPT ![t] = cookie[Of(t)]]
    BY <1>1, <1>3, Holds, CallKeeps
  <1>4. CASE Send(t, "call", cookie[Of(t)], IF t \in Posts THEN csrf[Of(t)] ELSE None)
             /\ UNCHANGED held
    <2>1. PICK x \in MaybeSession : /\ Bought(x, Of(t))
                                    /\ x = IF t \in Posts THEN csrf[Of(t)] ELSE None
      BY Holds
    <2> QED BY <1>1, <1>4, <2>1, Holds, CallKeeps
  <1> QED BY <1>2, <1>3, <1>4 DEF Open

\* What a client and the keychain have after a step that buys no session.
LEMMA KeptOwn ==
  ASSUME Values, Own, Carried, NEW t \in Threads, Kept(t), UNCHANGED <<alive, owner>>,
         cookie' \in [Clients -> MaybeCookie], csrf' \in [Clients -> MaybeSession],
         \A c \in Clients : Bought(cookie'[c], c) /\ Bought(csrf'[c], c),
         \A u \in Threads \ {t} : pc[u] = "lcsrf" => cookie'[Of(u)] # None,
         keychain' \in [cookie : Cookies, csrf : Sessions, token : Tokens] \cup {None},
         keychain' # None => /\ BoughtWith(keychain'.cookie, keychain'.token)
                             /\ BoughtWith(keychain'.csrf, keychain'.token)
  PROVE  Values' /\ Own' /\ Carried'
  <1>1. Values'
    BY DEF Values, Kept
  <1>2. Own'
    BY DEF Own, Kept, Bought, BoughtWith
  <1>3. Carried'
    BY DEF Carried, Kept
  <1> QED BY <1>1, <1>2, <1>3

LEMMA OwnStep ==
  ASSUME Shape, Lanes, OneHealer, Values, Own, Carried, [Next]_vars
  PROVE  Values' /\ Own' /\ Carried'
  <1>0. OneLogin
    BY Alone
  \* a step that ends or starts a call of t, and may take a cookie from its answer
  <1>a. ASSUME NEW t \in Threads, pc[t] # "save", Kept(t), Capture(t),
               UNCHANGED <<alive, owner, keychain, csrf>>
        PROVE  Values' /\ Own' /\ Carried'
    <2>1. \A u \in Threads \ {t} : pc[u] = "lcsrf" => cookie'[Of(u)] # None
      BY <1>a, CaptureKeeps, ThreadsOf DEF Carried
    <2>2. csrf' \in [Clients -> MaybeSession] /\ \A c \in Clients : Bought(csrf'[c], c)
      BY <1>a DEF Values, Own
    <2>3. /\ keychain' \in [cookie : Cookies, csrf : Sessions, token : Tokens] \cup {None}
          /\ keychain' # None => /\ BoughtWith(keychain'.cookie, keychain'.token)
                                 /\ BoughtWith(keychain'.csrf, keychain'.token)
      BY <1>a DEF Values, Own
    <2> QED BY <1>a, <2>1, <2>2, <2>3, CaptureKeeps, KeptOwn
  <1>1. CASE UNCHANGED vars
    BY <1>1 DEF vars, Values, Own, Carried, Bought, BoughtWith
  <1>2. CASE Expire \/ Logout
    BY <1>2 DEF Expire, Logout, fieldVars, threadVars, serverVars, Values, Own, Carried, Bought,
                BoughtWith
  <1>3. ASSUME NEW t \in Threads, Serve(t) PROVE Values' /\ Own' /\ Carried'
    <2>1. /\ UNCHANGED <<alive, owner, keychain, cookie, csrf, pc, hdr, held>>
          /\ ans' = [ans EXCEPT ![t] = IF Accepted(t) THEN "ok" ELSE "401"]
          /\ Accepted(t) => hdr[t].cookie \in Sessions
      BY <1>3 DEF Serve, fieldVars, Accepted, Values
    <2>2. Values' /\ Own'
      BY <2>1 DEF Values, Own, Bought, BoughtWith
    <2>3. Carried'
      BY <2>1 DEF Carried, Shape
    <2> QED BY <2>2, <2>3
  <1>4. ASSUME NEW t \in Threads, Start(t) PROVE Values' /\ Own' /\ Carried'
    <2>1. UNCHANGED <<alive, owner, keychain, cookie, csrf>> /\ pc[t] # "save" /\ Kept(t)
      BY <1>4, OpenKeeps DEF Start, fieldVars, serverVars
    <2>2. Capture(t)
      BY <2>1 DEF Capture
    <2> QED BY <1>a, <2>1, <2>2
  <1>5. ASSUME NEW t \in Threads, CsrfArrives(t) PROVE Values' /\ Own' /\ Carried'
    <2>1. /\ UNCHANGED <<alive, owner, keychain>> /\ pc[t] = "csrf" /\ ans[t] = "ok" /\ Capture(t)
          /\ csrf' = [csrf EXCEPT ![Of(t)] = hdr[t].cookie]
          /\ held' = [held EXCEPT ![t] = None]
          /\ Send(t, "call", IF t \in Legacy THEN cookie'[Of(t)] ELSE held[t], hdr[t].cookie)
      BY <1>5 DEF CsrfArrives, serverVars
    <2>2. /\ cookie' \in [Clients -> MaybeCookie] /\ \A c \in Clients : Bought(cookie'[c], c)
          /\ \A c \in Clients : cookie[c] # None => cookie'[c] # None
      BY <2>1, CaptureKeeps
    <2>3. hdr[t].cookie \in MaybeSession /\ Bought(hdr[t].cookie, Of(t))
      BY <2>1 DEF Carried, Own, MaybeSession
    <2>4. PICK k \in MaybeCookie : /\ Bought(k, Of(t))
                                   /\ k = IF t \in Legacy THEN cookie'[Of(t)] ELSE held[t]
      BY <2>2, Holds, ThreadsOf
    <2>5. Kept(t)
      BY <2>1, <2>3, <2>4, CallKeeps DEF Places
    <2>6. csrf' \in [Clients -> MaybeSession] /\ \A c \in Clients : Bought(csrf'[c], c)
      BY <2>1, <2>3, ThreadsOf DEF Values, Own
    <2>7. \A u \in Threads \ {t} : pc[u] = "lcsrf" => cookie'[Of(u)] # None
      BY <2>2, ThreadsOf DEF Carried
    <2>8. /\ keychain' \in [cookie : Cookies, csrf : Sessions, token : Tokens] \cup {None}
          /\ keychain' # None => /\ BoughtWith(keychain'.cookie, keychain'.token)
                                 /\ BoughtWith(keychain'.csrf, keychain'.token)
      BY <2>1 DEF Values, Own
    <2> QED BY <2>1, <2>2, <2>5, <2>6, <2>7, <2>8, KeptOwn
  <1>6. ASSUME NEW t \in Threads, Answered(t) PROVE Values' /\ Own' /\ Carried'
    <2>1. Kept(t)
      BY <1>6, LeaveKeeps DEF Answered, Places
    <2> QED BY <1>6, <1>a, <2>1 DEF Answered, serverVars
  <1>7. ASSUME NEW t \in Threads, Heal(t) PROVE Values' /\ Own' /\ Carried'
    <2>1. Kept(t)
      BY <1>7, Holds, CallKeeps DEF Heal, Places
    <2> QED BY <1>7, <1>a, <2>1 DEF Heal, serverVars, InFlight
  <1>8. ASSUME NEW t \in Threads, Surface(t) \/ Lose(t) \/ LoginRefused(t)
        PROVE  Values' /\ Own' /\ Carried'
    <2>1. Kept(t)
      BY <1>8, LeaveKeeps DEF Surface, Lose, LoginRefused, Throw, Places
    <2> QED BY <1>8, <1>a, <2>1 DEF Surface, Lose, LoginRefused, serverVars, InFlight
  <1>9. ASSUME NEW t \in Threads, Resume(t) PROVE Values' /\ Own' /\ Carried'
    <2>1. /\ UNCHANGED <<alive, owner, keychain, held>>
          /\ t \in Clients /\ pc[t] = "load"
          /\ keychain # None /\ keychain.token = TokenOf[t]
          /\ cookie' = [cookie EXCEPT ![t] = keychain.cookie]
          /\ csrf' = [csrf EXCEPT ![t] = keychain.csrf]
          /\ Send(t, "call", keychain.cookie, None)
      BY <1>9 DEF Resume, serverVars, Usable
    <2>2. PICK k, x : k = keychain.cookie /\ x = keychain.csrf
      OBVIOUS
    <2>3. /\ k \in MaybeCookie /\ k # None /\ Bought(k, t) /\ x \in MaybeSession /\ Bought(x, t)
      BY <2>1, <2>2, NoneIsOut DEF Values, Own, Bought, MaybeCookie, MaybeSession
    <2>4. Kept(t)
      BY <2>1, <2>2, <2>3, Holds, CallKeeps, ThreadsOf DEF Places
    <2>5. /\ cookie' \in [Clients -> MaybeCookie] /\ csrf' \in [Clients -> MaybeSession]
          /\ \A c \in Clients : Bought(cookie'[c], c) /\ Bought(csrf'[c], c)
          /\ \A c \in Clients : cookie[c] # None => cookie'[c] # None
      BY <2>1, <2>2, <2>3 DEF Values, Own
    <2>6. \A u \in Threads \ {t} : pc[u] = "lcsrf" => cookie'[Of(u)] # None
      BY <2>5, ThreadsOf DEF Carried
    <2>7. /\ keychain' \in [cookie : Cookies, csrf : Sessions, token : Tokens] \cup {None}
          /\ keychain' # None => /\ BoughtWith(keychain'.cookie, keychain'.token)
                                 /\ BoughtWith(keychain'.csrf, keychain'.token)
      BY <2>1 DEF Values, Own
    <2> QED BY <2>1, <2>4, <2>5, <2>6, <2>7, KeptOwn
  <1>10. ASSUME NEW t \in Threads, Reject(t) PROVE Values' /\ Own' /\ Carried'
    <2>1. /\ UNCHANGED <<alive, owner, keychain>> /\ t \in Clients /\ pc[t] = "call"
          /\ cookie' = [cookie EXCEPT ![t] = None] /\ csrf' = [csrf EXCEPT ![t] = None]
      BY <1>10 DEF Reject, serverVars
    <2>2. Kept(t)
      BY <1>10, LeaveKeeps DEF Reject, Places
    <2>3. /\ cookie' \in [Clients -> MaybeCookie] /\ csrf' \in [Clients -> MaybeSession]
          /\ \A c \in Clients : Bought(cookie'[c], c) /\ Bought(csrf'[c], c)
      BY <2>1, Holds DEF Values, Own, Bought, BoughtWith, MaybeCookie, MaybeSession
    <2>4. \A u \in Threads \ {t} : pc[u] = "lcsrf" => Of(u) # t
      BY <2>1, ThreadsOf DEF Lanes
    <2>5. \A u \in Threads \ {t} : pc[u] = "lcsrf" => cookie'[Of(u)] # None
      BY <2>1, <2>4, ThreadsOf DEF Carried, Values
    <2>6. /\ keychain' \in [cookie : Cookies, csrf : Sessions, token : Tokens] \cup {None}
          /\ keychain' # None => /\ BoughtWith(keychain'.cookie, keychain'.token)
                                 /\ BoughtWith(keychain'.csrf, keychain'.token)
      BY <2>1 DEF Values, Own
    <2> QED BY <2>1, <2>2, <2>3, <2>5, <2>6, KeptOwn
  <1>11. ASSUME NEW t \in Threads, Load(t) \/ Drop(t) PROVE Values' /\ Own' /\ Carried'
    <2>1. /\ UNCHANGED <<alive, owner, hdr, held, ans>> /\ keychain' \in {None, keychain}
          /\ cookie' = [cookie EXCEPT ![Of(t)] = None] /\ csrf' = [csrf EXCEPT ![Of(t)] = None]
          /\ pc' = [pc EXCEPT ![t] = "login"] /\ pc[t] \in {"load", "drop"}
          /\ pc[t] = "load" => t \in Clients
      BY <1>11 DEF Load, Drop, BeginLogin, serverVars
    <2>2. Values'
      BY <2>1 DEF Values, MaybeCookie, MaybeSession
    <2>3. Own'
      BY <2>1, ThreadsOf DEF Own, Values, Bought, BoughtWith
    <2>4. \A u \in Threads \ {t} : pc[u] = "lcsrf" => Of(u) # Of(t)
      BY <1>0, <2>1, ThreadsOf DEF OneLogin, Buying, Lanes
    <2>5. \A u \in Threads : pc'[u] = "lcsrf" => cookie'[Of(u)] # None
      BY <2>1, <2>4, ThreadsOf DEF Carried, Values, Shape
    <2>6. Carried'
      BY <2>1, <2>5 DEF Carried, Shape
    <2> QED BY <2>2, <2>3, <2>6
  <1>13. ASSUME NEW t \in Threads, LoggedIn(t) PROVE Values' /\ Own' /\ Carried'
    <2>1. PICK s \in Sessions :
            /\ owner[s] = None /\ owner' = [owner EXCEPT ![s] = TokenOf[Of(t)]]
            /\ alive' = alive \cup {s} /\ cookie' = [cookie EXCEPT ![Of(t)] = s]
            /\ Send(t, "lcsrf", s, None)
      BY <1>13 DEF LoggedIn
    <2>2. UNCHANGED <<keychain, csrf, held>> /\ s # None /\ s \in MaybeCookie
      BY <1>13, NoneIsOut DEF LoggedIn, MaybeCookie, Cookies
    <2>3. [cookie |-> s, csrf |-> None] \in Headers
      BY DEF Headers, Cookies
    <2>4. Values'
      BY <2>1, <2>2, <2>3, NoneIsOut, ThreadsOf DEF Values, Send
    <2>5. \A x, k : k # None /\ BoughtWith(x, k) /\ x \in Cookies \cup {None} => BoughtWith(x, k)'
      BY <2>1 DEF BoughtWith, Values, Cookies
    <2>6. keychain' # None => BoughtWith(keychain.cookie, keychain.token)'
                              /\ BoughtWith(keychain.csrf, keychain.token)'
      BY <2>2, <2>5, NoneIsOut DEF Values, Own, Cookies, BoughtWith
    <2>7. \A c \in Clients : Bought(cookie[c], c)' /\ Bought(csrf[c], c)'
      BY <2>1, <2>2, <2>5, NoneIsOut DEF Values, Own, Bought, BoughtWith, MaybeCookie, MaybeSession,
                                         Cookies
    <2>8. \A u \in Threads : Bought(hdr[u].cookie, Of(u))' /\ Bought(hdr[u].csrf, Of(u))'
                             /\ Bought(held[u], Of(u))'
      BY <2>1, <2>2, <2>5, NoneIsOut, ThreadsOf
      DEF Values, Own, Bought, BoughtWith, MaybeCookie, Headers, Cookies, Send
    <2>9. Own'
      BY <2>6, <2>7, <2>8 DEF Own
    <2>10. Carried'
      BY <1>13, <2>1, <2>2, ThreadsOf DEF Carried, Values, Shape, Send
    <2> QED BY <2>4, <2>9, <2>10
  <1>14. ASSUME NEW t \in Threads, LoginCsrf(t) PROVE Values' /\ Own' /\ Carried'
    <2>1. /\ UNCHANGED <<alive, owner, keychain, held, ans>> /\ pc[t] = "lcsrf" /\ ans[t] = "ok"
          /\ Capture(t) /\ csrf' = [csrf EXCEPT ![Of(t)] = hdr[t].cookie]
          /\ hdr' = [hdr EXCEPT ![t] = [cookie |-> cookie'[Of(t)], csrf |-> hdr[t].cookie]]
          /\ pc' = [pc EXCEPT ![t] = "save"]
      BY <1>14 DEF LoginCsrf, serverVars
    <2>2. /\ cookie' \in [Clients -> MaybeCookie] /\ \A c \in Clients : Bought(cookie'[c], c)
          /\ \A c \in Clients : cookie[c] # None => cookie'[c] # None
      BY <2>1, CaptureKeeps
    <2>3. PICK k, x : k = cookie'[Of(t)] /\ x = hdr[t].cookie
      OBVIOUS
    <2>4. /\ k \in MaybeCookie /\ k # None /\ Bought(k, Of(t))
          /\ x \in Sessions /\ x # None /\ Bought(x, Of(t))
      BY <2>1, <2>2, <2>3, NoneIsOut, ThreadsOf DEF Carried, Own, Cookies
    <2>5. [cookie |-> k, csrf |-> x] \in Headers
      BY <2>4 DEF Headers, MaybeCookie
    <2>6. Values'
      BY <2>1, <2>2, <2>3, <2>4, <2>5 DEF Values, MaybeSession
    <2>7. Own'
      BY <2>1, <2>2, <2>3, <2>4, ThreadsOf DEF Own, Values, Bought, BoughtWith
    <2>8. Carried'
      BY <2>1, <2>2, <2>3, <2>4, ThreadsOf DEF Carried, Values, Shape
    <2> QED BY <2>6, <2>7, <2>8
  <1>15. ASSUME NEW t \in Threads, Save(t) PROVE Values' /\ Own' /\ Carried'
    <2>1. UNCHANGED <<alive, owner, cookie, csrf>> /\ pc[t] = "save"
      BY <1>15 DEF Save, serverVars
    <2>2. \/ keychain' = keychain
          \/ keychain' = [cookie |-> hdr[t].cookie, csrf |-> hdr[t].csrf, token |-> TokenOf[Of(t)]]
      BY <1>15 DEF Save, Stored
    <2>3. /\ hdr[t].cookie \in Cookies /\ Bought(hdr[t].cookie, Of(t))
          /\ hdr[t].csrf \in Sessions /\ Bought(hdr[t].csrf, Of(t))
      BY <2>1 DEF Carried, Own, Values, Headers
    <2>4. Kept(t)
      <3>1. CASE Leave(t, "done")
        BY <3>1, LeaveKeeps DEF Places
      <3>2. CASE Open(t)
        BY <3>2, OpenKeeps
      <3>3. CASE Send(t, "csrf", cookie[Of(t)], None) /\ UNCHANGED held
        BY <3>3, Holds, CallKeeps DEF Places
      <3> QED BY <1>15, <3>1, <3>2, <3>3 DEF Save
    <2>5. /\ keychain' \in [cookie : Cookies, csrf : Sessions, token : Tokens] \cup {None}
          /\ keychain' # None => /\ BoughtWith(keychain'.cookie, keychain'.token)
                                 /\ BoughtWith(keychain'.csrf, keychain'.token)
      BY <2>2, <2>3, NoneIsOut, ThreadsOf DEF Values, Own, Bought
    <2>6. /\ cookie' \in [Clients -> MaybeCookie] /\ csrf' \in [Clients -> MaybeSession]
          /\ \A c \in Clients : Bought(cookie'[c], c) /\ Bought(csrf'[c], c)
      BY <2>1 DEF Values, Own
    <2>7. \A u \in Threads \ {t} : pc[u] = "lcsrf" => cookie'[Of(u)] # None
      BY <2>1 DEF Carried
    <2> QED BY <2>1, <2>4, <2>5, <2>6, <2>7, KeptOwn
  <1> QED
    BY <1>1, <1>2, <1>3, <1>4, <1>5, <1>6, <1>7, <1>8, <1>9, <1>10, <1>11, <1>13, <1>14,
       <1>15 DEF Next, Progress

--------------------------------------------------------------------------------
(* How often a client logs in, and a request is carried out.                *)

Budget ==
  /\ bought \in [Clients -> Nat] /\ healed \in [Clients -> Nat]
  /\ \A c \in Clients : pc[c] \in {"load", "call", "drop", "login"} => bought[c] = 0
  /\ \A c \in Clients : bought[c] <= healed[c] + attempts[c] + 1
  /\ \A r \in Requests : pc[r] \in {"drop", "login"} =>
       bought[ClientOf[r]] <= healed[ClientOf[r]] + 1

LEMMA BudgetStep ==
  ASSUME Shape, Lanes, OneHealer, Budget, [Next]_vars
  PROVE  Budget'
  <1> USE ThreadsOf DEF Shape, Lanes, OneHealer, Places, Buying, Budget
  <1>1. CASE UNCHANGED vars
    BY <1>1 DEF vars
  <1>2. CASE Expire \/ Logout
    BY <1>2 DEF Expire, Logout, fieldVars, threadVars, historyVars
  <1>3. ASSUME NEW t \in Threads, Serve(t) PROVE Budget'
    BY <1>3 DEF Serve, fieldVars, historyVars
  <1>4. ASSUME NEW t \in Threads, Start(t) PROVE Budget'
    BY <1>4 DEF Start, Open, Leave, Send, fieldVars, historyVars
  <1>5. ASSUME NEW t \in Threads, CsrfArrives(t) PROVE Budget'
    BY <1>5 DEF CsrfArrives, Send
  <1>6. ASSUME NEW t \in Threads, Answered(t) PROVE Budget'
    BY <1>6 DEF Answered, Leave, Send
  <1>7. ASSUME NEW t \in Threads, Heal(t) PROVE Budget'
    BY <1>7 DEF Heal, CanHeal, Send, InFlight, historyVars
  <1>8. ASSUME NEW t \in Threads, Surface(t) \/ Lose(t) \/ LoginRefused(t)
        PROVE  Budget'
    BY <1>8 DEF Surface, Lose, LoginRefused, Throw, Leave, Send, historyVars
  <1>9. ASSUME NEW t \in Threads, Resume(t) PROVE Budget'
    BY <1>9 DEF Resume, Send, historyVars
  <1>10. ASSUME NEW t \in Threads, Load(t) PROVE Budget'
    BY <1>10 DEF Load, BeginLogin, historyVars
  <1>11. ASSUME NEW t \in Threads, Reject(t) PROVE Budget'
    BY <1>11 DEF Reject, Leave, Send, historyVars
  <1>12. ASSUME NEW t \in Threads, Drop(t) PROVE Budget'
    BY <1>12 DEF Drop, BeginLogin, historyVars
  <1>13. ASSUME NEW t \in Threads, LoggedIn(t) PROVE Budget'
    BY <1>13 DEF LoggedIn, Send
  <1>14. ASSUME NEW t \in Threads, LoginCsrf(t) PROVE Budget'
    BY <1>14 DEF LoginCsrf, historyVars
  <1>15. ASSUME NEW t \in Threads, Save(t) PROVE Budget'
    BY <1>15 DEF Save, Open, Leave, Send, historyVars
  <1> QED
    BY <1>1, <1>2, <1>3, <1>4, <1>5, <1>6, <1>7, <1>8, <1>9, <1>10, <1>11, <1>12,
       <1>13, <1>14, <1>15 DEF Next, Progress

\* A request counts as carried out from the accepted call on.
Once ==
  /\ applied \in [Requests -> Nat]
  /\ \A r \in Requests :
       /\ applied[r] <= 1
       /\ pc[r] \in {"wait", "csrf", "drop", "login", "lcsrf", "save"} => applied[r] = 0
       /\ pc[r] = "call" => applied[r] = IF ans[r] = "ok" THEN 1 ELSE 0
       /\ pc[r] = "done" => applied[r] = 1

LEMMA OnceStep ==
  ASSUME Shape, Lanes, Once, [Next]_vars
  PROVE  Once'
  <1> USE ThreadsOf DEF Shape, Lanes, Places, Once
  <1>1. CASE UNCHANGED vars
    BY <1>1 DEF vars
  <1>2. CASE Expire \/ Logout
    BY <1>2 DEF Expire, Logout, threadVars, serverVars
  <1>3. ASSUME NEW t \in Threads, Serve(t) PROVE Once'
    BY <1>3 DEF Serve, InFlight
  <1>4. ASSUME NEW t \in Threads, Start(t) PROVE Once'
    BY <1>4 DEF Start, Open, Leave, Send, serverVars
  <1>5. ASSUME NEW t \in Threads, CsrfArrives(t) PROVE Once'
    BY <1>5 DEF CsrfArrives, Send, serverVars
  <1>6. ASSUME NEW t \in Threads, Answered(t) PROVE Once'
    BY <1>6 DEF Answered, Leave, Send, serverVars
  <1>7. ASSUME NEW t \in Threads, Heal(t) PROVE Once'
    BY <1>7 DEF Heal, Send, InFlight, serverVars
  <1>8. ASSUME NEW t \in Threads, Surface(t) \/ Lose(t) \/ LoginRefused(t)
        PROVE  Once'
    BY <1>8 DEF Surface, Lose, LoginRefused, Throw, Leave, Send, serverVars
  <1>9. ASSUME NEW t \in Threads, Resume(t) PROVE Once'
    BY <1>9 DEF Resume, Send, serverVars
  <1>10. ASSUME NEW t \in Threads, Load(t) PROVE Once'
    BY <1>10 DEF Load, BeginLogin, serverVars
  <1>11. ASSUME NEW t \in Threads, Reject(t) PROVE Once'
    BY <1>11 DEF Reject, Leave, Send, serverVars
  <1>12. ASSUME NEW t \in Threads, Drop(t) PROVE Once'
    BY <1>12 DEF Drop, BeginLogin, serverVars
  <1>13. ASSUME NEW t \in Threads, LoggedIn(t) PROVE Once'
    BY <1>13 DEF LoggedIn, Send
  <1>14. ASSUME NEW t \in Threads, LoginCsrf(t) PROVE Once'
    BY <1>14 DEF LoginCsrf, serverVars
  <1>15. ASSUME NEW t \in Threads, Save(t) PROVE Once'
    BY <1>15 DEF Save, Open, Leave, Send, serverVars
  <1> QED
    BY <1>1, <1>2, <1>3, <1>4, <1>5, <1>6, <1>7, <1>8, <1>9, <1>10, <1>11, <1>12,
       <1>13, <1>14, <1>15 DEF Next, Progress

--------------------------------------------------------------------------------
(* The theorems.                                                            *)

Inv == Shape /\ Lanes /\ OneHealer /\ Values /\ Own /\ Carried /\ Budget /\ Once /\ faults \in Nat

LEMMA FaultsStep ==
  ASSUME faults \in Nat, [Next]_vars
  PROVE  faults' \in Nat
BY DEF Next, Progress, Expire, Logout, Serve, Lose, LoginRefused, Start, CsrfArrives, Answered,
       Heal, Surface, Resume, Load, Reject, Drop, LoggedIn, LoginCsrf, Save, vars

LEMMA AlwaysInv == Spec => []Inv
  <1>1. Init => Budget /\ Once /\ faults \in Nat
    BY ThreadsOf, LanesInit DEF Init, Budget, Once, Shape
  <1>2. Init => Inv
    BY <1>1, LanesInit, OwnInit DEF Inv
  <1>3. Inv /\ [Next]_vars => Inv'
    BY LanesStep, OwnStep, BudgetStep, OnceStep, FaultsStep DEF Inv
  <1> QED BY <1>2, <1>3, PTL DEF Spec

\* Every variable keeps its type, however many processes and requests there are.
THEOREM Typed == Spec => []TypeOK
  <1>1. Inv => TypeOK
    BY DEF Inv, Shape, Values, Budget, Once, TypeOK, Places, MaybeSession, MaybeCookie
  <1> QED BY <1>1, AlwaysInv, PTL

\* However many requests of a client are refused at once, one of them logs in
\* (reauthenticate, ctClient.ts:404).
THEOREM OneLoginAtATime == Spec => []OneLogin
  <1>1. Inv => OneLogin
    BY Alone DEF Inv
  <1> QED BY <1>1, AlwaysInv, PTL

\* A client buys at most two sessions more than replays have gone through, one
\* for the command and one that was in vain (ctClient.ts:601-605).
THEOREM LoginsAreBounded == Spec => []NoLoginStorm
  <1>1. Inv => NoLoginStorm
    BY DEF Inv, Shape, Budget, NoLoginStorm
  <1> QED BY <1>1, AlwaysInv, PTL

\* No call ever carries a session another token bought, whatever is stored
\* (readSession, sessionStore.ts:123).
THEOREM SessionsAreOwn == Spec => []OwnSession
  <1>1. Inv => OwnSession
    BY DEF Inv, Own, Bought, BoughtWith, OwnSession
  <1> QED BY <1>1, AlwaysInv, PTL

\* What performLogin stores after its awaits, and whatever cookies the answers to
\* other requests set meanwhile, belongs to the token it is stored under, or to
\* nobody (ctClient.ts:384, 684).
THEOREM StoredIsOwn == Spec => []StoredSessionIsOwn
  <1>1. Inv => StoredSessionIsOwn
    <2> SUFFICES ASSUME Inv, keychain # None, NEW s \in {keychain.cookie, keychain.csrf} \ {Anonymous}
                 PROVE  owner[s] = keychain.token
      BY DEF StoredSessionIsOwn
    <2>1. s # None
      BY NoneIsOut DEF Inv, Values, Cookies
    <2> QED BY <2>1 DEF Inv, Own, BoughtWith
  <1> QED BY <1>1, AlwaysInv, PTL

\* No replay makes ChurchTools carry out a request twice, and what is reported
\* as done was carried out once (ctClient.ts:400).
THEOREM EffectsHappenOnce == Spec => []CarriedOutOnce
  <1>1. Inv => CarriedOutOnce
    BY DEF Inv, Once, CarriedOutOnce
  <1> QED BY <1>1, AlwaysInv, PTL

--------------------------------------------------------------------------------
(* The pacer (module Pacer) every request of a client goes through: its      *)
(* behaviour is PacerSpec, apart from the session's.                         *)

\* Slots lie a full interval apart from each other and from the last start, and
\* the next free one behind all of them.
Apart ==
  Punctual =>
    /\ nextStartAt + since >= MinInterval
    /\ \A r \in Fetches : st[r] = "slot" =>
         wake[r] + MinInterval <= nextStartAt /\ wake[r] + since >= MinInterval
    /\ \A r, s \in Fetches : st[r] = "slot" /\ st[s] = "slot" /\ r # s =>
         wake[r] + MinInterval <= wake[s] \/ wake[s] + MinInterval <= wake[r]

\* A write that may have been carried out has ended.
Settled == \A r \in Fetches \ Idempotent : uncertain[r] => st[r] = "failed"

Paced == PacerTypeOK /\ Apart /\ Settled

LEMMA PacedInit == PacerInit => Paced
  <1> SUFFICES ASSUME PacerInit PROVE Paced
    OBVIOUS
  <1> QED
    BY PacerAssumption DEF PacerInit, Paced, PacerTypeOK, Apart, Settled

\* reserve() keeps the types and the slots apart, whoever claims and whatever
\* pause is on.
LEMMA ClaimKeeps ==
  ASSUME Paced, NEW r \in Fetches, NEW pause \in Nat, Claim(r, pause)
  PROVE  /\ nextStartAt' \in Nat /\ wake' \in [Fetches -> Nat]
         /\ st' \in [Fetches -> {"new", "slot", "backoff", "flight", "done", "failed"}]
         /\ sends' \in [Fetches -> Nat] /\ since' \in 0 .. MinInterval
         /\ Apart'
  <1> DEFINE w == Later(nextStartAt, pause)
  <1>1. w \in Nat /\ w >= nextStartAt
    BY DEF Paced, PacerTypeOK, Later
  <1> HIDE DEF w
  <1>2. nextStartAt' = w + MinInterval
    BY DEF Claim, w
  <1>3. CASE w = 0 /\ Launch(r) /\ UNCHANGED wake
    <2>1. \A s \in Fetches : st'[s] = "slot" => s # r /\ st[s] = "slot"
      BY <1>3 DEF Launch, Paced, PacerTypeOK
    <2> QED
      BY <1>1, <1>2, <1>3, <2>1, PacerAssumption DEF Launch, Paced, PacerTypeOK, Apart
  <1>4. CASE w > 0 /\ Sleep(r, "slot", w)
    <2>1. /\ \A s \in Fetches \ {r} : st'[s] = st[s] /\ wake'[s] = wake[s]
          /\ st'[r] = "slot" /\ wake'[r] = w /\ sends' = sends /\ since' = since
      BY <1>4 DEF Sleep, Paced, PacerTypeOK
    <2>2. /\ wake' \in [Fetches -> Nat]
          /\ st' \in [Fetches -> {"new", "slot", "backoff", "flight", "done", "failed"}]
      BY <1>1, <1>4 DEF Sleep, Paced, PacerTypeOK
    <2>3. Apart'
      <3> SUFFICES ASSUME Punctual PROVE Apart'
        BY DEF Apart
      <3>1. nextStartAt' + since' >= MinInterval
        BY <1>1, <1>2, <2>1, PacerAssumption DEF Paced, PacerTypeOK, Apart
      <3>2. \A s \in Fetches : st'[s] = "slot" =>
              wake'[s] + MinInterval <= nextStartAt' /\ wake'[s] + since' >= MinInterval
        BY <1>1, <1>2, <2>1, PacerAssumption DEF Paced, PacerTypeOK, Apart
      <3>3. \A s \in Fetches \ {r} : st'[s] = "slot" => wake'[s] + MinInterval <= wake'[r]
        BY <1>1, <2>1, PacerAssumption DEF Paced, PacerTypeOK, Apart
      <3> QED
        BY <2>1, <3>1, <3>2, <3>3, PacerAssumption DEF Paced, PacerTypeOK, Apart
    <2> QED
      BY <1>1, <1>2, <2>1, <2>2, <2>3, PacerAssumption DEF Paced, PacerTypeOK
  <1> QED
    BY <1>3, <1>4 DEF Claim, w

\* The clock moves every moment equally, and stops for no slot that is due.
LEMMA TickKeeps == Paced /\ Tick => Paced'
  <1> SUFFICES ASSUME Paced, Tick PROVE Paced'
    OBVIOUS
  <1>1. PacerTypeOK'
    BY PacerAssumption DEF Paced, PacerTypeOK, Tick, Before
  <1>2. Apart'
    <2> SUFFICES ASSUME Punctual PROVE Apart'
      BY DEF Apart
    <2>1. \A r \in Fetches : st'[r] = "slot" => st[r] = "slot" /\ wake[r] > 0 /\ wake'[r] = wake[r] - 1
      BY DEF Tick, Before, Paced, PacerTypeOK, Sleeping
    <2>2. nextStartAt' + since' >= MinInterval
      BY PacerAssumption DEF Tick, Before, Paced, PacerTypeOK, Apart
    <2>3. \A r \in Fetches : st'[r] = "slot" =>
            wake'[r] + MinInterval <= nextStartAt' /\ wake'[r] + since' >= MinInterval
      BY <2>1, PacerAssumption DEF Tick, Before, Paced, PacerTypeOK, Apart
    <2> QED
      BY <2>1, <2>2, <2>3, PacerAssumption DEF Paced, PacerTypeOK, Apart
  <1>3. Settled'
    BY DEF Paced, Settled, Tick
  <1> QED
    BY <1>1, <1>2, <1>3 DEF Paced

\* A request that starts no call and claims no slot moves nobody else's.
LEMMA ElsewhereKeeps ==
  ASSUME Paced, NEW r \in Fetches,
         UNCHANGED <<nextStartAt, since>>,
         \A s \in Fetches \ {r} : st'[s] = st[s] /\ wake'[s] = wake[s],
         st'[r] # "slot"
  PROVE  Apart'
  BY PacerAssumption DEF Paced, PacerTypeOK, Apart

LEMMA PacedStep == Paced /\ [PacerNext]_pacerVars => Paced'
  <1> SUFFICES ASSUME Paced, [PacerNext]_pacerVars PROVE Paced'
    OBVIOUS
  <1>1. CASE Tick
    BY <1>1, TickKeeps
  <1>2. ASSUME NEW r \in Fetches, Begin(r) PROVE Paced'
    <2>1. Apart' /\ nextStartAt' \in Nat /\ since' \in 0 .. MinInterval
      BY <1>2, ClaimKeeps DEF Begin, Paced, PacerTypeOK
    <2>2. PacerTypeOK'
      BY <1>2, ClaimKeeps DEF Begin, Paced, PacerTypeOK
    <2>3. Settled'
      BY <1>2 DEF Begin, Claim, Launch, Sleep, Paced, PacerTypeOK, Settled
    <2> QED
      BY <2>1, <2>2, <2>3 DEF Paced
  <1>3. ASSUME NEW r \in Fetches, Wake(r) PROVE Paced'
    <2>1. CASE pausedUntil > 0 /\ Claim(r, pausedUntil)
      <3>1. PacerTypeOK' /\ Apart'
        BY <1>3, <2>1, ClaimKeeps DEF Wake, Paced, PacerTypeOK
      <3>2. Settled'
        BY <1>3, <2>1 DEF Wake, Claim, Launch, Sleep, Paced, PacerTypeOK, Settled
      <3> QED
        BY <3>1, <3>2 DEF Paced
    <2>2. CASE pausedUntil = 0 /\ Launch(r) /\ UNCHANGED <<nextStartAt, wake>>
      <3>1. PacerTypeOK'
        BY <1>3, <2>2, PacerAssumption DEF Wake, Launch, Paced, PacerTypeOK
      <3>2. \A s \in Fetches : st'[s] = "slot" => s # r /\ st[s] = "slot"
        BY <2>2 DEF Launch, Paced, PacerTypeOK
      <3>3. Apart'
        BY <1>3, <2>2, <3>2, PacerAssumption DEF Wake, Launch, Paced, PacerTypeOK, Apart
      <3>4. Settled'
        BY <1>3, <2>2 DEF Wake, Launch, Paced, PacerTypeOK, Settled
      <3> QED
        BY <3>1, <3>3, <3>4 DEF Paced
    <2> QED
      BY <1>3, <2>1, <2>2 DEF Wake
  <1>4. ASSUME NEW r \in Fetches, Retry(r) PROVE Paced'
    <2>1. PacerTypeOK' /\ Apart'
      BY <1>4, ClaimKeeps DEF Retry, Paced, PacerTypeOK
    <2>2. Settled'
      BY <1>4 DEF Retry, Claim, Launch, Sleep, Paced, PacerTypeOK, Settled
    <2> QED
      BY <2>1, <2>2 DEF Paced
  <1>5. ASSUME NEW r \in Fetches, Throttled(r) PROVE Paced'
    <2>1. PICK d \in 0 .. MaxDelay : /\ pausedUntil' = Later(pausedUntil, d)
                                     /\ Claim(r, Later(pausedUntil, d))
      BY <1>5 DEF Throttled
    <2>2. Later(pausedUntil, d) \in Nat
      BY PacerAssumption DEF Later, Paced, PacerTypeOK
    <2>3. PacerTypeOK' /\ Apart'
      BY <1>5, <2>1, <2>2, ClaimKeeps DEF Throttled, Paced, PacerTypeOK
    <2>4. Settled'
      BY <1>5, <2>1 DEF Throttled, Claim, Launch, Sleep, Paced, PacerTypeOK, Settled
    <2> QED
      BY <2>3, <2>4 DEF Paced
  <1>6. ASSUME NEW r \in Fetches, Err(r) PROVE Paced'
    <2>1. PICK d \in 0 .. MaxDelay : Sleep(r, "backoff", d)
      BY <1>6 DEF Err
    <2>2. PacerTypeOK'
      BY <1>6, <2>1, PacerAssumption DEF Err, MayRetry, Sleep, hostVars, Paced, PacerTypeOK
    <2>3. Apart'
      BY <1>6, <2>1, ElsewhereKeeps DEF Err, Sleep, hostVars, Paced, PacerTypeOK
    <2>4. Settled'
      BY <1>6, <2>1 DEF Err, MayRetry, Sleep, Paced, PacerTypeOK, Settled
    <2> QED
      BY <2>2, <2>3, <2>4 DEF Paced
  <1>7. ASSUME NEW r \in Fetches, Succeed(r) \/ Refuse(r) \/ GiveUp(r) PROVE Paced'
    <2>1. PacerTypeOK'
      BY <1>7 DEF Succeed, Refuse, GiveUp, hostVars, Paced, PacerTypeOK
    <2>2. Apart'
      BY <1>7, ElsewhereKeeps DEF Succeed, Refuse, GiveUp, hostVars, Paced, PacerTypeOK
    <2>3. Settled'
      BY <1>7 DEF Succeed, Refuse, GiveUp, Paced, PacerTypeOK, Settled
    <2> QED
      BY <2>1, <2>2, <2>3 DEF Paced
  <1>8. CASE UNCHANGED pacerVars
    BY <1>8 DEF pacerVars, Paced, PacerTypeOK, Apart, Settled
  <1> QED
    BY <1>1, <1>2, <1>3, <1>4, <1>5, <1>6, <1>7, <1>8 DEF PacerNext, Timer, Answer

LEMMA AlwaysPaced == PacerSpec => []Paced
  BY PacedInit, PacedStep, PTL DEF PacerSpec

\* The variables of the pacer and its requests have their types; no budget is
\* overdrawn.
THEOREM PacerTyped == PacerSpec => []PacerTypeOK
  BY AlwaysPaced, PTL DEF Paced

\* However requests, pauses, retries and the clock interleave, starts are a full
\* interval apart if timers are punctual.
THEOREM StartsAreSpaced == PacerSpec => Spaced
  <1>1. Paced /\ [PacerNext]_pacerVars =>
          [Punctual => \A r \in Fetches : Starts(r) => since >= MinInterval]_pacerVars
    <2> SUFFICES ASSUME Paced, PacerNext, Punctual, NEW r \in Fetches, Starts(r)
                 PROVE  since >= MinInterval
      BY DEF pacerVars
    <2>1. ASSUME NEW q \in Fetches, NEW pause \in Nat, Claim(q, pause) PROVE since >= MinInterval
      BY <2>1, PacerAssumption DEF Claim, Launch, Sleep, Later, Starts, Paced, PacerTypeOK, Apart
    <2>2. ASSUME NEW q \in Fetches, Wake(q) PROVE since >= MinInterval
      BY <2>1, <2>2, PacerAssumption DEF Wake, Paced, PacerTypeOK, Apart
    <2>3. ASSUME NEW q \in Fetches, Begin(q) \/ Retry(q) PROVE since >= MinInterval
      BY <2>1, <2>3 DEF Begin, Retry, Paced, PacerTypeOK
    <2>4. ASSUME NEW q \in Fetches, Throttled(q) PROVE since >= MinInterval
      <3>1. PICK d \in 0 .. MaxDelay : Claim(q, Later(pausedUntil, d))
        BY <2>4 DEF Throttled
      <3>2. Later(pausedUntil, d) \in Nat
        BY PacerAssumption DEF Later, Paced, PacerTypeOK
      <3> QED
        BY <2>1, <3>1, <3>2
    <2>5. ~Tick /\ \A q \in Fetches : ~(Succeed(q) \/ Err(q) \/ Refuse(q) \/ GiveUp(q))
      BY DEF Starts, Tick, Succeed, Err, Sleep, Refuse, GiveUp
    <2> QED
      BY <2>2, <2>3, <2>4, <2>5 DEF PacerNext, Timer, Answer
  <1> QED
    BY <1>1, AlwaysPaced, PTL DEF PacerSpec, Spaced

\* No request starts while the host has told any of them to slow down, whether
\* or not timers are punctual.
THEOREM PausesHold == PacerSpec => PauseHolds
  <1>1. Paced /\ [PacerNext]_pacerVars => [\A r \in Fetches : Starts(r) => pausedUntil = 0]_pacerVars
    <2> SUFFICES ASSUME Paced, PacerNext, NEW r \in Fetches, Starts(r) PROVE pausedUntil = 0
      BY DEF pacerVars
    <2>1. ASSUME NEW q \in Fetches, NEW pause \in Nat, pause >= pausedUntil, Claim(q, pause)
          PROVE  pausedUntil = 0
      BY <2>1 DEF Claim, Launch, Sleep, Later, Starts, Paced, PacerTypeOK
    <2>2. ASSUME NEW q \in Fetches, Begin(q) \/ Wake(q) \/ Retry(q) PROVE pausedUntil = 0
      BY <2>1, <2>2 DEF Begin, Wake, Retry, Paced, PacerTypeOK
    <2>3. ASSUME NEW q \in Fetches, Throttled(q) PROVE pausedUntil = 0
      <3>1. PICK d \in 0 .. MaxDelay : Claim(q, Later(pausedUntil, d))
        BY <2>3 DEF Throttled
      <3>2. Later(pausedUntil, d) \in Nat /\ Later(pausedUntil, d) >= pausedUntil
        BY PacerAssumption DEF Later, Paced, PacerTypeOK
      <3> QED
        BY <2>1, <3>1, <3>2
    <2>4. ~Tick /\ \A q \in Fetches : ~(Succeed(q) \/ Err(q) \/ Refuse(q) \/ GiveUp(q))
      BY DEF Starts, Tick, Succeed, Err, Sleep, Refuse, GiveUp
    <2> QED
      BY <2>2, <2>3, <2>4 DEF PacerNext, Timer, Answer
  <1> QED
    BY <1>1, AlwaysPaced, PTL DEF PacerSpec, PauseHolds

\* A write that may have been carried out is never sent again.
THEOREM WritesNotRepeated == PacerSpec => WriteNotRepeated
  <1>1. Paced /\ [PacerNext]_pacerVars =>
          [\A r \in Fetches \ Idempotent : Starts(r) => ~uncertain[r]]_pacerVars
    <2> SUFFICES ASSUME Paced, PacerNext, NEW r \in Fetches \ Idempotent, Starts(r)
                 PROVE  st[r] # "failed"
      BY DEF pacerVars, Paced, PacerTypeOK, Settled
    <2>1. ASSUME NEW q \in Fetches, Begin(q) \/ Wake(q) \/ Retry(q) \/ Throttled(q)
          PROVE  q = r /\ st[q] # "failed"
      BY <2>1 DEF Begin, Wake, Retry, Throttled, Claim, Launch, Sleep, Starts, Paced, PacerTypeOK
    <2>2. ~Tick /\ \A q \in Fetches : ~(Succeed(q) \/ Err(q) \/ Refuse(q) \/ GiveUp(q))
      BY DEF Starts, Tick, Succeed, Err, Sleep, Refuse, GiveUp
    <2> QED
      BY <2>1, <2>2 DEF PacerNext, Timer, Answer
  <1> QED
    BY <1>1, AlwaysPaced, PTL DEF PacerSpec, WriteNotRepeated
=============================================================================
