------------------------------ MODULE Sessions ------------------------------
(***************************************************************************)
(* The two kinds of session.  A wallet session is minted by the callback of *)
(* a Discourse login (internal/auth/discourse_connect.go): the nonce of the *)
(* login is kept in a state cookie of the browser and nowhere else.  An     *)
(* admin session is minted for a signed challenge (internal/admin/server.go *)
(* and its page, static/app.js); its writes also need a CSRF token that is  *)
(* derived from the session cookie and kept by each tab.                    *)
(*                                                                         *)
(* A cookie, challenge or answer is a record of what its signature covers.  *)
(* A handler reads the cookies of its request, and what it sets or clears   *)
(* reaches the browser with the reply: later, in any order, or never.  The  *)
(* two kinds share nothing but the clock: a behaviour has one of them.      *)
(***************************************************************************)
EXTENDS Integers, Sequences

CONSTANTS
    Browsers,
    Connections,      \* bound: the replies to browsers under way at once
    Users,            \* users of the forum
    Tabs,             \* tabs with the admin page, in the administrator's browser
    Keys,             \* the keys that logins are signed with
    AdminPubKey,
    None,             \* no cookie, no challenge
    stateCookieMaxAge, sessionTTL,       \* of the wallet
    loginTTL, adminSessionTTL,           \* of the admin page
    MaxLogins,        \* bound: the wallet logins
    MaxRestarts,      \* bound: the restarts that draw a new admin secret
    MaxClock          \* bound: the time, in seconds

ASSUME SessionsAssumption ==
    /\ {stateCookieMaxAge, sessionTTL, loginTTL, adminSessionTTL} \subseteq Nat
    /\ {MaxLogins, MaxRestarts, MaxClock} \subseteq Nat
    /\ AdminPubKey \in Keys
ASSUME NoneAssumption ==
    None \notin [nonce : Nat, exp : Nat] \cup [nonce : Nat, crossed : BOOLEAN] \cup Tabs

VARIABLES
    flow,      \* the kind of session of this behaviour
    now,       \* time.Now().Unix()
    begun,     \* begun[n]: the browser and time of the login with nonce n
    redirects, \* the nonces that a browser was redirected to Discourse with
    answers,   \* the answers that Discourse signed: nonce and user
    reply,     \* reply[c]: the reply under way on connection c, with its cookie
    state,     \* state[b]: the cookie fp_oauth_state
    session,   \* session[b]: the cookie fp_session
    used,      \* history: the nonces that a session was minted for
    latest,    \* history: the login whose cookie reached b last, and whether it
               \* crossed the reply to an accepted callback on its way
    secret,    \* the number of the admin session secret
    cookie,    \* the cookie fp_admin_session
    challenge, \* challenge[t]: what tab t was given to sign
    csrf,      \* csrf[t]: the cookie that CSRF_TOKEN of tab t was derived from
    minted     \* history: the sessions that this run of the server minted, with the
               \* key and the time of the challenge

wallet == <<begun, redirects, answers, reply, state, session, used, latest>>
admin == <<secret, cookie, challenge, csrf, minted>>
vars == <<flow, now, wallet, admin>>

-----------------------------------------------------------------------------
(* Faulty variants of the definitions below.                                *)

AnyNonce(b, a) == TRUE
LogoutClearsAll(r) == IF r.type = "login" THEN r.cookie ELSE None
AnyAge(ch) == ch # None /\ ch.secret = secret

-----------------------------------------------------------------------------
(* The wallet's sessions.                                                   *)

Reply(c, type, b, value) ==
    /\ reply[c] = None
    /\ reply' = [reply EXCEPT ![c] = [type |-> type, browser |-> b, cookie |-> value]]

\* A login puts a fresh nonce into the redirect and into the state cookie.
Login(b, c) ==
    /\ Len(begun) < MaxLogins
    /\ begun' = Append(begun, [browser |-> b, at |-> now])
    /\ Reply(c, "login", b, [nonce |-> Len(begun'), exp |-> now + stateCookieMaxAge])
    /\ UNCHANGED <<redirects, answers, state, session, used, latest>>

\* Discourse answers a redirect, for the user that is logged in there where and
\* when it is opened.
SSOProvider(nonce, u) ==
    /\ answers' = answers \cup {[nonce |-> nonce, user |-> u]}
    /\ UNCHANGED <<begun, redirects, reply, state, session, used, latest>>

\* parseStateCookie
StateHolds(b) == state[b] # None /\ now <= state[b].exp

NonceMatches(b, a) == state[b].nonce = a.nonce

\* What Callback checks: the state cookie is there, is in time and is for the
\* login that is answered.  (That the answer is signed is its being in answers.)
Accepts(b, a) == StateHolds(b) /\ NonceMatches(b, a)

\* A refusal sends no cookie and clears none, so its reply changes nothing.
Callback(b, a, c) ==
    /\ Accepts(b, a)
    /\ used' = used \cup {a.nonce}
    /\ Reply(c, "callback", b, [user |-> a.user, exp |-> now + sessionTTL])
    /\ UNCHANGED <<begun, redirects, answers, state, session, latest>>

Logout(b, c) ==
    /\ Reply(c, "logout", b, None)
    /\ UNCHANGED <<begun, redirects, answers, state, session, used, latest>>

\* The cookies of a browser once reply r is there.  The reply to an accepted
\* callback clears the state cookie by its name, whichever login it is for now.
StateAfter(r) ==
    CASE r.type = "login" -> r.cookie
      [] r.type = "callback" -> None
      [] r.type = "logout" -> state[r.browser]

SessionAfter(r) == IF r.type = "login" THEN session[r.browser] ELSE r.cookie

Crossing(b) ==
    \E c \in Connections :
        reply[c] # None /\ reply[c].type = "callback" /\ reply[c].browser = b

Arrive(c) ==
    LET r == reply[c] IN
    /\ r # None
    /\ state' = [state EXCEPT ![r.browser] = StateAfter(r)]
    /\ session' = [session EXCEPT ![r.browser] = SessionAfter(r)]
    /\ redirects' = IF r.type = "login" THEN redirects \cup {r.cookie.nonce} ELSE redirects
    /\ latest' = IF r.type = "login"
                 THEN [latest EXCEPT ![r.browser] =
                          [nonce |-> r.cookie.nonce, crossed |-> Crossing(r.browser)]]
                 ELSE latest
    /\ reply' = [reply EXCEPT ![c] = None]
    /\ UNCHANGED <<begun, answers, used>>

\* The connection breaks, or the browser gives the request up.
Lose(c) ==
    /\ reply[c] # None
    /\ reply' = [reply EXCEPT ![c] = None]
    /\ UNCHANGED <<begun, redirects, answers, state, session, used, latest>>

\* The browser drops a cookie once its MaxAge is over, which it counts from the
\* arrival: not before the time in the value.
DropCookie(b) ==
    /\ \/ state[b] # None /\ now >= state[b].exp
          /\ state' = [state EXCEPT ![b] = None] /\ UNCHANGED session
       \/ session[b] # None /\ now >= session[b].exp
          /\ session' = [session EXCEPT ![b] = None] /\ UNCHANGED state
    /\ UNCHANGED <<begun, redirects, answers, reply, used, latest>>

\* The user that a request of browser b is served as (resolveCurrentUser).
CurrentUser(b) ==
    IF session[b] = None THEN None
    ELSE IF now > session[b].exp THEN None
    ELSE session[b].user

WalletStep ==
    \/ \E b \in Browsers, c \in Connections :
          \/ Login(b, c) \/ Logout(b, c)
          \/ \E a \in answers : Callback(b, a, c)
    \/ \E c \in Connections : Arrive(c) \/ Lose(c)
    \/ \E b \in Browsers : DropCookie(b)
    \/ \E nonce \in redirects, u \in Users : SSOProvider(nonce, u)

-----------------------------------------------------------------------------
(* The sessions of the admin page.                                          *)

\* What the session secret signs: a challenge has a nonce (told apart by tab and
\* second), a session has none.
Signed(n, exp) == [n |-> n, exp |-> exp, secret |-> secret]

\* doLogin asks for a challenge...
LoginChallenge(t) ==
    /\ challenge' = [challenge EXCEPT ![t] = Signed(t, now + loginTTL)]
    /\ UNCHANGED <<secret, cookie, csrf, minted>>

ChallengeHolds(ch) ==
    /\ ch # None
    /\ ch.secret = secret
    /\ now <= ch.exp

\* ... and sends it back with a signature of it; two logins in one second are
\* given the same cookie.
AdminLogin(t, key) ==
    LET ok == ChallengeHolds(challenge[t]) /\ key = AdminPubKey
        value == Signed(None, now + adminSessionTTL) IN
    /\ challenge[t] # None
    /\ cookie' = IF ok THEN value ELSE cookie
    /\ csrf' = IF ok THEN [csrf EXCEPT ![t] = value] ELSE csrf
    /\ minted' = IF ok
                 THEN minted \cup {[cookie |-> value, key |-> key,
                                    asked |-> challenge[t].exp - loginTTL]}
                 ELSE minted
    /\ challenge' = [challenge EXCEPT ![t] = None]
    /\ UNCHANGED secret

\* Nothing in a signed value says what it is for: a client may send a challenge
\* where the session cookie is expected.
ChallengeAsCookie(t) ==
    /\ challenge[t] # None
    /\ cookie' = challenge[t]
    /\ UNCHANGED <<secret, challenge, csrf, minted>>

\* adminSessionCookie and verifySession, which read the time of expiry alone.
SessionHolds ==
    /\ cookie # None
    /\ cookie.secret = secret
    /\ now <= cookie.exp

\* The page is loaded, or loaded again: whoami gives the tab its CSRF token.
Whoami(t) ==
    /\ csrf' = [csrf EXCEPT ![t] = IF SessionHolds THEN cookie ELSE None]
    /\ challenge' = [challenge EXCEPT ![t] = None]
    /\ UNCHANGED <<secret, cookie, minted>>

\* The page of tab t clears the cookie and is loaded again.
AdminLogout(t) ==
    /\ cookie' = None
    /\ csrf' = [csrf EXCEPT ![t] = None]
    /\ challenge' = [challenge EXCEPT ![t] = None]
    /\ UNCHANGED <<secret, minted>>

DropAdminCookie ==
    /\ cookie # None /\ now >= cookie.exp
    /\ cookie' = None
    /\ UNCHANGED <<secret, challenge, csrf, minted>>

\* Without ADMIN_SESSION_SECRET every start draws a secret of its own.
Restart ==
    /\ secret < MaxRestarts
    /\ secret' = secret + 1
    /\ minted' = {}
    /\ UNCHANGED <<cookie, challenge, csrf>>

\* requireAdmin lets a write of tab t through.
WriteAllowed(t) == SessionHolds /\ csrf[t] = cookie

AdminStep ==
    \/ \E t \in Tabs :
          \/ LoginChallenge(t) \/ ChallengeAsCookie(t) \/ Whoami(t) \/ AdminLogout(t)
          \/ \E key \in Keys : AdminLogin(t, key)
    \/ DropAdminCookie
    \/ Restart

-----------------------------------------------------------------------------
Tick ==
    /\ now < MaxClock
    /\ now' = now + 1
    /\ UNCHANGED <<wallet, admin>>

Init ==
    /\ flow \in {"wallet", "admin"}
    /\ now = 0
    /\ begun = <<>> /\ redirects = {} /\ answers = {} /\ used = {}
    /\ reply = [c \in Connections |-> None] /\ latest = [b \in Browsers |-> None]
    /\ state = [b \in Browsers |-> None] /\ session = [b \in Browsers |-> None]
    /\ secret = 0 /\ cookie = None /\ minted = {}
    /\ challenge = [t \in Tabs |-> None] /\ csrf = [t \in Tabs |-> None]

Next ==
    /\ \/ flow = "wallet" /\ WalletStep /\ UNCHANGED <<now, admin>>
       \/ flow = "admin" /\ AdminStep /\ UNCHANGED <<now, wallet>>
       \/ Tick
    /\ UNCHANGED flow

Spec == Init /\ [][Next]_vars

-----------------------------------------------------------------------------
(* Properties.                                                              *)

\* A browser is served as a user only if Discourse confirmed that user for a
\* login that this browser began, and not longer ago than the state cookie and
\* the session last: no answer to another browser's login, and no answer that
\* outlived its login, ends in a session.
SessionsAreOwn ==
    \A b \in Browsers :
        CurrentUser(b) # None =>
            \E a \in answers :
                /\ a.user = CurrentUser(b)
                /\ begun[a.nonce].browser = b
                /\ now - begun[a.nonce].at <= stateCookieMaxAge + sessionTTL

\* The answer to a browser's latest login is accepted while it is in time,
\* whatever callbacks of other tabs' logins, logouts, other browsers' links and
\* lost or overtaken replies came before it: only the reply to an accepted
\* callback that its own cookie crossed on the way can have cleared that cookie.
LatestLoginSucceeds ==
    \A a \in answers :
        LET login == begun[a.nonce] IN
        /\ latest[login.browser] = [nonce |-> a.nonce, crossed |-> FALSE]
        /\ a.nonce \notin used
        /\ now - login.at < stateCookieMaxAge
        => Accepts(login.browser, a)

\* A write is let through only with a value that this run of the server signed:
\* a session for which the admin key signed a challenge, not longer ago than a
\* login and a session last, or else a challenge that a login could still be made
\* with.  Restarts, logins in other tabs and late answers included.
AdminWritesAreFresh ==
    \A t \in Tabs :
        WriteAllowed(t) =>
            /\ csrf[t].secret = secret
            /\ \/ \E s \in minted :
                     /\ s.cookie = csrf[t] /\ s.key = AdminPubKey
                     /\ now - s.asked <= loginTTL + adminSessionTTL
               \/ csrf[t].n \in Tabs /\ now <= csrf[t].exp
=============================================================================
