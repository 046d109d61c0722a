--------------------------- MODULE SessionsProofs ---------------------------
(***************************************************************************)
(* Theorems about the sessions, for any number of browsers, users, tabs and *)
(* logins, and for any lifetimes of the cookies.                            *)
(***************************************************************************)
EXTENDS Sessions, SequenceTheorems, TLAPS

-----------------------------------------------------------------------------
(* The inductive invariant of the wallet's sessions.                        *)

Logins == [browser : Browsers, at : Nat]

WalletTypes ==
    /\ now \in Nat /\ begun \in Seq(Logins)
    /\ state = [b \in Browsers |-> state[b]] /\ session = [b \in Browsers |-> session[b]]
    /\ reply = [c \in Connections |-> reply[c]] /\ latest = [b \in Browsers |-> latest[b]]
    /\ \A a \in answers : a.nonce \in 1 .. Len(begun) /\ a.user \in Users
    /\ redirects \subseteq 1 .. Len(begun)
    /\ \A b \in Browsers : latest[b] # None => latest[b].nonce \in 1 .. Len(begun)

StateOf(n) == [nonce |-> n, exp |-> begun[n].at + stateCookieMaxAge]

\* The state cookies of the logins that a browser began.
OwnStates ==
    [b \in Browsers |-> {StateOf(n) : n \in {m \in 1 .. Len(begun) : begun[m].browser = b}}]

\* The sessions for users that Discourse confirmed for a login that the browser
\* began, which end before that login is too old.
OwnSessions ==
    [b \in Browsers |->
        {v \in [user : Users, exp : Nat] :
            \E a \in answers :
                /\ a.user = v.user /\ begun[a.nonce].browser = b
                /\ v.exp <= begun[a.nonce].at + stateCookieMaxAge + sessionTTL}]

\* A reply takes its browser's own cookies there.
RepliesAreOwn ==
    \A c \in Connections : reply[c] # None =>
        /\ reply[c].browser \in Browsers
        /\ \/ reply[c].type = "login" /\ reply[c].cookie \in OwnStates[reply[c].browser]
           \/ reply[c].type = "callback" /\ reply[c].cookie \in OwnSessions[reply[c].browser]
           \/ reply[c].type = "logout" /\ reply[c].cookie = None

\* A state cookie is for the login whose cookie its browser was given last.
StatesAreOwn ==
    \A b \in Browsers : state[b] # None =>
        state[b] \in OwnStates[b] /\ latest[b].nonce = state[b].nonce

SessionsComeFromLogins ==
    \A b \in Browsers : session[b] # None => session[b] \in OwnSessions[b]

\* The state cookie of a browser is for its latest login, until that is answered,
\* too old, or crossed by the reply to an accepted callback.
LatestIsHeld ==
    \A b \in Browsers :
        /\ latest[b] # None
        /\ latest[b].nonce \notin used /\ latest[b].crossed = FALSE
        => \/ state[b] = StateOf(latest[b].nonce)
           \/ now >= begun[latest[b].nonce].at + stateCookieMaxAge

\* The reply to an accepted callback that is under way was sent for the latest
\* login, or has crossed it.
CrossingsAreKnown ==
    \A b \in Browsers : Crossing(b) => latest[b].crossed = TRUE \/ latest[b].nonce \in used

WalletInv ==
    /\ WalletTypes /\ RepliesAreOwn /\ StatesAreOwn /\ SessionsComeFromLogins
    /\ LatestIsHeld /\ CrossingsAreKnown

-----------------------------------------------------------------------------
(* The inductive invariant of the admin page's sessions.                    *)

AdminTypes ==
    /\ now \in Nat /\ secret \in Nat
    /\ challenge = [t \in Tabs |-> challenge[t]]
    /\ \A t \in Tabs : challenge[t] # None =>
          /\ challenge[t].exp \in Nat /\ challenge[t].n \in Tabs
          /\ challenge[t].secret \in Nat /\ challenge[t].secret <= secret

\* The cookie was minted for a signature of the admin key, unless by an earlier
\* run of the server, and it ends before the challenge is too old; or it is a
\* challenge.
CookieIsMinted ==
    cookie # None =>
        /\ cookie.exp \in Nat /\ cookie.secret \in Nat /\ cookie.secret <= secret
        /\ \/ cookie.n \in Tabs
           \/ cookie.secret < secret
           \/ \E s \in minted :
                 /\ s.cookie = cookie /\ s.key = AdminPubKey /\ s.asked \in Int
                 /\ cookie.exp <= s.asked + loginTTL + adminSessionTTL

AdminInv == AdminTypes /\ CookieIsMinted

-----------------------------------------------------------------------------
(* The wallet's steps.                                                      *)

\* The lifetimes are natural numbers.
LEMMA Lifetimes ==
    /\ stateCookieMaxAge \in Nat /\ sessionTTL \in Nat
    /\ loginTTL \in Nat /\ adminSessionTTL \in Nat
BY SessionsAssumption

\* A login is a browser and a time.
LEMMA LoginOf ==
    ASSUME WalletTypes, NEW n \in 1 .. Len(begun)
    PROVE  /\ begun[n].browser \in Browsers /\ begun[n].at \in Nat
           /\ StateOf(n) \in [nonce : Nat, exp : Nat] /\ StateOf(n) # None
           /\ StateOf(n).nonce = n /\ StateOf(n).exp = begun[n].at + stateCookieMaxAge
<1>1. Len(begun) \in Nat /\ begun[n] \in Logins
  BY ElementOfSeq, LenProperties DEF WalletTypes
<1>2. begun[n].browser \in Browsers /\ begun[n].at \in Nat
  BY <1>1 DEF Logins
<1>3. n \in Nat /\ begun[n].at + stateCookieMaxAge \in Nat
  BY <1>1, <1>2, Lifetimes
<1>4. StateOf(n) \in [nonce : Nat, exp : Nat]
  BY <1>3 DEF StateOf
<1>5. QED
  BY <1>2, <1>4, NoneAssumption DEF StateOf

\* What is own to a browser stays so when more logins begin and more answers come.
LEMMA OwnStays ==
    ASSUME WalletTypes, answers \subseteq answers', Len(begun') \in Nat, Len(begun) <= Len(begun'),
           \A n \in 1 .. Len(begun) : begun'[n] = begun[n]
    PROVE  /\ \A n \in 1 .. Len(begun) : n \in 1 .. Len(begun') /\ StateOf(n)' = StateOf(n)
           /\ \A b \in Browsers : OwnStates[b] \subseteq OwnStates'[b]
           /\ \A b \in Browsers : OwnSessions[b] \subseteq OwnSessions'[b]
<1>1. Len(begun) \in Nat /\ \A a \in answers : a.nonce \in 1 .. Len(begun)
  BY LenProperties DEF WalletTypes
<1>2. \A n \in 1 .. Len(begun) : n \in 1 .. Len(begun') /\ StateOf(n)' = StateOf(n)
  BY <1>1 DEF StateOf
<1>3. ASSUME NEW b \in Browsers, NEW v \in OwnStates[b]
      PROVE  v \in OwnStates'[b]
  <2>1. PICK n \in 1 .. Len(begun) : begun[n].browser = b /\ v = StateOf(n)
    BY DEF OwnStates
  <2>2. n \in 1 .. Len(begun') /\ begun'[n].browser = b /\ v = StateOf(n)'
    BY <1>2, <2>1
  <2>3. QED
    BY <2>2 DEF OwnStates
<1>4. ASSUME NEW b \in Browsers, NEW v \in OwnSessions[b]
      PROVE  v \in OwnSessions'[b]
  <2>1. v \in [user : Users, exp : Nat]
    BY DEF OwnSessions
  <2>2. PICK a \in answers :
            /\ a.user = v.user /\ begun[a.nonce].browser = b
            /\ v.exp <= begun[a.nonce].at + stateCookieMaxAge + sessionTTL
    BY DEF OwnSessions
  <2>3. a \in answers' /\ begun'[a.nonce] = begun[a.nonce]
    BY <1>1, <2>2
  <2>4. QED
    BY <2>1, <2>2, <2>3 DEF OwnSessions
<1>5. QED
  BY <1>2, <1>3, <1>4

\* A reply is sent on a free connection.
LEMMA Sent ==
    ASSUME WalletTypes, NEW c \in Connections, NEW type, NEW b, NEW v, Reply(c, type, b, v)
    PROVE  /\ reply' = [e \in Connections |-> reply'[e]]
           /\ \A e \in Connections : e # c => reply'[e] = reply[e]
           /\ reply'[c].type = type /\ reply'[c].browser = b /\ reply'[c].cookie = v
<1> PICK r : r = [type |-> type, browser |-> b, cookie |-> v]
  OBVIOUS
<1>1. reply' = [reply EXCEPT ![c] = r] /\ r.type = type /\ r.browser = b /\ r.cookie = v
  BY DEF Reply
<1>2. reply = [e \in Connections |-> reply[e]]
  BY DEF WalletTypes
<1>3. reply'[c] = r /\ \A e \in Connections : e # c => reply'[e] = reply[e]
  BY <1>1, <1>2
<1>4. reply' = [e \in Connections |-> reply'[e]]
  BY <1>1, <1>2
<1>5. QED
  BY <1>1, <1>3, <1>4

\* A handler that sends a reply keeps the invariant: the reply is its browser's
\* own, and one to an accepted callback is for the latest login.
LEMMA SendStep ==
    ASSUME WalletInv, NEW c \in Connections, NEW type, NEW b \in Browsers, NEW v,
           Reply(c, type, b, v), WalletTypes', now' = now,
           answers' = answers, Len(begun) <= Len(begun'),
           \A n \in 1 .. Len(begun) : begun'[n] = begun[n],
           state' = state, session' = session, latest' = latest, used \subseteq used',
           \/ type = "login" /\ v \in OwnStates'[b]
           \/ type = "callback" /\ v \in OwnSessions'[b] /\ latest[b].nonce \in used'
           \/ type = "logout" /\ v = None
    PROVE  WalletInv'
<1>1. WalletTypes /\ Len(begun') \in Nat
  BY LenProperties DEF WalletInv, WalletTypes
<1>2. /\ \A n \in 1 .. Len(begun) : StateOf(n)' = StateOf(n)
      /\ \A e \in Browsers : OwnStates[e] \subseteq OwnStates'[e]
      /\ \A e \in Browsers : OwnSessions[e] \subseteq OwnSessions'[e]
  BY <1>1, OwnStays
<1>3. /\ \A e \in Connections : e # c => reply'[e] = reply[e]
      /\ reply'[c].type = type /\ reply'[c].browser = b /\ reply'[c].cookie = v
  BY <1>1, Sent
<1>4. RepliesAreOwn'
  <2> SUFFICES ASSUME NEW e \in Connections, reply'[e] # None
               PROVE  /\ reply'[e].browser \in Browsers
                      /\ \/ reply'[e].type = "login" /\ reply'[e].cookie \in OwnStates'[reply'[e].browser]
                         \/ reply'[e].type = "callback" /\ reply'[e].cookie \in OwnSessions'[reply'[e].browser]
                         \/ reply'[e].type = "logout" /\ reply'[e].cookie = None
    BY DEF RepliesAreOwn
  <2>1. CASE e = c
    BY <1>3, <2>1
  <2>2. CASE e # c
    BY <1>2, <1>3, <2>2 DEF WalletInv, RepliesAreOwn
  <2>3. QED
    BY <2>1, <2>2
<1>5. StatesAreOwn' /\ SessionsComeFromLogins'
  BY <1>2 DEF WalletInv, StatesAreOwn, SessionsComeFromLogins
<1>6. LatestIsHeld'
  BY <1>1, <1>2 DEF WalletInv, WalletTypes, LatestIsHeld, StateOf
<1>7. CrossingsAreKnown'
  <2> SUFFICES ASSUME NEW o \in Browsers, Crossing(o)'
               PROVE  latest[o].crossed = TRUE \/ latest[o].nonce \in used'
    BY DEF CrossingsAreKnown
  <2>1. PICK e \in Connections :
            reply'[e] # None /\ reply'[e].type = "callback" /\ reply'[e].browser = o
    BY DEF Crossing
  <2>2. CASE e = c
    BY <1>3, <2>1, <2>2
  <2>3. CASE e # c
    BY <1>3, <2>1, <2>3 DEF WalletInv, CrossingsAreKnown, Crossing
  <2>4. QED
    BY <2>2, <2>3
<1>8. QED
  BY <1>4, <1>5, <1>6, <1>7 DEF WalletInv

\* A login sends the state cookie of its own nonce.
LEMMA LoginStep ==
    ASSUME WalletInv, NEW b \in Browsers, NEW c \in Connections, Login(b, c), now' = now
    PROVE  WalletInv'
<1> PICK login, v : /\ login = [browser |-> b, at |-> now]
                    /\ v = [nonce |-> Len(begun'), exp |-> now + stateCookieMaxAge]
  OBVIOUS
<1>1. /\ WalletTypes /\ answers' = answers /\ session' = session /\ used' = used
      /\ latest' = latest /\ state' = state /\ redirects' = redirects /\ now \in Nat
  BY DEF WalletInv, Login, WalletTypes
<1>2. begun \in Seq(Logins) /\ login \in Logins /\ begun' = Append(begun, login)
  BY <1>1 DEF WalletTypes, Logins, Login
<1>3. /\ begun' \in Seq(Logins) /\ Len(begun') = Len(begun) + 1 /\ Len(begun) \in Nat
      /\ \A n \in 1 .. Len(begun) : begun'[n] = begun[n]
      /\ begun'[Len(begun) + 1] = login
  BY <1>2, AppendProperties, LenProperties
<1>4. Reply(c, "login", b, v)
  BY DEF Login
<1>5. reply' = [e \in Connections |-> reply'[e]]
  BY <1>1, <1>4, Sent
<1>6. WalletTypes'
  <2>1. \A n \in 1 .. Len(begun) : n \in 1 .. Len(begun')
    BY <1>3
  <2>2. QED
    BY <1>1, <1>3, <1>5, <2>1 DEF WalletTypes
<1>7. v \in OwnStates'[b]
  <2> PICK last : last = Len(begun) + 1
    OBVIOUS
  <2>1. last \in 1 .. Len(begun') /\ begun'[last] = login /\ last = Len(begun')
    BY <1>3
  <2>2. v = StateOf(last)' /\ begun'[last].browser = b
    BY <2>1 DEF StateOf
  <2>3. QED
    BY <2>1, <2>2 DEF OwnStates
<1>8. QED
  BY <1>1, <1>3, <1>4, <1>6, <1>7, SendStep

\* A callback is accepted for the login that the state cookie is for, which is the
\* latest one of its browser.
LEMMA Accepted ==
    ASSUME WalletInv, NEW b \in Browsers, NEW a \in answers, Accepts(b, a)
    PROVE  /\ a.nonce \in 1 .. Len(begun) /\ begun[a.nonce].browser = b
           /\ latest[b].nonce = a.nonce /\ now <= begun[a.nonce].at + stateCookieMaxAge
<1>1. WalletTypes /\ state[b] # None /\ state[b].nonce = a.nonce /\ now <= state[b].exp
  BY DEF WalletInv, Accepts, StateHolds, NonceMatches
<1>2. PICK n \in 1 .. Len(begun) : begun[n].browser = b /\ state[b] = StateOf(n)
  BY <1>1 DEF WalletInv, StatesAreOwn, OwnStates
<1>3. StateOf(n).nonce = n /\ StateOf(n).exp = begun[n].at + stateCookieMaxAge
  BY <1>1, LoginOf
<1>4. latest[b].nonce = state[b].nonce
  BY <1>1 DEF WalletInv, StatesAreOwn
<1>5. QED
  BY <1>1, <1>2, <1>3, <1>4

\* An accepted callback uses its login up and sends the session that it confirms.
LEMMA CallbackStep ==
    ASSUME WalletInv, NEW b \in Browsers, NEW a \in answers, NEW c \in Connections,
           Callback(b, a, c), now' = now
    PROVE  WalletInv'
<1> PICK v : v = [user |-> a.user, exp |-> now + sessionTTL]
  OBVIOUS
<1>1. /\ WalletTypes /\ now \in Nat /\ begun' = begun /\ answers' = answers
      /\ redirects' = redirects /\ state' = state /\ session' = session /\ latest' = latest
      /\ used' = used \cup {a.nonce}
  BY DEF WalletInv, WalletTypes, Callback
<1>2. Reply(c, "callback", b, v)
  BY DEF Callback
<1>3. reply' = [e \in Connections |-> reply'[e]]
  BY <1>1, <1>2, Sent
<1>4. WalletTypes'
  BY <1>1, <1>3 DEF WalletTypes
<1>5. /\ a.nonce \in 1 .. Len(begun) /\ begun[a.nonce].browser = b
      /\ latest[b].nonce = a.nonce /\ now <= begun[a.nonce].at + stateCookieMaxAge
  BY Accepted DEF Callback
<1>6. v \in OwnSessions[b]
  <2>1. begun[a.nonce].at \in Nat
    BY <1>1, <1>5, LoginOf
  <2>2. v.exp \in Nat /\ v.exp <= begun[a.nonce].at + stateCookieMaxAge + sessionTTL
    BY <1>1, <1>5, <2>1, Lifetimes
  <2>3. v \in [user : Users, exp : Nat] /\ a.user = v.user
    BY <1>1, <2>2 DEF WalletTypes
  <2>4. QED
    BY <1>5, <2>2, <2>3 DEF OwnSessions
<1>7. v \in OwnSessions'[b]
  BY <1>1, <1>6 DEF OwnSessions
<1>8. Len(begun) <= Len(begun')
  BY <1>1, LenProperties DEF WalletTypes
<1>9. QED
  BY <1>1, <1>2, <1>4, <1>5, <1>7, <1>8, SendStep

LEMMA LogoutStep ==
    ASSUME WalletInv, NEW b \in Browsers, NEW c \in Connections, Logout(b, c), now' = now
    PROVE  WalletInv'
<1>1. /\ WalletTypes /\ now \in Nat /\ begun' = begun /\ answers' = answers
      /\ redirects' = redirects /\ state' = state /\ session' = session /\ latest' = latest
      /\ used' = used /\ Reply(c, "logout", b, None)
  BY DEF WalletInv, WalletTypes, Logout
<1>2. reply' = [e \in Connections |-> reply'[e]]
  BY <1>1, Sent
<1>3. WalletTypes'
  BY <1>1, <1>2 DEF WalletTypes
<1>4. Len(begun) <= Len(begun')
  BY <1>1, LenProperties DEF WalletTypes
<1>5. QED
  BY <1>1, <1>3, <1>4, SendStep

\* The replies and cookies that are left are still their browsers' own.
LEMMA Fewer ==
    ASSUME WalletInv, begun' = begun, answers' = answers,
           \A c \in Connections : reply'[c] \in {reply[c], None}
    PROVE  /\ RepliesAreOwn'
           /\ \A b \in Browsers : Crossing(b)' => Crossing(b)
           /\ OwnStates' = OwnStates /\ OwnSessions' = OwnSessions
<1>1. OwnStates' = OwnStates /\ OwnSessions' = OwnSessions
  BY DEF OwnStates, OwnSessions, StateOf
<1>2. \A c \in Connections : reply'[c] # None => reply'[c] = reply[c]
  OBVIOUS
<1>3. RepliesAreOwn'
  BY <1>1, <1>2 DEF WalletInv, RepliesAreOwn
<1>4. \A b \in Browsers : Crossing(b)' => Crossing(b)
  BY <1>2 DEF Crossing
<1>5. QED
  BY <1>1, <1>3, <1>4

\* The cookies of a browser after a reply has arrived; the other browsers keep theirs.
LEMMA Arrived ==
    ASSUME WalletInv, NEW c \in Connections, Arrive(c), NEW r, r = reply[c]
    PROVE  /\ r # None /\ r.browser \in Browsers /\ r = reply[c]
           /\ begun' = begun /\ answers' = answers /\ used' = used
           /\ state'[r.browser] = StateAfter(r) /\ session'[r.browser] = SessionAfter(r)
           /\ \A o \in Browsers : o # r.browser => state'[o] = state[o] /\ session'[o] = session[o]
           /\ state' = [o \in Browsers |-> state'[o]] /\ session' = [o \in Browsers |-> session'[o]]
           /\ reply' = [e \in Connections |-> reply'[e]]
           /\ \A e \in Connections : reply'[e] \in {reply[e], None}
<1>1. WalletTypes /\ r # None /\ r.browser \in Browsers
  BY DEF WalletInv, RepliesAreOwn, Arrive
<1>2. /\ state' = [state EXCEPT ![r.browser] = StateAfter(r)]
      /\ session' = [session EXCEPT ![r.browser] = SessionAfter(r)]
      /\ reply' = [reply EXCEPT ![c] = None]
      /\ begun' = begun /\ answers' = answers /\ used' = used
  BY DEF Arrive
<1>3. /\ state = [o \in Browsers |-> state[o]] /\ session = [o \in Browsers |-> session[o]]
      /\ reply = [e \in Connections |-> reply[e]]
  BY <1>1 DEF WalletTypes
<1>4. /\ state'[r.browser] = StateAfter(r) /\ state' = [o \in Browsers |-> state'[o]]
      /\ \A o \in Browsers : o # r.browser => state'[o] = state[o]
  BY <1>1, <1>2, <1>3
<1>5. /\ session'[r.browser] = SessionAfter(r) /\ session' = [o \in Browsers |-> session'[o]]
      /\ \A o \in Browsers : o # r.browser => session'[o] = session[o]
  BY <1>1, <1>2, <1>3
<1>6. /\ reply' = [e \in Connections |-> reply'[e]]
      /\ \A e \in Connections : reply'[e] \in {reply[e], None}
  BY <1>2, <1>3
<1>7. QED
  BY <1>1, <1>2, <1>4, <1>5, <1>6

\* The reply to a login makes it the latest one of its browser, crossed by the
\* replies to accepted callbacks that are still under way.
LEMMA LoginArrives ==
    ASSUME WalletInv, NEW c \in Connections, Arrive(c), reply[c].type = "login", now' = now
    PROVE  WalletInv'
<1> PICK r, b, new : /\ r = reply[c] /\ b = r.browser
                     /\ new = [nonce |-> r.cookie.nonce, crossed |-> Crossing(r.browser)]
  OBVIOUS
<1>1. /\ r # None /\ b \in Browsers /\ begun' = begun /\ answers' = answers /\ used' = used
      /\ state'[b] = StateAfter(r) /\ session'[b] = SessionAfter(r)
      /\ \A o \in Browsers : o # b => state'[o] = state[o] /\ session'[o] = session[o]
      /\ state' = [o \in Browsers |-> state'[o]] /\ session' = [o \in Browsers |-> session'[o]]
      /\ reply' = [e \in Connections |-> reply'[e]]
      /\ \A e \in Connections : reply'[e] \in {reply[e], None}
  BY Arrived
<1>2. WalletTypes /\ now \in Nat
  BY DEF WalletInv, WalletTypes
<1>3. r.cookie \in OwnStates[b]
  BY <1>1 DEF WalletInv, RepliesAreOwn
<1>4. PICK n \in 1 .. Len(begun) : begun[n].browser = b /\ r.cookie = StateOf(n)
  BY <1>1, <1>3 DEF OwnStates
<1>5. r.cookie.nonce = n
  BY <1>2, <1>4, LoginOf
<1>6. /\ redirects' = redirects \cup {n} /\ latest' = [latest EXCEPT ![b] = new]
      /\ new.nonce = n /\ new.crossed = Crossing(b)
  BY <1>5 DEF Arrive
<1>7. /\ latest'[b] = new /\ \A o \in Browsers : o # b => latest'[o] = latest[o]
      /\ latest' = [o \in Browsers |-> latest'[o]]
  BY <1>1, <1>2, <1>6 DEF WalletTypes
<1>8. state'[b] = StateOf(n) /\ session'[b] = session[b] /\ session' = session
  <2>1. state'[b] = StateOf(n) /\ session'[b] = session[b]
    BY <1>1, <1>4 DEF StateAfter, SessionAfter
  <2>2. session = [o \in Browsers |-> session[o]]
    BY <1>2 DEF WalletTypes
  <2>3. QED
    BY <1>1, <2>1, <2>2
<1>9. /\ RepliesAreOwn' /\ \A o \in Browsers : Crossing(o)' => Crossing(o)
      /\ OwnStates' = OwnStates /\ OwnSessions' = OwnSessions
  BY <1>1, Fewer
<1>10. WalletTypes'
  BY <1>1, <1>2, <1>4, <1>6, <1>7 DEF WalletTypes
<1>11. StatesAreOwn'
  <2> SUFFICES ASSUME NEW o \in Browsers, state'[o] # None
               PROVE  state'[o] \in OwnStates'[o] /\ latest'[o].nonce = state'[o].nonce
    BY DEF StatesAreOwn
  <2>1. CASE o = b
    BY <1>3, <1>4, <1>5, <1>6, <1>7, <1>8, <1>9, <2>1
  <2>2. CASE o # b
    BY <1>1, <1>7, <1>9, <2>2 DEF WalletInv, StatesAreOwn
  <2>3. QED
    BY <2>1, <2>2
<1>12. SessionsComeFromLogins'
  BY <1>8, <1>9 DEF WalletInv, SessionsComeFromLogins
<1>13. LatestIsHeld'
  <2> SUFFICES ASSUME NEW o \in Browsers, latest'[o] # None, latest'[o].nonce \notin used,
                      latest'[o].crossed = FALSE
               PROVE  \/ state'[o] = StateOf(latest'[o].nonce)
                      \/ now >= begun[latest'[o].nonce].at + stateCookieMaxAge
    BY <1>1 DEF LatestIsHeld, StateOf
  <2>1. CASE o = b
    BY <1>6, <1>7, <1>8, <2>1
  <2>2. CASE o # b
    BY <1>1, <1>7, <2>2 DEF WalletInv, LatestIsHeld
  <2>3. QED
    BY <2>1, <2>2
<1>14. CrossingsAreKnown'
  <2> SUFFICES ASSUME NEW o \in Browsers, Crossing(o)'
               PROVE  latest'[o].crossed = TRUE \/ latest'[o].nonce \in used
    BY <1>1 DEF CrossingsAreKnown
  <2>1. Crossing(o)
    BY <1>9
  <2>2. CASE o = b
    BY <1>6, <1>7, <2>1, <2>2
  <2>3. CASE o # b
    BY <1>7, <2>1, <2>3 DEF WalletInv, CrossingsAreKnown
  <2>4. QED
    BY <2>2, <2>3
<1>15. QED
  BY <1>9, <1>10, <1>11, <1>12, <1>13, <1>14 DEF WalletInv

\* The reply to an accepted callback clears the state cookie; if that is for a login
\* that was not answered, the two have crossed.
LEMMA OtherArrives ==
    ASSUME WalletInv, NEW c \in Connections, Arrive(c), reply[c].type # "login", now' = now
    PROVE  WalletInv'
<1> PICK r, b : r = reply[c] /\ b = r.browser
  OBVIOUS
<1>1. /\ r # None /\ b \in Browsers /\ begun' = begun /\ answers' = answers /\ used' = used
      /\ state'[b] = StateAfter(r) /\ session'[b] = SessionAfter(r)
      /\ \A o \in Browsers : o # b => state'[o] = state[o] /\ session'[o] = session[o]
      /\ state' = [o \in Browsers |-> state'[o]] /\ session' = [o \in Browsers |-> session'[o]]
      /\ reply' = [e \in Connections |-> reply'[e]]
      /\ \A e \in Connections : reply'[e] \in {reply[e], None}
  BY Arrived
<1>2. WalletTypes /\ now \in Nat /\ redirects' = redirects /\ latest' = latest
  BY DEF WalletInv, WalletTypes, Arrive
<1>3. \/ r.type = "callback" /\ r.cookie \in OwnSessions[b]
      \/ r.type = "logout" /\ r.cookie = None
  BY <1>1 DEF WalletInv, RepliesAreOwn
<1>4. session'[b] = r.cookie
  BY <1>1 DEF SessionAfter
<1>5. \/ r.type = "callback" /\ state'[b] = None
      \/ state'[b] = state[b]
  BY <1>1, <1>3 DEF StateAfter
<1>6. /\ RepliesAreOwn' /\ \A o \in Browsers : Crossing(o)' => Crossing(o)
      /\ OwnStates' = OwnStates /\ OwnSessions' = OwnSessions
  BY <1>1, Fewer
<1>7. WalletTypes'
  BY <1>1, <1>2 DEF WalletTypes
<1>8. StatesAreOwn'
  <2>1. \A o \in Browsers : state'[o] # None => state'[o] = state[o]
    BY <1>1, <1>5
  <2>2. QED
    BY <1>2, <1>6, <2>1 DEF WalletInv, StatesAreOwn
<1>9. SessionsComeFromLogins'
  <2> SUFFICES ASSUME NEW o \in Browsers, session'[o] # None
               PROVE  session'[o] \in OwnSessions'[o]
    BY DEF SessionsComeFromLogins
  <2>1. CASE o = b
    BY <1>3, <1>4, <1>6, <2>1
  <2>2. CASE o # b
    BY <1>1, <1>6, <2>2 DEF WalletInv, SessionsComeFromLogins
  <2>3. QED
    BY <2>1, <2>2
<1>10. LatestIsHeld'
  <2> SUFFICES ASSUME NEW o \in Browsers, latest[o] # None, latest[o].nonce \notin used,
                      latest[o].crossed = FALSE
               PROVE  \/ state'[o] = StateOf(latest[o].nonce)
                      \/ now >= begun[latest[o].nonce].at + stateCookieMaxAge
    BY <1>1, <1>2 DEF LatestIsHeld, StateOf
  <2>1. \/ state[o] = StateOf(latest[o].nonce)
        \/ now >= begun[latest[o].nonce].at + stateCookieMaxAge
    BY DEF WalletInv, LatestIsHeld
  <2>2. CASE o = b /\ r.type = "callback"
    <3>1. Crossing(b)
      BY <1>1, <2>2 DEF Crossing
    <3>2. latest[b].crossed = TRUE \/ latest[b].nonce \in used
      BY <1>1, <3>1 DEF WalletInv, CrossingsAreKnown
    <3>3. QED
      BY <2>2, <3>2
  <2>3. CASE o # b \/ r.type # "callback"
    BY <1>1, <1>5, <2>1, <2>3
  <2>4. QED
    BY <2>2, <2>3
<1>11. CrossingsAreKnown'
  BY <1>1, <1>2, <1>6 DEF WalletInv, CrossingsAreKnown
<1>12. QED
  BY <1>6, <1>7, <1>8, <1>9, <1>10, <1>11 DEF WalletInv

\* A reply that is lost changes no cookie.
LEMMA LoseStep ==
    ASSUME WalletInv, NEW c \in Connections, Lose(c), now' = now
    PROVE  WalletInv'
<1>1. /\ WalletTypes /\ begun' = begun /\ redirects' = redirects /\ answers' = answers
      /\ state' = state /\ session' = session /\ used' = used /\ latest' = latest
      /\ reply' = [reply EXCEPT ![c] = None]
  BY DEF WalletInv, Lose
<1>2. /\ \A e \in Connections : reply'[e] \in {reply[e], None}
      /\ reply' = [e \in Connections |-> reply'[e]]
  BY <1>1 DEF WalletTypes
<1>3. /\ RepliesAreOwn' /\ \A o \in Browsers : Crossing(o)' => Crossing(o)
      /\ OwnStates' = OwnStates /\ OwnSessions' = OwnSessions
  BY <1>1, <1>2, Fewer
<1>4. WalletTypes'
  BY <1>1, <1>2 DEF WalletTypes
<1>5. StatesAreOwn' /\ SessionsComeFromLogins'
  BY <1>1, <1>3 DEF WalletInv, StatesAreOwn, SessionsComeFromLogins
<1>6. LatestIsHeld'
  BY <1>1 DEF WalletInv, LatestIsHeld, StateOf
<1>7. CrossingsAreKnown'
  BY <1>1, <1>3 DEF WalletInv, CrossingsAreKnown
<1>8. QED
  BY <1>3, <1>4, <1>5, <1>6, <1>7 DEF WalletInv

\* A cookie that the browser drops is too old.
LEMMA DropStep ==
    ASSUME WalletInv, NEW b \in Browsers, DropCookie(b), now' = now
    PROVE  WalletInv'
<1>1. /\ WalletTypes /\ now \in Nat /\ begun' = begun /\ redirects' = redirects
      /\ answers' = answers /\ used' = used /\ latest' = latest /\ reply' = reply
  BY DEF WalletInv, WalletTypes, DropCookie
<1>2. /\ RepliesAreOwn' /\ \A o \in Browsers : Crossing(o)' => Crossing(o)
      /\ OwnStates' = OwnStates /\ OwnSessions' = OwnSessions
  BY <1>1, Fewer
<1>3. /\ WalletTypes'
      /\ \A o \in Browsers : state'[o] \in {state[o], None} /\ session'[o] \in {session[o], None}
      /\ \A o \in Browsers : state'[o] # state[o] => state[o] # None /\ now >= state[o].exp
  BY <1>1 DEF WalletTypes, DropCookie
<1>4. StatesAreOwn' /\ SessionsComeFromLogins'
  BY <1>1, <1>2, <1>3 DEF WalletInv, StatesAreOwn, SessionsComeFromLogins
<1>5. LatestIsHeld'
  <2> SUFFICES ASSUME NEW o \in Browsers, latest[o] # None, latest[o].nonce \notin used,
                      latest[o].crossed = FALSE
               PROVE  \/ state'[o] = StateOf(latest[o].nonce)
                      \/ now >= begun[latest[o].nonce].at + stateCookieMaxAge
    BY <1>1 DEF LatestIsHeld, StateOf
  <2>1. \/ state[o] = StateOf(latest[o].nonce)
        \/ now >= begun[latest[o].nonce].at + stateCookieMaxAge
    BY DEF WalletInv, LatestIsHeld
  <2>2. latest[o].nonce \in 1 .. Len(begun)
    BY <1>1 DEF WalletTypes
  <2>3. StateOf(latest[o].nonce).exp = begun[latest[o].nonce].at + stateCookieMaxAge
    BY <1>1, <2>2, LoginOf
  <2>4. QED
    BY <1>3, <2>1, <2>3
<1>6. CrossingsAreKnown'
  BY <1>1, <1>2 DEF WalletInv, CrossingsAreKnown
<1>7. QED
  BY <1>2, <1>3, <1>4, <1>5, <1>6 DEF WalletInv

\* Discourse answers a login that was begun.
LEMMA AnswerStep ==
    ASSUME WalletInv, NEW n \in redirects, NEW u \in Users, SSOProvider(n, u), now' = now
    PROVE  WalletInv'
<1>1. /\ WalletTypes /\ answers' = answers \cup {[nonce |-> n, user |-> u]} /\ begun' = begun
      /\ redirects' = redirects /\ reply' = reply /\ latest' = latest
      /\ state' = state /\ session' = session /\ used' = used
  BY DEF SSOProvider, WalletInv
<1>2. n \in 1 .. Len(begun) /\ \A a \in answers' : a.nonce \in 1 .. Len(begun) /\ a.user \in Users
  BY <1>1 DEF WalletTypes
<1>3. WalletTypes'
  BY <1>1, <1>2 DEF WalletTypes
<1>4. Len(begun') \in Nat /\ Len(begun) <= Len(begun')
  BY <1>1, LenProperties DEF WalletTypes
<1>5. /\ \A b \in Browsers : OwnStates[b] \subseteq OwnStates'[b]
      /\ \A b \in Browsers : OwnSessions[b] \subseteq OwnSessions'[b]
  BY <1>1, <1>4, OwnStays
<1>6. RepliesAreOwn' /\ StatesAreOwn' /\ SessionsComeFromLogins'
  BY <1>1, <1>5 DEF WalletInv, RepliesAreOwn, StatesAreOwn, SessionsComeFromLogins
<1>7. LatestIsHeld' /\ CrossingsAreKnown'
  BY <1>1 DEF WalletInv, LatestIsHeld, StateOf, CrossingsAreKnown, Crossing
<1>8. QED
  BY <1>3, <1>6, <1>7 DEF WalletInv

\* Time passes, or something else happens.
LEMMA WalletWaits ==
    ASSUME WalletInv, UNCHANGED wallet, now' \in Nat, now <= now'
    PROVE  WalletInv'
<1>1. /\ begun' = begun /\ redirects' = redirects /\ answers' = answers /\ reply' = reply
      /\ state' = state /\ session' = session /\ used' = used /\ latest' = latest
      /\ WalletTypes /\ now \in Nat
  BY DEF wallet, WalletInv, WalletTypes
<1>2. /\ RepliesAreOwn' /\ \A o \in Browsers : Crossing(o)' => Crossing(o)
      /\ OwnStates' = OwnStates /\ OwnSessions' = OwnSessions
  BY <1>1, Fewer
<1>3. WalletTypes' /\ StatesAreOwn' /\ SessionsComeFromLogins' /\ CrossingsAreKnown'
  BY <1>1, <1>2 DEF WalletInv, WalletTypes, StatesAreOwn, SessionsComeFromLogins, CrossingsAreKnown
<1>4. LatestIsHeld'
  <2> SUFFICES ASSUME NEW o \in Browsers, latest[o] # None, latest[o].nonce \notin used,
                      latest[o].crossed = FALSE
               PROVE  \/ state[o] = StateOf(latest[o].nonce)
                      \/ now' >= begun[latest[o].nonce].at + stateCookieMaxAge
    BY <1>1 DEF LatestIsHeld, StateOf
  <2>1. \/ state[o] = StateOf(latest[o].nonce)
        \/ now >= begun[latest[o].nonce].at + stateCookieMaxAge
    BY DEF WalletInv, LatestIsHeld
  <2>2. latest[o].nonce \in 1 .. Len(begun)
    BY <1>1 DEF WalletTypes
  <2>3. begun[latest[o].nonce].at + stateCookieMaxAge \in Nat
    BY <1>1, <2>2, LoginOf, Lifetimes
  <2>4. QED
    BY <1>1, <2>1, <2>3
<1>5. QED
  BY <1>2, <1>3, <1>4 DEF WalletInv

-----------------------------------------------------------------------------
(* The admin page's steps.                                                  *)

\* A login mints a cookie for a challenge that is in time.
LEMMA AdminLoginStep ==
    ASSUME AdminInv, NEW t \in Tabs, NEW key \in Keys, AdminLogin(t, key), now' = now
    PROVE  AdminInv'
<1> PICK ch, new : ch = challenge[t] /\ new = Signed(None, now + adminSessionTTL)
  OBVIOUS
<1>1. AdminTypes /\ now \in Nat /\ ch # None /\ ch.exp \in Nat /\ secret' = secret
  BY DEF AdminInv, AdminTypes, AdminLogin
<1>2. challenge' = [challenge EXCEPT ![t] = None]
  BY DEF AdminLogin
<1>3. AdminTypes'
  BY <1>1, <1>2 DEF AdminTypes
<1>4. CASE ChallengeHolds(ch) /\ key = AdminPubKey
  <2> PICK s : s = [cookie |-> new, key |-> key, asked |-> ch.exp - loginTTL]
    OBVIOUS
  <2>1. cookie' = new /\ minted' = minted \cup {s}
    BY <1>4 DEF AdminLogin
  <2>2. /\ s \in minted' /\ s.cookie = cookie' /\ s.key = AdminPubKey
        /\ s.asked = ch.exp - loginTTL /\ cookie'.exp = now + adminSessionTTL
        /\ cookie'.secret = secret /\ secret \in Nat
    BY <1>1, <1>4, <2>1 DEF Signed, AdminTypes
  <2>3. now <= ch.exp
    BY <1>4 DEF ChallengeHolds
  <2>4. /\ s.asked \in Int /\ cookie'.exp \in Nat
        /\ cookie'.exp <= s.asked + loginTTL + adminSessionTTL
    BY <1>1, <2>2, <2>3, Lifetimes
  <2>5. QED
    BY <1>1, <1>3, <2>2, <2>4 DEF AdminInv, CookieIsMinted
<1>5. CASE ~ (ChallengeHolds(ch) /\ key = AdminPubKey)
  <2>1. cookie' = cookie /\ minted' = minted
    BY <1>5 DEF AdminLogin
  <2>2. QED
    BY <1>1, <1>3, <2>1 DEF AdminInv, CookieIsMinted
<1>6. QED
  BY <1>4, <1>5

\* A tab is given a challenge of its own.
LEMMA ChallengeStep ==
    ASSUME AdminInv, NEW t \in Tabs, LoginChallenge(t), now' = now
    PROVE  AdminInv'
<1>1. now \in Nat /\ secret \in Nat /\ secret' = secret
  BY DEF AdminInv, AdminTypes, LoginChallenge
<1>2. /\ challenge'[t] = Signed(t, now + loginTTL)
      /\ \A u \in Tabs : u # t => challenge'[u] = challenge[u]
      /\ challenge' = [u \in Tabs |-> challenge'[u]]
  BY DEF LoginChallenge, AdminInv, AdminTypes
<1>3. /\ challenge'[t].exp \in Nat /\ challenge'[t].n \in Tabs
      /\ challenge'[t].secret \in Nat /\ challenge'[t].secret <= secret
  BY <1>1, <1>2, Lifetimes DEF Signed
<1>4. AdminTypes'
  BY <1>1, <1>2, <1>3 DEF AdminInv, AdminTypes
<1>5. CookieIsMinted'
  BY DEF LoginChallenge, AdminInv, CookieIsMinted
<1>6. QED
  BY <1>4, <1>5 DEF AdminInv

\* No other step mints a cookie; one may send a challenge as the cookie.
LEMMA AdminOtherStep ==
    ASSUME AdminInv, now' \in Nat, minted' = minted, secret' = secret,
           cookie' \in {cookie, None} \cup {challenge[t] : t \in Tabs},
           challenge' = challenge \/ \E t \in Tabs : challenge' = [challenge EXCEPT ![t] = None]
    PROVE  AdminInv'
<1>1. /\ challenge = [t \in Tabs |-> challenge[t]]
      /\ \A t \in Tabs : challenge[t] # None =>
            /\ challenge[t].exp \in Nat /\ challenge[t].n \in Tabs
            /\ challenge[t].secret \in Nat /\ challenge[t].secret <= secret
  BY DEF AdminInv, AdminTypes
<1>2. AdminTypes'
  <2>1. CASE challenge' = challenge
    BY <2>1 DEF AdminInv, AdminTypes
  <2>2. ASSUME NEW t \in Tabs, challenge' = [challenge EXCEPT ![t] = None]
        PROVE  AdminTypes'
    BY <2>2 DEF AdminInv, AdminTypes
  <2>3. QED
    BY <2>1, <2>2
<1>3. CookieIsMinted'
  <2>1. CASE cookie' \in {cookie, None}
    BY <2>1 DEF AdminInv, CookieIsMinted
  <2>2. ASSUME NEW t \in Tabs, cookie' = challenge[t]
        PROVE  CookieIsMinted'
    BY <1>1, <2>2 DEF CookieIsMinted
  <2>3. QED
    BY <2>1, <2>2
<1>4. QED
  BY <1>2, <1>3 DEF AdminInv

\* What an earlier run of the server signed does not verify after a restart.
LEMMA RestartStep ==
    ASSUME AdminInv, Restart, now' = now
    PROVE  AdminInv'
<1>1. AdminTypes' /\ secret \in Nat /\ secret' = secret + 1 /\ cookie' = cookie
  BY DEF AdminInv, AdminTypes, Restart
<1>2. CookieIsMinted'
  BY <1>1 DEF AdminInv, AdminTypes, CookieIsMinted
<1>3. QED
  BY <1>1, <1>2 DEF AdminInv

-----------------------------------------------------------------------------
(* The theorems.                                                            *)

\* Nobody has a session at first.
LEMMA Initially == Init => WalletInv /\ AdminInv
<1> SUFFICES ASSUME Init PROVE WalletInv /\ AdminInv
  OBVIOUS
<1>1. Len(begun) = 0 /\ begun \in Seq(Logins)
  BY EmptySeq DEF Init
<1>2. \A c \in Connections : reply[c] = None
  BY DEF Init
<1>3. WalletTypes
  BY <1>1 DEF Init, WalletTypes
<1>4. RepliesAreOwn /\ CrossingsAreKnown
  BY <1>2 DEF RepliesAreOwn, CrossingsAreKnown, Crossing
<1>5. StatesAreOwn /\ SessionsComeFromLogins /\ LatestIsHeld
  BY DEF Init, StatesAreOwn, SessionsComeFromLogins, LatestIsHeld
<1>6. AdminInv
  BY DEF Init, AdminInv, AdminTypes, CookieIsMinted
<1>7. QED
  BY <1>3, <1>4, <1>5, <1>6 DEF WalletInv

\* Every step keeps both invariants.
LEMMA Step == WalletInv /\ AdminInv /\ [Next]_vars => WalletInv' /\ AdminInv'
<1> SUFFICES ASSUME WalletInv, AdminInv, [Next]_vars PROVE WalletInv' /\ AdminInv'
  OBVIOUS
<1>1. now \in Nat
  BY DEF AdminInv, AdminTypes
<1>2. ASSUME UNCHANGED <<now, admin>>, WalletStep
      PROVE  WalletInv' /\ AdminInv'
  <2>1. ASSUME NEW b \in Browsers, NEW c \in Connections,
               Login(b, c) \/ Logout(b, c) \/ \E a \in answers : Callback(b, a, c)
        PROVE  WalletInv'
    BY <1>2, <2>1, LoginStep, LogoutStep, CallbackStep
  <2>2. ASSUME NEW c \in Connections, Arrive(c) \/ Lose(c)
        PROVE  WalletInv'
    BY <1>2, <2>2, LoginArrives, OtherArrives, LoseStep
  <2>3. ASSUME NEW b \in Browsers, DropCookie(b)
        PROVE  WalletInv'
    BY <1>2, <2>3, DropStep
  <2>4. ASSUME NEW n \in redirects, NEW u \in Users, SSOProvider(n, u)
        PROVE  WalletInv'
    BY <1>2, <2>4, AnswerStep
  <2>5. WalletInv'
    BY <1>2, <2>1, <2>2, <2>3, <2>4 DEF WalletStep
  <2>6. AdminInv'
    BY <1>1, <1>2, AdminOtherStep DEF admin
  <2>7. QED
    BY <2>5, <2>6
<1>3. ASSUME UNCHANGED <<now, wallet>>, AdminStep
      PROVE  WalletInv' /\ AdminInv'
  <2>1. WalletInv'
    BY <1>1, <1>3, WalletWaits
  <2>2. ASSUME NEW t \in Tabs, NEW key \in Keys, AdminLogin(t, key)
        PROVE  AdminInv'
    BY <1>3, <2>2, AdminLoginStep
  <2>3. ASSUME NEW t \in Tabs, LoginChallenge(t)
        PROVE  AdminInv'
    BY <1>3, <2>3, ChallengeStep
  <2>4. ASSUME NEW t \in Tabs, ChallengeAsCookie(t) \/ Whoami(t) \/ AdminLogout(t)
        PROVE  AdminInv'
    BY <1>1, <1>3, <2>4, AdminOtherStep DEF ChallengeAsCookie, Whoami, AdminLogout
  <2>5. CASE DropAdminCookie
    <3>1. /\ cookie' = None /\ secret' = secret /\ challenge' = challenge /\ minted' = minted
          /\ now' = now
      BY <1>3, <2>5 DEF DropAdminCookie
    <3>2. QED
      BY <1>1, <2>1, <3>1, AdminOtherStep
  <2>6. CASE Restart
    BY <1>3, <2>1, <2>6, RestartStep
  <2>7. QED
    BY <1>3, <2>1, <2>2, <2>3, <2>4, <2>5, <2>6 DEF AdminStep
<1>4. ASSUME Tick \/ UNCHANGED vars
      PROVE  WalletInv' /\ AdminInv'
  <2>1. now' \in Nat /\ now <= now' /\ UNCHANGED wallet /\ UNCHANGED admin
    BY <1>1, <1>4 DEF Tick, vars
  <2>2. WalletInv'
    BY <2>1, WalletWaits
  <2>3. minted' = minted /\ secret' = secret /\ cookie' = cookie /\ challenge' = challenge
    BY <2>1 DEF admin
  <2>4. QED
    BY <2>1, <2>2, <2>3, AdminOtherStep
<1>5. QED
  BY <1>2, <1>3, <1>4 DEF Next

\* The invariants hold in every reachable state.
THEOREM Invariance == Spec => [](WalletInv /\ AdminInv)
BY Initially, Step, PTL DEF Spec

\* A browser is served as a user only if Discourse confirmed that user for a
\* login which this browser began, and not longer ago than the state cookie and
\* the session last, although Callback keeps no list of the nonces in use.
THEOREM SessionsAreTheirOwners == Spec => []SessionsAreOwn
<1>1. WalletInv => SessionsAreOwn
  <2> SUFFICES ASSUME WalletInv, NEW b \in Browsers, CurrentUser(b) # None
               PROVE  \E a \in answers :
                          /\ a.user = CurrentUser(b) /\ begun[a.nonce].browser = b
                          /\ now - begun[a.nonce].at <= stateCookieMaxAge + sessionTTL
    BY DEF SessionsAreOwn
  <2>1. session[b] # None /\ ~ (now > session[b].exp) /\ CurrentUser(b) = session[b].user
    BY DEF CurrentUser
  <2>2. WalletTypes /\ now \in Nat /\ session[b].exp \in Nat
    BY <2>1 DEF WalletInv, WalletTypes, SessionsComeFromLogins, OwnSessions
  <2>3. PICK a \in answers :
            /\ a.user = session[b].user /\ begun[a.nonce].browser = b
            /\ session[b].exp <= begun[a.nonce].at + stateCookieMaxAge + sessionTTL
    BY <2>1 DEF WalletInv, SessionsComeFromLogins, OwnSessions
  <2>4. a.nonce \in 1 .. Len(begun) /\ begun[a.nonce].at \in Nat
    BY <2>2, LoginOf DEF WalletTypes
  <2>5. now - begun[a.nonce].at <= stateCookieMaxAge + sessionTTL
    <3>1. PICK at, exp : at = begun[a.nonce].at /\ exp = session[b].exp
      OBVIOUS
    <3>2. /\ at \in Nat /\ exp \in Nat /\ now \in Nat /\ ~ (now > exp)
          /\ exp <= at + stateCookieMaxAge + sessionTTL
      BY <2>1, <2>2, <2>3, <2>4, <3>1
    <3>3. now - at <= stateCookieMaxAge + sessionTTL
      BY <3>2, Lifetimes
    <3>4. QED
      BY <3>1, <3>3
  <2>6. QED
    BY <2>1, <2>3, <2>5
<1>2. QED
  BY <1>1, Invariance, PTL

\* The answer to a browser's latest login is accepted while it is in time, unless
\* the reply to an accepted callback crossed its cookie: nothing else clears or
\* replaces that cookie, although it is one cookie for all logins.
THEOREM LatestLoginIsAccepted == Spec => []LatestLoginSucceeds
<1>1. WalletInv => LatestLoginSucceeds
  <2> SUFFICES ASSUME WalletInv, NEW a \in answers, a.nonce \notin used,
                      latest[begun[a.nonce].browser] = [nonce |-> a.nonce, crossed |-> FALSE],
                      now - begun[a.nonce].at < stateCookieMaxAge
               PROVE  Accepts(begun[a.nonce].browser, a)
    BY DEF LatestLoginSucceeds
  <2> PICK n, b : n = a.nonce /\ b = begun[n].browser
    OBVIOUS
  <2>1. WalletTypes /\ now \in Nat /\ n \in 1 .. Len(begun) /\ n \in Nat
    BY LenProperties DEF WalletInv, WalletTypes
  <2>2. /\ begun[n].at \in Nat /\ StateOf(n) # None /\ b \in Browsers
        /\ StateOf(n).nonce = n /\ StateOf(n).exp = begun[n].at + stateCookieMaxAge
    BY <2>1, LoginOf
  <2>3. ~ (now >= begun[n].at + stateCookieMaxAge) /\ now <= begun[n].at + stateCookieMaxAge
    BY <2>1, <2>2, Lifetimes
  <2>4. latest[b] # None /\ latest[b].nonce = n /\ latest[b].crossed = FALSE
    <3> PICK held : held = [nonce |-> n, crossed |-> FALSE]
      OBVIOUS
    <3>1. n \in Nat /\ latest[b] = held
      BY <2>1
    <3>2. held \in [nonce : Nat, crossed : BOOLEAN]
      BY <3>1
    <3>3. held # None
      BY <3>2, NoneAssumption
    <3>4. QED
      BY <3>1, <3>3
  <2>5. state[b] = StateOf(n)
    BY <2>2, <2>3, <2>4 DEF WalletInv, LatestIsHeld
  <2>6. QED
    BY <2>2, <2>3, <2>5 DEF Accepts, StateHolds, NonceMatches
<1>2. QED
  BY <1>1, Invariance, PTL

\* requireAdmin lets a write through only with a value that this run of the server
\* signed: a session, for a signature by the admin key over a challenge that is not
\* older than a login and a session last, or a challenge that is still in time.
THEOREM AdminWritesAreSigned == Spec => []AdminWritesAreFresh
<1>1. AdminInv => AdminWritesAreFresh
  <2> SUFFICES ASSUME AdminInv, NEW t \in Tabs, WriteAllowed(t)
               PROVE  /\ csrf[t].secret = secret
                      /\ \/ \E s \in minted :
                               /\ s.cookie = csrf[t] /\ s.key = AdminPubKey
                               /\ now - s.asked <= loginTTL + adminSessionTTL
                         \/ csrf[t].n \in Tabs /\ now <= csrf[t].exp
    BY DEF AdminWritesAreFresh
  <2>1. /\ cookie # None /\ cookie.secret = secret /\ now <= cookie.exp /\ csrf[t] = cookie
        /\ now \in Nat /\ secret \in Nat /\ cookie.exp \in Nat
    BY DEF WriteAllowed, SessionHolds, AdminInv, AdminTypes, CookieIsMinted
  <2>2. CASE cookie.n \in Tabs
    BY <2>1, <2>2
  <2>3. CASE cookie.n \notin Tabs
    <3>1. ~ (cookie.secret < secret)
      BY <2>1
    <3>2. PICK s \in minted :
              /\ s.cookie = cookie /\ s.key = AdminPubKey /\ s.asked \in Int
              /\ cookie.exp <= s.asked + loginTTL + adminSessionTTL
      BY <2>1, <2>3, <3>1 DEF AdminInv, CookieIsMinted
    <3>3. now - s.asked <= loginTTL + adminSessionTTL
      BY <2>1, <3>2, Lifetimes
    <3>4. QED
      BY <2>1, <3>2, <3>3
  <2>4. QED
    BY <2>2, <2>3
<1>2. QED
  BY <1>1, Invariance, PTL

=============================================================================
