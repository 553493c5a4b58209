------------------------ MODULE BrowserSessionProofs ------------------------
(* A session that the server has not refused is not lost, and a mount of    *)
(* useWebSocket leaves no socket behind and does not loop, for any number   *)
(* of logins, mounts, page loads and failures.                              *)
EXTENDS BrowserSession, TLAPS

\* A request of a mount is the ws-token that it awaits; one that is gone can
\* only be awaiting it; and only one mount is not gone.
LinksTrue ==
    /\ \A p \in Links : req[p].sent <=> link[p] = "minting"
    /\ \A p \in Links : disposed[p] => link[p] \in {"minting", "ended"}
    /\ \A p, q \in Mounted : p = q
    /\ \A p \in turnedAway : link[p] = "ended"

\* While nothing was refused, /auth/me is asked with a token.
ChecksTrue ==
    ~refused => \A c \in Checks : check[c] \in 1..MaxAttempts =>
                    token # None /\ (req[c].sent => req[c].token # None)

Inv == TypeOK /\ LinksTrue /\ ChecksTrue /\ SessionKept

USE ConstAssumption DEF MaxAttempts, Status, Off
-----------------------------------------------------------------------------
LEMMA LinksSafe == Inv => SocketOwned /\ NoLoop
<1> SUFFICES ASSUME LinksTrue, turnedAway \subseteq Links
             PROVE  SocketOwned /\ NoLoop
  BY DEF Inv, TypeOK
<1>1. Alive \subseteq Mounted
  BY DEF LinksTrue, Alive, Mounted
<1>2. NoLoop
  <2>1. SUFFICES ASSUME NEW p \in turnedAway PROVE link[p] = "ended" /\ ~req[p].sent
    BY DEF NoLoop
  <2>2. link[p] = "ended" /\ p \in Links
    BY DEF LinksTrue
  <2>3. link[p] # "minting"
    BY <2>2
  <2> QED BY <2>2, <2>3 DEF LinksTrue
<1> QED BY <1>1, <1>2 DEF LinksTrue, SocketOwned

LEMMA InitInv == Init => Inv
<1> SUFFICES ASSUME Init PROVE Inv
  OBVIOUS
<1>1. Idle \in Requests /\ Idle.sent = FALSE
  BY DEF Idle, Requests
<1>2. check \in [Checks -> Status..Off] /\ \A c \in Checks : check[c] \notin 1..3
  BY DEF Init, Checks
<1>3. TypeOK
  BY <1>1, <1>2 DEF Init, TypeOK, LinkStates
<1>4. LinksTrue
  <2>1. \A p \in Links : /\ req[p] = Idle /\ link[p] = "unborn" /\ ~disposed[p]
    BY DEF Init, Callers
  <2>2. turnedAway = {}
    BY DEF Init
  <2> QED BY <1>1, <2>1, <2>2 DEF LinksTrue, Mounted
<1>5. ChecksTrue /\ SessionKept
  BY <1>2 DEF Init, ChecksTrue, SessionKept
<1> QED BY <1>3, <1>4, <1>5 DEF Inv

\* A step that leaves the mounts and their requests alone.
LEMMA LinksKept ==
    ASSUME Inv, UNCHANGED socket, \A p \in Links : req'[p].sent = req[p].sent
    PROVE  LinksTrue'
BY DEF Inv, LinksTrue, Mounted, socket, TypeOK

\* A request that is sent, and one that is answered.
LEMMA SendType ==
    ASSUME Inv, NEW c \in Callers, Send(c)
    PROVE  /\ req' \in [Callers -> Requests]
           /\ req'[c].sent /\ req'[c].token = token
           /\ \A d \in Callers : d # c => req'[d] = req[d]
<1> DEFINE r == [sent |-> TRUE, token |-> token, valid |-> token \in live]
<1>1. r \in Requests /\ r.sent /\ r.token = token
  BY DEF Requests, Inv, TypeOK
<1>2. req' = [req EXCEPT ![c] = r]
  BY DEF Send
<1> HIDE DEF r
<1> QED BY <1>1, <1>2 DEF Inv, TypeOK, Requests

LEMMA ArrivesType ==
    ASSUME Inv, NEW c \in Callers, NEW a \in Outcomes, Arrives(c, a)
    PROVE  /\ req' \in [Callers -> Requests]
           /\ ~req'[c].sent
           /\ \A d \in Callers : d # c => req'[d] = req[d]
           /\ failures' \in Nat /\ refused' \in BOOLEAN
           /\ refused' = (refused \/ a = "invalid")
<1>1. Idle \in Requests /\ ~Idle.sent
  BY DEF Idle, Requests
<1>2. req' = [req EXCEPT ![c] = Idle] /\ refused' = (refused \/ a = "invalid")
  BY DEF Arrives
<1>3. failures' \in Nat
  <2>1. failures \in Nat
    BY DEF Inv, TypeOK
  <2>2. failures' = failures \/ failures' = failures + 1
    BY DEF Arrives, Lose
  <2> QED BY <2>1, <2>2
<1> QED BY <1>1, <1>2, <1>3 DEF Inv, TypeOK, Requests
-----------------------------------------------------------------------------
LEMMA PageKeeps == ASSUME Inv, PageAsks \/ PageRefused PROVE Inv'
<1>1. CASE PageAsks
  <2>2. TypeOK'
    BY <1>1 DEF PageAsks, Inv, TypeOK, server, auth, session, socket
  <2> QED
    BY <1>1, <2>2, LinksKept
    DEF PageAsks, Inv, ChecksTrue, SessionKept, server, auth, session, socket
<1>2. CASE PageRefused
  <2>1. TypeOK'
    BY <1>2 DEF PageRefused, Expired, SetToken, Inv, TypeOK, server, socket
  <2> QED
    BY <1>2, <2>1, LinksKept
    DEF PageRefused, Inv, ChecksTrue, SessionKept, socket
<1> QED BY <1>1, <1>2

LEMMA CheckSendsKeeps ==
    ASSUME Inv, NEW c \in Checks, CheckSends(c) PROVE Inv'
<1>1. c \in Callers /\ c \notin Links
  BY DEF Callers
<1>2. Send(c)
  BY DEF CheckSends
<1>3. /\ req' \in [Callers -> Requests] /\ req'[c].token = token
      /\ \A d \in Callers : d # c => req'[d] = req[d]
  BY <1>1, <1>2, SendType
<1>4. UNCHANGED <<server, auth, asked, socket, loads, failures, refused, loggedOut>>
  BY DEF CheckSends
<1>5. TypeOK'
  BY <1>3, <1>4 DEF Inv, TypeOK, server, auth, session, socket
<1>6. LinksTrue'
  <2>1. \A p \in Links : req'[p].sent = req[p].sent
    BY <1>1, <1>3 DEF Callers
  <2> QED BY <2>1, <1>4, LinksKept
<1>7. ChecksTrue'
  <2>1. \A d \in Checks : d \in Callers
    BY DEF Callers
  <2> QED BY <1>3, <1>4, <2>1 DEF Inv, ChecksTrue, auth, session
<1>8. SessionKept'
  BY <1>4 DEF Inv, SessionKept, server, auth, session
<1> QED BY <1>5, <1>6, <1>7, <1>8 DEF Inv

\* An answered check: what is left is what it does to the session.
LEMMA CheckAnswered ==
    ASSUME Inv, NEW c \in Checks, NEW a \in Outcomes, Arrives(c, a),
           check' \in [Checks -> Status..Off], loading' \in BOOLEAN,
           authEnabled' \in BOOLEAN, user' \in Tokens \cup {None},
           \/ UNCHANGED <<token, stored>>
           \/ token' = None /\ stored' = None /\ refused',
           \A d \in Checks : d # c => check'[d] = check[d],
           check'[c] \in 1..MaxAttempts => token # None,
           UNCHANGED <<server, asked, socket, loads, loggedOut>>
    PROVE  Inv'
<1>1. c \in Callers /\ c \notin Links
  BY DEF Callers
<1>2. /\ req' \in [Callers -> Requests] /\ ~req'[c].sent
      /\ \A d \in Callers : d # c => req'[d] = req[d]
      /\ failures' \in Nat /\ refused' \in BOOLEAN
      /\ refused' = (refused \/ a = "invalid")
  BY <1>1, ArrivesType
<1>3. TypeOK'
  BY <1>2 DEF Inv, TypeOK, server, socket
<1>4. LinksTrue'
  <2>1. \A p \in Links : req'[p].sent = req[p].sent
    BY <1>1, <1>2 DEF Callers
  <2> QED BY <2>1, LinksKept
<1>5. CASE UNCHANGED <<token, stored>>
  <2>1. ~refused' => ~refused
    BY <1>2
  <2>2. ChecksTrue'
    <3>1. \A d \in Checks : d \in Callers
      BY DEF Callers
    <3> QED BY <1>2, <1>5, <2>1, <3>1 DEF Inv, ChecksTrue
  <2>3. SessionKept'
    BY <1>5, <2>1 DEF Inv, SessionKept, server
  <2> QED BY <1>3, <1>4, <2>2, <2>3 DEF Inv
<1>6. CASE refused'
  BY <1>3, <1>4, <1>6 DEF Inv, ChecksTrue, SessionKept
<1> QED BY <1>5, <1>6

LEMMA CheckSet ==
    ASSUME Inv, NEW c \in Checks, NEW k \in Status..Off,
           check' = [check EXCEPT ![c] = k]
    PROVE  /\ check' \in [Checks -> Status..Off] /\ check'[c] = k
           /\ \A d \in Checks : d # c => check'[d] = check[d]
BY DEF Inv, TypeOK

LEMMA StatusKeeps ==
    ASSUME Inv, NEW c \in Checks, StatusAnswered(c) PROVE Inv'
<1>1. PICK a \in {"ok", "down"} : Arrives(c, a) /\ authEnabled' = (a = "ok")
  BY DEF StatusAnswered
<1>2. a \in Outcomes /\ authEnabled' \in BOOLEAN
  BY <1>1 DEF Outcomes
<1>3. UNCHANGED <<server, asked, socket, loads, loggedOut, token, stored>>
  BY DEF StatusAnswered, session
<1>4. \/ token # None /\ CheckGoes(c, 1) /\ UNCHANGED user
      \/ CheckDone(c) /\ user' = None
  BY DEF StatusAnswered, session
<1>5. /\ check' \in [Checks -> Status..Off] /\ loading' \in BOOLEAN
      /\ user' \in Tokens \cup {None}
      /\ \A d \in Checks : d # c => check'[d] = check[d]
      /\ check'[c] \in 1..3 => token # None
  <2>1. CASE token # None /\ CheckGoes(c, 1) /\ UNCHANGED user
    <3>1. check' = [check EXCEPT ![c] = 1] /\ UNCHANGED loading
      BY <2>1 DEF CheckGoes
    <3>2. 1 \in Status..Off
      OBVIOUS
    <3>3. loading' \in BOOLEAN /\ user' \in Tokens \cup {None}
      BY <2>1, <3>1 DEF Inv, TypeOK
    <3> QED BY <2>1, <3>1, <3>2, <3>3, CheckSet
  <2>2. CASE CheckDone(c) /\ user' = None
    <3>1. check' = [check EXCEPT ![c] = Off] /\ loading' = FALSE
      BY <2>2 DEF CheckDone
    <3>2. Off \in Status..Off /\ Off \notin 1..3
      OBVIOUS
    <3> QED BY <2>2, <3>1, <3>2, CheckSet
  <2> QED BY <1>4, <2>1, <2>2
<1> QED BY <1>1, <1>2, <1>3, <1>5, CheckAnswered

\* The token that the request carried is none only if one was refused.
LEMMA MeKeeps ==
    ASSUME Inv, NEW c \in Checks, MeAnswered(c) PROVE Inv'
<1>1. PICK a \in Outcomes : Judged(c, a) /\ Arrives(c, a) /\ MeDone(c, a)
  BY DEF MeAnswered
<1>2. check[c] \in 1..3 /\ UNCHANGED <<server, authEnabled, asked, socket, loads, loggedOut>>
  BY DEF MeAnswered
<1>3. c \in Callers /\ req[c].sent /\ req[c].token \in Tokens \cup {None}
  <2>1. c \in Callers /\ req[c].sent
    BY <1>1 DEF Callers, Arrives
  <2>2. req[c] \in Requests
    BY <2>1 DEF Inv, TypeOK
  <2> QED BY <2>1, <2>2 DEF Requests
<1>4. refused' = (refused \/ a = "invalid")
  BY <1>1 DEF Arrives
<1>5. a = "absent" => refused
  BY <1>1, <1>2, <1>3 DEF Judged, Inv, ChecksTrue
<1>6. \/ UNCHANGED <<token, stored>>
      \/ token' = None /\ stored' = None /\ refused'
  <2>1. CASE a = "ok" \/ ~DefinitiveFailure(a)
    BY <1>1, <2>1 DEF MeDone, session
  <2>2. CASE a # "ok" /\ DefinitiveFailure(a)
    <3>1. token' = None /\ stored' = None
      BY <1>1, <2>2 DEF MeDone, Expired, SetToken
    <3>2. refused'
      BY <1>4, <1>5, <2>2 DEF DefinitiveFailure, Unauthorized
    <3> QED BY <3>1, <3>2
  <2> QED BY <2>1, <2>2
<1>7. /\ check' \in [Checks -> Status..Off] /\ loading' \in BOOLEAN
      /\ user' \in Tokens \cup {None}
      /\ \A d \in Checks : d # c => check'[d] = check[d]
      /\ check'[c] \in 1..3 => check[c] \in 1..3 /\ UNCHANGED token
  <2>1. CASE CheckDone(c) /\ user' \in Tokens \cup {None}
    <3>1. check' = [check EXCEPT ![c] = Off] /\ loading' = FALSE
      BY <2>1 DEF CheckDone
    <3>2. Off \in Status..Off /\ Off \notin 1..3
      OBVIOUS
    <3> QED BY <2>1, <3>1, <3>2, CheckSet
  <2>2. CASE /\ CheckGoes(c, check[c] + 1) /\ UNCHANGED session
             /\ check[c] < MaxAttempts
    <3> DEFINE k == check[c] + 1
    <3>1. k \in Status..Off
      BY <1>2
    <3>2. check' = [check EXCEPT ![c] = k] /\ UNCHANGED loading
      BY <2>2 DEF CheckGoes
    <3>3. loading' \in BOOLEAN /\ user' \in Tokens \cup {None} /\ UNCHANGED token
      BY <2>2, <3>2 DEF session, Inv, TypeOK
    <3> HIDE DEF k
    <3>4. /\ check' \in [Checks -> Status..Off]
          /\ \A d \in Checks : d # c => check'[d] = check[d]
      BY <3>1, <3>2, CheckSet
    <3> QED BY <1>2, <3>3, <3>4
  <2> QED BY <1>1, <1>3, <2>1, <2>2 DEF MeDone, Expired
<1>8. authEnabled' \in BOOLEAN
  BY <1>2 DEF Inv, TypeOK
<1>9. CASE refused'
  <2>1. ChecksTrue' /\ SessionKept'
    BY <1>9 DEF ChecksTrue, SessionKept
  <2>2. TypeOK'
    BY <1>1, <1>2, <1>3, <1>6, <1>7, <1>8, ArrivesType
    DEF Inv, TypeOK, server, socket
  <2>3. LinksTrue'
    <3>1. c \notin Links /\ socket' = socket
      BY <1>2
    <3>2. \A p \in Links : req'[p].sent = req[p].sent
      BY <1>1, <1>3, <3>1, ArrivesType DEF Callers
    <3> QED BY <3>1, <3>2, LinksKept
  <2> QED BY <2>1, <2>2, <2>3 DEF Inv
<1>10. CASE ~refused'
  <2>1. token # None
    BY <1>2, <1>4, <1>10 DEF Inv, ChecksTrue
  <2> QED BY <1>1, <1>2, <1>6, <1>7, <1>8, <2>1, CheckAnswered
<1> QED BY <1>9, <1>10

\* A login.
LEMMA IssueKeeps ==
    ASSUME Inv, NEW t \in Tokens, Login(t) \/ LoginWithToken(t) PROVE Inv'
<1>1. /\ issued' = issued \cup {t} /\ live' = live \cup {t}
      /\ token' = t /\ stored' = t /\ loggedOut' = FALSE /\ t # None
      /\ UNCHANGED <<req, asked, socket, loads, failures, refused, loading>>
  BY DEF Login, LoginWithToken, Issue, SetToken
<1>2. user' \in Tokens \cup {None} /\ authEnabled' \in BOOLEAN
  BY DEF Login, LoginWithToken, Inv, TypeOK
<1>3. \/ UNCHANGED check
      \/ check["login"] = 4 /\ check' = [check EXCEPT !["login"] = 0]
  BY DEF Login, LoginWithToken
<1>4. check' \in [Checks -> Status..Off]
  BY <1>3 DEF Inv, TypeOK
<1>5. TypeOK'
  BY <1>1, <1>2, <1>4 DEF Inv, TypeOK, socket
<1>6. LinksTrue'
  BY <1>1, LinksKept
<1>7. \A c \in Checks : check'[c] \in 1..3 => check[c] \in 1..3
  BY <1>3 DEF Inv, TypeOK
<1>8. ChecksTrue'
  BY <1>1, <1>7 DEF Inv, ChecksTrue
<1>9. SessionKept'
  BY <1>1 DEF SessionKept
<1> QED BY <1>5, <1>6, <1>8, <1>9 DEF Inv

\* A load of the page, or a logout.
LEMMA FreshKeeps == ASSUME Inv, Load \/ Logout PROVE Inv'
<1>1. PICK t \in Tokens \cup {None} : Fresh(t) /\ (t = stored \/ loggedOut')
  BY DEF Load, Logout, Inv, TypeOK
<1>2. loggedOut' \in BOOLEAN /\ (loggedOut' \/ UNCHANGED loggedOut)
  BY DEF Load, Logout, Inv, TypeOK
<1>3. Idle \in Requests /\ ~Idle.sent
  BY DEF Idle, Requests
<1>4. /\ check' \in [Checks -> Status..Off]
      /\ \A c \in Checks : check'[c] \notin 1..3
  BY <1>1 DEF Fresh
<1>5. req' \in [Callers -> Requests] /\ \A p \in Links : ~req'[p].sent
  BY <1>1, <1>3 DEF Fresh, Callers
<1>6. TypeOK'
  <2>1. /\ link' \in [Links -> LinkStates]
        /\ ticket' \in [Links -> BOOLEAN] /\ disposed' \in [Links -> BOOLEAN]
    BY <1>1 DEF Fresh, LinkStates
  <2>2. loads \in Nat
    BY DEF Inv, TypeOK
  <2>3. loads' \in Nat
    BY <1>1, <2>2 DEF Fresh
  <2> QED BY <1>1, <1>2, <1>4, <1>5, <2>1, <2>3 DEF Fresh, Inv, TypeOK, server
<1>7. LinksTrue'
  <2>1. \A p \in Links :
            /\ link'[p] = IF link[p] = "unborn" THEN "unborn" ELSE "ended"
            /\ disposed'[p] = (link[p] # "unborn")
    BY <1>1 DEF Fresh
  <2>2. turnedAway' = turnedAway /\ turnedAway \subseteq Links
    BY <1>1 DEF Fresh, Inv, TypeOK
  <2> QED BY <1>5, <2>1, <2>2 DEF Inv, LinksTrue, Mounted
<1>8. ChecksTrue' /\ SessionKept'
  BY <1>1, <1>2, <1>4 DEF Fresh, Inv, ChecksTrue, SessionKept, server
<1> QED BY <1>6, <1>7, <1>8 DEF Inv

LEMMA ExpireKeeps == ASSUME Inv, NEW t \in Tokens, Expire(t) PROVE Inv'
<1>1. TypeOK'
  BY DEF Expire, Inv, TypeOK, auth, session, socket
<1> QED
  BY <1>1, LinksKept
  DEF Expire, Inv, ChecksTrue, SessionKept, auth, session, socket
-----------------------------------------------------------------------------
\* A step of the mount p, which may send a request or have one answered.
LEMMA LinkKeeps ==
    ASSUME Inv, NEW p \in Links, req' \in [Callers -> Requests],
           \A d \in Callers : d # p => req'[d] = req[d],
           UNCHANGED <<server, asked, loads, loggedOut, authEnabled, loading, check>>,
           \/ UNCHANGED session /\ refused' = refused
           \/ token' = None /\ stored' = None /\ user' = None /\ refused',
           failures' \in Nat, refused' \in BOOLEAN,
           ticket' \in [Links -> BOOLEAN], disposed' \in [Links -> BOOLEAN],
           link' \in [Links -> LinkStates], turnedAway' \subseteq Links,
           LinksTrue'
    PROVE  Inv'
<1>1. TypeOK'
  BY DEF Inv, TypeOK, server, session
<1>2. \A c \in Checks : c \in Callers /\ c # p
  BY DEF Callers
<1>3. ChecksTrue'
  BY <1>2 DEF Inv, ChecksTrue, session
<1>4. SessionKept'
  BY DEF Inv, SessionKept, session, server
<1> QED BY <1>1, <1>3, <1>4 DEF Inv

\* A step of p that neither sends nor receives, and changes no session.
LEMMA QuietKeeps ==
    ASSUME Inv, NEW p \in Links,
           UNCHANGED <<server, auth, req, asked, loads, loggedOut, refused, ticket>>,
           failures' \in Nat, disposed' \in [Links -> BOOLEAN],
           link' \in [Links -> LinkStates], turnedAway' \subseteq Links,
           LinksTrue'
    PROVE  Inv'
<1>1. /\ req' \in [Callers -> Requests] /\ refused' \in BOOLEAN
      /\ ticket' \in [Links -> BOOLEAN]
  BY DEF Inv, TypeOK
<1> QED BY <1>1, LinkKeeps DEF auth

LEMMA ToType ==
    ASSUME Inv, NEW p \in Links, NEW s \in LinkStates, To(p, s)
    PROVE  /\ link' \in [Links -> LinkStates] /\ link'[p] = s
           /\ \A q \in Links : q # p => link'[q] = link[q]
BY DEF Inv, TypeOK, To

LEMMA LoseType ==
    ASSUME Inv, Lose \/ UNCHANGED failures PROVE failures' \in Nat
<1>1. failures \in Nat
  BY DEF Inv, TypeOK
<1> QED BY <1>1 DEF Lose

LEMMA ConnectKeeps ==
    ASSUME Inv, NEW p \in Links, Mount(p) \/ Timer(p) PROVE Inv'
<1>1. Connect(p) /\ p \in Callers
  BY DEF Mount, Timer, Callers
<1>2. Send(p) /\ To(p, "minting")
  BY <1>1 DEF Connect
<1>3. /\ UNCHANGED <<ticket, disposed, turnedAway, auth, failures, refused>>
      /\ UNCHANGED <<server, asked, loads, loggedOut>>
  BY <1>1 DEF Connect, Elsewhere
<1>4. /\ req' \in [Callers -> Requests] /\ req'[p].sent
      /\ \A d \in Callers : d # p => req'[d] = req[d]
  BY <1>1, <1>2, SendType
<1>5. "minting" \in LinkStates
  BY DEF LinkStates
<1>6. /\ link' \in [Links -> LinkStates] /\ link'[p] = "minting"
      /\ \A q \in Links : q # p => link'[q] = link[q]
  BY <1>2, <1>5, ToType
<1>7. p \notin turnedAway /\ (p \in Mounted \/ Mounted = {})
  <2>1. link[p] # "ended"
    BY DEF Mount, Timer, Born
  <2>2. link[p] = "waiting" => p \in Mounted
    BY DEF Inv, LinksTrue, Mounted
  <2> QED BY <2>1, <2>2 DEF Mount, Timer, Inv, LinksTrue
<1>8. LinksTrue'
  <2>1. \A q \in Links : req'[q].sent <=> link'[q] = "minting"
    BY <1>4, <1>6 DEF Callers, Inv, LinksTrue
  <2>2. Mounted' \subseteq Mounted \cup {p}
    BY <1>3, <1>6 DEF Mounted
  <2>3. \A q \in Links : disposed'[q] => link'[q] \in {"minting", "ended"}
    BY <1>3, <1>6 DEF Inv, LinksTrue
  <2>4. \A q, r \in Mounted' : q = r
    BY <1>7, <2>2 DEF Inv, LinksTrue
  <2>5. \A q \in turnedAway' : link'[q] = "ended"
    <3>1. turnedAway' = turnedAway /\ turnedAway \subseteq Links
      BY <1>3 DEF Inv, TypeOK
    <3> QED BY <1>6, <1>7, <3>1 DEF Inv, LinksTrue
  <2> QED BY <2>1, <2>3, <2>4, <2>5 DEF LinksTrue
<1>9. /\ failures' \in Nat /\ refused' \in BOOLEAN /\ ticket' \in [Links -> BOOLEAN]
      /\ disposed' \in [Links -> BOOLEAN] /\ turnedAway' \subseteq Links
  BY <1>3 DEF Inv, TypeOK
<1> QED BY <1>3, <1>4, <1>6, <1>8, <1>9, LinkKeeps DEF auth

LEMMA UnmountKeeps == ASSUME Inv, NEW p \in Links, Unmount(p) PROVE Inv'
<1>1. /\ p \in Mounted /\ disposed' = [disposed EXCEPT ![p] = TRUE]
      /\ UNCHANGED <<ticket, turnedAway, auth, req, failures, refused>>
      /\ UNCHANGED <<server, asked, loads, loggedOut>>
  BY DEF Unmount, Elsewhere
<1>2. /\ link' \in [Links -> LinkStates]
      /\ \A q \in Links : q # p => link'[q] = link[q]
      /\ \/ link[p] = "minting" /\ link'[p] = "minting"
         \/ link[p] # "minting" /\ link'[p] = "ended"
  <2>1. CASE link[p] = "minting"
    BY <2>1 DEF Unmount, Inv, TypeOK
  <2>2. CASE link[p] # "minting"
    <3>1. To(p, "ended") /\ "ended" \in LinkStates
      BY <2>2 DEF Unmount, LinkStates
    <3> QED BY <2>2, <3>1, ToType
  <2> QED BY <2>1, <2>2
<1>3. disposed' \in [Links -> BOOLEAN] /\ disposed'[p]
      /\ \A q \in Links : q # p => disposed'[q] = disposed[q]
  BY <1>1 DEF Inv, TypeOK
<1>4. LinksTrue'
  <2>1. Mounted' \subseteq Mounted
    BY <1>2, <1>3 DEF Mounted
  <2>2. \A q \in Links : req'[q].sent <=> link'[q] = "minting"
    BY <1>1, <1>2 DEF Inv, LinksTrue
  <2>3. \A q \in Links : disposed'[q] => link'[q] \in {"minting", "ended"}
    BY <1>2, <1>3 DEF Inv, LinksTrue
  <2>4. \A q \in turnedAway' : link'[q] = "ended"
    <3>1. turnedAway' = turnedAway /\ turnedAway \subseteq Links
      BY <1>1 DEF Inv, TypeOK
    <3> QED BY <1>2, <3>1 DEF Inv, LinksTrue
  <2> QED BY <2>1, <2>2, <2>3, <2>4 DEF Inv, LinksTrue
<1>5. failures' \in Nat /\ turnedAway' \subseteq Links
  BY <1>1 DEF Inv, TypeOK
<1> QED BY <1>1, <1>2, <1>3, <1>4, <1>5, QuietKeeps

LEMMA MintedKeeps == ASSUME Inv, NEW p \in Links, Minted(p) PROVE Inv'
<1>1. PICK a \in Outcomes :
        /\ Arrives(p, a) /\ RequestFails(a)
        /\ IF Terminal(a) \/ Gone(p) THEN To(p, "ended") ELSE To(p, "handshake")
        /\ ticket' = [ticket EXCEPT ![p] = (a = "ok" /\ link'[p] = "handshake")]
        /\ turnedAway' = IF a \in Unauthorized \cup {"forbidden"}
                         THEN turnedAway \cup {p} ELSE turnedAway
  BY DEF Minted
<1>2. /\ link[p] = "minting" /\ UNCHANGED <<disposed, authEnabled, loading, check>>
      /\ UNCHANGED <<server, asked, loads, loggedOut>>
  BY DEF Minted, Elsewhere
<1>3. /\ p \in Callers /\ req' \in [Callers -> Requests] /\ ~req'[p].sent
      /\ \A d \in Callers : d # p => req'[d] = req[d]
      /\ failures' \in Nat /\ refused' \in BOOLEAN
      /\ refused' = (refused \/ a = "invalid")
  BY <1>1, ArrivesType DEF Callers
<1>4. "ended" \in LinkStates /\ "handshake" \in LinkStates
  BY DEF LinkStates
<1>5. /\ link' \in [Links -> LinkStates]
      /\ \A q \in Links : q # p => link'[q] = link[q]
      /\ \/ link'[p] = "ended"
         \/ link'[p] = "handshake" /\ ~disposed[p] /\ ~Terminal(a)
  BY <1>1, <1>4, ToType DEF Gone
<1>6. ticket' \in [Links -> BOOLEAN]
  BY <1>1 DEF Inv, TypeOK
<1>7. turnedAway' \subseteq turnedAway \cup {p} /\ (link'[p] # "ended" => turnedAway' = turnedAway)
  BY <1>1, <1>5 DEF Terminal
<1>8. p \notin turnedAway
  BY <1>2 DEF Inv, LinksTrue
<1>9. LinksTrue'
  <2>1. \A q \in Links : req'[q].sent <=> link'[q] = "minting"
    BY <1>3, <1>5 DEF Callers, Inv, LinksTrue
  <2>2. Mounted' \subseteq Mounted
    BY <1>2, <1>5 DEF Mounted
  <2>3. \A q \in Links : disposed'[q] => link'[q] \in {"minting", "ended"}
    BY <1>2, <1>5 DEF Inv, LinksTrue
  <2>4. turnedAway \subseteq Links
    BY DEF Inv, TypeOK
  <2>5. ASSUME NEW q \in turnedAway' PROVE link'[q] = "ended"
    <3>1. CASE q = p
      BY <1>5, <1>7, <1>8, <3>1
    <3>2. CASE q # p
      BY <1>5, <1>7, <2>4, <3>2 DEF Inv, LinksTrue
    <3> QED BY <3>1, <3>2
  <2> QED BY <2>1, <2>2, <2>3, <2>5 DEF Inv, LinksTrue
<1>10. \/ UNCHANGED session /\ refused' = refused
       \/ token' = None /\ stored' = None /\ user' = None /\ refused'
  BY <1>1, <1>3 DEF RequestFails, Expired, SetToken, Inv, TypeOK
<1>11. disposed' \in [Links -> BOOLEAN] /\ turnedAway' \subseteq Links
  BY <1>2, <1>7 DEF Inv, TypeOK
<1> QED BY <1>2, <1>3, <1>5, <1>6, <1>9, <1>10, <1>11, LinkKeeps

\* The end of a handshake or of a socket.
LEMMA CloseKeeps ==
    ASSUME Inv, NEW p \in Links, Accept(p) \/ Reject(p) \/ Drop(p) PROVE Inv'
<1>1. /\ UNCHANGED <<ticket, disposed, auth, req, refused>>
      /\ UNCHANGED <<server, asked, loads, loggedOut>>
      /\ link[p] \in {"handshake", "open"}
  BY DEF Accept, Reject, Drop, Close, Elsewhere
<1>2. failures' \in Nat
  BY LoseType DEF Accept, Reject, Drop
<1>3. /\ link' \in [Links -> LinkStates]
      /\ \A q \in Links : q # p => link'[q] = link[q]
      /\ link'[p] \in {"open", "waiting", "ended"}
      /\ turnedAway' \subseteq turnedAway \cup {p}
      /\ link'[p] # "ended" => turnedAway' = turnedAway
  <2>1. CASE Accept(p)
    <3>1. To(p, "open") /\ "open" \in LinkStates
      BY <2>1 DEF Accept, LinkStates
    <3> QED BY <2>1, <3>1, ToType DEF Accept
  <2>2. CASE ~Accept(p)
    <3>1. PICK code \in {1006, 4401} : Close(p, code)
      BY <2>2 DEF Reject, Drop
    <3>2. AfterClose(p, code) \in LinkStates \cap {"waiting", "ended"}
      BY DEF AfterClose, LinkStates
    <3>3. To(p, AfterClose(p, code))
      BY <3>1 DEF Close
    <3>4. /\ link' \in [Links -> LinkStates] /\ link'[p] = AfterClose(p, code)
          /\ \A q \in Links : q # p => link'[q] = link[q]
      BY <3>2, <3>3, ToType
    <3>5. /\ turnedAway' \subseteq turnedAway \cup {p}
          /\ AfterClose(p, code) # "ended" => turnedAway' = turnedAway
      BY <3>1 DEF Close, AfterClose
    <3> QED BY <3>2, <3>4, <3>5
  <2> QED BY <2>1, <2>2
<1>4. p \notin turnedAway /\ turnedAway \subseteq Links
  BY <1>1 DEF Inv, LinksTrue, TypeOK
<1>5. LinksTrue'
  <2>1. \A q \in Links : req'[q].sent <=> link'[q] = "minting"
    BY <1>1, <1>3 DEF Inv, LinksTrue
  <2>2. Mounted' \subseteq Mounted
    BY <1>1, <1>3 DEF Mounted
  <2>3. \A q \in Links : disposed'[q] => link'[q] \in {"minting", "ended"}
    BY <1>1, <1>3 DEF Inv, LinksTrue
  <2>4. ASSUME NEW q \in turnedAway' PROVE link'[q] = "ended"
    <3>1. CASE q = p
      BY <1>3, <1>4, <3>1
    <3>2. CASE q # p
      BY <1>3, <1>4, <3>2 DEF Inv, LinksTrue
    <3> QED BY <3>1, <3>2
  <2> QED BY <2>1, <2>2, <2>3, <2>4 DEF Inv, LinksTrue
<1>6. disposed' \in [Links -> BOOLEAN] /\ turnedAway' \subseteq Links
  BY <1>1, <1>3, <1>4 DEF Inv, TypeOK
<1> QED BY <1>1, <1>2, <1>3, <1>5, <1>6, QuietKeeps
-----------------------------------------------------------------------------
LEMMA Inductive == Inv /\ [Next]_vars => Inv'
<1> SUFFICES ASSUME Inv, [Next]_vars PROVE Inv'
  OBVIOUS
<1>1. ASSUME NEW c \in Checks, CheckStep(c) PROVE Inv'
  BY <1>1, CheckSendsKeeps, StatusKeeps, MeKeeps DEF CheckStep
<1>2. CASE PageAsks \/ PageRefused
  BY <1>2, PageKeeps
<1>3. ASSUME NEW t \in Tokens, Login(t) \/ LoginWithToken(t) \/ Expire(t)
      PROVE  Inv'
  BY <1>3, IssueKeeps, ExpireKeeps
<1>4. CASE Load \/ Logout
  BY <1>4, FreshKeeps
<1>5. ASSUME NEW p \in Links, Mount(p) \/ Unmount(p) \/ LinkStep(p) \/ Drop(p)
      PROVE  Inv'
  BY <1>5, ConnectKeeps, UnmountKeeps, MintedKeeps, CloseKeeps DEF LinkStep
<1>6. CASE UNCHANGED vars
  <2>1. TypeOK' /\ ChecksTrue' /\ SessionKept'
    BY <1>6
    DEF vars, Inv, TypeOK, ChecksTrue, SessionKept, server, auth, session, socket
  <2> QED BY <1>6, <2>1, LinksKept DEF Inv, vars
<1> QED BY <1>1, <1>2, <1>3, <1>4, <1>5, <1>6 DEF Next

LEMMA Invariant == Spec => []Inv
BY InitInv, Inductive, PTL DEF Spec

\* Whatever requests, handshakes and sockets are lost, a session that the
\* server has not refused and the user has not ended stays in the tab and in
\* the storage that a reload recovers it from (checkAuthStatus).
THEOREM SessionSurvives == Spec => []SessionKept
<1>1. Inv => SessionKept
  BY DEF Inv
<1> QED BY <1>1, Invariant, PTL

\* There is never more than one socket, and none without its provider, however
\* often providers come and go while a ws-token is awaited (connect).
THEOREM SocketsOwned == Spec => []SocketOwned
<1>1. Inv => SocketOwned
  BY LinksSafe
<1> QED BY <1>1, Invariant, PTL

\* A mount that was refused asks for nothing more (connect, onclose).
THEOREM NoLoops == Spec => []NoLoop
<1>1. Inv => NoLoop
  BY LinksSafe
<1> QED BY <1>1, Invariant, PTL
=============================================================================
