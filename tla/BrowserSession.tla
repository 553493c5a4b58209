--------------------------- MODULE BrowserSession ---------------------------
(***************************************************************************)
(* A browser's login session and its live connection: the token and the    *)
(* answers of the API client (api/client.ts), the session that AuthContext *)
(* restores and ends (contexts/AuthContext.tsx), and the socket of each    *)
(* mounted useWebSocket (hooks/useWebSocket.ts), against a server with     *)
(* authentication enabled.  Every request is an await: what it carried may *)
(* be stale when it is answered, and its caller unmounted.                 *)
(***************************************************************************)
EXTENDS Naturals

CONSTANTS
    Tokens,        \* one for each login
    Links,         \* mounts of useWebSocket, over all page loads
    MaxLoads,      \* bound: reloads of the page
    MaxFailures,   \* bound: requests, handshakes and sockets lost
    None

Checks == {"mount", "login"}      \* callers of checkAuthStatus
Callers == Checks \cup Links
MaxAttempts == 3
Status == 0                       \* checkAuthStatus awaits getAuthStatus,
Off == MaxAttempts + 1            \* or is not running
Idle == [sent |-> FALSE, token |-> None, valid |-> FALSE]
Requests == [sent : BOOLEAN, token : Tokens \cup {None}, valid : BOOLEAN]
LinkStates == {"unborn", "minting", "handshake", "open", "waiting", "ended"}
Outcomes == {"ok", "invalid", "absent", "forbidden", "down"}

ASSUME ConstAssumption ==
    None \notin Tokens /\ Links \cap Checks = {}

VARIABLES
    live, issued,        \* tokens the server accepts, and those it has given out
    token, stored,       \* authToken and its copy in the browser's storage
    user,                \* whose session is shown, by its token
    authEnabled, loading,
    check,               \* per caller Status, the attempt at /auth/me, or Off
    req,                 \* per caller its request under way
    asked,               \* tokens that requests of the page have carried
    link,                \* per mount its LinkStates
    ticket,              \* the ws-token its handshake carries, FALSE for none
    disposed,            \* disposedRef
    loads, failures,
    refused,             \* history: some token was refused
    loggedOut,           \* history: the user has logged out
    turnedAway           \* history: mounts that were refused a socket for good

server == <<live, issued>>
session == <<token, stored, user>>
auth == <<session, authEnabled, loading, check>>
socket == <<link, ticket, disposed, turnedAway>>
vars == <<server, auth, req, asked, socket, loads, failures, refused, loggedOut>>

\* ProtectedRoute renders the tree that mounts WebSocketProvider.
Protected == ~loading /\ (~authEnabled \/ user # None)
Mounted == {p \in Links : link[p] # "unborn" /\ ~disposed[p]}
-----------------------------------------------------------------------------
(* Requests.                                                                *)

Send(c) == req' = [req EXCEPT ![c] =
                      [sent |-> TRUE, token |-> token, valid |-> token \in live]]
Lose == failures < MaxFailures /\ failures' = failures + 1

\* What a request can be answered that carried a token: the server looked at
\* it between the sending and now, or could not be reached.
Judged(c, a) ==
    CASE a = "ok" -> req[c].valid
      [] a = "forbidden" -> req[c].valid /\ c \in Links
      [] a = "absent" -> req[c].token = None
      [] a = "invalid" -> req[c].token \notin live \cup {None}
      [] a = "down" -> TRUE

\* The answer a arrives, or the news that there is none.
Arrives(c, a) ==
    /\ req[c].sent /\ req' = [req EXCEPT ![c] = Idle]
    /\ IF a = "down" THEN Lose ELSE UNCHANGED failures
    /\ refused' = (refused \/ a = "invalid")

Unauthorized == {"invalid", "absent"}
SetToken(t) == token' = t /\ stored' = t

\* request(): a token that is refused is discarded, whichever it now is, and
\* auth:expired ends the session.
Expired == SetToken(None) /\ user' = None
RequestFails(a) ==
    IF a = "invalid" THEN Expired ELSE UNCHANGED session

\* The pages send many requests at once, and any of them may be late.
PageAsks ==
    /\ Protected /\ token # None /\ token \notin asked
    /\ asked' = asked \cup {token}
    /\ UNCHANGED <<server, auth, req, socket, loads, failures, refused, loggedOut>>

PageRefused ==
    /\ asked \ live # {} /\ Expired /\ refused' = TRUE
    /\ UNCHANGED <<server, authEnabled, loading, check, req, asked, socket, loads,
                   failures, loggedOut>>
-----------------------------------------------------------------------------
(* The session.                                                             *)

CheckSends(c) ==
    /\ check[c] # Off /\ ~req[c].sent /\ Send(c)
    /\ UNCHANGED <<server, auth, asked, socket, loads, failures, refused, loggedOut>>

CheckDone(c) == check' = [check EXCEPT ![c] = Off] /\ loading' = FALSE
CheckGoes(c, k) == check' = [check EXCEPT ![c] = k] /\ UNCHANGED loading

\* checkAuthStatus, after getAuthStatus: if that failed, authentication is
\* taken to be disabled.
StatusAnswered(c) ==
    /\ check[c] = Status
    /\ \E a \in {"ok", "down"} : Arrives(c, a) /\ authEnabled' = (a = "ok")
    /\ IF authEnabled' /\ token # None
       THEN CheckGoes(c, 1) /\ UNCHANGED session
       ELSE CheckDone(c) /\ user' = None /\ UNCHANGED <<token, stored>>
    /\ UNCHANGED <<server, asked, socket, loads, loggedOut>>

\* mutant: any failure of /auth/me discards the token
AnyFailure(a) == a # "ok"
\* An answer that ends the session for good.
DefinitiveFailure(a) == a \in Unauthorized

\* What the answer to getCurrentUser does to the session.
MeDone(c, a) ==
    \/ /\ a = "ok" /\ CheckDone(c)
       /\ user' = req[c].token /\ UNCHANGED <<token, stored>>
    \/ a # "ok" /\ DefinitiveFailure(a) /\ CheckDone(c) /\ Expired
    \/ /\ a # "ok" /\ ~DefinitiveFailure(a)
       /\ IF check[c] < MaxAttempts
          THEN CheckGoes(c, check[c] + 1) /\ UNCHANGED session
          ELSE CheckDone(c) /\ user' = None /\ UNCHANGED <<token, stored>>

\* checkAuthStatus, after getCurrentUser
MeAnswered(c) ==
    /\ check[c] \in 1..MaxAttempts
    /\ \E a \in Outcomes :
       /\ Judged(c, a) /\ Arrives(c, a)
       /\ MeDone(c, a)
    /\ UNCHANGED <<server, authEnabled, asked, socket, loads, loggedOut>>

\* Logins and mounts are told apart by their order alone.
Following(S, taken) == CHOOSE x \in S : x \notin taken

Issue(t) ==
    /\ t \notin issued /\ t = Following(Tokens, issued)
    /\ issued' = issued \cup {t} /\ live' = live \cup {t}
    /\ SetToken(t) /\ loggedOut' = FALSE

\* login: the login page is shown to whoever has no session.
Login(t) ==
    /\ user = None /\ check["login"] = Off /\ Issue(t)
    /\ check' = [check EXCEPT !["login"] = Status]
    /\ UNCHANGED <<user, authEnabled, loading, req, asked, socket, loads, failures, refused>>

\* loginWithToken, after 2FA or OIDC
LoginWithToken(t) ==
    /\ user = None /\ Issue(t)
    /\ user' = t /\ authEnabled' = TRUE
    /\ UNCHANGED <<loading, check, req, asked, socket, loads, failures, refused>>

\* A fresh page: all state but the stored token is gone, and so are the
\* requests under way.
Fresh(t) ==
    /\ loads < MaxLoads /\ loads' = loads + 1
    /\ token' = t /\ stored' = t /\ user' = None
    /\ authEnabled' = FALSE /\ loading' = TRUE
    /\ check' = [c \in Checks |-> IF c = "mount" THEN Status ELSE Off]
    /\ req' = [c \in Callers |-> Idle] /\ asked' = {}
    /\ link' = [p \in Links |-> IF link[p] = "unborn" THEN "unborn" ELSE "ended"]
    /\ disposed' = [p \in Links |-> link[p] # "unborn"]
    /\ ticket' = [p \in Links |-> FALSE]
    /\ UNCHANGED <<server, failures, refused, turnedAway>>

Load == Fresh(stored) /\ UNCHANGED loggedOut

\* logout discards the token, so the request that follows carries none, and
\* goes to /login by a load of the page.
Logout == user # None /\ Fresh(None) /\ loggedOut' = TRUE

\* The server stops accepting a token.
Expire(t) ==
    /\ t \in live /\ live' = live \ {t}
    /\ UNCHANGED <<issued, auth, req, asked, socket, loads, failures, refused, loggedOut>>
-----------------------------------------------------------------------------
(* The socket.                                                              *)

Elsewhere == UNCHANGED <<server, asked, loads, loggedOut>>
To(p, s) == link' = [link EXCEPT ![p] = s]

\* connect: from the mount effect or from the reconnect timer
Connect(p) ==
    /\ To(p, "minting") /\ Send(p)
    /\ UNCHANGED <<ticket, disposed, turnedAway, auth, failures, refused>> /\ Elsewhere

Born == {p \in Links : link[p] # "unborn"}
Mount(p) ==
    /\ Protected /\ Mounted = {} /\ p \notin Born /\ p = Following(Links, Born)
    /\ Connect(p)
Timer(p) == link[p] = "waiting" /\ Connect(p)

\* The cleanup: the timer is cleared and the socket closed; a connect that
\* awaits its ws-token goes on.
Unmount(p) ==
    /\ p \in Mounted
    /\ disposed' = [disposed EXCEPT ![p] = TRUE]
    /\ IF link[p] = "minting" THEN UNCHANGED link ELSE To(p, "ended")
    /\ UNCHANGED <<ticket, turnedAway, auth, req, failures, refused>> /\ Elsewhere

\* mutants: the provider is looked at before the await only; a refused mint
\* falls through to a socket without a token
GoneBefore(p) == FALSE
NothingTerminal(a) == FALSE
\* connect, after the await
Gone(p) == disposed[p]
Terminal(a) == a \in Unauthorized \cup {"forbidden"}

Minted(p) ==
    /\ link[p] = "minting"
    /\ \E a \in Outcomes :
        /\ Judged(p, a) /\ Arrives(p, a) /\ RequestFails(a)
        /\ IF Terminal(a) \/ Gone(p) THEN To(p, "ended") ELSE To(p, "handshake")
        /\ ticket' = [ticket EXCEPT ![p] = (a = "ok" /\ link'[p] = "handshake")]
        /\ turnedAway' = IF a \in Unauthorized \cup {"forbidden"}
                         THEN turnedAway \cup {p} ELSE turnedAway
    /\ UNCHANGED <<disposed, authEnabled, loading, check>> /\ Elsewhere

Accept(p) ==
    /\ link[p] = "handshake" /\ ticket[p] /\ To(p, "open")
    /\ UNCHANGED <<ticket, disposed, turnedAway, auth, req, failures, refused>>
    /\ Elsewhere

\* mutant: a socket that was never open is not tried again
AfterDropOfOpen(p, code) == IF code = 4401 \/ link[p] # "open" THEN "ended" ELSE "waiting"
\* onclose
AfterClose(p, code) == IF code = 4401 THEN "ended" ELSE "waiting"

Close(p, code) ==
    /\ To(p, AfterClose(p, code))
    /\ turnedAway' = IF code = 4401 THEN turnedAway \cup {p} ELSE turnedAway
    /\ UNCHANGED <<ticket, disposed, auth, req, refused>> /\ Elsewhere

\* The server refuses the handshake, with 4401; a close that precedes the
\* accept may reach the browser as 1006, like a network drop.
Reject(p) ==
    /\ link[p] = "handshake"
    /\ IF ticket[p] THEN Lose ELSE UNCHANGED failures
    /\ \E code \in {1006, 4401} : Close(p, code)

Drop(p) == link[p] \in {"handshake", "open"} /\ Lose /\ Close(p, 1006)
-----------------------------------------------------------------------------
Init ==
    /\ live = {} /\ issued = {} /\ token = None /\ stored = None /\ user = None
    /\ authEnabled = FALSE /\ loading = TRUE
    /\ check = [c \in Checks |-> IF c = "mount" THEN Status ELSE Off]
    /\ req = [c \in Callers |-> Idle] /\ asked = {}
    /\ link = [p \in Links |-> "unborn"] /\ ticket = [p \in Links |-> FALSE]
    /\ disposed = [p \in Links |-> FALSE]
    /\ loads = 0 /\ failures = 0 /\ refused = FALSE /\ loggedOut = FALSE
    /\ turnedAway = {}

CheckStep(c) == CheckSends(c) \/ StatusAnswered(c) \/ MeAnswered(c)
LinkStep(p) == Minted(p) \/ Accept(p) \/ Reject(p) \/ Timer(p)

Next ==
    \/ \E c \in Checks : CheckStep(c)
    \/ PageAsks \/ PageRefused
    \/ \E t \in Tokens : Login(t) \/ LoginWithToken(t) \/ Expire(t)
    \/ Load \/ Logout
    \/ \E p \in Links : Mount(p) \/ Unmount(p) \/ LinkStep(p) \/ Drop(p)

\* A request is answered or fails, a handshake ends, a timer fires.
Fairness == \A p \in Links : WF_vars(LinkStep(p))

Spec == Init /\ [][Next]_vars /\ Fairness
-----------------------------------------------------------------------------
(* Properties.                                                              *)

TypeOK ==
    /\ live \subseteq issued /\ issued \subseteq Tokens
    /\ token \in Tokens \cup {None} /\ stored \in Tokens \cup {None}
    /\ user \in Tokens \cup {None}
    /\ authEnabled \in BOOLEAN /\ loading \in BOOLEAN
    /\ check \in [Checks -> Status..Off]
    /\ req \in [Callers -> Requests]
    /\ asked \subseteq Tokens
    /\ link \in [Links -> LinkStates]
    /\ ticket \in [Links -> BOOLEAN] /\ disposed \in [Links -> BOOLEAN]
    /\ loads \in Nat /\ failures \in Nat /\ refused \in BOOLEAN
    /\ loggedOut \in BOOLEAN /\ turnedAway \subseteq Links

\* A provider that is gone leaves no socket and no reconnect timer behind,
\* though it may have been unmounted while it awaited its ws-token; so there is
\* never more than one socket (connect, the cleanup of its effect).
Alive == {p \in Links : link[p] \in {"handshake", "open", "waiting"}}
SocketOwned == Alive \subseteq Mounted /\ \A p, q \in Alive : p = q

\* As long as the server has refused no token and the user has not logged
\* out, a session is not lost, whatever else fails: the token stays in the tab
\* and in the storage that a reload recovers it from (checkAuthStatus, #1889).
SessionKept ==
    issued # {} /\ ~refused /\ ~loggedOut => token \in issued /\ stored = token

\* A mount that was refused its ws-token, or closed with 4401, asks for nothing
\* more: no loop on /auth/ws-token (connect, onclose).
NoLoop == \A p \in turnedAway : link[p] = "ended" /\ ~req[p].sent

\* A mounted provider that is not refused is connected in the end: no lost
\* request, handshake or socket breaks the chain of its reconnects.
Reconnects ==
    \A p \in Links :
        (p \in Mounted) ~> (link[p] = "open" \/ p \notin Mounted \/ p \in turnedAway)
=============================================================================
