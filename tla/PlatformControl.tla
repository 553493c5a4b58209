--------------------------- MODULE PlatformControl ---------------------------
(***************************************************************************)
(* Job control (pause, resume, cancel) of one Moonraker source: the        *)
(* requests and the ledger that makes them idempotent                      *)
(* (_dispatch_platform_control), the manager's live session                 *)
(* (MoonrakerManager.enable, disable, dispatch_command), the routes that    *)
(* configure the source, and a restart.  A request is cut into actions at   *)
(* its awaits.  The Elegoo manager has the same shape and the same ledger.  *)
(***************************************************************************)
EXTENDS Integers, FiniteSets

CONSTANTS
  Requests,      \* HTTP requests, each handled by a task of its own
  Keys,          \* idempotency keys
  Ops,           \* the operations users ask for
  Users,         \* requested_by
  MaxRev,        \* bound on configuration_revision
  MaxEpoch,      \* bound on the number of live sessions
  Faults         \* what may go wrong in this instance

ASSUME ConstAssumption ==
  /\ Ops \subseteq {"pause", "resume", "cancel"}
  /\ MaxRev \in Nat \ {0} /\ MaxEpoch \in Nat \ {0}
  /\ Faults \subseteq {"crash", "db", "http", "link", "panel"}

VARIABLES
  \* table platform_control_commands: status of the row of a key ("none": no
  \* row), and the command the row was made for
  row, bound,
  \* requests: where the handler stands, what it was asked, the session it uses
  at, ask, mine,
  \* the manager's session of the source ("none", "down": no connection, "up"),
  \* its revision and control gate, and the last fresh status it has received
  live, liveRev, liveGrant, epoch, seen,
  \* the source row, and how far a route that changes it has come
  enabled, revision, granted, route,
  \* the printer's job
  job,
  \* history: POSTs issued under a key
  sent

ledgerVars  == <<row, bound>>
requestVars == <<at, ask, mine>>
sessionVars == <<live, liveRev, liveGrant, epoch, seen>>
sourceVars  == <<enabled, revision, granted, route>>
vars == <<ledgerVars, requestVars, sessionVars, sourceVars, job, sent>>

\* states that the contracts read alike are one: finished, error and cancelled
\* are "idle"
JobStates == {"idle", "printing", "paused"}
Commands == [key : Keys, op : Ops, by : Users, rev : 1..MaxRev]
NoCommand == [op |-> "none"]
Open == {"queued", "dispatching"}
Settled == {"acknowledged", "failed"}

\* "insert": the key was not in the ledger; "check", "lock", "posting",
\* "confirm": inside dispatch_command; "good", "bad": its outcome
Working == {"queued", "check", "lock", "posting", "confirm", "good", "bad"}
Over == {"rejected", "conflict", "answered", "gone"}
Stages == {"new", "insert"} \cup Working \cup Over

Init ==
  /\ row = [k \in Keys |-> "none"]
  /\ bound = [k \in Keys |-> NoCommand]
  /\ at = [r \in Requests |-> "new"]
  /\ ask = [r \in Requests |-> NoCommand]
  /\ mine = [r \in Requests |-> 0]
  /\ live = "none" /\ liveRev = 1 /\ liveGrant = FALSE /\ epoch = 0 /\ seen = "none"
  /\ enabled = FALSE /\ revision = 1 /\ granted = FALSE /\ route = "idle"
  /\ job \in JobStates
  /\ sent = [k \in Keys |-> 0]
-----------------------------------------------------------------------------
(* Operations and job states.                                               *)

\* control_operation_is_available in an observed state
Available(op, s) ==
  \/ op = "pause" /\ s = "printing"
  \/ op = "resume" /\ s = "paused"
  \/ op = "cancel" /\ s \in {"printing", "paused"}

\* observation_satisfies_reconciliation
Reached(op, s) ==
  \/ op = "pause" /\ s = "paused"
  \/ op = "resume" /\ s = "printing"
  \/ op = "cancel" /\ s = "idle"

\* what the printer does with an operation that applies to its job
Effect(op, s) ==
  IF ~Available(op, s) THEN s
  ELSE CHOOSE t \in JobStates : Reached(op, t)

Go(r, stage) == at' = [at EXCEPT ![r] = stage]
Key(r) == ask[r].key
-----------------------------------------------------------------------------
(* A request: _dispatch_platform_control.                                   *)

\* (wrong) the key alone identifies a command
SameKey(c) == bound[c.key].key = c.key

\* _same_platform_control_request
Same(c) == bound[c.key] = c

\* the answer when the key has a row
Replay(r, c) == Go(r, IF Same(c) THEN "answered" ELSE "conflict")

\* the route reads the source, then the ledger
Receive(r, k, op, u) ==
  /\ at[r] = "new"
  /\ IF ~granted
     THEN Go(r, "rejected") /\ UNCHANGED ask
     ELSE LET c == [key |-> k, op |-> op, by |-> u, rev |-> revision]
          IN  /\ ask' = [ask EXCEPT ![r] = c]
              /\ IF row[k] = "none" THEN Go(r, "insert") ELSE Replay(r, c)
  /\ UNCHANGED <<ledgerVars, mine, sessionVars, sourceVars, job, sent>>

\* (wrong) the key is not UNIQUE: a second request writes its own row
InsertAnyway(r) == TRUE

\* the UNIQUE key lets one of two concurrent inserts through
KeyFree(r) == row[Key(r)] = "none"

Insert(r) ==
  /\ at[r] = "insert"
  /\ IF KeyFree(r)
     THEN /\ row' = [row EXCEPT ![Key(r)] = "queued"]
          /\ bound' = [bound EXCEPT ![Key(r)] = ask[r]]
          /\ Go(r, "queued")
     ELSE Replay(r, ask[r]) /\ UNCHANGED ledgerVars
  /\ UNCHANGED <<ask, mine, sessionVars, sourceVars, job, sent>>

\* (wrong) the command goes out before the ledger says so
NotYetWritten(r) == UNCHANGED row

RowDispatching(r) == row' = [row EXCEPT ![Key(r)] = "dispatching"]

MarkDispatching(r) ==
  /\ at[r] = "queued"
  /\ RowDispatching(r)
  /\ Go(r, "check")
  /\ UNCHANGED <<bound, ask, mine, sessionVars, sourceVars, job, sent>>

\* a commit of the handler fails: the request ends in an error
CommitFails(r) ==
  /\ "db" \in Faults /\ at[r] \in {"insert", "queued", "good", "bad"}
  /\ Go(r, "gone")
  /\ UNCHANGED <<ledgerVars, ask, mine, sessionVars, sourceVars, job, sent>>

\* dispatch_command up to its lock: revision, grant, observed identity and
\* state, connection
Check(r) ==
  /\ at[r] = "check"
  /\ IF /\ live = "up" /\ liveRev = ask[r].rev /\ liveGrant
        /\ Available(ask[r].op, seen)
     THEN Go(r, "lock") /\ mine' = [mine EXCEPT ![r] = epoch]
     ELSE Go(r, "bad") /\ UNCHANGED mine
  /\ UNCHANGED <<ledgerVars, ask, sessionVars, sourceVars, job, sent>>

\* live.client is set and live.stop is not, for the session the request uses
Usable(r) == live = "up" /\ mine[r] = epoch

\* (wrong) the session is not looked at again under the lock
UsableStill(r) == TRUE

\* what is asked again once the lock is held
UsableUnderLock(r) == Usable(r)

LockFree(r) == \A q \in Requests : at[q] = "posting" => mine[q] # mine[r]

\* control_lock is taken; the POST is issued unless the session has gone
Issue(r) ==
  /\ at[r] = "lock" /\ LockFree(r)
  /\ IF UsableUnderLock(r)
     THEN /\ Go(r, "posting")
          /\ sent' = [sent EXCEPT ![Key(r)] = @ + 1]
     ELSE Go(r, "bad") /\ UNCHANGED sent
  /\ UNCHANGED <<ledgerVars, ask, mine, sessionVars, sourceVars, job>>

\* the printer acts on the POST, or ignores it, and answers 2xx
PostAccepted(r) ==
  /\ at[r] = "posting"
  /\ job' \in {job, Effect(ask[r].op, job)}
  /\ Go(r, "confirm")
  /\ UNCHANGED <<ledgerVars, ask, mine, sessionVars, sourceVars, sent>>

\* the POST, or its answer, is lost or refused
PostFails(r) ==
  /\ at[r] = "posting" /\ "http" \in Faults
  /\ job' \in {job, Effect(ask[r].op, job)}
  /\ Go(r, "bad")
  /\ UNCHANGED <<ledgerVars, ask, mine, sessionVars, sourceVars, sent>>

\* _await_control_confirmation: the status is looked at at once, and again
\* whenever a new one has come
Confirm(r) ==
  /\ at[r] = "confirm"
  /\ Usable(r) /\ Reached(ask[r].op, seen)
  /\ Go(r, "good")
  /\ UNCHANGED <<ledgerVars, ask, mine, sessionVars, sourceVars, job, sent>>

ConfirmGivesUp(r) ==
  /\ at[r] = "confirm" /\ ~Usable(r)
  /\ Go(r, "bad")
  /\ UNCHANGED <<ledgerVars, ask, mine, sessionVars, sourceVars, job, sent>>

\* (wrong) only the wait for the status has a deadline
ConfirmOnly == {"confirm"}

\* the awaits under asyncio.wait_for (25 s); the last one has also its own 20 s
TimedStages == {"lock", "posting", "confirm"}

\* wait_for cancels dispatch_command: the lock is released, the POST may still
\* be on its way
TimesOut(r) ==
  /\ at[r] \in TimedStages
  /\ job' \in {job} \cup (IF at[r] = "posting" THEN {Effect(ask[r].op, job)} ELSE {})
  /\ Go(r, "bad")
  /\ UNCHANGED <<ledgerVars, ask, mine, sessionVars, sourceVars, sent>>

\* the outcome is written by primary key, and the row is the answer
Settle(r) ==
  /\ at[r] \in {"good", "bad"}
  /\ row' = [row EXCEPT ![Key(r)] = IF at[r] = "good" THEN "acknowledged" ELSE "failed"]
  /\ Go(r, "answered")
  /\ UNCHANGED <<bound, ask, mine, sessionVars, sourceVars, job, sent>>
-----------------------------------------------------------------------------
(* The source and its session.  The routes of one source are taken one at a *)
(* time: the races between them are not part of this module.                *)

SessionEnds == live' = "none" /\ seen' = "none" /\ UNCHANGED <<liveRev, liveGrant, epoch>>

\* PATCH of the endpoint: the session is stopped first ...
EndpointChanges ==
  /\ route = "idle" /\ revision < MaxRev
  /\ SessionEnds
  /\ route' = "moved"
  /\ UNCHANGED <<ledgerVars, requestVars, enabled, revision, granted, job, sent>>

\* ... then the row is committed: disabled, not acknowledged, next revision
EndpointCommits ==
  /\ route = "moved" /\ revision < MaxRev
  /\ revision' = revision + 1
  /\ enabled' = FALSE /\ granted' = FALSE /\ route' = "idle"
  /\ UNCHANGED <<ledgerVars, requestVars, sessionVars, job, sent>>

\* PATCH is_enabled = false commits first and stops the session then
TurnOff ==
  /\ route = "idle" /\ enabled
  /\ enabled' = FALSE /\ granted' = FALSE /\ route' = "off"
  /\ UNCHANGED <<ledgerVars, requestVars, sessionVars, revision, job, sent>>

TurnedOff ==
  /\ route = "off"
  /\ SessionEnds
  /\ route' = "idle"
  /\ UNCHANGED <<ledgerVars, requestVars, enabled, revision, granted, job, sent>>

\* PATCH that leaves the source enabled (is_enabled = true, a new name)
TurnOn ==
  /\ route = "idle"
  /\ enabled' = TRUE /\ route' = "on"
  /\ UNCHANGED <<ledgerVars, requestVars, sessionVars, revision, granted, job, sent>>

\* the owner's acknowledgement needs a fresh observation of a known identity
Acknowledge ==
  /\ route = "idle" /\ enabled /\ seen # "none"
  /\ granted' = TRUE /\ route' = "on"
  /\ UNCHANGED <<ledgerVars, requestVars, sessionVars, enabled, revision, job, sent>>

\* manager.enable: the old session, if any, is stopped and a new one made
SessionStarts(grant) ==
  /\ live' = "down" /\ seen' = "none"
  /\ liveRev' = revision /\ liveGrant' = grant
  /\ epoch' = epoch + 1

TurnedOn ==
  /\ route = "on" /\ epoch < MaxEpoch
  /\ SessionStarts(granted)
  /\ route' = "idle"
  /\ UNCHANGED <<ledgerVars, requestVars, enabled, revision, granted, job, sent>>

\* _run and _serve: connection made and lost
Connects ==
  /\ live = "down"
  /\ live' = "up"
  /\ UNCHANGED <<ledgerVars, requestVars, liveRev, liveGrant, epoch, seen, sourceVars, job, sent>>

Disconnects ==
  /\ "link" \in Faults /\ live = "up"
  /\ live' = "down" /\ seen' = "none"
  /\ UNCHANGED <<ledgerVars, requestVars, liveRev, liveGrant, epoch, sourceVars, job, sent>>

\* a status notification is observed
StatusComes ==
  /\ live = "up"
  /\ seen' = job
  /\ UNCHANGED <<ledgerVars, requestVars, live, liveRev, liveGrant, epoch, sourceVars, job, sent>>

\* no status for 45 s
StatusStale ==
  /\ "link" \in Faults /\ live = "up" /\ seen # "none"
  /\ seen' = "none"
  /\ UNCHANGED <<ledgerVars, requestVars, live, liveRev, liveGrant, epoch, sourceVars, job, sent>>

\* the job changes at the printer (external)
PanelActs ==
  /\ "panel" \in Faults
  /\ job' \in JobStates \ {job}
  /\ UNCHANGED <<ledgerVars, requestVars, sessionVars, sourceVars, sent>>

\* (wrong) a restart fails every row; the error code is written as the status
AllFail == row' = [k \in Keys |-> IF row[k] = "none" THEN "none" ELSE "failed"]
InterruptedCode ==
  row' = [k \in Keys |-> IF row[k] \in Open THEN "restart_interrupted" ELSE row[k]]

\* _reconcile_interrupted_platform_control_commands
InterruptedFail == row' = [k \in Keys |-> IF row[k] \in Open THEN "failed" ELSE row[k]]

\* The process dies and starts again: only monitoring consent survives.
Restart ==
  /\ "crash" \in Faults /\ epoch < MaxEpoch
  /\ InterruptedFail
  /\ at' = [r \in Requests |-> IF at[r] \in {"insert"} \cup Working THEN "gone" ELSE at[r]]
  /\ granted' = (granted /\ ~enabled) /\ route' = "idle"
  /\ IF enabled THEN SessionStarts(FALSE) ELSE SessionEnds
  /\ UNCHANGED <<bound, ask, mine, enabled, revision, job, sent>>
-----------------------------------------------------------------------------
Handle(r) ==
  \/ Insert(r) \/ MarkDispatching(r) \/ Check(r) \/ Issue(r) \/ Confirm(r)
  \/ ConfirmGivesUp(r) \/ TimesOut(r) \/ Settle(r) \/ CommitFails(r)

Source ==
  \/ EndpointChanges \/ EndpointCommits \/ TurnOff \/ TurnedOff \/ TurnOn \/ Acknowledge
  \/ TurnedOn \/ Connects \/ Disconnects \/ StatusComes \/ StatusStale

Next ==
  \/ \E r \in Requests, k \in Keys, op \in Ops, u \in Users : Receive(r, k, op, u)
  \/ \E r \in Requests : Handle(r) \/ PostAccepted(r) \/ PostFails(r)
  \/ Source \/ PanelActs \/ Restart

Spec == Init /\ [][Next]_vars

\* The event loop goes on with every request; nothing is asked of the printer,
\* the network or the users.
FairSpec == Spec /\ \A r \in Requests : WF_vars(Handle(r))
-----------------------------------------------------------------------------
TypeOK ==
  /\ row \in [Keys -> {"none"} \cup Open \cup Settled]
  /\ bound \in [Keys -> Commands \cup {NoCommand}]
  /\ at \in [Requests -> Stages]
  /\ ask \in [Requests -> Commands \cup {NoCommand}]
  /\ mine \in [Requests -> 0..MaxEpoch]
  /\ live \in {"none", "down", "up"} /\ liveRev \in 1..MaxRev /\ liveGrant \in BOOLEAN
  /\ epoch \in 0..MaxEpoch /\ seen \in JobStates \cup {"none"}
  /\ enabled \in BOOLEAN /\ revision \in 1..MaxRev /\ granted \in BOOLEAN
  /\ route \in {"idle", "moved", "off", "on"}
  /\ job \in JobStates
  /\ sent \in [Keys -> Nat]

\* However a request is repeated, raced or interrupted by a restart, the printer
\* is sent at most one command for an idempotency key.
OneDispatch == \A k \in Keys : sent[k] <= 1

\* A request is answered from the ledger only with the row of its own principal,
\* operation and configuration (_same_platform_control_request).
AnswersOwn == \A r \in Requests : at[r] = "answered" => bound[Key(r)] = ask[r]

\* A POST of request r is issued.
Issues(r) == at[r] = "lock" /\ at'[r] = "posting"

\* No command goes out that the ledger does not show as being dispatched, so
\* that a restart knows of it.
AuditedFirst ==
  [][\A r \in Requests : Issues(r) => row[Key(r)] = "dispatching" /\ bound[Key(r)] = ask[r]]_vars

\* A command goes out only through the present session, made for the revision
\* the request was made for and with the owner's grant, although it waited for
\* the lock meanwhile.
IssuedInSession ==
  [][\A r \in Requests :
       Issues(r) => /\ live = "up" /\ liveGrant /\ liveRev = ask[r].rev
                    /\ mine[r] = epoch]_vars

\* What the ledger has settled is never changed again, by a late request or a
\* restart.
SettledStays == [][\A k \in Keys : row[k] \in Settled => row'[k] = row[k]]_vars

\* Every request is in the end answered or refused, whatever the printer does.
RequestEnds ==
  \A r \in Requests : at[r] \in {"insert"} \cup Working ~> at[r] \in Over
=============================================================================
