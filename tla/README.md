# A formal model of Goo-Buddy

Goo-Buddy runs 3D printers from one FastAPI process: a print queue for Bambu
printers (MQTT and FTP), and monitoring with supervised job control for Elegoo
(SDCP) and Moonraker (Klipper) printers. Everything runs on one asyncio event
loop over a SQL database. Nothing is preempted: whatever can go wrong goes wrong
at an `await`, where another task changes what a handler has read, or at a crash,
where what was in memory is gone and the printer carries on.

The browser is a concurrent program of its own: poll rounds, timers, sockets and
requests that answer late, over state that React renders a moment later.

This directory holds TLA+ modules of the parts where that matters most, the TLC
configurations that check them, and TLAPS proofs about them. Paths of Python files are
relative to `src/backend/app/`, those of TypeScript files to `src/frontend/src/`.

| module | contents | instance, configurations | proofs |
|---|---|---|---|
| `PrintQueue` | queue rows, scheduler pass, dispatch pool, watchdogs, holds, routes, completion, restart | `MCPrintQueue`, `Queue*.cfg` | `PrintQueueProofs`, `PrintQueueLaneProofs`, `PrintQueueGateProofs` |
| `PlatformControl` | pause/resume/cancel of a Moonraker source: request ledger, session, source routes, restart | `MCPlatformControl`, `Control*.cfg` | `PlatformControlProofs` |
| `FilamentMapping` | which tray feeds which filament: print dialog and its cards, five copies of the matching, queue item, scheduler | `MCFilamentMapping`, `FilamentMapping.cfg`, `DocFanout.cfg` | `FilamentMappingProofs` |
| `SliceReports` | what background slicing promises its user (abstract) | | |
| `SliceTracker` | job table of the server and poll rounds of the browser; implements `SliceReports` | `MCSliceTracker`, `SliceReports.cfg` | `SliceTrackerProofs` |
| `DispatchToast` | dispatcher, socket and the card that shows what is being sent | `MCDispatchToast`, `DispatchToast.cfg` | `DispatchToastProofs` |
| `BrowserSession` | token, session and socket of a browser | `MCBrowserSession`, `BrowserSession.cfg` | `BrowserSessionProofs` |

Run one with `tlc -config QueueRetry.cfg MCPrintQueue`, or
`tlapm PrintQueueProofs.tla`.

## Inventory

### Modelled components

**Scheduler** (`services/print_scheduler.py`). State: `_inflight` (row id to
upload task and printer), `_dispatch_holds`, the rows of `print_queue`.
Operations: `run` (loop; clears stale claims first), `check_queue` (one pass: read
the pending rows, decide, commit), `_launch_uploads` (fill the pool),
`_dispatch_one` and `_start_print` (one worker: claim, load, archive, upload,
compare-and-set to `printing`, publish), `_watchdog_print_start` (one task per
start command). Hard: the pass decides on rows it read seconds ago, uploads last
minutes and span many passes, the printer's state lags its commands, a crash can
fall anywhere. Correct when a file is printed no more often than intended, no two
prints meet on one printer, the user's cancel wins, the gates hold, and every
waiting row is settled.

**Queue routes** (`api/routes/print_queue.py`). Add, edit (one or in bulk), delete,
cancel, stop, start, resume, reorder, batches. Each reads a row, checks it,
possibly awaits, and writes by primary key, so the check can be stale.

**Completion callback** (`main.py on_print_complete`). Raises the plate gate, then
closes the row that is `printing` on the printer; archives, usage, energy,
notifications follow. Correct when it closes the row of the print that ended.

**Printer manager** (`services/printer_manager.py`). Per printer: MQTT client,
connection state, the plate gate (memory, persisted by a task of its own).

**Platform control ledger** (`api/routes/printers.py _dispatch_platform_control`,
`control/*.py`, table `platform_control_commands`). One row per idempotency key:
`queued`, `dispatching`, then `acknowledged` or `failed`. Hard: retries and races on
one key, timeouts while the POST is out, restarts. Correct when a key is sent at most
once and answered with its own outcome.

**Moonraker manager** (`services/moonraker_manager.py`). Per source a session:
revision, control grant, lock, last status. `enable`, `disable`, `_run`, `_serve`,
`dispatch_command`. Hard: the session can be replaced while a request waits for its
lock. Correct when nothing is sent through a session that is gone or was not granted
control.

**Print dialog and filament mapping** (`components/PrintModal/*`,
`hooks/useFilamentMapping.ts`, `hooks/useMultiPrinterFilamentMapping.ts`,
`utils/amsHelpers.ts`, `services/print_scheduler.py _ensure_ams_mapping`). State: the
selected printers, the manual choices, the per-printer overrides, the cached status of each
printer; then `ams_mapping` of the queue item. Hard: the same matching is written five times;
what the browser knows of a printer may be missing or old. Correct when a tray serves one
filament, on the right nozzle, the user's choices reach the printer, the card of a printer tells the
truth, and no print starts without a tray while a spool fits.

**Slice jobs** (`services/slice_dispatch.py`, `routes/slice_jobs.py`,
`contexts/SliceJobTrackerContext.tsx`). State: a table of jobs in memory; in the browser the
tracked jobs, their clocks and toasts, and the poll rounds under way. Hard: rounds overlap, the
list a round works on is that of the last render, ids start again after a restart, finished jobs
are dropped. Correct when the user is told how his slice ended, and no spinner stays.

**Dispatch toast** (`contexts/ToastContext.tsx`, `core/websocket.py`, the announcements of
`print_scheduler.py`). State: per item a status and a progress; one dismissal timer. Hard: the socket
loses messages, some ends are silent, items come back. Correct when the card shows no end that did
not happen, and goes away.

**Browser session** (`api/client.ts`, `contexts/AuthContext.tsx`, `hooks/useWebSocket.ts`).
State: the token and its stored copy, the user shown, the socket of each mount. Hard: every request is
an await, after which its token may be another and its component gone. Correct when a session is
lost only by a refusal or a logout, sockets have an owner, and a refusal is not retried.

The components meet as follows. Routes and scheduler share the rows through the
database; the scheduler hands a printer to the manager, whose MQTT callbacks call
`main.py`, which writes the rows again; the plate gate is raised by the callback,
lowered by a route or by the scheduler, and read by the next pass. Source routes
change the source row and call the manager; control routes read the source row, write
the ledger, and call the manager's session. The print dialog creates the rows the scheduler
reads; the scheduler's announcements cross the socket that the browser session opens, and end in the
dispatch toast, whose list of toasts the slice tracker shares.

### Components that are not modelled

| component | state, operations, what would make it correct | why / when |
|---|---|---|
| Elegoo SDCP manager | the same dispatch and confirmation as Moonraker's; identity discovery, heartbeat | the shape is in `PlatformControl` |
| platform submission | an intent ledger like the control ledger | planned |
| Bambu MQTT client | printer state derived from partial reports | parsing; its refusal of a start while printing is used |
| FTP, archives, 3MF, backups, firmware, notifications, cloud clients, discovery, virtual printers | I/O and file formats | an upload or a copy is a step that succeeds or fails |
| filament usage and Spoolman | open usage sessions, booked once per print | planned |
| library trash | delete, restore, purge after a delay | planned |
| smart plugs | delayed power-off against the next print | planned |
| camera fan-out | one upstream for many viewers, closed with the last | planned |
| slicer sidecar and pipelines | HTTP to the slicer; steps of a run | I/O; sequential |
| camera viewers | reconnection with back-off, stall check | planned; close to the socket's |
| uploads, tag prompts, kiosk state | one component's state each | local, no promise to others |
| failure detection | smoothed scores, action at a threshold | planned |
| authentication (server), inventory, settings | request-scoped records | no concurrency of their own |
| the other pages, forms, translations and styles | rendering | no state that outlives a request |

## PrintQueue

One row is an element of `Items`; its columns are functions (`status`, `printer`,
`claimed` for `dispatching_at`, `attempts`, `startMode` for `manual_start` and
`skip_filament_check`, `acked` for `gate_acknowledged`, ...). `newer` orders rows by
`completed_at`. A pass is the variables `pc .. picks`; a worker is `w[i]` with the printer
the pool recorded for it (`lane`) and the one it uses (`tgt`); `hold`, `dog` are the
scheduler's memory; `state`, `online`, `plate`, `ended`, `queued` are what the program
knows of a printer, the completion it has not yet handled, and the commands the printer
has not yet acted on (an edited row can bring a second one). `plateRow` is the column of the plate
flag as a restart finds it: the flag is written by a task of its own (`printer_manager.py:387`), so where crashes
are possible a write may not have reached it. `sent`, `revoked`, `begun`, `fouled` are history: the
commands a row has had, the rows a user took back in time, those a printer has begun to print, and the printers on
which a print has ended and nobody has cleared the plate.

| actions | code |
|---|---|
| `Select`, `Seed`, `PassOver`, `HoldBack`, `Skip`, `Block`, `Take`, `Launch` | `check_queue`, `_launch_uploads` |
| `Claim`, `Prepare*`, `Archive*`, `UploadFails`, `MarkPrinting`, `Publish`, `Refused`, `Finish` | `_dispatch_one`, `_start_print` |
| `Dog*`, `HoldOpens` | `_watchdog_print_start`, `_printer_in_dispatch_hold` |
| `ReportsEnd`, `CloseRow` | `on_print_complete`, first and last part |
| `Add`, `Ask`, `Cancel`, `Delete`, `Edit`, `Stop`, `StartNow`, `Resume`, `ClearPlate` | the routes |
| `Restart` | crash at any point, then `run` |
| `ReportsActive`, `LosesCommand` | the printer (external) |

`Stimuli` names what the environment does in an instance, so that one module serves
several questions. Two need words. With `"slow"`, a route's check and its write are two
steps (`Ask`, then the action); otherwise they are one. With `"late"`, a watchdog may
give up while the printer has yet to act on the command or the program has yet to handle
the end of the print; without it, the deadline (90 s and more) is longer than that.

What is abstracted. Rows are taken in any order (positions and shortest-job-first are
left out). Deadlines of watchdogs and holds are not timed: they may pass at any moment.
`FINISH` and `FAILED` read as `IDLE`, and the active states as `RUNNING`, as the code does
where it chooses a printer. A printer matches every row without a printer, and a pass may pass over such a
row for any reason (`PassOver`): no printer of the model, none with its filament. A printer
always has a status. `Resume` and `CloseRow` read and write in one step. Left out: plug
power-on, drying, preheating, batches, reordering, notifications, the FTP protocol.

### Properties and runs

| run | instance | properties |
|---|---|---|
| `queue_retry` | 2 rows, 1 printer, 2 attempts, pool of 1; crash, failed upload, failing database, stop, cancel, delete | `TypeOK`, `CommandBudget`, `NoPhantomReprint`, `BegunOnce`, `CancelWins` |
| `queue_exclusion` | 2 rows without a printer, 2 printers, pool of 2; crash, stop, late, slow, cancel | `OnePrinting`, `ClaimOwned`, `HoldRespected` |
| `queue_settles` | 2 rows, 1 printer, 2 attempts; failed upload, late; fairness | `CommandBudget`, `Settles` |
| `queue_gate` | 3 gated rows, 1 printer, plate gate on; failed upload, resume, cancel, clear plate, lost link | `GateHonoured`, `PlateRespected` |
| `queue_edit` | 2 rows sharing a library file, one deleting it, one short of filament, one without a printer; delete, edit, source failure, start | `TargetFixed` |

* `CommandBudget`: a row's file is sent at most `DISPATCH_MAX_ATTEMPTS` times.
* `NoPhantomReprint`: a row waits only when each command it had was written off and counted by a watchdog. It says nothing of
  what the printer does with a command.
* `BegunOnce`: that is said here; a row that a printer has begun to print is not sent again, for printers that obey in time.
* `CancelWins`: a row cancelled or deleted before `printing` is never sent.
* `OnePrinting`, `HoldRespected`: one row prints on a printer, and none is sent to a printer
  whose last start is open.
* `ClaimOwned`: a claimed row has a live worker that will release it.
* `GateHonoured`: nothing gated is sent after a failed print.
* `PlateRespected`: nothing is sent to a printer on which a print has ended and nobody has cleared the plate (`fouled`), whatever
  the flag says.
* `TargetFixed`: the row names the printer the worker works for, against edits of any waiting row: one that names a printer, one
  that does not, and one that loses it.
* `Settles`: a waiting row is in the end completed, failed or cancelled.

Bounds. Two rows give every race of two dispatches, two watchdogs, or a dispatch and a
route; a third is used where a property speaks of the newest of several prints. One printer
makes rows contend, two let them be assigned apart. Two attempts distinguish the first retry from
the last. `MaxGen = 1`: an id is used once (SQLite hands out the id of the newest row again once it is deleted; see the disagreements below). Rows created alike
are interchangeable, so the safety runs use symmetry. Deadlock is not checked: a settled
queue may stop.

Fairness (`FairSpec`): the loop goes on passing, every task and timer goes on, and a print
that runs ends and is reported. The first two are the event loop; the last is asked of
the printer, and without it a printer that never finishes keeps its queue waiting. No
fairness is asked of users, uploads, or the printer's acting on a command; a command that
is lost is handled by the watchdog. The run has no crash and no failing database: a claim whose
release fails stays until the next start of the program, so `Settles` does not hold then.

Limits of these results, all of them effects of the code and listed as hazards:

* A printer that obeys after its watchdog has given up (`late`) is sent the row again while it prints it, and prints it twice;
  `BegunOnce` is checked without such printers. `CommandBudget`, which bounds how often, is checked with them.
* An edit of a row between its selection and its claim (`Launch`, `Edit`, `Claim`) sends it to a
  printer the pool does not keep others away from; `OnePrinting` is checked without edits.
* The plate flag is read in the pass and cleared after the upload. A print started at the
  panel and ended in between, a crash, or a cancellation written over `printing` loses the flag. The crash does so even without a race: the
  write of the flag may not have reached the database. `PlateRespected` is checked without these.
* A pass skips rows as it read them. A row cancelled meanwhile becomes `skipped`, and a resume
  makes it `pending` again; `CancelWins` is checked without resume.
* `GateHonoured` is checked for rows that name a printer; for others see below.

### Disagreements with the text of the repository

Three things the code does differ from what its text says. No run states them: the properties above
are checked where they hold.

* Rows picked in different passes work on one library file although one of them deletes it, because
  `dispatch_libs` and `consumed_libs` live for one pass; `print_scheduler.py:473` promises "True if
  dispatching `candidate` now would race another item's cleanup".
* For a row without a printer the lookback of the gate reads rows whose `printer_id` is NULL, so the
  row is sent to the printer whose last print failed; `print_scheduler.py:2807`: "Check if the
  previous print on this printer succeeded".
* A row deleted during its upload and a new row of the same id: the old worker's compare-and-set
  matches, and the old file is printed for the new row (`print_scheduler.py:916-918`).

## PlatformControl

A request is one element of `Requests` with its place in the handler (`at`), what it asks
(`ask`: key, operation, principal, revision) and the session it uses (`mine`). `row[k]` and
`bound[k]` are the ledger. The session is `live`, `liveRev`, `liveGrant`, counted by `epoch`;
`seen` is the state of the job in a fresh observation, `"none"` when there is none. `job` is
the printer's own.

| actions | code |
|---|---|
| `Receive`, `Insert`, `MarkDispatching`, `TimesOut`, `Settle`, `CommitFails` | `_dispatch_platform_control` |
| `Check`, `Issue`, `PostAccepted`, `PostFails` | `dispatch_command` before, under and after `control_lock` |
| `Confirm`, `ConfirmGivesUp` | `_await_control_confirmation` |
| `EndpointChanges/Commits`, `TurnOff`, `TurnedOff`, `TurnOn`, `TurnedOn` | `update_moonraker_source`, cut between commit and session |
| `Acknowledge` | `acknowledge_moonraker_job_controls` |
| `Connects`, `Disconnects`, `StatusComes`, `StatusStale` | `_run`, `_serve` |
| `Restart` | crash, `_reconcile_interrupted_platform_control_commands`, start of the enabled sources without grant |

What is abstracted. The printer acts on a POST or ignores it, and also does so when the answer is lost. States
the contracts read alike (finished, error, cancelled, idle) are one. The identity a grant is bound to is
any fresh observation. The 25 s of the request and the 20 s of the confirmation may pass at any
moment. `status_received` decides only when the observation is looked at again, so it is left
out. Routes of one source are taken one at a time. Deleting a source, and the Bambu
routes that write the same ledger, are left out. `CommitFails` leaves the row open, as
the code does until the next start.

### Properties and runs

| run | instance | properties |
|---|---|---|
| `control_ledger` | 2 requests, 2 keys, 2 operations, 2 revisions, 3 sessions; all faults | `TypeOK`, `OneDispatch`, `AnswersOwn`, `AuditedFirst`, `IssuedInSession`, `SettledStays` |
| `control_ends` | the same with 2 sessions, crash and refused POSTs; fairness | `RequestEnds` |

* `OneDispatch`: a key is POSTed at most once, whatever is raced, repeated, timed out or restarted.
* `AnswersOwn`: a request is answered with the row of its own command.
* `AuditedFirst`: a POST goes out only when its row says `dispatching`.
* `IssuedInSession`: ... and only through the present, granted session of the request's revision.
* `SettledStays`: a settled row is never written again.
* `RequestEnds`: every request is answered or ends.

Bounds. Two requests share a key (race, retry, reuse for another operation) or hold two
(waiting for one lock). Two revisions give the request of an old endpoint. Three sessions are the
first, the granted one, and one that replaces it. The ledger run has requests and keys
interchangeable. Deadlock is not checked: with all requests answered and the bounds reached there is nothing to do.

Fairness: the event loop goes on with every request, timeouts included (`WF_vars(Handle(r))`).
Nothing is asked of printer, network or users, and none is needed: the request's own timeout
covers the wait for the lock, the POST and the confirmation. That is what the mutant
`ConfirmOnly` takes away.

### Disagreements with the text of the repository

* Two requests pass the state check; the second waits for the lock and is sent after the first has
  changed the state seen. `control/contract.py:97-98`: the check "avoids sending pause/resume/cancel
  blindly after the printer has changed state".
* The first look at the observation comes before any wait, so a status older than the POST confirms
  it. `services/moonraker_manager.py:441`: "A status that predates the fixed request cannot reconcile
  it."

`services/elegoo_sdcp_manager.py:356-369` and `:561-585` have the same order of steps.

## FilamentMapping

A tray is its position in the printer's report (the AMS units, then the external spools), and `Filaments` the
function on the positions that hold a filament, which the code lists in that order; colours are triples, types and
presets model values. `job` is the matching under way with all it reads (`path`, `list`, `manual`,
`prefer`, `fts`, `grams`), `row` and `used` its results, `badge` and `badgeUsed` those of the card of a printer: what it says
of each filament (`exact`, `type`, `missing`), and the trays it has judged by. `seen[p]` is the status the browser holds, `NotYet`
before it came and `Nothing` after an error; `live[p]` is what the printer reports.

| actions, operators | code |
|---|---|
| `BuildLoadedFilaments`, `SchedulerFilaments` | `buildLoadedFilaments`, `_build_loaded_filaments` |
| `Candidates`, `Ranks`, `Choice`, `Honoured` | one requirement in `buildFilamentComparison`, `computeMappingWithOverrides`, `_match_filaments_to_slots` |
| `CardPool`, `CardFinds`, `Judged`, `Badges` | one requirement in `computeMatchDetails`, the copy of the loop behind the card |
| `Match`, `Finish` | one requirement taken, for the mapping and for the card; the result used |
| `StatusAnswer`, `StatusError`, `Select`, `SelectSlot`, `SelectOwnSlot`, `AutoConfigure`, `UseDefault` | the dialog |
| `Submit`, `Enqueue` | `canSubmit`, `getMappingForPrinter`, `getQueueData` |
| `Dispatch`, `SwapSpool` | `_ensure_ams_mapping`; a spool is changed at the printer |

`path` names which of the matchings runs, and `Hard`, `Ranks` and `Honoured` say in what they differ: the hard
nozzle filter, the preset of the slicer, type groups, and whether a choice of a missing tray counts. A
matching is taken in steps but not interleaved, as it awaits nothing. What is left out: edit
mode, assignment to a model and forced overrides; upper and lower case of types; colours of
fewer than six digits.

| run | instance | properties |
|---|---|---|
| `filament_mapping` | a dual-nozzle printer (two states of its AMS, with and without track switch) and one with an external spool (or empty); two files of two and three filaments; 3 edits, 1 swap | `OneSlotPerTray`, `NozzleKept`, `BadgeHonest`, `ChoicesSurvive`, `FedIfPossible` |
| `doc_fanout` | the same with 1 edit; a violation | `OwnTrays` |

* `OneSlotPerTray`: a tray serves two filaments only if the user gave it to both.
* `NozzleKept`: nothing is matched across nozzles without a track switch, on the paths with the hard filter.
* `BadgeHonest`: what the card says of a filament is true of the tray that is queued for it, although another copy of the loop
  says it, as long as the trays chosen by hand are loaded (where one is not, the mapping keeps it and the card judges
  another).
* `FedIfPossible`: a print starts without any tray only if no spool in the printer could feed any of its filaments (#2589), however
  little the browser knew when it was queued.
* `ChoicesSurvive`: what the user chose is what the printer is told.

The bounds give every kind of pair: exact and similar colour (a difference of exactly 40), unique and shared
preset, tracked and untracked remainder, a tray missing on one nozzle. Three edits allow a selection, an override and a
choice in it. Deadlock is not checked: a started print stops the model. No fairness is assumed.

`doc_fanout` is a disagreement: for several printers without overrides, each is sent the
mapping that was matched against the trays of the first. `index.tsx:479-480` says "a tray id means nothing on
a different printer, so a fan-out across printers must not reuse these", `:416` "only when single
printer selected"; `:230`, on the other hand, "mapping applies to all". `OwnTrays` therefore holds for one
printer and for overrides, and not for the fan-out.

## SliceTracker and SliceReports

`SliceReports` is the promise, without ids, polls or toasts: a slice ends one way, and what
the user is told of it is how it ended, unless the server has dropped its record. `SliceTracker` is the code:
`jobs`, `nextId` the table (`Enqueue`, `Run`, `End`, `Age`, `Restart` of `slice_dispatch.py`); `active`,
`rendered`, `started`, `toasts` the browser (`Track`, `Render`, `Tick`); `round[k]` one callback of the interval
with the entries it has left and the answer it awaits (`Poll`, `Ask`, `Receive`, `Miss`).

The refinement maps `fate`, `told`, `lost` to themselves; `fate[s]` and `lost` record the
job's end and the loss of its record after the table has forgotten them, `told[s]` what `completeJob`
reported. `Enqueue` is `Start` (with the sweep as its loss), `End` is `Decide`, a `Receive` that
reports is `Tell`, `Restart` is `Drop`, all else stutters.

| run | instance | properties |
|---|---|---|
| `slice_reports` | 2 slices, 2 ids per process, 2 rounds, 1 restart, 1 lost answer or toast closed by hand | `OnlyTrackedSpin`, `ReportsKept`, `ReportedInTheEnd` |

* `ReportsKept`: the refinement. It fails if a report can be about another slice's job.
* `OnlyTrackedSpin`: a progress toast belongs to a tracked job, and a tracked job keeps its clock. The converse does not hold: the user
  may close a toast (`Dismiss`, `ToastContext.tsx:482`), and it is back at the next tick.
* `ReportedInTheEnd`: a tracked slice that has ended is reported, unless its record was dropped or the server
  restarted.

Two rounds are an overlap, two slices a list that changes while a round works on it; a restart reuses the ids.
Fairness: React renders, the interval fires, and a request is answered (or fails, at most `MaxUpsets` times, counted with
the toasts closed; without that bound a network that never answers keeps the spinner). Deadlock is not checked: two
slices end. Left out: progress data, the error dialog (a second failure replaces the
first, `SliceJobTrackerContext.tsx:186`), the owner of a job, and a reload of the page, which forgets the tracked jobs: their
ends are then reported to nobody.

What does not hold, and why the properties have their exceptions: after a restart or a sweep the
server answers 404 for good, the catch of the poll takes it for transient (`:219-221`), and the spinner
stays; and an id given out again after a restart makes the tracker report a new slice's end under the
old name.

## DispatchToast

`stage[i]` is an item at the dispatcher, `emitted[i]` the progress it announced last (0, 1, or `Awaiting` for
99.9 % and more); `wire` is the socket, in order, which loses a suffix when it drops; `card`,
`pct`, `timer` are `dispatchData` and the entry of `timeoutRefs`. `late` and `missed` are history. `Upload`,
`Mismatch` (a file sliced for another nozzle, refused before its upload), `Progress`, `UploadFails`, `Cancel`, `Abort`, `Command`, `Ack`, `Revert`, `Unwatched` are the places of
`_start_print` and `_watchdog_print_start` that announce something or end silently;
`Deliver` is `onDispatchEvent` with the effect that follows it; `Fire`, `Tick` the timer; `Dismiss` the button;
`OtherToast`, `Redraw` any other toast that comes, goes, or, like that of a slice, is redrawn: each changes the list of toasts and
so runs the effect.

| run | instance | properties |
|---|---|---|
| `dispatch_toast` | 2 items, 2 attempts, a timer of 2 ticks, 1 loss of the socket, 2 messages under way | `OutcomeTrue`, `CardMirrors`, `OnlyLateLost`, `CardGoes` |

* `OutcomeTrue`: an item is shown completed or failed only if it is.
* `CardMirrors`: with nothing under way, an item without a lost message is shown as it stands.
* `OnlyLateLost`: the timer removes no item that was in progress when it was set.
* `CardGoes`: a card with nothing in progress goes away, unless other toasts never cease.

Fairness: timers fire and messages are delivered (`Fairness`); nothing is asked of the dispatcher.
Deadlock is not checked. The order of messages is that of one socket. A disagreement: the timer is not stopped when a
new item arrives (`ToastContext.tsx:302`), so an item announced within 3.5 s of the last end is taken off the card
while it runs, and its end is ignored; the comment at `:297` says "once every job has reached a terminal
state". `OnlyLateLost` is what remains true.

## BrowserSession

A token is one login. `token`, `stored`, `user` are `authToken`, its stored copy, and whose session is shown;
`check[c]` is where a `checkAuthStatus` stands, `req[c]` its request with the token it carried;
`asked` are tokens that requests of the pages carry. `link[p]` is one mount of `useWebSocket`, `ticket[p]`
whether its handshake carries a ws-token, `disposed[p]` its `disposedRef`. `refused`, `loggedOut`, `turnedAway` are history.

| actions | code |
|---|---|
| `CheckSends`, `StatusAnswered`, `MeAnswered` | `checkAuthStatus`, cut at its awaits, with its retries |
| `PageAsks`, `PageRefused` | `request()`: 401 discards the token and raises `auth:expired` |
| `Login`, `LoginWithToken`, `Logout`, `Load`, `Expire` | `AuthContext.tsx`; a reload; the server |
| `Mount`, `Unmount`, `Connect`, `Minted`, `Timer` | `connect`, its effect and its cleanup |
| `Accept`, `Reject`, `Close`, `Drop` | `onopen`, `onclose`; `routes/websocket.py` |

| run | instance | properties |
|---|---|---|
| `browser_session` | 1 login, 2 mounts, 1 reload or logout, 3 losses | `SocketOwned`, `SessionKept`, `NoLoop`, `Reconnects` |

* `SocketOwned`: at most one socket or reconnect timer is alive, and a mounted provider owns it.
* `SessionKept`: as long as no token was refused and the user has not logged out, the token stays, in the tab
  and in the storage (#1889).
* `NoLoop`: a mount refused with 401, 403 or 4401 asks for nothing more.
* `Reconnects`: a mounted provider that is not refused is connected in the end.

Three losses exhaust the three attempts at `/auth/me`; two mounts are a provider that is replaced while it
awaits; the proofs cover several logins. Fairness: a request ends, a handshake ends, a timer fires (`LinkStep`); losses are
bounded by `MaxFailures`. Authentication is enabled on the server; without it every mint succeeds. Left out: the kiosk
token of the URL, the setup redirect, other tabs of the same storage, what the messages do, and `refreshUser`
(`AuthContext.tsx:188`), which no page calls and which would give up the token on any failure of `/auth/me`, against what
`SessionKept` says of the rest.

A close before the accept reaches browsers as 1006 or as 4401; both are modelled. What the exceptions stand for: a late
401 of an old token discards a newer one (`client.ts:165`); a mint that fails for a moment leads
to a socket without a token and so, if the code arrives, to a final 4401 (`useWebSocket.ts:115-124`), although
`routes/websocket.py:35-36` says the browser "refetches a token instead".

## Proofs

TLC checks the instances above; these theorems hold for all values of the constants.

**PrintQueueProofs.** `TypeCorrect`, `BudgetKept` (`CommandBudget`), `NoReprint`
(`NoPhantomReprint`). None is inductive: whether a row may be sent again depends on what the
worker and the watchdog still hold. The invariant `IInv == TypeOK /\ Books` says what the
count of commands is at each place: equal to the attempts for a row that waits, is about to be
sent (`w = "publish"`) or was refused, one more while a watchdog watches, zero before the row exists, never above the limit.
One lemma per action shows that it is kept; most actions touch neither counter, and one lemma (`BooksFrame`)
covers them. Assumptions: `ConstAssumption` of the module, and `MaxGen = 1` in each
theorem: an id that is used again inherits the old worker, and then the
counts are not those of one row.

**PrintQueueLaneProofs.** `OneAtATime` (`OnePrinting`), `HoldsKept` (`HoldRespected`), `ClaimsHaveWorkers` (`ClaimOwned`),
`TargetKept` (`TargetFixed`), `CancelFinal` (`CancelWins`), `PrintedOnce` (`BegunOnce`). `Hands` says that a row in the hands of a pass has no worker and no
watchdog, and that a worker's claim is in the database; all six rest on it. `Lanes` then says that from the pass that picks a row until
its print is over one row occupies a printer (`OneEach`), on which the pass, the pool, the worker and the row agree (`Aimed`); that a
printer the pass may still give away is nobody's (`FreeIsFree`), although `busy` was read from rows that have changed since; and that no
hold stands on such a printer or on the way of a worker (`Unheld`). `Cancels` says that a revoked row stays out of the states from
which a worker may mark it as printing. `Prints` follows a row whose command a printer has or has begun to print: nothing works for
it (`SpentRests`), its watchdog looks at the printer it prints on (`DogAims`), and writes off only what that printer has not taken
(`DogRight`).

**PrintQueueGateProofs.** `PlateKept` (`PlateRespected`) and `GateKept` (`GateHonoured`). The flag of the plate and the result of the last
print are read in the pass and used minutes later, so `Signs` follows each print from its command to its end: each sign that a printer is
at work (queued command, active state, end not yet handled) excludes the others (`OneSign`) and belongs to a
row that is marked as printing there and has left its worker's hands (`Accounted`). A printer a row is bound for therefore shows
none, no end can raise its flag (`PlateTrue`), and no row closes in between that the lookback would have to count (`GateTrue`).

The hypotheses of these theorems are stimuli they exclude, and the code needs each: adding any one of them makes
TLC find a violation.

| theorem | excluded | what happens with it |
|---|---|---|
| `OneAtATime`, `HoldsKept` | `edit` | a row is moved between its selection and its claim |
| `ClaimsHaveWorkers` | `dbFails` | the release of a claim fails |
| `TargetKept` | `edit` with `slow` | an edit that was checked before the claim is written after it |
| `CancelFinal` | `resume` with gated rows | a cancelled row that the pass skips is resumed |
| `PrintedOnce` | `late` | the printer obeys a command that its watchdog has given up |
| `PrintedOnce` | `edit` | the end of one print closes another row, and the watchdog takes the first for unprinted |
| `PlateKept`, `GateKept` | `edit`, `stop`, `slow`, `foreign`, `late` | a print begins or ends behind the row that is sent |
| `PlateKept` | `crash` | the restart finds the flag as it was before the last write |
| `GateKept` | `delete`, gated rows without a printer | the lookback loses, or never sees, the failed print |

Crashes (but for `PlateKept`), failed uploads, lost links and commands, cancellations and (but for `ClaimsHaveWorkers`) a failing database are all allowed.
`MaxGen = 1` is assumed throughout. The instances that TLC runs are within the hypotheses of the theorems about their properties.

**PlatformControlProofs.** `TypeCorrect`, `DispatchOnce` (`OneDispatch`), `OwnAnswer`
(`AnswersOwn`), `AuditBeforeSend` (`AuditedFirst`), `SettledForGood` (`SettledStays`). The
invariant `IInv == TypeOK /\ Ledger` says of each request: it asks what it was given, it holds
the row of its key in the state its place implies (`HoldsRow`), no other request works under its
key (`Alone`), nothing was sent while it has not yet posted (`NotSentYet`), and a key without a row
was never sent (`RowFirst`). `Alone` is what makes `OneDispatch` inductive: the unique key lets one
request in, and a key once taken stays taken. `PresentSession` (`IssuedInSession`) adds `SessionTaken`: a request holds the session of
an epoch up to the present one, and where it waits for the lock of the present one, that has its grant and its
revision; the look under the lock at whether it is still the present one does the rest. Only `ConstAssumption` is assumed.

**FilamentMappingProofs.** `TrayUsedOnce` (`OneSlotPerTray`), `NozzleRespected` (`NozzleKept`), for any printers, AMS
contents, files and type groups. The invariant `RowsInv` adds to both that every tray in `row` and every
manual choice is in `used`, and that a tray the program took is none of the manual choices (`TakenOffOffer`); a lemma says that what
`Picks` returns is the user's tray, none, or a free one that passes the filter of its path.

`CardTellsTruth` (`BadgeHonest`) compares two sets of operators: `Candidates`, `Ranks` and `Choice` of the mapping, with their presets and
ranks, and `CardPool`, `CardFinds` of the card. Without presets, as on the path of a printer of several, they come to the same tray
(`CardAgrees`), if a requirement has at most one tray to choose (`OneChoice`: no two trays are each
earlier than the other in the order of `Ranks` and positions) and both have used the same trays so far: `Matching`
says so of each requirement taken, as long as the trays the user chose are loaded. `FedWhenPossible` (`FedIfPossible`) assumes that the slots
of a file are numbered and distinct (`SlotsDistinct`), as a slicer writes them. It needs that of the trays that fit one comes first, which
the library's theorem on least elements gives for a report of any length (`FirstExists`), so that a matching of the scheduler that ends without any
tray had none on offer for any requirement (`MatchBarren`). `ChoicesKept` (`ChoicesSurvive`) follows a mapping through its
life: `Journey` adds that a command carries what the user chose (`JourneyTrue`) and that the item in the queue and the matching
under way for it are those of that choice (`ErrandTrue`). Between `row` and the mapping stands `buildAmsMapping`, which fills a list
up to the greatest slot with the last requirement of each. That these exist for a list of any length is an induction over data,
which the prover cannot do with an operator; it is done on sets instead, with the library's theorem that `<` is well-founded on the
naturals (`LeastElement`, `GreatestElement`, `LastOfSlot`, `MappingTrue`).

Two assumptions on the constants are used, both of the kind the code enforces. `StatusAssumption`: a report lists its trays, whose
numbers are natural and whose remainders are numbers (the dialog computes `unit * 4 + slot` from them). `PlateAssumption`: a file lists its
requirements, whose slot is natural (`slot_id || 0`), and a mapping, being a list, is neither `null` nor absent.

**SliceTrackerProofs.** `NoSpinnerLeft` (`OnlyTrackedSpin`) and `ReportsTrue` (`ReportsKept`, the refinement: initial
states map to initial states, each step to a step of `SliceReports` or a stutter). The invariant
says that the table holds the slices that are not lost, with their fate (`TableTrue`), that an entry of the tracker, of a
render or of a round carries the id of its slice (`EntriesTrue`), and that an answer under way is the fate of the slice it
was asked for unless that is lost (`AnswersTrue`).

**DispatchToastProofs.** `OutcomeHonest` (`OutcomeTrue`), `TimerSparesEarlier` (`OnlyLateLost`). The invariant
covers the messages under way: an announced end is the stage of its item (`WireTrue`), and such a stage is final; and while the
timer runs, what is in progress is in `late` (`TimerTrue`). `CardTrue` (`CardMirrors`) has `Mirror`: of the messages under way for an
item only the last counts, for shown it makes the card agree with the dispatcher, whatever those before it do; so the last tells
how the item stands (`Tells`), and where there is none the card already agrees (`Unannounced`).

**BrowserSessionProofs.** `SessionSurvives` (`SessionKept`), `SocketsOwned` (`SocketOwned`), `NoLoops` (`NoLoop`), for any number of logins,
mounts, loads and failures. `LinksTrue`: a mount has a request under way exactly while it mints, a disposed one is minting or
ended, at most one is mounted, and one that was turned away is ended. `ChecksTrue`: while nothing was refused, `/auth/me` is asked with
a token, so that a missing token cannot be what ends the session.

Model-checked only: `Settles`, `RequestEnds`, `ReportedInTheEnd`, `CardGoes`, `Reconnects`, which are liveness under
fairness, beyond the prover; and `OwnTrays`, which is false. Every safety invariant and action property of the runs
that pass is stated by a theorem.

## Plan

Done: the seven modules, their runs and the theorems above.

Theorems worth proving next: that `PrintQueue` implements `ItemLife` below, which would state the claims and the
counts of a row without passes, workers and watchdogs; and the refinements of the models to come.

Models worth adding, in this order:

1. `SourceSession`: `enable`, `disable`, the source routes and the boot, cut at their awaits and
   overlapping. No session goes on that the table does not name; two updates never share a revision.
2. `ItemLife`: the abstract life of a queue row, implemented by `PrintQueue`.
3. `PlateGate`: the tasks that persist the flag, which may overtake each other; `PrintQueue` has only that a crash may lose the last write.
4. `QueueOrder`: positions, shortest-job-first and its guard against starvation.
5. Usage sessions, smart-plug power-off, camera fan-out and viewers.

Not modelled, for good: file formats, FTP and MQTT parsing, notifications, translations, pages and styles, which have
no protocol of their own; most of the TypeScript is of this kind.
