----------------------------- MODULE PrintQueue -----------------------------
(***************************************************************************)
(* The print queue of the Bambu side of the program: the rows of table     *)
(* print_queue, the scheduler pass that selects rows (check_queue), the    *)
(* refillable pool of dispatch workers (_dispatch_one, _start_print), the  *)
(* start watchdogs (_watchdog_print_start), the in-memory dispatch holds,  *)
(* the HTTP routes that change rows, the completion callback, and a crash  *)
(* with restart.  Handlers are cut into actions at the awaits where         *)
(* another task can change a row they have read or are about to write.     *)
(***************************************************************************)
EXTENDS Integers, FiniteSets

CONSTANTS
  Items,         \* ids of queue rows
  Printers,      \* registered printers
  NoPrinter,     \* printer_id IS NULL
  Fixed,         \* Fixed[i]: printer_id given at creation, NoPrinter = target_model
  Gated,         \* rows created with require_previous_success
  Short,         \* rows whose spool may be too light for the print
  Source,        \* Source[i]: library file printed, NoFile = an archive
  NoFile,
  Cleanup,       \* rows created with cleanup_library_after_dispatch
  MaxGen,        \* how often an id may be (re)used: 1 = ids are never reused
  UploadLimit,   \* setting queue_max_concurrent_uploads
  MaxAttempts,   \* DISPATCH_MAX_ATTEMPTS
  RequirePlateClear,  \* setting require_plate_clear
  Stimuli        \* what users, printers and the network do in this instance

AllStimuli == {"cancel", "delete", "edit", "stop", "start", "resume",
               "clearPlate", "link", "foreign", "late", "slow", "crash",
               "uploadFails", "sourceFails", "dbFails"}

ASSUME ConstAssumption ==
  /\ NoPrinter \notin Printers
  /\ Fixed \in [Items -> Printers \cup {NoPrinter}]
  /\ Gated \subseteq Items /\ Short \subseteq Items /\ Cleanup \subseteq Items
  /\ \A i \in Cleanup : Source[i] # NoFile
  /\ MaxGen \in Nat \ {0} /\ UploadLimit \in Nat \ {0} /\ MaxAttempts \in Nat \ {0}
  /\ RequirePlateClear \in BOOLEAN
  /\ Stimuli \subseteq AllStimuli

VARIABLES
  \* rows of print_queue ("absent": no such row)
  status, printer, claimed, attempts, startMode, acked, archived,
  gen,           \* which use of the id the row is
  newer,         \* <<i, j>>: the completed_at of i is later than that of j
  libRow,        \* library files whose row still exists
  \* one pass of check_queue
  pc, todo, snap, assigned, busy, picks,
  \* the dispatch pool and its workers
  w, lane, tgt,
  \* scheduler memory: dispatch holds and watchdogs
  hold, dog, dogAt,
  req,           \* requests that have passed their checks and not yet written
  \* what each printer last reported, and its completion callback
  state, online, plate, ended,
  plateRow,      \* awaiting_plate_clear as a restart will find it
  queued,        \* rows whose start command the printer has not yet acted on
  \* history: start commands published for the row; row cancelled or deleted
  \* by a user before the printer was told to start; rows a printer has begun;
  \* printers on which a print has ended and nobody has cleared the plate
  sent, revoked, begun, fouled

rowVars  == <<status, printer, claimed, attempts, startMode, acked, archived,
              gen, newer, libRow>>
passVars == <<pc, todo, snap, assigned, busy, picks>>
poolVars == <<w, lane, tgt>>
memVars  == <<hold, dog, dogAt, req>>
prnVars  == <<state, online, plate, plateRow, ended, queued>>
histVars == <<sent, revoked, begun, fouled>>
vars == <<rowVars, passVars, poolVars, memVars, prnVars, histVars>>

Statuses == {"absent", "pending", "printing", "completed", "failed",
             "cancelled", "skipped"}
Outcomes == {"completed", "failed", "cancelled"}
\* gcode_state: IDLE, FINISH and FAILED are read alike, and so are the members
\* of _ACTIVE_PRINT_STATES
GcodeStates == {"IDLE", "RUNNING"}
WorkerPcs == {"off", "launched", "loaded", "archiving", "uploading", "publish",
              "refused", "finish"}
ClaimedPcs == WorkerPcs \ {"off", "launched"}

InFlight == {i \in Items : w[i] # "off"}

\* completed_at := now, and completed_at := NULL
Unstamp(S) == {q \in newer : q[1] \notin S /\ q[2] \notin S}
Stamp(i) == Unstamp({i}) \cup ({i} \X (Items \ {i}))

Init ==
  /\ status = [i \in Items |-> "absent"]
  /\ printer = [i \in Items |-> NoPrinter]
  /\ claimed = [i \in Items |-> FALSE]
  /\ attempts = [i \in Items |-> 0]
  /\ startMode = [i \in Items |-> "auto"]
  /\ acked = [i \in Items |-> FALSE]
  /\ archived = [i \in Items |-> FALSE]
  /\ gen = [i \in Items |-> 0]
  /\ newer = {}
  /\ libRow = {Source[i] : i \in Items} \ {NoFile}
  /\ pc = "idle" /\ todo = {} /\ assigned = {} /\ busy = {} /\ picks = {}
  /\ snap = [i \in Items |-> NoPrinter]
  /\ w = [i \in Items |-> "off"]
  /\ lane = [i \in Items |-> NoPrinter]
  /\ tgt = [i \in Items |-> NoPrinter]
  /\ hold = [p \in Printers |-> "none"]
  /\ dog = [i \in Items |-> "off"]
  /\ dogAt = [i \in Items |-> NoPrinter]
  /\ req = {}
  /\ state = [p \in Printers |-> "IDLE"]
  /\ online = [p \in Printers |-> TRUE]
  /\ plate = [p \in Printers |-> FALSE]
  /\ plateRow = [p \in Printers |-> FALSE]
  /\ ended = [p \in Printers |-> "none"]
  /\ queued = [p \in Printers |-> {}]
  /\ sent = [i \in Items |-> 0]
  /\ revoked = [i \in Items |-> FALSE]
  /\ begun = {} /\ fouled = {}
-----------------------------------------------------------------------------
(* The scheduler pass, check_queue.  Rows are taken in any order: positions *)
(* and the shortest-job-first keys are not part of this module.             *)

\* (wrong) the plate gate is not asked
ReadyWithPlate(p) == online[p] /\ state[p] = "IDLE"

\* _is_printer_idle
Ready(p) ==
  /\ online[p]
  /\ RequirePlateClear => ~plate[p]
  /\ state[p] = "IDLE"

\* _check_previous_success for a row whose printer_id is q (NoPrinter reads
\* the rows whose printer_id IS NULL): the newest newer, unacknowledged row
Lookback(i, q) == {j \in Items \ {i} : /\ printer[j] = q /\ ~acked[j]
                                        /\ status[j] \in Outcomes}
Newest(S) == {j \in S : \A k \in S \ {j} : <<j, k>> \in newer}
PreviousSuccess(i, q) ==
  \A j \in Newest(Lookback(i, q)) : status[j] \in {"completed", "cancelled"}

\* SELECT of the pending, unclaimed rows that are not in flight; a row waiting
\* for a manual start is passed over
Select ==
  /\ pc = "idle"
  /\ todo' = {i \in Items : /\ status[i] = "pending" /\ ~claimed[i]
                            /\ w[i] = "off" /\ startMode[i] # "manual"}
  /\ todo' # {}
  /\ pc' = "seed"
  /\ snap' = [i \in Items |-> IF i \in todo' THEN printer[i] ELSE NoPrinter]
  /\ UNCHANGED <<rowVars, assigned, busy, picks, poolVars, memVars, prnVars, histVars>>

\* _printer_in_dispatch_hold: an open hold is popped when it is next asked for
Held(p) == hold[p] = "held"

\* (wrong) uploads in flight are not counted
BusyWithoutUploads(p) ==
  \/ \E i \in Items : status[i] = "printing" /\ printer[i] = p
  \/ Held(p)

\* (wrong) dispatch holds are not counted
BusyWithoutHolds(p) ==
  \/ \E i \in Items : status[i] = "printing" /\ printer[i] = p
  \/ \E i \in InFlight : lane[i] = p

\* busy_printers: rows 'printing', held printers, printers of uploads in flight
PrinterBusy(p) ==
  \/ \E i \in Items : status[i] = "printing" /\ printer[i] = p
  \/ Held(p)
  \/ \E i \in InFlight : lane[i] = p

Seed ==
  /\ pc = "seed"
  /\ pc' = "loop"
  /\ busy' = {p \in Printers : PrinterBusy(p)}
  /\ hold' = [p \in Printers |-> IF Held(p) THEN "held" ELSE "none"]
  /\ UNCHANGED <<rowVars, todo, snap, assigned, picks, poolVars, dog, dogAt,
                 req, prnVars, histVars>>

\* library_file_id of a row: cleared when a cleanup row has been archived
LibraryOf(i) == IF i \in Cleanup /\ archived[i] THEN NoFile ELSE Source[i]

\* _library_row_conflict: dispatching i would race the cleanup of a shared
\* library row by another row picked in this pass
LibraryConflict(i) ==
  /\ LibraryOf(i) # NoFile
  /\ \E j \in picks : LibraryOf(j) = LibraryOf(i) /\ (i \in Cleanup \/ j \in Cleanup)

\* the pass may give row i to printer p: its own printer, or for a row without
\* one any matching idle printer (_find_idle_printer_for_model)
Offer(i, p) ==
  /\ pc = "loop" /\ i \in todo
  /\ snap[i] \in {p, NoPrinter}
  /\ p \notin busy /\ Ready(p)

ModelBased(i) == snap[i] = NoPrinter

\* (wrong) any success on the printer opens the gate, not the newest print
GateOpenOnAny(i) ==
  i \in Gated => \/ Lookback(i, snap[i]) = {}
                  \/ \E j \in Lookback(i, snap[i]) : status[j] # "failed"

GateOpen(i) == i \in Gated => PreviousSuccess(i, snap[i])

EndPass ==
  /\ pc' = "idle" /\ todo' = {} /\ assigned' = {} /\ busy' = {} /\ picks' = {}
  /\ snap' = [i \in Items |-> NoPrinter]

\* an UPDATE of a row that is gone raises: the pass ends, nothing is launched
AbortPass(S) ==
  /\ \E j \in S : status[j] = "absent"
  /\ EndPass
  /\ UNCHANGED <<rowVars, poolVars, memVars, prnVars, histVars>>

\* a commit of the pass's session also writes the printers assigned so far
Commit(S, new) ==
  /\ \A j \in S : status[j] # "absent"
  /\ printer' = [i \in Items |-> IF i \in S THEN new[i] ELSE printer[i]]

\* no printer for the row; one without a printer may also have no target_model,
\* or one that fits nothing
PassOver(i) ==
  /\ pc = "loop" /\ i \in todo
  /\ ModelBased(i) \/ \A p \in Printers : ~Offer(i, p)
  /\ todo' = todo \ {i}
  /\ busy' = busy \cup ({snap[i]} \ {NoPrinter})
  /\ UNCHANGED <<rowVars, pc, snap, assigned, picks, poolVars, memVars, prnVars, histVars>>

\* another row of this pass uses the library file: wait for a later pass
HoldBack(i, p) ==
  /\ Offer(i, p) /\ LibraryConflict(i)
  /\ ModelBased(i) \/ GateOpen(i)
  /\ todo' = todo \ {i}
  /\ busy' = IF ModelBased(i) THEN busy ELSE busy \cup {p}
  /\ UNCHANGED <<rowVars, pc, snap, assigned, picks, poolVars, memVars, prnVars, histVars>>

\* require_previous_success and the last print failed
Skip(i, p) ==
  /\ Offer(i, p) /\ ~GateOpen(i)
  /\ ModelBased(i) => ~LibraryConflict(i)
  /\ \/ AbortPass(assigned \cup {i})
     \/ /\ Commit(assigned, snap) /\ status[i] # "absent"
        /\ status' = [status EXCEPT ![i] = "skipped"]
        /\ newer' = Stamp(i)
        /\ assigned' = {} /\ todo' = todo \ {i}
        /\ UNCHANGED <<claimed, attempts, startMode, acked, archived, gen, libRow,
                       pc, snap, busy, picks, poolVars, memVars, prnVars, histVars>>

\* _block_on_filament_deficit: the row now waits for the user
Block(i, p) ==
  /\ Offer(i, p) /\ GateOpen(i) /\ i \in Short /\ startMode[i] = "auto"
  /\ ModelBased(i) => ~LibraryConflict(i)
  /\ \/ AbortPass(assigned \cup {i})
     \/ /\ snap' = [snap EXCEPT ![i] = p]
        /\ Commit(IF ModelBased(i) THEN assigned \cup {i} ELSE assigned, snap')
        /\ status[i] # "absent"
        /\ startMode' = [startMode EXCEPT ![i] = "manual"]
        /\ assigned' = {} /\ todo' = todo \ {i}
        /\ UNCHANGED <<status, claimed, attempts, acked, archived, gen, newer, libRow,
                       pc, busy, picks, poolVars, memVars, prnVars, histVars>>

\* dispatch_ids.append(item.id), busy_printers.add(printer_id)
Take(i, p) ==
  /\ Offer(i, p) /\ GateOpen(i) /\ ~LibraryConflict(i)
  /\ picks' = picks \cup {i}
  /\ busy' = busy \cup {p}
  /\ snap' = [snap EXCEPT ![i] = p]
  /\ assigned' = IF ModelBased(i) THEN assigned \cup {i} ELSE assigned
  /\ todo' = todo \ {i}
  /\ UNCHANGED <<rowVars, pc, poolVars, memVars, prnVars, histVars>>

\* the commit at the end of the pass, then _launch_uploads: as many workers as
\* the pool has room for; the other picks wait for a later pass
Launch ==
  /\ pc = "loop" /\ todo = {}
  /\ \/ AbortPass(assigned)
     \/ \E L \in SUBSET picks :
          /\ Cardinality(InFlight \cup L) <= UploadLimit
          /\ L = picks \/ Cardinality(InFlight \cup L) = UploadLimit
          /\ Commit(assigned, snap)
          /\ w' = [i \in Items |-> IF i \in L THEN "launched" ELSE w[i]]
          /\ lane' = [i \in Items |-> IF i \in L THEN snap[i] ELSE lane[i]]
          /\ EndPass
          /\ UNCHANGED <<status, claimed, attempts, startMode, acked, archived, gen,
                         newer, libRow, tgt, memVars, prnVars, histVars>>
-----------------------------------------------------------------------------
(* A dispatch worker.                                                       *)

To(i, next) == w' = [w EXCEPT ![i] = next]

\* item.status = "failed" through the worker's session: an UPDATE by id,
\* whatever the row has become; if the row is gone the worker unwinds
FailRow(i) ==
  /\ status' = [status EXCEPT ![i] = IF @ = "absent" THEN @ ELSE "failed"]
  /\ newer' = IF status[i] = "absent" THEN newer ELSE Stamp(i)

\* _claim_for_dispatch: compare-and-set on (pending, unclaimed); the winner
\* loads the row
Claim(i) ==
  /\ w[i] = "launched"
  /\ IF status[i] = "pending" /\ ~claimed[i]
     THEN /\ claimed' = [claimed EXCEPT ![i] = TRUE]
          /\ tgt' = [tgt EXCEPT ![i] = printer[i]]
          /\ To(i, "loaded")
          /\ UNCHANGED lane
     ELSE /\ To(i, "off")
          /\ lane' = [lane EXCEPT ![i] = NoPrinter]
          /\ UNCHANGED <<claimed, tgt>>
  /\ UNCHANGED <<status, printer, attempts, startMode, acked, archived, gen, newer,
                 libRow, passVars, memVars, prnVars, histVars>>

\* the printer is unknown or offline, or the source cannot be resolved (archive
\* or library row missing, file not on disk, nozzle mismatch)
Unfit(i) == tgt[i] \in Printers => ~online[tgt[i]]
SourceGone(i) == ~archived[i] /\ Source[i] # NoFile /\ Source[i] \notin libRow

PrepareFails(i) ==
  /\ w[i] = "loaded"
  /\ \/ Unfit(i)
     \/ /\ ~Unfit(i) /\ status[i] = "pending" /\ state[tgt[i]] = "IDLE"
        /\ SourceGone(i) \/ "sourceFails" \in Stimuli
  /\ FailRow(i)
  /\ To(i, "finish")
  /\ UNCHANGED <<printer, claimed, attempts, startMode, acked, archived, gen, libRow,
                 passVars, lane, tgt, memVars, prnVars, histVars>>

\* cancelled meanwhile (#1853), or the printer is already printing (#2598): the
\* row is left as it is
PrepareDefers(i) ==
  /\ w[i] = "loaded" /\ ~Unfit(i)
  /\ status[i] # "pending" \/ state[tgt[i]] = "RUNNING"
  /\ To(i, "finish")
  /\ UNCHANGED <<rowVars, passVars, lane, tgt, memVars, prnVars, histVars>>

PrepareSucceeds(i) ==
  /\ w[i] = "loaded" /\ ~Unfit(i)
  /\ status[i] = "pending" /\ state[tgt[i]] = "IDLE" /\ ~SourceGone(i)
  /\ To(i, IF ~archived[i] /\ Source[i] # NoFile THEN "archiving" ELSE "uploading")
  /\ UNCHANGED <<rowVars, passVars, lane, tgt, memVars, prnVars, histVars>>

\* archive_print copied the library file: the row now names the archive, and a
\* cleanup row deletes the library row in the same commit
ArchiveCopied(i) ==
  /\ w[i] = "archiving" /\ status[i] # "absent"
  /\ archived' = [archived EXCEPT ![i] = TRUE]
  /\ libRow' = IF i \in Cleanup THEN libRow \ {Source[i]} ELSE libRow
  /\ To(i, "uploading")
  /\ UNCHANGED <<status, printer, claimed, attempts, startMode, acked, gen, newer,
                 passVars, lane, tgt, memVars, prnVars, histVars>>

\* the copy failed, or the row to update is gone
ArchiveFails(i) ==
  /\ w[i] = "archiving"
  /\ status[i] = "absent" \/ "sourceFails" \in Stimuli
  /\ FailRow(i)
  /\ To(i, "finish")
  /\ UNCHANGED <<printer, claimed, attempts, startMode, acked, archived, gen, libRow,
                 passVars, lane, tgt, memVars, prnVars, histVars>>

UploadFails(i) ==
  /\ w[i] = "uploading" /\ "uploadFails" \in Stimuli
  /\ FailRow(i)
  /\ To(i, "finish")
  /\ UNCHANGED <<printer, claimed, attempts, startMode, acked, archived, gen, libRow,
                 passVars, lane, tgt, memVars, prnVars, histVars>>

\* (wrong) the row is not looked at again
NotLookedAt(i) == TRUE

\* the file is on the printer: compare-and-set pending -> printing; a worker
\* that loses it deletes the file and sends nothing
StillPending(i) == status[i] = "pending"

MarkPrinting(i) ==
  /\ w[i] = "uploading"
  /\ IF StillPending(i)
     THEN status' = [status EXCEPT ![i] = "printing"] /\ To(i, "publish")
     ELSE UNCHANGED status /\ To(i, "finish")
  /\ UNCHANGED <<printer, claimed, attempts, startMode, acked, archived, gen, newer,
                 libRow, passVars, lane, tgt, memVars, prnVars, histVars>>

\* set_awaiting_plate_clear: the flag at once, its column by a task of its own,
\* so that a crash may find the old value; which one it finds is chosen here
\* (with the gate off, nobody looks at it)
SetPlate(p, awaiting) ==
  /\ plate' = [plate EXCEPT ![p] = awaiting]
  /\ \/ plateRow' = [plateRow EXCEPT ![p] = awaiting]
     \/ "crash" \in Stimuli /\ RequirePlateClear /\ UNCHANGED plateRow

\* printer_manager.start_print refuses a disconnected or printing printer;
\* otherwise the command is published, the hold armed, the watchdog spawned
Accepts(p) == online[p] /\ state[p] = "IDLE"

Publish(i) ==
  /\ w[i] = "publish"
  /\ LET p == tgt[i]
     IN  /\ SetPlate(p, FALSE)
         /\ IF Accepts(p)
            THEN /\ sent' = [sent EXCEPT ![i] = @ + 1]
                 /\ queued' = [queued EXCEPT ![p] = @ \cup {i}]
                 /\ hold' = [hold EXCEPT ![p] = "held"]
                 /\ dog' = [dog EXCEPT ![i] = "watch"]
                 /\ dogAt' = [dogAt EXCEPT ![i] = p]
                 /\ To(i, "finish")
            ELSE /\ To(i, "refused")
                 /\ UNCHANGED <<sent, queued, hold, dog, dogAt>>
  /\ UNCHANGED <<rowVars, passVars, lane, tgt, req, state, online, ended, revoked,
                 begun, fouled>>

\* after the FTP delete of the refused file: back to pending if the printer is
\* printing something else, failed otherwise; again an UPDATE by id
Refused(i) ==
  /\ w[i] = "refused"
  /\ IF state[tgt[i]] = "RUNNING"
     THEN /\ status' = [status EXCEPT ![i] = IF @ = "absent" THEN @ ELSE "pending"]
          /\ UNCHANGED newer
     ELSE FailRow(i)
  /\ To(i, "finish")
  /\ UNCHANGED <<printer, claimed, attempts, startMode, acked, archived, gen, libRow,
                 passVars, lane, tgt, memVars, prnVars, histVars>>

\* (wrong) the claim is kept
KeepClaim(i) == UNCHANGED claimed

\* _clear_dispatch_claim
ReleaseClaim(i) == claimed' = [claimed EXCEPT ![i] = FALSE]

\* the release (best effort) and the pool's done callback
Finish(i) ==
  /\ w[i] = "finish"
  /\ \/ ReleaseClaim(i)
     \/ "dbFails" \in Stimuli /\ UNCHANGED claimed
  /\ To(i, "off")
  /\ lane' = [lane EXCEPT ![i] = NoPrinter]
  /\ tgt' = [tgt EXCEPT ![i] = NoPrinter]
  /\ UNCHANGED <<status, printer, attempts, startMode, acked, archived, gen, newer,
                 libRow, passVars, memVars, prnVars, histVars>>
-----------------------------------------------------------------------------
(* The start watchdog of a row and the dispatch hold of a printer.  Their   *)
(* deadlines are not timed: they may pass at any moment.                    *)

Dismiss(i) == dog' = [dog EXCEPT ![i] = "off"] /\ dogAt' = [dogAt EXCEPT ![i] = NoPrinter]
DropHold(p) == hold' = [hold EXCEPT ![p] = "none"]

DogSeesActive(i) ==
  /\ dog[i] = "watch" /\ state[dogAt[i]] = "RUNNING"
  /\ DropHold(dogAt[i]) /\ Dismiss(i)
  /\ UNCHANGED <<rowVars, passVars, poolVars, req, prnVars, histVars>>

\* phase A ends without a sign of the print, or phase B without an active state;
\* unless "late", what the printer does with the command is reported, and its
\* completion handled, before that
DogGivesUp(i) ==
  /\ dog[i] = "watch" /\ state[dogAt[i]] # "RUNNING"
  /\ "late" \in Stimuli \/ (queued[dogAt[i]] = {} /\ ended[dogAt[i]] = "none")
  /\ DropHold(dogAt[i])
  /\ dog' = [dog EXCEPT ![i] = "revert"]
  /\ UNCHANGED <<rowVars, passVars, poolVars, dogAt, req, prnVars, histVars>>

\* (wrong) the unconfirmed start is not counted; one start too many is allowed
AttemptNotCounted(i) == UNCHANGED attempts
ExhaustedLate(i) == attempts[i] >= MaxAttempts

\* dispatch_attempts counts the unconfirmed starts of the row
CountAttempt(i) == attempts' = [attempts EXCEPT ![i] = @ + 1]
Exhausted(i) == attempts[i] + 1 >= MaxAttempts

\* (wrong) a row that has been closed meanwhile is taken back too
AnyStatus(i) == status[i] # "absent"

StillPrinting(i) == status[i] = "printing"

\* _do_revert: only a row that is still 'printing' is reverted
DogReads(i) ==
  /\ dog[i] = "revert"
  /\ IF StillPrinting(i)
     THEN dog' = [dog EXCEPT ![i] = "write"] /\ UNCHANGED dogAt
     ELSE Dismiss(i)
  /\ UNCHANGED <<rowVars, passVars, poolVars, hold, req, prnVars, histVars>>

\* and its UPDATE by id: pending, or failed once the attempts are spent
DogReverts(i) ==
  /\ dog[i] = "write" /\ status[i] # "absent"
  /\ Dismiss(i)
  /\ CountAttempt(i)
  /\ IF Exhausted(i)
     THEN FailRow(i)
     ELSE status' = [status EXCEPT ![i] = "pending"] /\ UNCHANGED newer
  /\ UNCHANGED <<printer, claimed, startMode, acked, archived, gen, libRow, passVars,
                 poolVars, hold, req, prnVars, histVars>>

\* the revert's transaction failed on every retry, or the row is gone
DogRevertFails(i) ==
  /\ dog[i] \in {"revert", "write"}
  /\ "dbFails" \in Stimuli \/ (dog[i] = "write" /\ status[i] = "absent")
  /\ Dismiss(i)
  /\ UNCHANGED <<rowVars, passVars, poolVars, hold, req, prnVars, histVars>>

\* the state or subtask changed after the cooldown (60 s), or 180 s have passed
HoldOpens(p) ==
  /\ hold[p] = "held"
  /\ hold' = [hold EXCEPT ![p] = "open"]
  /\ UNCHANGED <<rowVars, passVars, poolVars, dog, dogAt, req, prnVars, histVars>>
-----------------------------------------------------------------------------
(* Printers, as the program sees them over MQTT (external).                 *)

\* the printer reports an active state: a job it was sent, or a foreign one; it
\* refuses what else it is sent until then
ReportsActive(p) ==
  /\ online[p] /\ state[p] = "IDLE"
  /\ \/ \E i \in queued[p] : begun' = begun \cup {i}
     \/ "foreign" \in Stimuli /\ UNCHANGED begun
  /\ state' = [state EXCEPT ![p] = "RUNNING"]
  /\ queued' = [queued EXCEPT ![p] = {}]
  /\ UNCHANGED <<rowVars, passVars, poolVars, memVars, online, plate, plateRow, ended,
                 sent, revoked, fouled>>

\* a command is lost, or the printer ignores it
LosesCommand(p) ==
  /\ \E i \in queued[p] : queued' = [queued EXCEPT ![p] = @ \ {i}]
  /\ UNCHANGED <<rowVars, passVars, poolVars, memVars, state, online, plate, plateRow,
                 ended, histVars>>

\* the print ends: the plate gate is raised at once, the row is closed later
ReportsEnd(p) ==
  /\ online[p] /\ state[p] = "RUNNING" /\ ended[p] = "none"
  /\ state' = [state EXCEPT ![p] = "IDLE"]
  /\ SetPlate(p, TRUE)
  /\ \E o \in Outcomes : ended' = [ended EXCEPT ![p] = o]
  /\ fouled' = fouled \cup {p}
  /\ UNCHANGED <<rowVars, passVars, poolVars, memVars, online, queued, sent, revoked, begun>>

LinkChanges(p) ==
  /\ "link" \in Stimuli
  /\ online' = [online EXCEPT ![p] = ~@]
  /\ UNCHANGED <<rowVars, passVars, poolVars, memVars, state, plate, plateRow, ended, queued,
                 histVars>>

\* the tail of on_print_complete: some row 'printing' on this printer is closed
CloseRow(p) ==
  /\ ended[p] # "none"
  /\ LET rows == {i \in Items : status[i] = "printing" /\ printer[i] = p}
     IN  IF rows = {}
         THEN UNCHANGED <<status, newer>>
         ELSE \E i \in rows : /\ status' = [status EXCEPT ![i] = ended[p]]
                              /\ newer' = Stamp(i)
  /\ ended' = [ended EXCEPT ![p] = "none"]
  /\ UNCHANGED <<printer, claimed, attempts, startMode, acked, archived, gen, libRow,
                 passVars, poolVars, memVars, state, online, plate, plateRow, queued, histVars>>
-----------------------------------------------------------------------------
(* The HTTP routes of the queue.                                            *)

\* POST /queue/: a new row; its id may be one a deleted row had
Add(i) ==
  /\ status[i] = "absent" /\ gen[i] < MaxGen /\ dog[i] = "off"
  /\ status' = [status EXCEPT ![i] = "pending"]
  /\ printer' = [printer EXCEPT ![i] = Fixed[i]]
  /\ claimed' = [claimed EXCEPT ![i] = FALSE]
  /\ attempts' = [attempts EXCEPT ![i] = 0]
  /\ startMode' = [startMode EXCEPT ![i] = "auto"]
  /\ acked' = [acked EXCEPT ![i] = FALSE]
  /\ archived' = [archived EXCEPT ![i] = FALSE]
  /\ gen' = [gen EXCEPT ![i] = @ + 1]
  /\ sent' = [sent EXCEPT ![i] = 0]
  /\ revoked' = [revoked EXCEPT ![i] = FALSE]
  /\ begun' = begun \ {i}
  /\ UNCHANGED <<newer, libRow, passVars, poolVars, memVars, prnVars, fouled>>

\* (wrong) a row being dispatched may be edited
EditableAnyway(i) == status[i] = "pending"

Editable(i) == status[i] = "pending" /\ ~claimed[i]

\* what a route checks in the row it has read
Allowed(op, i) ==
  \/ op = "cancel" /\ status[i] = "pending"
  \/ op = "delete" /\ status[i] \notin {"absent", "printing"}
  \/ op = "edit" /\ Editable(i)
  \/ op = "stop" /\ status[i] = "printing"
  \/ op = "start" /\ status[i] = "pending"

RowRoutes == {"cancel", "delete", "edit", "stop", "start"}

\* a slow request: between its read and its write by id the row can change
Ask(op, i) ==
  /\ {op, "slow"} \subseteq Stimuli /\ Allowed(op, i)
  /\ req' = req \cup {<<op, i>>}
  /\ UNCHANGED <<rowVars, passVars, poolVars, hold, dog, dogAt, prnVars, histVars>>

\* the request writes at once, or now; the UPDATE of a row that is gone fails
Admitted(op, i) ==
  /\ status[i] # "absent"
  /\ \/ op \in Stimuli /\ Allowed(op, i) /\ UNCHANGED req
     \/ <<op, i>> \in req /\ req' = req \ {<<op, i>>}

Cancel(i) ==
  /\ Admitted("cancel", i)
  /\ status' = [status EXCEPT ![i] = "cancelled"]
  /\ newer' = Stamp(i)
  /\ revoked' = [revoked EXCEPT ![i] = @ \/ status[i] \in {"pending", "skipped"}]
  /\ UNCHANGED <<printer, claimed, attempts, startMode, acked, archived, gen, libRow,
                 passVars, poolVars, hold, dog, dogAt, prnVars, sent, begun, fouled>>

Delete(i) ==
  /\ Admitted("delete", i)
  /\ status' = [status EXCEPT ![i] = "absent"]
  /\ newer' = Unstamp({i})
  /\ revoked' = [revoked EXCEPT ![i] = @ \/ status[i] \in {"pending", "skipped"}]
  /\ UNCHANGED <<printer, claimed, attempts, startMode, acked, archived, gen, libRow,
                 passVars, poolVars, hold, dog, dogAt, prnVars, sent, begun, fouled>>

\* PATCH of a row, one or in bulk: the row gets another printer, or none
Edit(i, p) ==
  /\ Admitted("edit", i) /\ p # printer[i]
  /\ printer' = [printer EXCEPT ![i] = p]
  /\ UNCHANGED <<status, claimed, attempts, startMode, acked, archived, gen, newer,
                 libRow, passVars, poolVars, hold, dog, dogAt, prnVars, histVars>>

\* a stop is sent to the printer; the row is cancelled whether it arrives or not
Stop(i) ==
  /\ Admitted("stop", i)
  /\ status' = [status EXCEPT ![i] = "cancelled"]
  /\ newer' = Stamp(i)
  /\ UNCHANGED <<printer, claimed, attempts, startMode, acked, archived, gen, libRow,
                 passVars, poolVars, hold, dog, dogAt, prnVars, histVars>>

\* the spool suffices by now, or the user prints anyway (skip_filament_check,
\* which no later start takes back)
StartNow(i) ==
  /\ Admitted("start", i)
  /\ \E m \in {"auto", "waived"} :
        startMode' = [startMode EXCEPT ![i] = IF @ = "waived" THEN @ ELSE m]
  /\ UNCHANGED <<status, printer, claimed, attempts, acked, archived, gen, newer,
                 libRow, passVars, poolVars, hold, dog, dogAt, prnVars, histVars>>

\* resume_queue_after_failure: acknowledge the failures on the printer and
\* restore the rows skipped on it
Resume(p) ==
  /\ "resume" \in Stimuli
  /\ LET restored == {i \in Items : status[i] = "skipped" /\ printer[i] = p}
     IN  /\ acked' = [i \in Items |-> acked[i] \/ (status[i] = "failed" /\ printer[i] = p)]
         /\ status' = [i \in Items |-> IF i \in restored THEN "pending" ELSE status[i]]
         /\ newer' = Unstamp(restored)
  /\ UNCHANGED <<printer, claimed, attempts, startMode, archived, gen, libRow, passVars,
                 poolVars, memVars, prnVars, histVars>>

\* the user confirms that the plate is clear; FINISH and FAILED are read as IDLE
ClearPlate(p) ==
  /\ "clearPlate" \in Stimuli /\ online[p]
  /\ plate[p] \/ state[p] = "IDLE"
  /\ SetPlate(p, FALSE)
  /\ fouled' = fouled \ {p}
  /\ UNCHANGED <<rowVars, passVars, poolVars, memVars, state, online, ended, queued,
                 sent, revoked, begun>>
-----------------------------------------------------------------------------
\* (wrong) the claims of the dead process stay
StaleClaimsKept == UNCHANGED claimed

\* _clear_stale_dispatch_claims: no coroutine holds a claim any more
StaleClaimsCleared == claimed' = [i \in Items |-> FALSE]

\* The process dies and starts again: only the rows and the column of the plate
\* gate are durable, and run() first clears the stale claims (which may fail too).
Restart ==
  /\ "crash" \in Stimuli
  /\ \/ StaleClaimsCleared
     \/ "dbFails" \in Stimuli /\ UNCHANGED claimed
  /\ EndPass
  /\ w' = [i \in Items |-> "off"]
  /\ lane' = [i \in Items |-> NoPrinter]
  /\ tgt' = [i \in Items |-> NoPrinter]
  /\ hold' = [p \in Printers |-> "none"]
  /\ dog' = [i \in Items |-> "off"]
  /\ dogAt' = [i \in Items |-> NoPrinter]
  /\ req' = {}
  /\ ended' = [p \in Printers |-> "none"]
  /\ plate' = plateRow
  /\ UNCHANGED <<status, printer, attempts, startMode, acked, archived, gen, newer,
                 libRow, state, online, plateRow, queued, histVars>>
-----------------------------------------------------------------------------
Pass ==
  \/ Select \/ Seed \/ Launch
  \/ \E i \in Items : PassOver(i)
  \/ \E i \in Items, p \in Printers : HoldBack(i, p) \/ Skip(i, p) \/ Block(i, p) \/ Take(i, p)

Worker(i) ==
  \/ Claim(i) \/ PrepareFails(i) \/ PrepareDefers(i) \/ PrepareSucceeds(i)
  \/ ArchiveCopied(i) \/ ArchiveFails(i) \/ UploadFails(i) \/ MarkPrinting(i)
  \/ Publish(i) \/ Refused(i) \/ Finish(i)

Dog(i) ==
  DogSeesActive(i) \/ DogGivesUp(i) \/ DogReads(i) \/ DogReverts(i) \/ DogRevertFails(i)

Printer(p) ==
  ReportsActive(p) \/ LosesCommand(p) \/ ReportsEnd(p) \/ LinkChanges(p)

User ==
  \/ \E i \in Items : Add(i) \/ Cancel(i) \/ Delete(i) \/ Stop(i) \/ StartNow(i)
  \/ \E i \in Items, op \in RowRoutes : Ask(op, i)
  \/ \E i \in Items, p \in Printers \cup {NoPrinter} : Edit(i, p)
  \/ \E p \in Printers : Resume(p) \/ ClearPlate(p)

Next ==
  \/ Pass \/ User \/ Restart
  \/ \E i \in Items : Worker(i) \/ Dog(i)
  \/ \E p \in Printers : HoldOpens(p) \/ CloseRow(p) \/ Printer(p)

Spec == Init /\ [][Next]_vars

\* The scheduler loop, every task of the event loop and every timer go on;
\* a print that runs ends, and the program hears of it.
FairSpec ==
  /\ Spec
  /\ WF_vars(Pass)
  /\ \A i \in Items : WF_vars(Worker(i)) /\ WF_vars(Dog(i))
  /\ \A p \in Printers : WF_vars(HoldOpens(p)) /\ WF_vars(CloseRow(p)) /\ WF_vars(ReportsEnd(p))
-----------------------------------------------------------------------------
RowsTyped ==
  /\ status \in [Items -> Statuses]
  /\ printer \in [Items -> Printers \cup {NoPrinter}]
  /\ claimed \in [Items -> BOOLEAN]
  /\ attempts \in [Items -> 0..MaxAttempts]
  /\ startMode \in [Items -> {"auto", "manual", "waived"}]
  /\ acked \in [Items -> BOOLEAN]
  /\ archived \in [Items -> BOOLEAN]
  /\ gen \in [Items -> 0..MaxGen]
  /\ newer \subseteq Items \X Items
  /\ libRow \subseteq {Source[i] : i \in Items}

PassTyped ==
  /\ pc \in {"idle", "seed", "loop"}
  /\ todo \subseteq Items /\ picks \subseteq Items /\ assigned \subseteq Items
  /\ snap \in [Items -> Printers \cup {NoPrinter}]
  /\ busy \subseteq Printers

PoolTyped ==
  /\ w \in [Items -> WorkerPcs]
  /\ lane \in [Items -> Printers \cup {NoPrinter}]
  /\ tgt \in [Items -> Printers \cup {NoPrinter}]

MemTyped ==
  /\ hold \in [Printers -> {"none", "held", "open"}]
  /\ dog \in [Items -> {"off", "watch", "revert", "write"}]
  /\ dogAt \in [Items -> Printers \cup {NoPrinter}]
  /\ req \subseteq RowRoutes \X Items

PrnTyped ==
  /\ state \in [Printers -> GcodeStates]
  /\ online \in [Printers -> BOOLEAN]
  /\ plate \in [Printers -> BOOLEAN]
  /\ plateRow \in [Printers -> BOOLEAN]
  /\ ended \in [Printers -> {"none"} \cup Outcomes]
  /\ queued \in [Printers -> SUBSET Items]

HistTyped ==
  /\ sent \in [Items -> Nat]
  /\ revoked \in [Items -> BOOLEAN]
  /\ begun \subseteq Items /\ fouled \subseteq Printers

\* Every variable has its type; dispatch_attempts never passes MaxAttempts.
TypeOK ==
  RowsTyped /\ PassTyped /\ PoolTyped /\ MemTyped /\ PrnTyped /\ HistTyped

\* Whatever crashes, retries and refusals happen, a row's file is sent to a
\* printer at most DISPATCH_MAX_ATTEMPTS times (_watchdog_print_start).
CommandBudget == \A i \in Items : sent[i] <= MaxAttempts

\* A row waits for dispatch only when each start command it has had was written
\* off and counted by a watchdog: no crash, refusal or failed commit gives back
\* a row that was sent (_watchdog_print_start, _clear_stale_dispatch_claims).
NoPhantomReprint == \A i \in Items : status[i] = "pending" => sent[i] = attempts[i]

\* A claimed row has a live worker that will release it: no crash or early
\* return leaves a pending row that every pass skips (_clear_dispatch_claim).
ClaimOwned == \A i \in Items : claimed[i] => w[i] \in ClaimedPcs

\* At most one row is 'printing' on a printer (busy_printers, _inflight).
OnePrinting ==
  \A i, j \in Items : /\ status[i] = "printing" /\ status[j] = "printing"
                      /\ printer[i] = printer[j]
                      => i = j

\* The start command of row i is published.
Sends(i) == sent'[i] > sent[i]

\* A printer whose last start command is not yet settled is sent no other one,
\* whichever pass or worker it comes from (#1157).
HoldRespected == [][\A i \in Items : Sends(i) => hold[tgt[i]] = "none"]_vars

\* A row that a printer has begun to print is sent to no printer again, whatever
\* retries, crashes and closes other rows; for printers that obey a command before
\* its watchdog gives up, without "late" (_watchdog_print_start, _do_revert).
BegunOnce == [][\A i \in Items : Sends(i) => i \notin begun]_vars

\* A row the user cancelled or deleted before it was 'printing' is never sent
\* to a printer, however far its upload had come (#1853).
CancelWins == [][\A i \in Items : Sends(i) => ~revoked[i]]_vars

\* A row with require_previous_success that names its printer is sent only
\* if the newest finished row of that printer has not failed.
GateHonoured ==
  [][\A i \in Gated : Sends(i) => PreviousSuccess(i, printer[i])]_vars

\* While a worker works for a row, the row names the printer the worker read:
\* no edit and no commit of a pass moves it to another one (_claim_for_dispatch).
TargetFixed ==
  \A i \in Items : w[i] \in ClaimedPcs \ {"finish"} => printer[i] = tgt[i]

\* A printer on which a print has ended is sent no other one until the user has
\* cleared its plate, whether or not the flag is still there to say so (#961).
PlateRespected ==
  [][\A i \in Items : Sends(i) /\ RequirePlateClear => tgt[i] \notin fouled]_vars

\* Every row that waits is in the end completed, failed or cancelled.
Settles == \A i \in Items : status[i] = "pending" ~> status[i] \in Outcomes
=============================================================================
