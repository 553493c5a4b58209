------------------------- MODULE PrintQueueGateProofs -------------------------
(***************************************************************************)
(* Proofs about the two gates in front of a start command: the build plate *)
(* and the success of the previous print.  Both are asked when a pass      *)
(* picks a row, minutes before the command is sent; what keeps them true   *)
(* is that the row has its printer to itself until then.                   *)
(***************************************************************************)
EXTENDS PrintQueueLaneProofs

\* what would let a printer work, or a row end, behind the scheduler's back
Undisturbed == Stimuli \cap {"edit", "stop", "slow", "foreign", "late"} = {}

(* Printers. *)

\* nothing runs, waits to run, or has run and not been heard of
Quiet(p) == state[p] = "IDLE" /\ queued[p] = {} /\ ended[p] = "none"

OneSign ==
  \A p \in Printers : /\ state[p] = "RUNNING" => queued[p] = {} /\ ended[p] = "none"
                      /\ queued[p] # {} => ended[p] = "none"

\* a printer at work prints a row whose worker has sent the command
Accounted ==
  \A p \in Printers : ~Quiet(p) =>
    \E i \in Items : status[i] = "printing" /\ printer[i] = p /\ w[i] \in {"off", "finish"}

\* a watchdog that has given up on a print watches a quiet printer
DogTrue ==
  \A i \in Items : dog[i] # "off" =>
    /\ dogAt[i] = printer[i] /\ printer[i] \in Printers
    /\ dog[i] \in {"revert", "write"} /\ status[i] = "printing" => Quiet(printer[i])
    /\ dog[i] = "write" => status[i] = "printing"

\* a row is 'printing' from its worker's last look on, and not before
WorkTrue ==
  \A i \in Items :
    /\ w[i] = "publish" => status[i] = "printing"
    /\ w[i] \in {"launched", "loaded", "archiving", "uploading"} =>
         status[i] # "printing" /\ dog[i] = "off"

\* on its way to its printer, from the pass to the start command
Bound(i) ==
  i \in picks \/ w[i] \in {"launched", "loaded", "archiving", "uploading", "publish"}
Goal(i) == IF i \in picks THEN snap[i] ELSE lane[i]

\* the flag stands for every plate that is not clear, and no row is bound for one
PlateTrue ==
  RequirePlateClear /\ "crash" \notin Stimuli =>
    /\ \A p \in fouled : plate[p]
    /\ \A i \in Items : Bound(i) => Goal(i) \notin fouled

Signs == OneSign /\ Accounted /\ DogTrue /\ WorkTrue /\ PlateTrue

(* The gate of the previous print. *)

\* a row that names its printer keeps it; the pass assigns only the others
FixedKept ==
  /\ \A i \in Items : gen[i] > 0 /\ Fixed[i] # NoPrinter => printer[i] = Fixed[i]
  /\ \A i \in assigned : Fixed[i] = NoPrinter /\ printer[i] = NoPrinter

GateTrue ==
  \A i \in Gated : Bound(i) /\ Fixed[i] # NoPrinter => PreviousSuccess(i, Fixed[i])
-----------------------------------------------------------------------------
LEMMA NoReq == ASSUME Hands, Undisturbed PROVE req = {}
BY DEF Hands, ReqAsked, Undisturbed

\* a row that is bound for a printer has it to itself, and the printer is quiet
LEMMA BoundQuiet ==
  ASSUME IInv, Hands, Lanes, Signs, NEW i \in Items, Bound(i)
  PROVE  /\ Goal(i) \in Printers /\ Occupies(i, Goal(i)) /\ Quiet(Goal(i))
         /\ pc = "loop" => Goal(i) \in busy
<1>1. Goal(i) \in Printers /\ Occupies(i, Goal(i))
  BY DEF Bound, Goal, Lanes, Aimed, Occupies, InFlight
<1>2. ASSUME NEW j \in Items, status[j] = "printing", printer[j] = Goal(i),
             w[j] \in {"off", "finish"}
      PROVE  FALSE
  <2>1. Occupies(j, Goal(i)) BY <1>2 DEF Occupies
  <2>2. i = j BY <1>1, <2>1 DEF Lanes, OneEach
  <2> QED BY <1>2, <2>2 DEF Bound, Hands, PassOff
<1>3. Quiet(Goal(i)) BY <1>1, <1>2 DEF Signs, Accounted
<1>4. pc = "loop" => Goal(i) \in busy BY <1>1 DEF Lanes, FreeIsFree
<1> QED BY <1>1, <1>3, <1>4

\* a printer the pass may still give away is quiet
LEMMA FreeQuiet ==
  ASSUME Lanes, Signs, pc = "loop", NEW p \in Printers \ busy
  PROVE  Quiet(p)
BY DEF Lanes, FreeIsFree, Occupies, Signs, Accounted

\* the printers report nothing new, and their rows stay
LEMMA AccountedKept ==
  ASSUME Signs, UNCHANGED <<state, queued, ended>>,
         \A j \in Items : status[j] = "printing" /\ w[j] \in {"off", "finish"} =>
           status'[j] = "printing" /\ UNCHANGED printer[j] /\ w'[j] \in {"off", "finish"}
  PROVE  OneSign' /\ Accounted'
<1>1. OneSign' BY DEF Signs, OneSign
<1>2. ASSUME NEW p \in Printers, ~Quiet(p)'
      PROVE  \E i \in Items : /\ status'[i] = "printing" /\ printer'[i] = p
                              /\ w'[i] \in {"off", "finish"}
  <2>1. ~Quiet(p) BY <1>2 DEF Quiet
  <2>2. PICK i \in Items : status[i] = "printing" /\ printer[i] = p /\ w[i] \in {"off", "finish"}
    BY <2>1 DEF Signs, Accounted
  <2> QED BY <2>2
<1> QED BY <1>1, <1>2 DEF Accounted
-----------------------------------------------------------------------------
(* The pass: a row that becomes bound for a printer has just passed both   *)
(* gates, every other one stays as it is.                                   *)

\* what a step of the pass may do to rows
PassChange ==
  /\ UNCHANGED <<prnVars, fouled, dog, dogAt, acked>>
  /\ \A j \in Items :
       /\ status'[j] = "printing" <=> status[j] = "printing"
       /\ status[j] = "printing" => UNCHANGED <<printer[j], w[j]>>
       /\ dog[j] # "off" => UNCHANGED printer[j]
       /\ w'[j] # w[j] => w'[j] = "launched" /\ j \in picks
       /\ Bound(j)' => \/ Bound(j) /\ UNCHANGED Goal(j)
                       \/ \E p \in Printers : Take(j, p)

\* and a commit of it
LEMMA CommitChange ==
  ASSUME IInv, Hands, NEW S \in SUBSET (todo \cup picks), NEW new, Commit(S, new)
  PROVE  \A j \in Items : /\ status[j] = "printing" => UNCHANGED printer[j]
                          /\ dog[j] # "off" => UNCHANGED printer[j]
BY DEF Commit, Hands, PassOff, IInv, TypeOK, RowsTyped, PassTyped

LEMMA PassChanges == ASSUME IInv, Hands, Lanes, Pass PROVE PassChange
<1> USE DEF PassChange, IInv, TypeOK, RowsTyped, PassTyped, PoolTyped, Bound, Goal, histVars
<1>1. assigned \subseteq picks BY DEF Hands, PassOff
<1>2. ASSUME NEW S, AbortPass(S) PROVE PassChange
  BY <1>2 DEF AbortPass, EndPass, rowVars, poolVars, memVars, Hands, PassOff
<1>3. CASE Select
  BY <1>3 DEF Select, Hands, PassOff, rowVars, poolVars, memVars
<1>4. CASE Seed BY <1>4 DEF Seed, rowVars, poolVars
<1>5. CASE Launch
  <2>1. CASE AbortPass(assigned) BY <1>2, <2>1
  <2>2. CASE ~AbortPass(assigned)
    <3>1. PICK L \in SUBSET picks :
            /\ Commit(assigned, snap)
            /\ w' = [i \in Items |-> IF i \in L THEN "launched" ELSE w[i]]
            /\ lane' = [i \in Items |-> IF i \in L THEN snap[i] ELSE lane[i]]
            /\ EndPass
            /\ UNCHANGED <<status, claimed, attempts, startMode, acked, archived, gen,
                           newer, libRow, tgt, memVars, prnVars, histVars>>
      BY <1>5, <2>2 DEF Launch
    <3>2. \A j \in picks : w[j] = "off" /\ status[j] # "printing" BY DEF Hands, PassOff
    <3>3. \A j \in Items : Bound(j)' => Bound(j) /\ UNCHANGED Goal(j)
      BY <3>1, <3>2 DEF EndPass
    <3>4. \A j \in Items : /\ status[j] = "printing" => UNCHANGED printer[j]
                           /\ dog[j] # "off" => UNCHANGED printer[j]
      BY <1>1, <3>1, CommitChange
    <3> QED BY <3>1, <3>2, <3>3, <3>4 DEF memVars
  <2> QED BY <2>1, <2>2
<1>6. ASSUME NEW i \in Items, PassOver(i) PROVE PassChange
  BY <1>6 DEF PassOver, rowVars, poolVars, memVars
<1>7. ASSUME NEW i \in Items, NEW p \in Printers, HoldBack(i, p) PROVE PassChange
  BY <1>7 DEF HoldBack, rowVars, poolVars, memVars
<1>8. ASSUME NEW i \in Items, NEW p \in Printers, Take(i, p) PROVE PassChange
  <2>1. i \notin picks BY <1>8 DEF Take, Offer, Hands, PassOff
  <2>2. \A j \in Items \ {i} : Bound(j)' => Bound(j) /\ UNCHANGED Goal(j)
    BY <1>8 DEF Take, poolVars
  <2>3. UNCHANGED <<prnVars, fouled, dog, dogAt, status, printer, acked, w>>
    BY <1>8 DEF Take, rowVars, poolVars, memVars
  <2> QED BY <1>8, <2>2, <2>3
<1>9. ASSUME NEW i \in Items, NEW p \in Printers, Skip(i, p) PROVE PassChange
  <2>1. CASE AbortPass(assigned \cup {i}) BY <1>2, <2>1
  <2>2. CASE ~AbortPass(assigned \cup {i})
    <3>1. status[i] # "printing" BY <1>9 DEF Skip, Offer, Hands, PassOff
    <3>2. \A j \in Items : /\ status[j] = "printing" => UNCHANGED printer[j]
                           /\ dog[j] # "off" => UNCHANGED printer[j]
      BY <1>1, <1>9, <2>2, CommitChange DEF Skip
    <3> QED BY <1>9, <2>2, <3>1, <3>2 DEF Skip, poolVars, memVars
  <2> QED BY <2>1, <2>2
<1>10. ASSUME NEW i \in Items, NEW p \in Printers, Block(i, p) PROVE PassChange
  <2>1. CASE AbortPass(assigned \cup {i}) BY <1>2, <2>1
  <2>2. CASE ~AbortPass(assigned \cup {i})
    <3>1. i \in todo /\ i \notin picks BY <1>10 DEF Block, Offer, Hands, PassOff
    <3>2. \A j \in Items : /\ status[j] = "printing" => UNCHANGED printer[j]
                           /\ dog[j] # "off" => UNCHANGED printer[j]
      BY <1>1, <1>10, <2>2, <3>1, CommitChange DEF Block
    <3>3. \A j \in Items : Bound(j)' => Bound(j) /\ UNCHANGED Goal(j)
      BY <1>10, <2>2, <3>1 DEF Block, poolVars
    <3> QED BY <1>10, <2>2, <3>2, <3>3 DEF Block, poolVars, memVars
  <2> QED BY <2>1, <2>2
<1> QED BY <1>3, <1>4, <1>5, <1>6, <1>7, <1>8, <1>9, <1>10 DEF Pass

LEMMA PassSigns == ASSUME IInv, Hands, Lanes, Signs, Pass PROVE Signs'
<1> USE DEF prnVars
<1>1. PassChange BY PassChanges
<1>2. OneSign' /\ Accounted' BY <1>1, AccountedKept DEF PassChange
<1>3. DogTrue' BY <1>1 DEF PassChange, Signs, DogTrue, Quiet
<1>4. WorkTrue'
  <2>1. \A j \in picks : status[j] # "printing" /\ dog[j] = "off" BY DEF Hands, PassOff
  <2> QED BY <1>1, <2>1 DEF PassChange, Signs, WorkTrue
<1>5. PlateTrue'
  <2> SUFFICES ASSUME RequirePlateClear, "crash" \notin Stimuli, NEW j \in Items, Bound(j)'
               PROVE  Goal(j)' \notin fouled'
    BY <1>1 DEF PassChange, Signs, PlateTrue
  <2>1. CASE Bound(j) /\ UNCHANGED Goal(j)
    BY <1>1, <2>1 DEF PassChange, Signs, PlateTrue
  <2>2. ASSUME NEW p \in Printers, Take(j, p) PROVE Goal(j)' \notin fouled'
    <3>1. p \notin fouled BY <2>2 DEF Take, Offer, Ready, Signs, PlateTrue
    <3>2. Goal(j)' = p BY <2>2 DEF Take, Goal, IInv, TypeOK, PassTyped
    <3> QED BY <1>1, <3>1, <3>2 DEF PassChange
  <2> QED BY <1>1, <2>1, <2>2 DEF PassChange
<1> QED BY <1>2, <1>3, <1>4, <1>5 DEF Signs
-----------------------------------------------------------------------------
(* The workers. *)

\* what a step of a worker that sends nothing may do
WorkerChange(i) ==
  /\ UNCHANGED <<passVars, prnVars, fouled, dog, dogAt, printer>>
  /\ \A j \in Items \ {i} : UNCHANGED <<status[j], w[j], lane[j]>>
  /\ w'[i] = "publish" => status'[i] = "printing"
  /\ w'[i] \in {"launched", "loaded", "archiving", "uploading"} => status'[i] # "printing"
  /\ w'[i] \in {"launched", "loaded", "archiving", "uploading", "publish"} =>
       /\ w[i] \in {"launched", "loaded", "archiving", "uploading", "publish"}
       /\ UNCHANGED lane[i]
  /\ w[i] \in {"off", "finish"} => UNCHANGED status[i] /\ w'[i] = "off"
  /\ dog[i] # "off" => UNCHANGED status[i] /\ w'[i] \in {"off", "finish"}

LEMMA WorkerChanges ==
  ASSUME IInv, Signs, NEW i \in Items, Worker(i), ~Publish(i)
  PROVE  WorkerChange(i)
<1> USE DEF WorkerChange, IInv, TypeOK, RowsTyped, PoolTyped, To, memVars, histVars
<1>1. /\ w[i] \in {"publish", "refused"} => dog[i] = "off"
      /\ w[i] \in {"launched", "loaded", "archiving", "uploading"} =>
           status[i] # "printing" /\ dog[i] = "off"
  BY DEF Books, Starting, Settled, Signs, WorkTrue
<1>2. CASE Claim(i) BY <1>1, <1>2 DEF Claim
<1>3. CASE PrepareFails(i) BY <1>1, <1>3 DEF PrepareFails, FailRow
<1>4. CASE PrepareDefers(i) BY <1>1, <1>4 DEF PrepareDefers, rowVars
<1>5. CASE PrepareSucceeds(i) BY <1>1, <1>5 DEF PrepareSucceeds, rowVars
<1>6. CASE ArchiveCopied(i) BY <1>1, <1>6 DEF ArchiveCopied
<1>7. CASE ArchiveFails(i) BY <1>1, <1>7 DEF ArchiveFails, FailRow
<1>8. CASE UploadFails(i) BY <1>1, <1>8 DEF UploadFails, FailRow
<1>9. CASE MarkPrinting(i) BY <1>1, <1>9 DEF MarkPrinting
<1>10. CASE Refused(i) BY <1>1, <1>10 DEF Refused, FailRow
<1>11. CASE Finish(i) BY <1>1, <1>11 DEF Finish
<1> QED
  BY <1>2, <1>3, <1>4, <1>5, <1>6, <1>7, <1>8, <1>9, <1>10, <1>11 DEF Worker

LEMMA WorkerSigns ==
  ASSUME IInv, Hands, Lanes, Signs, NEW i \in Items, Worker(i), ~Publish(i)
  PROVE  Signs'
<1> USE DEF prnVars, passVars
<1>1. WorkerChange(i) BY WorkerChanges
<1>2. OneSign' /\ Accounted' BY <1>1, AccountedKept DEF WorkerChange
<1>3. DogTrue' BY <1>1 DEF WorkerChange, Signs, DogTrue, Quiet
<1>4. WorkTrue' BY <1>1 DEF WorkerChange, Signs, WorkTrue
<1>5. PlateTrue'
  <2> SUFFICES ASSUME RequirePlateClear, "crash" \notin Stimuli, NEW j \in Items, Bound(j)'
               PROVE  Goal(j)' \notin fouled'
    BY <1>1 DEF WorkerChange, Signs, PlateTrue
  <2>1. Bound(j) /\ UNCHANGED Goal(j) BY <1>1 DEF WorkerChange, Bound, Goal
  <2> QED BY <1>1, <2>1 DEF WorkerChange, Signs, PlateTrue
<1> QED BY <1>2, <1>3, <1>4, <1>5 DEF Signs

\* a start command goes to a quiet printer that no other row is on
LEMMA PublishSigns ==
  ASSUME IInv, Hands, Lanes, Signs, NEW i \in Items, Publish(i)
  PROVE  Signs'
<1> DEFINE p == tgt[i]
<1> USE DEF IInv, TypeOK, PoolTyped, MemTyped, PrnTyped
<1>1. Bound(i) /\ i \notin picks BY DEF Publish, Bound, Hands, PassOff
<1>2. p = lane[i] /\ p = Goal(i) /\ printer[i] = p /\ status[i] = "printing"
  BY <1>1 DEF Publish, Goal, Lanes, Aimed, InFlight, ClaimedPcs, WorkerPcs, Signs, WorkTrue
<1>3. p \in Printers /\ Quiet(p) /\ Occupies(i, p) BY <1>1, <1>2, BoundQuiet
<1>4. /\ UNCHANGED <<status, printer, passVars, lane, state, ended, fouled>>
      /\ \A q \in Printers \ {p} : queued'[q] = queued[q]
      /\ \A j \in Items \ {i} : UNCHANGED <<w[j], dog[j], dogAt[j]>>
  BY <1>3 DEF Publish, rowVars, To
<1>5. w'[i] \in {"finish", "refused"} BY DEF Publish, To
<1>6. OneSign' BY <1>3, <1>4 DEF Signs, OneSign, Quiet
<1>7. Accounted'
  <2> SUFFICES ASSUME NEW q \in Printers, ~Quiet(q)'
               PROVE  \E j \in Items : /\ status'[j] = "printing" /\ printer'[j] = q
                                       /\ w'[j] \in {"off", "finish"}
    BY DEF Accounted
  <2>1. CASE q = p
    <3>1. queued'[p] # queued[p] BY <1>3, <1>4, <2>1 DEF Quiet
    <3>2. w'[i] = "finish" BY <3>1 DEF Publish, To
    <3> QED BY <1>2, <1>4, <2>1, <3>2
  <2>2. CASE q # p
    <3>1. ~Quiet(q) BY <1>4, <2>2 DEF Quiet
    <3>2. PICK j \in Items : status[j] = "printing" /\ printer[j] = q /\ w[j] \in {"off", "finish"}
      BY <3>1 DEF Signs, Accounted
    <3> QED BY <1>2, <1>4, <2>2, <3>2
  <2> QED BY <2>1, <2>2
<1>8. DogTrue'
  <2> SUFFICES ASSUME NEW j \in Items, dog'[j] # "off"
               PROVE  /\ dogAt'[j] = printer'[j] /\ printer'[j] \in Printers
                      /\ dog'[j] \in {"revert", "write"} /\ status'[j] = "printing" =>
                           Quiet(printer[j])'
                      /\ dog'[j] = "write" => status'[j] = "printing"
    BY DEF DogTrue
  <2>1. CASE j = i
    <3>1. dog[i] = "off" BY DEF Publish, Books, Starting, Settled
    <3>2. dog'[i] = "watch" /\ dogAt'[i] = p BY <2>1, <3>1 DEF Publish
    <3> QED BY <1>2, <1>3, <1>4, <2>1, <3>2
  <2>2. CASE j # i
    <3>1. dog[j] # "off" BY <1>4, <2>2
    <3>2. status[j] = "printing" /\ printer[j] \in Printers => printer[j] # p
      BY <1>3, <2>2 DEF Lanes, OneEach, Occupies
    <3> QED BY <1>4, <2>2, <3>1, <3>2 DEF Signs, DogTrue, Quiet
  <2> QED BY <2>1, <2>2
<1>9. WorkTrue' BY <1>4, <1>5 DEF Signs, WorkTrue
<1>10. PlateTrue'
  <2> SUFFICES ASSUME RequirePlateClear, "crash" \notin Stimuli
               PROVE  /\ \A q \in fouled : plate'[q]
                      /\ \A j \in Items : Bound(j)' => Goal(j)' \notin fouled
    BY <1>4 DEF PlateTrue
  <2>1. p \notin fouled /\ fouled \subseteq Printers
    BY <1>1, <1>2 DEF Signs, PlateTrue, HistTyped
  <2>2. \A q \in Printers \ {p} : plate'[q] = plate[q] BY <1>3 DEF Publish, SetPlate
  <2>3. \A j \in Items : Bound(j)' => Bound(j) /\ UNCHANGED Goal(j)
    BY <1>4, <1>5 DEF Bound, Goal, passVars
  <2> QED BY <2>1, <2>2, <2>3 DEF Signs, PlateTrue
<1> QED BY <1>6, <1>7, <1>8, <1>9, <1>10 DEF Signs
-----------------------------------------------------------------------------
(* Watchdogs, printers, users, a restart. *)

LEMMA WayKept ==
  ASSUME PlateTrue, UNCHANGED <<picks, snap, w, lane>>, fouled' \subseteq fouled,
         \A q \in fouled' : plate[q] => plate'[q]
  PROVE  PlateTrue'
BY DEF PlateTrue, Bound, Goal

LEMMA DogSigns ==
  ASSUME IInv, Hands, Lanes, Signs, NEW i \in Items, Dog(i), "late" \notin Stimuli
  PROVE  Signs'
<1> USE DEF IInv, TypeOK, RowsTyped, MemTyped, PrnTyped
<1>1. UNCHANGED <<prnVars, poolVars, passVars, fouled, printer>>
  BY DEF Dog, DogSeesActive, DogGivesUp, DogReads, DogReverts, DogRevertFails, rowVars,
     histVars
<1>2. dog[i] # "off" /\ dogAt[i] = printer[i] /\ printer[i] \in Printers
  BY DEF Dog, DogSeesActive, DogGivesUp, DogReads, DogReverts, DogRevertFails, Signs, DogTrue
<1>3. /\ \A j \in Items \ {i} : UNCHANGED <<status[j], dog[j], dogAt[j]>>
      /\ \/ UNCHANGED status[i] /\ dog'[i] # "watch"
         \/ dog[i] = "write" /\ dog'[i] = "off" /\ status'[i] # "printing"
      /\ dog'[i] # "off" => UNCHANGED dogAt[i]
      /\ dog'[i] = "write" => status[i] = "printing" /\ dog[i] = "revert"
      /\ dog'[i] = "revert" => dog[i] = "watch" /\ Quiet(printer[i])
  <2>1. CASE DogSeesActive(i) \/ DogReads(i) \/ DogRevertFails(i)
    BY <2>1 DEF DogSeesActive, DogReads, StillPrinting, DogRevertFails, Dismiss, rowVars
  <2>2. CASE DogGivesUp(i) BY <1>2, <2>2 DEF DogGivesUp, rowVars, Quiet, GcodeStates
  <2>3. CASE DogReverts(i) BY <2>3 DEF DogReverts, Dismiss, FailRow
  <2> QED BY <2>1, <2>2, <2>3 DEF Dog
<1>4. w[i] \in {"off", "finish"}
  BY <1>2 DEF Books, Starting, Settled, Signs, WorkTrue, PoolTyped, WorkerPcs
<1>5. OneSign' BY <1>1 DEF prnVars, Signs, OneSign
<1>6. Accounted'
  <2> SUFFICES ASSUME NEW q \in Printers, ~Quiet(q)'
               PROVE  \E j \in Items : /\ status'[j] = "printing" /\ printer'[j] = q
                                       /\ w'[j] \in {"off", "finish"}
    BY DEF Accounted
  <2>1. ~Quiet(q) BY <1>1 DEF Quiet, prnVars
  <2>2. PICK j \in Items : status[j] = "printing" /\ printer[j] = q /\ w[j] \in {"off", "finish"}
    BY <2>1 DEF Signs, Accounted
  <2>3. j = i => UNCHANGED status[i] BY <1>3, <2>1, <2>2 DEF Signs, DogTrue
  <2> QED BY <1>1, <1>3, <2>2, <2>3 DEF poolVars
<1>7. DogTrue'
  <2>1. \A q : Quiet(q)' = Quiet(q) BY <1>1 DEF prnVars, Quiet
  <2> QED BY <1>1, <1>2, <1>3, <2>1 DEF Signs, DogTrue
<1>8. WorkTrue' BY <1>1, <1>2, <1>3, <1>4 DEF Signs, WorkTrue, poolVars
<1>9. PlateTrue'
  BY <1>1, WayKept DEF Signs, passVars, poolVars, prnVars
<1> QED BY <1>5, <1>6, <1>7, <1>8, <1>9 DEF Signs

\* a report of a printer that had something to report
PrinterReports(p) ==
  /\ UNCHANGED <<status, printer>> /\ UNCHANGED passVars /\ UNCHANGED poolVars
  /\ dog' = dog /\ dogAt' = dogAt
  /\ OneSign'
  /\ Quiet(p) => /\ state' = state /\ queued' = queued /\ ended' = ended
                 /\ plate' = plate /\ fouled' = fouled
  /\ \/ plate' = plate /\ fouled' = fouled
     \/ plate'[p] /\ fouled' = fouled \cup {p}
  /\ \A q \in Printers \ {p} : UNCHANGED <<state[q], queued[q], ended[q], plate[q]>>

LEMMA ReportSigns ==
  ASSUME IInv, Hands, Lanes, Signs, NEW p \in Printers, PrinterReports(p)
  PROVE  Signs'
<1> USE DEF PrinterReports, passVars, poolVars
<1>1. \A q \in Printers : ~Quiet(q)' => ~Quiet(q) BY DEF Quiet
<1>2. \A q \in Printers : Quiet(q) => Quiet(q)' BY <1>1 DEF Quiet
<1>3. Accounted' BY <1>1 DEF Signs, Accounted
<1>4. DogTrue' BY <1>2 DEF Signs, DogTrue
<1>5. WorkTrue' BY DEF Signs, WorkTrue
<1>6. PlateTrue'
  <2> SUFFICES ASSUME RequirePlateClear, "crash" \notin Stimuli
               PROVE  /\ \A q \in fouled' : plate'[q]
                      /\ \A j \in Items : Bound(j)' => Goal(j)' \notin fouled'
    BY DEF PlateTrue
  <2>1. \A j \in Items : Bound(j)' => /\ Bound(j) /\ UNCHANGED Goal(j)
                                      /\ Goal(j) \in Printers /\ Quiet(Goal(j))
    BY BoundQuiet DEF Bound, Goal
  <2>2. fouled \subseteq Printers BY DEF IInv, TypeOK, HistTyped
  <2> QED BY <2>1, <2>2 DEF Signs, PlateTrue
<1> QED BY <1>3, <1>4, <1>5, <1>6 DEF Signs

\* the one row that prints on the printer is closed
LEMMA CloseRowSigns ==
  ASSUME IInv, Hands, Lanes, Signs, NEW p \in Printers, CloseRow(p)
  PROVE  Signs'
<1> USE DEF IInv, TypeOK, RowsTyped, PrnTyped
<1>1. ended[p] # "none" /\ ended[p] \in Outcomes BY DEF CloseRow
<1>2. PICK k \in Items : status[k] = "printing" /\ printer[k] = p /\ w[k] \in {"off", "finish"}
  BY <1>1 DEF Signs, Accounted, Quiet
<1>3. \A j \in Items : status[j] = "printing" /\ printer[j] = p => j = k
  BY <1>2 DEF Lanes, OneEach, Occupies
<1>4. status' = [status EXCEPT ![k] = ended[p]] BY <1>2, <1>3 DEF CloseRow
<1>5. /\ UNCHANGED <<printer, state, queued, plate, fouled, passVars, poolVars, dog, dogAt>>
      /\ \A q \in Printers \ {p} : ended'[q] = ended[q]
      /\ ended'[p] = "none"
      /\ status'[k] # "printing" /\ \A j \in Items \ {k} : status'[j] = status[j]
  BY <1>1, <1>4 DEF CloseRow, memVars, prnVars, histVars, Outcomes
<1>6. OneSign' BY <1>5 DEF Signs, OneSign
<1>7. Quiet(p)' BY <1>1, <1>5 DEF Quiet, Signs, OneSign, GcodeStates
<1>8. Accounted'
  <2> SUFFICES ASSUME NEW q \in Printers, ~Quiet(q)'
               PROVE  \E j \in Items : /\ status'[j] = "printing" /\ printer'[j] = q
                                       /\ w'[j] \in {"off", "finish"}
    BY DEF Accounted
  <2>1. q # p BY <1>7
  <2>2. ~Quiet(q) BY <1>5, <2>1 DEF Quiet
  <2>3. PICK j \in Items : status[j] = "printing" /\ printer[j] = q /\ w[j] \in {"off", "finish"}
    BY <2>2 DEF Signs, Accounted
  <2> QED BY <1>2, <1>5, <2>1, <2>3 DEF poolVars
<1>9. DogTrue'
  <2>1. dog[k] \notin {"revert", "write"} BY <1>1, <1>2 DEF Signs, DogTrue, Quiet
  <2>2. \A q \in Printers : Quiet(q) => Quiet(q)' BY <1>5, <1>7 DEF Quiet
  <2> QED BY <1>5, <2>1, <2>2 DEF Signs, DogTrue
<1>10. WorkTrue' BY <1>2, <1>5 DEF Signs, WorkTrue, poolVars
<1>11. PlateTrue' BY <1>5, WayKept DEF Signs, passVars, poolVars
<1> QED BY <1>6, <1>8, <1>9, <1>10, <1>11 DEF Signs

LEMMA PrinterSigns ==
  ASSUME IInv, Hands, Lanes, Signs, NEW p \in Printers, "foreign" \notin Stimuli,
         HoldOpens(p) \/ CloseRow(p) \/ Printer(p)
  PROVE  Signs'
<1>1. ASSUME HoldOpens(p) \/ Printer(p) PROVE PrinterReports(p)
  <2> USE DEF PrinterReports, IInv, TypeOK, PrnTyped, rowVars, passVars, poolVars, memVars,
              histVars
  <2>1. CASE HoldOpens(p) BY <2>1 DEF HoldOpens, prnVars, Signs, OneSign
  <2>2. CASE ReportsActive(p)
    <3>1. queued[p] # {} /\ ended[p] = "none" /\ ~Quiet(p)
      BY <2>2 DEF ReportsActive, Signs, OneSign, Quiet
    <3>2. OneSign' BY <2>2, <3>1 DEF ReportsActive, Signs, OneSign
    <3> QED BY <2>2, <3>1, <3>2 DEF ReportsActive
  <2>3. CASE LosesCommand(p)
    <3>1. ~Quiet(p) /\ OneSign' BY <2>3 DEF LosesCommand, Signs, OneSign, Quiet
    <3> QED BY <2>3, <3>1 DEF LosesCommand
  <2>4. CASE ReportsEnd(p)
    <3>1. ~Quiet(p) /\ OneSign' BY <2>4 DEF ReportsEnd, Signs, OneSign, Quiet
    <3> QED BY <2>4, <3>1 DEF ReportsEnd, SetPlate
  <2>5. CASE LinkChanges(p) BY <2>5 DEF LinkChanges, Signs, OneSign
  <2> QED BY <1>1, <2>1, <2>2, <2>3, <2>4, <2>5 DEF Printer
<1> QED BY <1>1, ReportSigns, CloseRowSigns

\* users neither start nor end a print, and move no row that prints
UserChange ==
  /\ UNCHANGED <<state, queued, ended, dog, dogAt, w, lane, passVars>>
  /\ fouled' \subseteq fouled /\ \A q \in fouled' : plate[q] => plate'[q]
  /\ \A j \in Items :
       /\ status'[j] = "printing" <=> status[j] = "printing"
       /\ status[j] = "printing" \/ dog[j] # "off" => UNCHANGED printer[j]

LEMMA UserChanges == ASSUME IInv, Hands, Undisturbed, User PROVE UserChange
<1> USE DEF UserChange, IInv, TypeOK, RowsTyped, PrnTyped, HistTyped, poolVars, prnVars,
            memVars, histVars
<1>1. req = {} BY NoReq
<1>2. ASSUME NEW i \in Items, Add(i) PROVE UserChange BY <1>2 DEF Add
<1>3. ASSUME NEW i \in Items, Cancel(i) PROVE UserChange
  BY <1>1, <1>3 DEF Cancel, Admitted, Allowed
<1>4. ASSUME NEW i \in Items, Delete(i) PROVE UserChange
  BY <1>1, <1>4 DEF Delete, Admitted, Allowed
<1>5. ASSUME NEW i \in Items, Stop(i) PROVE FALSE
  BY <1>1, <1>5 DEF Stop, Admitted, Undisturbed
<1>6. ASSUME NEW i \in Items, StartNow(i) PROVE UserChange BY <1>6 DEF StartNow
<1>7. ASSUME NEW i \in Items, NEW op \in RowRoutes, Ask(op, i) PROVE FALSE
  BY <1>7 DEF Ask, Undisturbed
<1>8. ASSUME NEW i \in Items, NEW p \in Printers \cup {NoPrinter}, Edit(i, p) PROVE FALSE
  BY <1>1, <1>8 DEF Edit, Admitted, Undisturbed
<1>9. ASSUME NEW p \in Printers, Resume(p) PROVE UserChange BY <1>9 DEF Resume
<1>10. ASSUME NEW p \in Printers, ClearPlate(p) PROVE UserChange
  BY <1>10 DEF ClearPlate, SetPlate, rowVars
<1> QED BY <1>2, <1>3, <1>4, <1>5, <1>6, <1>7, <1>8, <1>9, <1>10 DEF User

LEMMA UserSigns ==
  ASSUME IInv, Hands, Lanes, Signs, Undisturbed, User
  PROVE  Signs'
<1> USE DEF passVars
<1>1. UserChange BY UserChanges
<1>2. OneSign' /\ Accounted' BY <1>1, AccountedKept DEF UserChange
<1>3. DogTrue' BY <1>1 DEF UserChange, Signs, DogTrue, Quiet
<1>4. WorkTrue' BY <1>1 DEF UserChange, Signs, WorkTrue
<1>5. PlateTrue' BY <1>1, WayKept DEF UserChange, Signs
<1> QED BY <1>2, <1>3, <1>4, <1>5 DEF Signs

LEMMA RestartSigns == ASSUME IInv, Signs, Restart PROVE Signs'
<1>1. /\ UNCHANGED <<state, queued, status, printer>> /\ picks' = {}
      /\ \A p \in Printers : ended'[p] = "none"
      /\ \A i \in Items : w'[i] = "off" /\ dog'[i] = "off"
  BY DEF Restart, EndPass
<1>2. OneSign' BY <1>1 DEF Signs, OneSign
<1>3. \A p \in Printers : ~Quiet(p)' => ~Quiet(p) BY <1>1 DEF Quiet
<1>4. Accounted' BY <1>1, <1>3 DEF Signs, Accounted
<1>5. DogTrue' /\ WorkTrue' BY <1>1 DEF DogTrue, WorkTrue
<1>6. PlateTrue' BY DEF PlateTrue, Restart
<1> QED BY <1>2, <1>4, <1>5, <1>6 DEF Signs

LEMMA NextSigns ==
  ASSUME IInv, Hands, Lanes, Signs, [Next]_vars, Undisturbed
  PROVE  Signs'
<1>1. CASE UNCHANGED vars
  BY <1>1 DEF vars, rowVars, passVars, poolVars, memVars, prnVars, histVars, Signs, OneSign,
     Accounted, DogTrue, WorkTrue, PlateTrue, Quiet, Bound, Goal
<1>2. ASSUME NEW i \in Items, Worker(i) PROVE Signs' BY <1>2, WorkerSigns, PublishSigns
<1>3. ASSUME NEW i \in Items, Dog(i) PROVE Signs' BY <1>3, DogSigns DEF Undisturbed
<1>4. ASSUME NEW p \in Printers, HoldOpens(p) \/ CloseRow(p) \/ Printer(p) PROVE Signs'
  BY <1>4, PrinterSigns DEF Undisturbed
<1> QED BY <1>1, <1>2, <1>3, <1>4, PassSigns, UserSigns, RestartSigns DEF Next

LEMMA SpecSigns ==
  ASSUME MaxGen = 1, Undisturbed
  PROVE  Spec => [](IInv /\ Hands /\ Lanes /\ Signs)
<1>1. "edit" \notin Stimuli BY DEF Undisturbed
<1>2. Init => Signs
  BY DEF Init, Signs, OneSign, Accounted, DogTrue, WorkTrue, PlateTrue, Quiet, Bound
<1>3. Init => IInv /\ Hands /\ Lanes BY InitIInv, InitHands
<1>4. IInv /\ Hands /\ Lanes /\ Signs /\ [Next]_vars => (IInv /\ Hands /\ Lanes /\ Signs)'
  BY <1>1, NextIInv, NextHands, NextLanes, NextSigns
<1> QED BY <1>2, <1>3, <1>4, PTL DEF Spec

\* No start command reaches a printer on which a print has ended until the user
\* has cleared its plate, with any number of workers uploading and across lost
\* commands, unconfirmed starts and cancellations.  The plate is looked at by the
\* pass, minutes earlier; the row's printer ends no print in between unless it
\* works on something of its own (Undisturbed), and the flag that stands for the
\* plate is lost only with the process.
THEOREM PlateKept ==
  ASSUME MaxGen = 1, Undisturbed, "crash" \notin Stimuli
  PROVE  Spec => PlateRespected
<1>1. ASSUME IInv, Hands, Lanes, Signs, [Next]_vars
      PROVE  [\A i \in Items : Sends(i) /\ RequirePlateClear => tgt[i] \notin fouled]_vars
  <2> SUFFICES ASSUME NEW i \in Items, Sends(i), RequirePlateClear PROVE tgt[i] \notin fouled
    OBVIOUS
  <2>1. w[i] = "publish" BY <1>1, SendsIsPublish DEF Publish
  <2>2. Bound(i) /\ Goal(i) = tgt[i]
    BY <1>1, <2>1 DEF Bound, Goal, Hands, PassOff, Lanes, Aimed, InFlight, ClaimedPcs, WorkerPcs
  <2> QED BY <1>1, <2>2 DEF Signs, PlateTrue
<1> QED BY <1>1, SpecSigns, PTL DEF Spec, PlateRespected
-----------------------------------------------------------------------------
(* The gate of the previous print.  A step may change rows K: it leaves the *)
(* gate of row i as it is if none of them counts for it, before or after.   *)

LEMMA SuccessKept ==
  ASSUME NEW i \in Items, NEW q, NEW K, PreviousSuccess(i, q),
         \A j \in Items \ K : UNCHANGED <<status[j], printer[j], acked[j]>>,
         \A j, l \in Items \ K : <<j, l>> \in newer' => <<j, l>> \in newer,
         \A k \in K \ {i} : k \notin Lookback(i, q) /\ k \notin Lookback(i, q)'
  PROVE  PreviousSuccess(i, q)'
<1>1. Lookback(i, q)' = Lookback(i, q)
  <2>1. \A j \in Items \ K : j \in Lookback(i, q)' <=> j \in Lookback(i, q) BY DEF Lookback
  <2>2. Lookback(i, q) \subseteq Items \ {i} /\ Lookback(i, q)' \subseteq Items \ {i}
    BY DEF Lookback
  <2>3. Lookback(i, q) \cap K = {} /\ Lookback(i, q)' \cap K = {} BY <2>2
  <2> QED BY <2>1, <2>2, <2>3
<1>2. Lookback(i, q) \subseteq Items \ K BY <1>1 DEF Lookback
<1>3. Newest(Lookback(i, q))' \subseteq Newest(Lookback(i, q)) BY <1>1, <1>2 DEF Newest
<1>4. \A j \in Newest(Lookback(i, q)) : status'[j] = status[j] BY <1>2 DEF Newest
<1> QED BY <1>3, <1>4 DEF PreviousSuccess

\* a gated row on its way goes where it was queued for, and alone
LEMMA BoundFixed ==
  ASSUME IInv, Hands, Lanes, FixedKept, NEW i \in Items, Bound(i), Fixed[i] # NoPrinter
  PROVE  /\ printer[i] = Fixed[i] /\ Fixed[i] \in Printers /\ Occupies(i, Fixed[i])
         /\ pc = "loop" => Fixed[i] \in busy
<1>1. gen[i] > 0
  BY DEF Bound, IInv, Books, Unborn, TypeOK, RowsTyped
<1>2. printer[i] = Fixed[i] /\ i \notin assigned BY <1>1 DEF FixedKept
<1>3. Fixed[i] \in Printers BY ConstAssumption
<1>4. Occupies(i, Fixed[i]) BY <1>2 DEF Bound, Occupies, Lanes, Aimed, InFlight
<1> QED BY <1>2, <1>3, <1>4 DEF Lanes, FreeIsFree

\* a row that has its own printer does not count for it
LEMMA OtherLane ==
  ASSUME IInv, Hands, Lanes, FixedKept, NEW i \in Items, Bound(i), Fixed[i] # NoPrinter,
         NEW k \in Items \ {i}, Occupies(k, printer[k]), UNCHANGED printer[k]
  PROVE  k \notin Lookback(i, Fixed[i]) /\ k \notin Lookback(i, Fixed[i])'
<1>1. printer[k] # Fixed[i] BY BoundFixed DEF Lanes, OneEach
<1> QED BY <1>1 DEF Lookback

LEMMA GateStep ==
  ASSUME GateTrue, NEW K,
         \A j \in Items : Bound(j)' => Bound(j),
         \A j \in Items \ K : UNCHANGED <<status[j], printer[j], acked[j]>>,
         \A j, l \in Items \ K : <<j, l>> \in newer' => <<j, l>> \in newer,
         \A i \in Items : Bound(i) /\ Fixed[i] # NoPrinter =>
           \A k \in K \ {i} : /\ k \notin Lookback(i, Fixed[i])
                              /\ k \notin Lookback(i, Fixed[i])'
  PROVE  GateTrue'
<1> SUFFICES ASSUME NEW i \in Gated, Bound(i), Fixed[i] # NoPrinter
             PROVE  PreviousSuccess(i, Fixed[i])'
  BY ConstAssumption DEF GateTrue
<1>1. i \in Items /\ PreviousSuccess(i, Fixed[i]) BY ConstAssumption DEF GateTrue
<1> QED BY <1>1, SuccessKept

\* no row changes, or one that has its own printer
LEMMA GateFrame ==
  ASSUME GateTrue, UNCHANGED <<status, printer, acked, newer>>,
         \A j \in Items : Bound(j)' => Bound(j)
  PROVE  GateTrue'
<1> SUFFICES ASSUME NEW i \in Gated, Bound(i), Fixed[i] # NoPrinter
             PROVE  PreviousSuccess(i, Fixed[i])'
  BY ConstAssumption DEF GateTrue
<1>1. PreviousSuccess(i, Fixed[i]) BY ConstAssumption DEF GateTrue
<1> QED BY <1>1 DEF PreviousSuccess, Newest, Lookback

LEMMA GateOfOthers ==
  ASSUME IInv, Hands, Lanes, FixedKept, GateTrue, NEW k \in Items, Occupies(k, printer[k]),
         UNCHANGED <<printer, acked>>,
         \A j \in Items \ {k} : UNCHANGED status[j],
         newer' \in {newer, Stamp(k)},
         \A j \in Items : Bound(j)' => Bound(j)
  PROVE  GateTrue'
<1>1. \A j, l \in Items \ {k} : <<j, l>> \in newer' => <<j, l>> \in newer
  BY DEF Stamp, Unstamp
<1>2. \A i \in Items : Bound(i) /\ Fixed[i] # NoPrinter =>
        \A j \in {k} \ {i} : j \notin Lookback(i, Fixed[i]) /\ j \notin Lookback(i, Fixed[i])'
  BY OtherLane
<1> QED BY <1>1, <1>2, GateStep
-----------------------------------------------------------------------------
(* Which rows name their printer. *)

LEMMA FixedFrame ==
  ASSUME FixedKept, assigned' \subseteq assigned, UNCHANGED <<printer, gen>>
  PROVE  FixedKept'
BY DEF FixedKept

\* a row the pass may still assign was created without a printer
LEMMA Assignable ==
  ASSUME IInv, Hands, Lanes, FixedKept, NEW i \in todo, ModelBased(i)
  PROVE  Fixed[i] = NoPrinter /\ printer[i] = NoPrinter
<1>1. gen[i] > 0 BY DEF IInv, Books, Unborn, TypeOK, RowsTyped, PassTyped
<1>2. printer[i] = NoPrinter BY DEF ModelBased, Lanes, Aimed
<1> QED BY <1>1, <1>2 DEF FixedKept, IInv, TypeOK, PassTyped

LEMMA PassFixed ==
  ASSUME IInv, Hands, Lanes, FixedKept, Pass
  PROVE  FixedKept'
<1> USE DEF IInv, TypeOK, RowsTyped, PassTyped
<1>1. ASSUME NEW S, NEW new, Commit(S, new), UNCHANGED gen, assigned' = {},
             \A j \in S : Fixed[j] = NoPrinter
      PROVE  FixedKept'
  BY <1>1 DEF Commit, FixedKept
<1>2. ASSUME NEW S, AbortPass(S) PROVE FixedKept'
  BY <1>2, FixedFrame DEF AbortPass, EndPass, rowVars
<1>3. CASE Select \/ Seed
  BY <1>3, FixedFrame DEF Select, Seed, rowVars
<1>4. CASE Launch
  <2>1. CASE AbortPass(assigned) BY <1>2, <2>1
  <2>2. CASE ~AbortPass(assigned)
    BY <1>1, <1>4, <2>2 DEF Launch, EndPass, FixedKept
  <2> QED BY <2>1, <2>2
<1>5. ASSUME NEW i \in Items, PassOver(i) PROVE FixedKept'
  BY <1>5, FixedFrame DEF PassOver, rowVars
<1>6. ASSUME NEW i \in Items, NEW p \in Printers, HoldBack(i, p) PROVE FixedKept'
  BY <1>6, FixedFrame DEF HoldBack, rowVars
<1>7. ASSUME NEW i \in Items, NEW p \in Printers, Take(i, p) PROVE FixedKept'
  BY <1>7, Assignable DEF Take, Offer, FixedKept, rowVars
<1>8. ASSUME NEW i \in Items, NEW p \in Printers, Skip(i, p) PROVE FixedKept'
  <2>1. CASE AbortPass(assigned \cup {i}) BY <1>2, <2>1
  <2>2. CASE ~AbortPass(assigned \cup {i})
    BY <1>1, <1>8, <2>2 DEF Skip, FixedKept
  <2> QED BY <2>1, <2>2
<1>9. ASSUME NEW i \in Items, NEW p \in Printers, Block(i, p) PROVE FixedKept'
  <2>1. CASE AbortPass(assigned \cup {i}) BY <1>2, <2>1
  <2>2. CASE ~AbortPass(assigned \cup {i})
    <3>1. ModelBased(i) => Fixed[i] = NoPrinter BY <1>9, Assignable DEF Block, Offer
    <3> QED BY <1>1, <1>9, <2>2, <3>1 DEF Block, FixedKept
  <2> QED BY <2>1, <2>2
<1> QED BY <1>3, <1>4, <1>5, <1>6, <1>7, <1>8, <1>9 DEF Pass

LEMMA NextFixed ==
  ASSUME IInv, Hands, Lanes, FixedKept, [Next]_vars, MaxGen = 1, "edit" \notin Stimuli
  PROVE  FixedKept'
<1> USE DEF IInv, TypeOK, RowsTyped, passVars, rowVars
<1>1. CASE UNCHANGED vars BY <1>1, FixedFrame DEF vars
<1>2. CASE Restart BY <1>2, FixedFrame DEF Restart, EndPass
<1>3. CASE User
  <2>1. ASSUME NEW i \in Items, Add(i) PROVE FixedKept'
    <3>1. i \notin assigned BY <2>1 DEF Add, Books, Unborn, Hands, PassOff
    <3> QED BY <2>1, <3>1 DEF Add, FixedKept
  <2>2. ASSUME NEW i \in Items, NEW p \in Printers \cup {NoPrinter}, Edit(i, p) PROVE FALSE
    BY <2>2 DEF Edit, Admitted, Hands, ReqAsked
  <2>3. CASE \A i \in Items : ~Add(i)
    BY <1>3, <2>2, <2>3, FixedFrame DEF User, Cancel, Delete, Stop, StartNow, Ask, Resume,
       ClearPlate
  <2> QED BY <2>1, <2>3
<1>4. ASSUME NEW i \in Items, Worker(i) PROVE FixedKept'
  BY <1>4, FixedFrame DEF Worker, Claim, PrepareFails, PrepareDefers, PrepareSucceeds,
     ArchiveCopied, ArchiveFails, UploadFails, MarkPrinting, Publish, Refused, Finish
<1>5. ASSUME NEW i \in Items, Dog(i) PROVE FixedKept'
  BY <1>5, FixedFrame DEF Dog, DogSeesActive, DogGivesUp, DogReads, DogReverts, DogRevertFails
<1>6. ASSUME NEW p \in Printers, HoldOpens(p) \/ CloseRow(p) \/ Printer(p) PROVE FixedKept'
  BY <1>6, FixedFrame DEF HoldOpens, CloseRow, Printer, ReportsActive, LosesCommand,
     ReportsEnd, LinkChanges
<1> QED BY <1>1, <1>2, <1>3, <1>4, <1>5, <1>6, PassFixed DEF Next
-----------------------------------------------------------------------------
(* The gate across a pass. *)

\* the rows a commit writes go to printers of their own
LEMMA CommitElsewhere ==
  ASSUME IInv, Hands, Lanes, FixedKept, NEW S, NEW new, Commit(S, new),
         \A j \in assigned : new[j] = snap[j],
         NEW i \in Items, Bound(i), Fixed[i] # NoPrinter, NEW k \in assigned \ {i}
  PROVE  k \notin Lookback(i, Fixed[i]) /\ k \notin Lookback(i, Fixed[i])'
<1> USE DEF IInv, TypeOK, RowsTyped, PassTyped
<1>1. Fixed[i] \in Printers /\ Occupies(i, Fixed[i]) BY BoundFixed
<1>2. printer[k] = NoPrinter BY DEF FixedKept
<1>3. k \in picks BY DEF Hands, PassOff
<1>4. snap[k] # Fixed[i] BY <1>1, <1>3 DEF Lanes, OneEach, Occupies
<1>5. printer'[k] \in {printer[k], snap[k]} BY DEF Commit
<1> QED BY <1>1, <1>2, <1>4, <1>5, ConstAssumption DEF Lookback

\* the row of a pass that is set aside, k, has no printer or a free one
LEMMA AsideGate ==
  ASSUME IInv, Hands, Lanes, FixedKept, GateTrue, pc = "loop", NEW k \in todo,
         NEW p \in Printers \ busy, snap[k] \in {p, NoPrinter}, NEW S, NEW new, Commit(S, new),
         S \subseteq assigned \cup {k}, \A j \in assigned : new[j] = snap[j],
         k \in S => new[k] = p, UNCHANGED acked,
         \A j \in Items \ {k} : UNCHANGED status[j],
         newer' \in {newer, Stamp(k)},
         \A j \in Items : Bound(j)' => Bound(j)
  PROVE  GateTrue'
<1> DEFINE K == assigned \cup {k}
<1> USE DEF IInv, TypeOK, RowsTyped, PassTyped
<1>1. \A j \in Items \ K : UNCHANGED <<status[j], printer[j], acked[j]>> BY DEF Commit
<1>2. \A j, l \in Items \ K : <<j, l>> \in newer' => <<j, l>> \in newer
  BY DEF Stamp, Unstamp
<1>3. ASSUME NEW i \in Items, Bound(i), Fixed[i] # NoPrinter, NEW j \in K \ {i}
      PROVE  j \notin Lookback(i, Fixed[i]) /\ j \notin Lookback(i, Fixed[i])'
  <2>1. CASE j \in assigned BY <1>3, <2>1, CommitElsewhere
  <2>2. CASE j = k
    <3>1. Fixed[i] \in Printers /\ Fixed[i] # p BY <1>3, BoundFixed
    <3>2. printer[k] = snap[k] BY DEF Lanes, Aimed
    <3>3. k \in Items /\ printer'[k] \in {printer[k], p} BY DEF Commit
    <3> QED BY <2>2, <3>1, <3>2, <3>3, ConstAssumption DEF Lookback
  <2> QED BY <2>1, <2>2
<1> QED BY <1>1, <1>2, <1>3, GateStep

LEMMA PassGate ==
  ASSUME IInv, Hands, Lanes, FixedKept, GateTrue, Pass
  PROVE  GateTrue'
<1> USE DEF IInv, TypeOK, RowsTyped, PassTyped
<1>1. ASSUME NEW i \in Items, NEW p \in Printers, Take(i, p) PROVE GateTrue'
  <2>1. UNCHANGED <<status, printer, acked, newer, w>> BY <1>1 DEF Take, rowVars, poolVars
  <2>2. ASSUME NEW j \in Gated, Bound(j)', Fixed[j] # NoPrinter
        PROVE  PreviousSuccess(j, Fixed[j])
    <3>1. j \in Items BY ConstAssumption
    <3>2. CASE Bound(j) BY <2>2, <3>2 DEF GateTrue
    <3>3. CASE ~Bound(j)
      <4>1. j = i BY <1>1, <2>1, <2>2, <3>3 DEF Take, Bound
      <4>2. gen[i] > 0 BY <1>1 DEF Take, Offer, Books, Unborn
      <4>3. snap[i] = Fixed[i]
        BY <1>1, <2>2, <4>1, <4>2 DEF Take, Offer, Lanes, Aimed, FixedKept
      <4> QED BY <1>1, <2>2, <4>1, <4>3 DEF Take, GateOpen
    <3> QED BY <3>2, <3>3
  <2> QED BY <2>1, <2>2 DEF GateTrue, PreviousSuccess, Newest, Lookback
<1>2. CASE \A i \in Items, p \in Printers : ~Take(i, p)
  <2>1. \A j \in Items : Bound(j)' => Bound(j) BY <1>2, PassChanges DEF PassChange
  <2>2. ASSUME NEW S, AbortPass(S) PROVE GateTrue'
    BY <2>1, <2>2, GateFrame DEF AbortPass, rowVars
  <2>3. CASE Select \/ Seed BY <2>1, <2>3, GateFrame DEF Select, Seed, rowVars
  <2>4. CASE Launch
    <3>1. CASE AbortPass(assigned) BY <2>2, <3>1
    <3>2. CASE ~AbortPass(assigned)
      <4>1. Commit(assigned, snap) /\ UNCHANGED <<status, acked, newer>>
        BY <2>4, <3>2 DEF Launch
      <4>2. \A j \in Items \ assigned : UNCHANGED <<status[j], printer[j], acked[j]>>
        BY <4>1 DEF Commit
      <4>3. \A i \in Items : Bound(i) /\ Fixed[i] # NoPrinter =>
              \A k \in assigned \ {i} : /\ k \notin Lookback(i, Fixed[i])
                                       /\ k \notin Lookback(i, Fixed[i])'
        BY <4>1, CommitElsewhere
      <4> QED BY <2>1, <4>1, <4>2, <4>3, GateStep
    <3> QED BY <3>1, <3>2
  <2>5. ASSUME NEW i \in Items, PassOver(i) PROVE GateTrue'
    BY <2>1, <2>5, GateFrame DEF PassOver, rowVars
  <2>6. ASSUME NEW i \in Items, NEW p \in Printers, HoldBack(i, p) PROVE GateTrue'
    BY <2>1, <2>6, GateFrame DEF HoldBack, rowVars
  <2>7. ASSUME NEW i \in Items, NEW p \in Printers, Skip(i, p) PROVE GateTrue'
    <3>1. CASE AbortPass(assigned \cup {i}) BY <2>2, <3>1
    <3>2. CASE ~AbortPass(assigned \cup {i})
      <4>1. pc = "loop" /\ i \in todo /\ i \notin assigned /\ p \notin busy /\ snap[i] \in {p, NoPrinter}
        BY <2>7 DEF Skip, Offer, Hands, PassOff
      <4>2. /\ Commit(assigned, snap) /\ UNCHANGED acked /\ newer' = Stamp(i)
            /\ \A j \in Items \ {i} : UNCHANGED status[j]
        BY <2>7, <3>2 DEF Skip
      <4> QED BY <2>1, <4>1, <4>2, AsideGate
    <3> QED BY <3>1, <3>2
  <2>8. ASSUME NEW i \in Items, NEW p \in Printers, Block(i, p) PROVE GateTrue'
    <3>1. CASE AbortPass(assigned \cup {i}) BY <2>2, <3>1
    <3>2. CASE ~AbortPass(assigned \cup {i})
      <4>1. pc = "loop" /\ i \in todo /\ i \notin assigned /\ p \notin busy /\ snap[i] \in {p, NoPrinter}
        BY <2>8 DEF Block, Offer, Hands, PassOff
      <4>2. PICK S \in {assigned, assigned \cup {i}} :
              Commit(S, snap') /\ UNCHANGED <<status, acked, newer>>
        BY <2>8, <3>2 DEF Block
      <4>3. snap'[i] = p /\ \A j \in assigned : snap'[j] = snap[j]
        BY <2>8, <3>2, <4>1 DEF Block
      <4> QED BY <2>1, <4>1, <4>2, <4>3, AsideGate
    <3> QED BY <3>1, <3>2
  <2> QED BY <1>2, <2>3, <2>4, <2>5, <2>6, <2>7, <2>8 DEF Pass
<1> QED BY <1>1, <1>2
-----------------------------------------------------------------------------
(* The gate across the other steps: they end only rows that have a printer  *)
(* of their own, but for a cancellation and the acknowledgements of resume. *)

LEMMA WorkerGate ==
  ASSUME IInv, Hands, Lanes, Signs, FixedKept, GateTrue, NEW k \in Items, Worker(k)
  PROVE  GateTrue'
<1>1. Occupies(k, printer[k])
  <2>1. k \in InFlight
    BY DEF Worker, Claim, PrepareFails, PrepareDefers, PrepareSucceeds, ArchiveCopied,
       ArchiveFails, UploadFails, MarkPrinting, Publish, Refused, Finish, InFlight
  <2> QED BY <2>1 DEF Lanes, Aimed, Occupies
<1>2. CASE Publish(k)
  <2>1. \A j \in Items : Bound(j)' => Bound(j)
    BY <1>2 DEF Publish, To, Bound, passVars, IInv, TypeOK, PoolTyped
  <2> QED BY <1>2, <2>1, GateFrame DEF Publish, rowVars
<1>3. CASE ~Publish(k)
  <2>1. WorkerChange(k) BY <1>3, WorkerChanges
  <2>2. \A j \in Items : Bound(j)' => Bound(j)
    BY <2>1 DEF WorkerChange, Bound, passVars
  <2>3. UNCHANGED acked /\ newer' \in {newer, Stamp(k)}
    BY <1>3 DEF Worker, Claim, PrepareFails, PrepareDefers, PrepareSucceeds, ArchiveCopied,
       ArchiveFails, UploadFails, MarkPrinting, Refused, Finish, FailRow, rowVars
  <2> QED BY <1>1, <2>1, <2>2, <2>3, GateOfOthers DEF WorkerChange
<1> QED BY <1>2, <1>3

LEMMA DogGate ==
  ASSUME IInv, Hands, Lanes, Signs, FixedKept, GateTrue, NEW k \in Items, Dog(k)
  PROVE  GateTrue'
<1>1. UNCHANGED <<poolVars, passVars>>
  BY DEF Dog, DogSeesActive, DogGivesUp, DogReads, DogReverts, DogRevertFails
<1>2. \A j \in Items : Bound(j)' => Bound(j) BY <1>1 DEF Bound, poolVars, passVars
<1>3. CASE DogReverts(k)
  <2>1. Occupies(k, printer[k]) BY <1>3 DEF DogReverts, Signs, DogTrue, Occupies
  <2>2. /\ UNCHANGED <<printer, acked>> /\ newer' \in {newer, Stamp(k)}
        /\ \A j \in Items \ {k} : UNCHANGED status[j]
    BY <1>3 DEF DogReverts, FailRow, IInv, TypeOK, RowsTyped
  <2> QED BY <1>2, <2>1, <2>2, GateOfOthers
<1>4. CASE DogSeesActive(k) \/ DogGivesUp(k) \/ DogReads(k) \/ DogRevertFails(k)
  BY <1>2, <1>4, GateFrame DEF DogSeesActive, DogGivesUp, DogReads, DogRevertFails, rowVars
<1> QED BY <1>3, <1>4 DEF Dog

LEMMA PrinterGate ==
  ASSUME IInv, Hands, Lanes, FixedKept, GateTrue, NEW p \in Printers,
         HoldOpens(p) \/ CloseRow(p) \/ Printer(p)
  PROVE  GateTrue'
<1>1. UNCHANGED <<poolVars, passVars>>
  BY DEF HoldOpens, CloseRow, Printer, ReportsActive, LosesCommand, ReportsEnd, LinkChanges
<1>2. \A j \in Items : Bound(j)' => Bound(j) BY <1>1 DEF Bound, poolVars, passVars
<1>3. CASE CloseRow(p)
  <2>1. UNCHANGED <<printer, acked>> BY <1>3 DEF CloseRow
  <2>2. CASE UNCHANGED <<status, newer>> BY <1>2, <2>1, <2>2, GateFrame
  <2>3. ASSUME NEW k \in Items, status[k] = "printing", printer[k] = p,
               status' = [status EXCEPT ![k] = ended[p]], newer' = Stamp(k)
        PROVE  GateTrue'
    <3>1. Occupies(k, printer[k]) BY <2>3 DEF Occupies
    <3>2. \A j \in Items \ {k} : UNCHANGED status[j]
      BY <2>3 DEF IInv, TypeOK, RowsTyped
    <3> QED BY <1>2, <2>1, <2>3, <3>1, <3>2, GateOfOthers
  <2> QED BY <1>3, <2>2, <2>3 DEF CloseRow
<1>4. CASE HoldOpens(p) \/ Printer(p)
  BY <1>2, <1>4, GateFrame DEF HoldOpens, Printer, ReportsActive, LosesCommand, ReportsEnd,
     LinkChanges, rowVars
<1> QED BY <1>3, <1>4

\* a row cancelled in time is now the newest of its printer, and no failure
LEMMA CancelGate ==
  ASSUME IInv, Hands, Lanes, FixedKept, GateTrue, req = {}, NEW k \in Items, Cancel(k)
  PROVE  GateTrue'
<1> USE DEF IInv, TypeOK, RowsTyped
<1>1. status[k] = "pending" BY DEF Cancel, Admitted, Allowed
<1>2. /\ UNCHANGED <<printer, acked, passVars, poolVars>> /\ newer' = Stamp(k)
      /\ status'[k] = "cancelled" /\ \A j \in Items \ {k} : UNCHANGED status[j]
  BY DEF Cancel
<1>3. \A j, l \in Items \ {k} : <<j, l>> \in newer' => <<j, l>> \in newer
  BY <1>2 DEF Stamp, Unstamp
<1>4. \A j \in Items \ {k} : <<j, k>> \notin newer'
  BY <1>2 DEF Stamp, Unstamp
<1> SUFFICES ASSUME NEW i \in Gated, Bound(i), Fixed[i] # NoPrinter
             PROVE  PreviousSuccess(i, Fixed[i])'
  BY <1>2 DEF GateTrue, Bound, passVars, poolVars
<1>5. i \in Items /\ PreviousSuccess(i, Fixed[i]) BY ConstAssumption DEF GateTrue
<1>6. k \notin Lookback(i, Fixed[i]) BY <1>1 DEF Lookback, Outcomes
<1>7. CASE k \notin Lookback(i, Fixed[i])'
  <2>1. \A j \in Items \ {k} : UNCHANGED <<status[j], printer[j], acked[j]>> BY <1>2
  <2>2. \A j \in {k} \ {i} : j \notin Lookback(i, Fixed[i]) /\ j \notin Lookback(i, Fixed[i])'
    BY <1>6, <1>7
  <2> QED BY <1>3, <1>5, <2>1, <2>2, SuccessKept
<1>8. CASE k \in Lookback(i, Fixed[i])'
  <2>1. \A j \in Newest(Lookback(i, Fixed[i]))' : j = k
    BY <1>4, <1>8 DEF Newest, Lookback
  <2> QED BY <1>2, <2>1 DEF PreviousSuccess
<1> QED BY <1>7, <1>8

\* no failure on the printer is left unacknowledged
LEMMA ResumeGate ==
  ASSUME IInv, FixedKept, GateTrue, NEW p \in Printers, Resume(p)
  PROVE  GateTrue'
<1> DEFINE K == {j \in Items : printer[j] = p}
<1> USE DEF IInv, TypeOK, RowsTyped
<1>1. /\ UNCHANGED <<printer, passVars, poolVars>>
      /\ \A j \in Items \ K : UNCHANGED <<status[j], printer[j], acked[j]>>
      /\ \A j, l \in Items : <<j, l>> \in newer' => <<j, l>> \in newer
      /\ \A j \in K : /\ status[j] = "failed" => acked'[j]
                      /\ status'[j] = "failed" => status[j] = "failed"
  BY DEF Resume, Unstamp
<1> SUFFICES ASSUME NEW i \in Gated, Bound(i), Fixed[i] # NoPrinter
             PROVE  PreviousSuccess(i, Fixed[i])'
  BY <1>1 DEF GateTrue, Bound, passVars, poolVars
<1>2. i \in Items /\ PreviousSuccess(i, Fixed[i]) BY ConstAssumption DEF GateTrue
<1>3. CASE Fixed[i] = p
  <2>1. \A j \in Lookback(i, p)' : status'[j] \in {"completed", "cancelled"}
    BY <1>1 DEF Lookback, Outcomes
  <2> QED BY <1>3, <2>1 DEF PreviousSuccess, Newest
<1>4. CASE Fixed[i] # p
  <2>1. \A k \in K \ {i} : k \notin Lookback(i, Fixed[i]) /\ k \notin Lookback(i, Fixed[i])'
    BY <1>1, <1>4 DEF Lookback
  <2> QED BY <1>1, <1>2, <2>1, SuccessKept
<1> QED BY <1>3, <1>4

LEMMA UserGate ==
  ASSUME IInv, Hands, Lanes, FixedKept, GateTrue, User, MaxGen = 1, Undisturbed,
         "delete" \notin Stimuli
  PROVE  GateTrue'
<1> USE DEF IInv, TypeOK, RowsTyped
<1>1. req = {} BY NoReq
<1>2. ASSUME UNCHANGED <<passVars, poolVars>>, NEW j \in Items, Bound(j)' PROVE Bound(j)
  BY <1>2 DEF passVars, poolVars, Bound
<1>3. ASSUME NEW k \in Items, Add(k) PROVE GateTrue'
  <2>1. /\ \A j \in Items \ {k} : UNCHANGED <<status[j], printer[j], acked[j]>>
        /\ UNCHANGED <<newer, passVars, poolVars>>
        /\ status[k] = "absent" /\ status'[k] = "pending"
    BY <1>3 DEF Add
  <2>2. \A i \in Items : k \notin Lookback(i, Fixed[i]) /\ k \notin Lookback(i, Fixed[i])'
    BY <2>1 DEF Lookback, Outcomes
  <2>3. \A j \in Items \ {k} : UNCHANGED <<status[j], printer[j], acked[j]>> BY <2>1
  <2>4. \A j, l \in Items \ {k} : <<j, l>> \in newer' => <<j, l>> \in newer BY <2>1
  <2>5. \A j \in Items : Bound(j)' => Bound(j) BY <1>2, <2>1
  <2>6. \A i \in Items : Bound(i) /\ Fixed[i] # NoPrinter =>
          \A j \in {k} \ {i} : /\ j \notin Lookback(i, Fixed[i])
                              /\ j \notin Lookback(i, Fixed[i])'
    BY <2>2
  <2> QED BY <2>3, <2>4, <2>5, <2>6, GateStep
<1>4. ASSUME NEW k \in Items, Cancel(k) PROVE GateTrue' BY <1>1, <1>4, CancelGate
<1>5. ASSUME NEW k \in Items, Delete(k) \/ Stop(k) PROVE FALSE
  BY <1>1, <1>5 DEF Delete, Stop, Admitted, Undisturbed
<1>6. ASSUME NEW k \in Items, StartNow(k) PROVE GateTrue'
  BY <1>2, <1>6, GateFrame DEF StartNow
<1>7. ASSUME NEW i \in Items, NEW op \in RowRoutes, Ask(op, i) PROVE FALSE
  BY <1>7 DEF Ask, Undisturbed
<1>8. ASSUME NEW i \in Items, NEW p \in Printers \cup {NoPrinter}, Edit(i, p) PROVE FALSE
  BY <1>1, <1>8 DEF Edit, Admitted, Undisturbed
<1>9. ASSUME NEW p \in Printers, Resume(p) PROVE GateTrue' BY <1>9, ResumeGate
<1>10. ASSUME NEW p \in Printers, ClearPlate(p) PROVE GateTrue'
  BY <1>2, <1>10, GateFrame DEF ClearPlate, rowVars
<1> QED BY <1>3, <1>4, <1>5, <1>6, <1>7, <1>8, <1>9, <1>10 DEF User

LEMMA NextGate ==
  ASSUME IInv, Hands, Lanes, Signs, FixedKept, GateTrue, [Next]_vars, MaxGen = 1, Undisturbed,
         "delete" \notin Stimuli
  PROVE  GateTrue'
<1>1. CASE UNCHANGED vars
  BY <1>1, GateFrame DEF vars, rowVars, passVars, poolVars, Bound
<1>2. CASE Restart
  BY <1>2, ConstAssumption DEF Restart, EndPass, GateTrue, Bound
<1> QED BY <1>1, <1>2, PassGate, UserGate, WorkerGate, DogGate, PrinterGate DEF Next

\* A row with require_previous_success that names its printer is started only
\* if the newest finished print of that printer, as the table then stands, has
\* not failed: the answer the pass read minutes earlier is still the answer.
\* No history is deleted meanwhile, every gated row names its printer (what a
\* row without one is asked is another question: it reads the rows without a
\* printer), and printers work only on what they are sent.
THEOREM GateKept ==
  ASSUME MaxGen = 1, Undisturbed, "delete" \notin Stimuli,
         \A i \in Gated : Fixed[i] # NoPrinter
  PROVE  Spec => GateHonoured
<1>1. Init => FixedKept /\ GateTrue
  BY ConstAssumption DEF Init, FixedKept, GateTrue, Bound
<1>2. "edit" \notin Stimuli BY DEF Undisturbed
<1>3. /\ IInv /\ Hands /\ Lanes /\ Signs
      /\ FixedKept /\ GateTrue
      /\ [Next]_vars
      => FixedKept' /\ GateTrue'
  BY <1>2, NextFixed, NextGate
<1>4. ASSUME IInv, Hands, Lanes, FixedKept, GateTrue, [Next]_vars
      PROVE  [\A i \in Gated : Sends(i) => PreviousSuccess(i, printer[i])]_vars
  <2> SUFFICES ASSUME NEW i \in Gated, Sends(i) PROVE PreviousSuccess(i, printer[i])
    OBVIOUS
  <2>1. i \in Items BY ConstAssumption
  <2>2. Bound(i) BY <1>4, <2>1, SendsIsPublish DEF Publish, Bound
  <2>3. printer[i] = Fixed[i] BY <1>4, <2>1, <2>2, BoundFixed
  <2> QED BY <1>4, <2>2, <2>3 DEF GateTrue
<1> QED BY <1>1, <1>3, <1>4, SpecSigns, PTL DEF Spec, GateHonoured
=============================================================================
