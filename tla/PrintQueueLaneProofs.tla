------------------------- MODULE PrintQueueLaneProofs -------------------------
(***************************************************************************)
(* Proofs about who may use a printer: claims and their workers, one row   *)
(* per printer from the pass that picks it until its print is over, the    *)
(* dispatch holds, and cancellations.  The theorems name the stimuli they  *)
(* exclude; with those the code does not keep the property.                *)
(***************************************************************************)
EXTENDS PrintQueueProofs

(* What a pass and a worker hold. *)

\* a request under way is one that users make, and that is slow
ReqAsked == \A r \in req : {r[1], "slow"} \subseteq Stimuli

\* a row in the hands of the pass has no worker and no watchdog
PassOff ==
  /\ assigned \subseteq picks /\ picks \cap todo = {}
  /\ pc # "loop" => picks = {}
  /\ pc = "idle" => todo = {}
  /\ \A i \in todo \cup picks : w[i] = "off" /\ dog[i] = "off" /\ status[i] # "printing"

\* what a worker has claimed is claimed in the database
WorkClaimed == \A i \in Items : w[i] \in ClaimedPcs => claimed[i]

Hands == ReqAsked /\ PassOff /\ WorkClaimed

(* Lanes.  A row occupies a printer from the moment a pass picks it for the *)
(* printer until its worker and its print are over.                         *)

Occupies(i, p) ==
  \/ i \in picks /\ snap[i] = p
  \/ i \in InFlight /\ lane[i] = p
  \/ status[i] = "printing" /\ printer[i] = p

\* pass, pool, worker and row agree on the printer
Aimed ==
  /\ \A i \in todo : snap[i] = printer[i]
  /\ \A i \in picks : /\ snap[i] \in Printers
                      /\ i \notin assigned => printer[i] = snap[i]
  /\ \A i \in InFlight : /\ lane[i] \in Printers /\ printer[i] = lane[i]
                         /\ w[i] \in ClaimedPcs => tgt[i] = lane[i]
  /\ \A i \in Items : status[i] = "printing" => printer[i] \in Printers

OneEach ==
  \A i, j \in Items, p \in Printers : Occupies(i, p) /\ Occupies(j, p) => i = j

\* a printer the pass may still give away is nobody's
FreeIsFree ==
  pc = "loop" => \A p \in Printers \ busy, i \in Items : ~Occupies(i, p)

\* no hold is on a printer to be given away, or stands between a worker and
\* its start command
Unheld ==
  /\ pc = "loop" => \A p \in Printers \ busy : hold[p] = "none"
  /\ \A i \in picks : hold[snap[i]] = "none"
  /\ \A i \in InFlight : w[i] # "finish" => hold[lane[i]] = "none"

Lanes == Aimed /\ OneEach /\ FreeIsFree /\ Unheld

(* Cancellations. *)

\* only a gated row is skipped
SkippedGated == Gated = {} => \A i \in Items : status[i] # "skipped"

\* a row on its way to the printer does not wait
Underway == \A i \in Items : w[i] \in {"publish", "refused"} => status[i] \notin {"pending", "skipped"}

\* a row that was cancelled or deleted in time does not come back
Revoked ==
  \A i \in Items : revoked[i] => /\ status[i] \notin {"pending", "printing"}
                                 /\ w[i] \notin {"publish", "refused"}
                                 /\ dog[i] = "off"

Cancels == SkippedGated /\ Underway /\ Revoked
-----------------------------------------------------------------------------
(* Steps outside the pass.  Most of them take hold of nothing new.          *)

\* the step hands no row to a worker or a watchdog but from the worker it had
HandsCalm ==
  /\ UNCHANGED passVars
  /\ \A r \in req' \ req : {r[1], "slow"} \subseteq Stimuli
  /\ \A j \in Items :
       /\ w[j] = "off" => w'[j] = "off"
       /\ w[j] = "off" /\ dog[j] = "off" => dog'[j] = "off"
       /\ w'[j] \in ClaimedPcs => \/ claimed'[j]
                                  \/ w[j] \in ClaimedPcs /\ UNCHANGED claimed[j]
       /\ status'[j] = "printing" => status[j] = "printing" \/ w[j] # "off"

\* and no printer to a row but the one the row is queued for
LanesCalm ==
  /\ UNCHANGED printer
  /\ \A j \in Items :
       /\ w'[j] # "off" => lane'[j] = lane[j]
       /\ w'[j] \in ClaimedPcs => \/ tgt'[j] = printer[j]
                                  \/ w[j] \in ClaimedPcs /\ UNCHANGED tgt[j]
       /\ w'[j] \in {"off", "finish"} \/ w[j] # "finish"

\* and holds no printer
NoNewHold == \A p \in Printers : hold[p] = "none" => hold'[p] = "none"

LEMMA HandsCalmStep == ASSUME IInv, Hands, HandsCalm PROVE Hands'
<1>1. ReqAsked' BY DEF Hands, ReqAsked, HandsCalm
<1>2. PassOff'
  <2>1. UNCHANGED <<pc, todo, assigned, picks>> BY DEF HandsCalm, passVars
  <2>2. todo \cup picks \subseteq Items BY DEF IInv, TypeOK, PassTyped
  <2> QED BY <2>1, <2>2 DEF Hands, PassOff, HandsCalm
<1>3. WorkClaimed' BY DEF Hands, WorkClaimed, HandsCalm
<1> QED BY <1>1, <1>2, <1>3 DEF Hands

\* who occupies a printer after a calm step did so before it
LEMMA OccupiesCalm ==
  ASSUME Aimed, HandsCalm, LanesCalm, NEW i \in Items, NEW p \in Printers, Occupies(i, p)'
  PROVE  Occupies(i, p)
<1>1. CASE i \in picks' /\ snap'[i] = p BY <1>1 DEF Occupies, HandsCalm, passVars
<1>2. CASE i \in InFlight' /\ lane'[i] = p
  BY <1>2 DEF Occupies, HandsCalm, LanesCalm, InFlight
<1>3. CASE status'[i] = "printing" /\ printer'[i] = p
  BY <1>3 DEF Occupies, HandsCalm, LanesCalm, InFlight, Aimed
<1> QED BY <1>1, <1>2, <1>3 DEF Occupies

LEMMA LanesCalmStep ==
  ASSUME IInv, Lanes, HandsCalm, LanesCalm
  PROVE  /\ Aimed' /\ OneEach' /\ FreeIsFree'
         /\ NoNewHold => Lanes'
<1> USE DEF Lanes
<1>1. UNCHANGED <<pc, todo, assigned, picks, snap, busy, printer>>
  BY DEF HandsCalm, LanesCalm, passVars
<1>2. InFlight' \subseteq InFlight BY DEF HandsCalm, InFlight
<1>3. Aimed'
  <2>1. \A i \in InFlight' : lane'[i] = lane[i] BY DEF LanesCalm, InFlight
  <2>2. \A i \in Items : status'[i] = "printing" => printer'[i] \in Printers
    BY <1>1 DEF Aimed, HandsCalm, InFlight
  <2>3. \A i \in InFlight' : w'[i] \in ClaimedPcs => tgt'[i] = lane'[i]
    BY <1>2, <2>1 DEF LanesCalm, InFlight, Aimed, ClaimedPcs
  <2> QED BY <1>1, <1>2, <2>1, <2>2, <2>3 DEF Aimed
<1>4. OneEach' BY OccupiesCalm DEF OneEach
<1>5. FreeIsFree' BY <1>1, OccupiesCalm DEF FreeIsFree
<1>6. ASSUME NoNewHold PROVE Unheld'
  <2>1. pc' = "loop" => \A p \in Printers \ busy' : hold'[p] = "none"
    BY <1>1, <1>6 DEF NoNewHold, Unheld
  <2>2. \A i \in picks' : hold'[snap'[i]] = "none"
    BY <1>1, <1>6 DEF NoNewHold, Unheld, Aimed
  <2>3. \A i \in InFlight' : w'[i] # "finish" => hold'[lane'[i]] = "none"
    BY <1>2, <1>6 DEF NoNewHold, Unheld, Aimed, LanesCalm, InFlight
  <2> QED BY <2>1, <2>2, <2>3 DEF Unheld
<1> QED BY <1>3, <1>4, <1>5, <1>6

\* a worker step takes no row, no printer and no hold but the one of Publish
LEMMA WorkerCalm ==
  ASSUME IInv, Hands, NEW i \in Items, Worker(i)
  PROVE  HandsCalm /\ LanesCalm /\ (NoNewHold \/ Publish(i))
<1> USE DEF HandsCalm, LanesCalm, NoNewHold, IInv, TypeOK, RowsTyped, PoolTyped, To,
            ClaimedPcs, WorkerPcs, memVars
<1>1. CASE Claim(i) BY <1>1 DEF Claim
<1>2. CASE PrepareFails(i) BY <1>2 DEF PrepareFails, FailRow
<1>3. CASE PrepareDefers(i) BY <1>3 DEF PrepareDefers, rowVars
<1>4. CASE PrepareSucceeds(i) BY <1>4 DEF PrepareSucceeds, rowVars
<1>5. CASE ArchiveCopied(i) BY <1>5 DEF ArchiveCopied
<1>6. CASE ArchiveFails(i) BY <1>6 DEF ArchiveFails, FailRow
<1>7. CASE UploadFails(i) BY <1>7 DEF UploadFails, FailRow
<1>8. CASE MarkPrinting(i) BY <1>8 DEF MarkPrinting
<1>9. CASE Publish(i)
  <2>1. /\ UNCHANGED <<rowVars, passVars, lane, tgt, req>>
        /\ w[i] = "publish" /\ w' = [w EXCEPT ![i] = w'[i]]
        /\ w'[i] \in {"finish", "refused"}
        /\ dog' \in {dog, [dog EXCEPT ![i] = "watch"]}
    BY <1>9 DEF Publish
  <2>2. claimed[i] BY <2>1 DEF Hands, WorkClaimed
  <2>3. HandsCalm BY <2>1, <2>2 DEF rowVars, MemTyped
  <2>4. LanesCalm BY <2>1 DEF rowVars
  <2> QED BY <1>9, <2>3, <2>4
<1>10. CASE Refused(i) BY <1>10 DEF Refused, FailRow
<1>11. CASE Finish(i) BY <1>11 DEF Finish, ReleaseClaim
<1> QED
  BY <1>1, <1>2, <1>3, <1>4, <1>5, <1>6, <1>7, <1>8, <1>9, <1>10, <1>11 DEF Worker

LEMMA DogCalm ==
  ASSUME IInv, Hands, NEW i \in Items, Dog(i)
  PROVE  HandsCalm /\ LanesCalm /\ NoNewHold
<1> USE DEF HandsCalm, LanesCalm, NoNewHold, IInv, TypeOK, RowsTyped, MemTyped, poolVars
<1>1. CASE DogSeesActive(i)
  BY <1>1 DEF DogSeesActive, DropHold, Dismiss, rowVars, ClaimedPcs
<1>2. CASE DogGivesUp(i) BY <1>2 DEF DogGivesUp, DropHold, rowVars, ClaimedPcs
<1>3. CASE DogReads(i) BY <1>3 DEF DogReads, StillPrinting, Dismiss, rowVars, ClaimedPcs
<1>4. CASE DogReverts(i)
  BY <1>4 DEF DogReverts, Dismiss, FailRow, CountAttempt, ClaimedPcs
<1>5. CASE DogRevertFails(i) BY <1>5 DEF DogRevertFails, Dismiss, rowVars, ClaimedPcs
<1> QED BY <1>1, <1>2, <1>3, <1>4, <1>5 DEF Dog

LEMMA PrinterCalm ==
  ASSUME IInv, Hands, NEW p \in Printers, HoldOpens(p) \/ CloseRow(p) \/ Printer(p)
  PROVE  HandsCalm /\ LanesCalm /\ NoNewHold
<1> USE DEF HandsCalm, LanesCalm, NoNewHold, IInv, TypeOK, RowsTyped, MemTyped, poolVars
<1>1. CASE HoldOpens(p) BY <1>1 DEF HoldOpens, rowVars, ClaimedPcs
<1>2. CASE CloseRow(p)
  BY <1>2 DEF CloseRow, memVars, ClaimedPcs, PrnTyped, Outcomes
<1>3. CASE Printer(p)
  BY <1>3 DEF Printer, ReportsActive, LosesCommand, ReportsEnd, LinkChanges,
     rowVars, memVars, ClaimedPcs
<1> QED BY <1>1, <1>2, <1>3

\* a route's request was its own, or comes to its turn
LEMMA AdmittedReq == ASSUME NEW op, NEW i, Admitted(op, i) PROVE req' \subseteq req
BY DEF Admitted

LEMMA UserHandsCalm ==
  ASSUME IInv, Hands, User, MaxGen = 1
  PROVE  HandsCalm
<1> USE DEF HandsCalm, IInv, TypeOK, RowsTyped, MemTyped, poolVars
<1>1. ASSUME NEW i \in Items, Add(i) PROVE HandsCalm
  <2>1. w[i] = "off" BY <1>1 DEF Books, Unborn, Add
  <2> QED BY <1>1, <2>1 DEF Add, memVars, ClaimedPcs
<1>2. ASSUME NEW i \in Items, Cancel(i) \/ Delete(i) \/ Stop(i) \/ StartNow(i)
      PROVE  HandsCalm
  <2>1. req' \subseteq req BY <1>2, AdmittedReq DEF Cancel, Delete, Stop, StartNow
  <2> QED BY <1>2, <2>1 DEF Cancel, Delete, Stop, StartNow
<1>3. ASSUME NEW i \in Items, NEW op \in RowRoutes, Ask(op, i) PROVE HandsCalm
  BY <1>3 DEF Ask, rowVars
<1>4. ASSUME NEW i \in Items, NEW p \in Printers \cup {NoPrinter}, Edit(i, p) PROVE HandsCalm
  BY <1>4, AdmittedReq DEF Edit
<1>5. ASSUME NEW p \in Printers, Resume(p) \/ ClearPlate(p) PROVE HandsCalm
  BY <1>5 DEF Resume, ClearPlate, rowVars, memVars
<1> QED BY <1>1, <1>2, <1>3, <1>4, <1>5 DEF User

LEMMA UserLanesCalm ==
  ASSUME IInv, Hands, User, MaxGen = 1, "edit" \notin Stimuli,
         \A i \in Items : ~Add(i)
  PROVE  LanesCalm /\ NoNewHold
<1> USE DEF LanesCalm, NoNewHold, IInv, TypeOK, MemTyped, poolVars
<1>1. ASSUME NEW i \in Items, Cancel(i) \/ Delete(i) \/ Stop(i) \/ StartNow(i)
      PROVE  LanesCalm /\ NoNewHold
  BY <1>1 DEF Cancel, Delete, Stop, StartNow, ClaimedPcs
<1>2. ASSUME NEW i \in Items, NEW op \in RowRoutes, Ask(op, i) PROVE LanesCalm /\ NoNewHold
  BY <1>2 DEF Ask, rowVars, ClaimedPcs
<1>3. ASSUME NEW i \in Items, NEW p \in Printers \cup {NoPrinter}, Edit(i, p) PROVE FALSE
  BY <1>3 DEF Edit, Admitted, Hands, ReqAsked
<1>4. ASSUME NEW p \in Printers, Resume(p) \/ ClearPlate(p) PROVE LanesCalm /\ NoNewHold
  BY <1>4 DEF Resume, ClearPlate, rowVars, memVars, ClaimedPcs
<1> QED BY <1>1, <1>2, <1>3, <1>4 DEF User

\* a new row occupies nothing
LEMMA AddLanes ==
  ASSUME IInv, Hands, Lanes, MaxGen = 1, NEW i \in Items, Add(i)
  PROVE  Lanes'
<1> USE DEF IInv, TypeOK, RowsTyped, PassTyped
<1>1. w[i] = "off" /\ i \notin todo \cup picks BY DEF Books, Unborn, Add
<1>2. UNCHANGED <<passVars, poolVars, hold>> BY DEF Add, memVars
<1>3. \A j \in Items \ {i} : status'[j] = status[j] /\ printer'[j] = printer[j]
  BY DEF Add
<1>4. status'[i] = "pending" BY DEF Add
<1>5. \A j \in Items, p \in Printers : Occupies(j, p)' => Occupies(j, p)
  BY <1>2, <1>3, <1>4 DEF Occupies, InFlight, passVars, poolVars
<1>6. Aimed'
  BY <1>1, <1>2, <1>3, <1>4 DEF Lanes, Aimed, InFlight, passVars, poolVars
<1>7. OneEach' /\ FreeIsFree'
  BY <1>2, <1>5 DEF Lanes, OneEach, FreeIsFree, passVars
<1>8. Unheld' BY <1>2 DEF Lanes, Unheld, InFlight, passVars, poolVars
<1> QED BY <1>6, <1>7, <1>8 DEF Lanes

\* the printer a command goes to is no other row's
LEMMA PublishLanes ==
  ASSUME IInv, Hands, Lanes, NEW i \in Items, Publish(i)
  PROVE  Lanes'
<1> USE DEF IInv, TypeOK, PoolTyped, PassTyped, MemTyped
<1>1. HandsCalm /\ LanesCalm BY WorkerCalm DEF Worker
<1>2. Aimed' /\ OneEach' /\ FreeIsFree' BY <1>1, LanesCalmStep
<1>3. i \in InFlight /\ tgt[i] = lane[i] /\ Occupies(i, lane[i]) /\ lane[i] \in Printers
  BY DEF Publish, InFlight, ClaimedPcs, WorkerPcs, Lanes, Aimed, Occupies
<1>4. \A p \in Printers \ {lane[i]} : hold'[p] = hold[p] BY <1>3 DEF Publish
<1>5. UNCHANGED <<passVars, lane>> BY DEF Publish
<1>6. pc' = "loop" => \A p \in Printers \ busy' : hold'[p] = "none"
  <2>1. pc = "loop" => lane[i] \in busy BY <1>3 DEF Lanes, FreeIsFree
  <2> QED BY <1>4, <1>5, <2>1 DEF passVars, Lanes, Unheld
<1>7. \A j \in picks' : hold'[snap'[j]] = "none"
  <2> SUFFICES ASSUME NEW j \in picks PROVE hold'[snap[j]] = "none"
    BY <1>5 DEF passVars
  <2>1. j # i BY <1>3 DEF Hands, PassOff, InFlight
  <2>2. Occupies(j, snap[j]) /\ snap[j] \in Printers BY DEF Occupies, Lanes, Aimed
  <2>3. snap[j] # lane[i] BY <1>3, <2>1, <2>2 DEF Lanes, OneEach
  <2> QED BY <1>4, <2>2, <2>3 DEF Lanes, Unheld
<1>8. \A j \in InFlight' : w'[j] # "finish" => hold'[lane'[j]] = "none"
  <2> SUFFICES ASSUME NEW j \in InFlight', w'[j] # "finish" PROVE hold'[lane[j]] = "none"
    BY <1>5
  <2>1. j \in InFlight /\ lane[j] \in Printers /\ Occupies(j, lane[j])
    BY <1>1 DEF HandsCalm, InFlight, Lanes, Aimed, Occupies
  <2>2. CASE j = i
    <3>1. ~Accepts(tgt[i]) BY <2>2 DEF Publish, To
    <3>2. UNCHANGED hold BY <3>1 DEF Publish
    <3> QED BY <2>1, <2>2, <3>2 DEF Lanes, Unheld, Publish
  <2>3. CASE j # i
    <3>1. lane[j] # lane[i] BY <1>3, <2>1, <2>3 DEF Lanes, OneEach, InFlight
    <3>2. w[j] # "finish" BY <2>1, <2>3 DEF Publish, To, InFlight
    <3> QED BY <1>4, <2>1, <3>1, <3>2 DEF Lanes, Unheld
  <2> QED BY <2>2, <2>3
<1>9. Unheld' BY <1>6, <1>7, <1>8 DEF Unheld
<1> QED BY <1>2, <1>9 DEF Lanes
-----------------------------------------------------------------------------
(* The steps of the pass, and a restart. *)

\* a pass that ends lets go of what it held
LEMMA EndPassHands ==
  ASSUME IInv, Hands, EndPass, req' \subseteq req,
         \A j \in Items : w'[j] \in ClaimedPcs => claimed'[j]
  PROVE  Hands'
BY DEF Hands, ReqAsked, PassOff, WorkClaimed, EndPass

LEMMA EndPassLanes ==
  ASSUME Lanes, EndPass, UNCHANGED <<status, printer, w, lane, tgt, hold>>
  PROVE  Lanes'
<1>1. \A j \in Items, p \in Printers : Occupies(j, p)' => Occupies(j, p)
  BY DEF Occupies, InFlight, EndPass
<1>2. Aimed' BY DEF Lanes, Aimed, InFlight, EndPass
<1>3. OneEach' /\ FreeIsFree' BY <1>1 DEF Lanes, OneEach, FreeIsFree, EndPass
<1>4. Unheld' BY DEF Lanes, Unheld, InFlight, EndPass
<1> QED BY <1>2, <1>3, <1>4 DEF Lanes

LEMMA AbortPassKeeps ==
  ASSUME IInv, Hands, NEW S, AbortPass(S)
  PROVE  Hands' /\ (Lanes => Lanes')
<1>1. EndPass /\ UNCHANGED <<rowVars, poolVars, memVars>> BY DEF AbortPass
<1>2. Hands' BY <1>1, EndPassHands DEF Hands, WorkClaimed, rowVars, poolVars, memVars
<1>3. Lanes => Lanes' BY <1>1, EndPassLanes DEF rowVars, poolVars, memVars
<1> QED BY <1>2, <1>3

LEMMA SelectKeeps ==
  ASSUME IInv, Hands, Select
  PROVE  Hands' /\ (Lanes => Lanes')
<1> USE DEF IInv, TypeOK, RowsTyped, PassTyped
<1>1. UNCHANGED <<rowVars, poolVars, memVars, assigned, picks, busy>> BY DEF Select
<1>2. /\ picks = {} /\ assigned = {} /\ pc' = "seed"
      /\ todo' \subseteq Items
      /\ \A i \in todo' : /\ w[i] = "off" /\ status[i] = "pending"
                          /\ snap'[i] = printer[i]
  BY DEF Select, Hands, PassOff
<1>3. \A i \in todo' : dog[i] = "off" BY <1>2 DEF Books, Waiting, Settled
<1>4. Hands'
  <2>1. PassOff' BY <1>1, <1>2, <1>3 DEF PassOff, rowVars, poolVars, memVars
  <2> QED BY <1>1, <2>1 DEF Hands, ReqAsked, WorkClaimed, rowVars, poolVars, memVars
<1>5. ASSUME Lanes PROVE Lanes'
  <2>1. \A j \in Items, p \in Printers : Occupies(j, p)' => Occupies(j, p)
    BY <1>1, <1>2 DEF Occupies, InFlight, rowVars, poolVars
  <2>2. Aimed' BY <1>1, <1>2, <1>5 DEF Lanes, Aimed, InFlight, rowVars, poolVars
  <2>3. OneEach' /\ FreeIsFree' BY <1>2, <1>5, <2>1 DEF Lanes, OneEach, FreeIsFree
  <2>4. Unheld'
    BY <1>1, <1>2, <1>5 DEF Lanes, Unheld, InFlight, rowVars, poolVars, memVars
  <2> QED BY <2>2, <2>3, <2>4 DEF Lanes
<1> QED BY <1>4, <1>5

LEMMA SeedKeeps ==
  ASSUME IInv, Hands, Seed
  PROVE  Hands' /\ (Lanes => Lanes')
<1> USE DEF IInv, TypeOK, RowsTyped, PassTyped, MemTyped
<1>1. UNCHANGED <<rowVars, poolVars, todo, snap, assigned, picks, dog, req>> BY DEF Seed
<1>2. picks = {} /\ assigned = {} /\ pc' = "loop" BY DEF Seed, Hands, PassOff
<1>3. Hands'
  BY <1>1, <1>2 DEF Hands, ReqAsked, PassOff, WorkClaimed, rowVars, poolVars
<1>4. ASSUME Lanes PROVE Lanes'
  <2>1. \A j \in Items, p \in Printers : Occupies(j, p)' <=> Occupies(j, p)
    BY <1>1 DEF Occupies, InFlight, rowVars, poolVars
  <2>2. Aimed' BY <1>1, <1>4 DEF Lanes, Aimed, InFlight, rowVars, poolVars
  <2>3. OneEach' BY <1>4, <2>1 DEF Lanes, OneEach
  <2>4. \A p \in Printers \ busy' : ~PrinterBusy(p) BY DEF Seed
  <2>5. FreeIsFree'
    BY <1>2, <2>1, <2>4 DEF FreeIsFree, Occupies, PrinterBusy
  <2>6. \A p \in Printers : hold'[p] = IF hold[p] = "held" THEN "held" ELSE "none"
    BY DEF Seed, Held
  <2>7. Unheld'
    BY <1>1, <1>2, <1>4, <2>2, <2>4, <2>6
    DEF Lanes, Unheld, Aimed, InFlight, PrinterBusy, Held, poolVars
  <2> QED BY <2>2, <2>3, <2>5, <2>7 DEF Lanes
<1> QED BY <1>3, <1>4

\* a row the pass only drops
LEMMA DropKeeps ==
  ASSUME IInv, Hands, NEW i \in todo, todo' = todo \ {i}, busy \subseteq busy',
         UNCHANGED <<pc, snap, assigned, picks, rowVars, poolVars, memVars>>
  PROVE  Hands' /\ (Lanes => Lanes')
<1> USE DEF rowVars, poolVars, memVars
<1>1. Hands' BY DEF Hands, ReqAsked, PassOff, WorkClaimed
<1>2. ASSUME Lanes PROVE Lanes'
  <2>1. \A j \in Items, p \in Printers : Occupies(j, p)' => Occupies(j, p)
    BY DEF Occupies, InFlight
  <2>2. Aimed' BY <1>2 DEF Lanes, Aimed, InFlight
  <2>3. OneEach' /\ FreeIsFree' BY <1>2, <2>1 DEF Lanes, OneEach, FreeIsFree
  <2>4. Unheld' BY <1>2 DEF Lanes, Unheld, InFlight
  <2> QED BY <2>2, <2>3, <2>4 DEF Lanes
<1> QED BY <1>1, <1>2

\* a commit of the pass: the rows S get the printers the pass has given them,
\* and row i leaves the pass
LEMMA CommitKeeps ==
  ASSUME IInv, Hands, NEW i \in todo, NEW S, todo' = todo \ {i}, assigned' = {},
         snap' = snap \/ S = assigned \cup {i},
         \A j \in Items \ {i} : snap'[j] = snap[j],
         Commit(S, snap'), S \in {assigned, assigned \cup {i}},
         \A j \in Items : status'[j] = "printing" => status[j] = "printing",
         UNCHANGED <<pc, busy, picks, claimed, poolVars, memVars>>
  PROVE  Hands' /\ (Lanes => Lanes')
<1> USE DEF poolVars, memVars, IInv, TypeOK, PassTyped
<1>1. Hands' BY DEF Hands, ReqAsked, PassOff, WorkClaimed
<1>2. i \in Items /\ i \notin picks BY DEF Hands, PassOff
<1>3. \A j \in S : w[j] = "off" /\ status[j] # "printing"
  BY DEF Hands, PassOff
<1>4. \A j \in Items : printer'[j] = IF j \in S THEN snap'[j] ELSE printer[j]
  BY DEF Commit
<1>5. ASSUME Lanes PROVE Lanes'
  <2>1. \A j \in Items, p \in Printers : Occupies(j, p)' => Occupies(j, p)
    BY <1>2, <1>3, <1>4 DEF Occupies, InFlight
  <2>2. \A j \in picks : snap'[j] \in Printers /\ printer'[j] = snap'[j]
    BY <1>2, <1>4, <1>5 DEF Lanes, Aimed
  <2>3. \A j \in todo' : snap'[j] = printer'[j]
    BY <1>4, <1>5 DEF Lanes, Aimed, Hands, PassOff
  <2>4. \A j \in InFlight : printer'[j] = printer[j]
    BY <1>3, <1>4 DEF InFlight
  <2>5. \A j \in Items : status'[j] = "printing" => printer'[j] = printer[j]
    BY <1>3, <1>4
  <2>6. Aimed' BY <1>5, <2>2, <2>3, <2>4, <2>5 DEF Lanes, Aimed, InFlight
  <2>7. OneEach' /\ FreeIsFree' BY <1>5, <2>1 DEF Lanes, OneEach, FreeIsFree
  <2>8. Unheld' BY <1>2, <1>5 DEF Lanes, Unheld, InFlight
  <2> QED BY <2>6, <2>7, <2>8 DEF Lanes
<1> QED BY <1>1, <1>5

LEMMA TakeKeeps ==
  ASSUME IInv, Hands, NEW i \in Items, NEW p \in Printers, Take(i, p)
  PROVE  Hands' /\ (Lanes => Lanes')
<1> USE DEF IInv, TypeOK, PassTyped, rowVars, poolVars, memVars
<1>1. /\ pc = "loop" /\ pc' = "loop" /\ i \in todo /\ p \notin busy
      /\ picks' = picks \cup {i} /\ todo' = todo \ {i} /\ busy' = busy \cup {p}
      /\ snap'[i] = p /\ \A j \in Items \ {i} : snap'[j] = snap[j]
      /\ assigned' = IF ModelBased(i) THEN assigned \cup {i} ELSE assigned
      /\ snap[i] \in {p, NoPrinter}
      /\ UNCHANGED <<rowVars, poolVars, memVars>>
  BY DEF Take, Offer
<1>2. Hands' BY <1>1 DEF Hands, ReqAsked, PassOff, WorkClaimed
<1>3. ASSUME Lanes PROVE Lanes'
  <2>1. \A j \in Items, q \in Printers :
          Occupies(j, q)' => Occupies(j, q) \/ (j = i /\ q = p)
    BY <1>1 DEF Occupies, InFlight
  <2>2. \A j \in Items : ~Occupies(j, p) BY <1>1, <1>3 DEF Lanes, FreeIsFree
  <2>3. i \notin picks /\ i \notin assigned BY <1>1 DEF Hands, PassOff
  <2>4. Aimed'
    BY <1>1, <1>3, <2>3 DEF Lanes, Aimed, InFlight, ModelBased
  <2>5. OneEach' BY <1>3, <2>1, <2>2 DEF Lanes, OneEach
  <2>6. FreeIsFree' BY <1>1, <1>3, <2>1 DEF Lanes, FreeIsFree
  <2>7. Unheld' BY <1>1, <1>3, <2>3 DEF Lanes, Unheld, InFlight
  <2> QED BY <2>4, <2>5, <2>6, <2>7 DEF Lanes
<1> QED BY <1>2, <1>3

LEMMA LaunchKeeps ==
  ASSUME IInv, Hands, Launch
  PROVE  Hands' /\ (Lanes => Lanes')
<1> USE DEF IInv, TypeOK, PassTyped, PoolTyped, memVars
<1>1. CASE AbortPass(assigned) BY <1>1, AbortPassKeeps
<1>2. CASE ~AbortPass(assigned)
  <2>1. PICK L \in SUBSET picks :
          /\ Commit(assigned, snap)
          /\ w' = [i \in Items |-> IF i \in L THEN "launched" ELSE w[i]]
          /\ lane' = [i \in Items |-> IF i \in L THEN snap[i] ELSE lane[i]]
          /\ EndPass
          /\ UNCHANGED <<status, claimed, attempts, startMode, acked, archived, gen,
                         newer, libRow, tgt, memVars, prnVars, histVars>>
    BY <1>2 DEF Launch
  <2>2. Hands'
    BY <2>1, EndPassHands DEF Hands, WorkClaimed, ClaimedPcs
  <2>3. \A j \in assigned : w[j] = "off" /\ status[j] # "printing" /\ j \in picks
    BY DEF Hands, PassOff
  <2>4. \A j \in Items : printer'[j] = IF j \in assigned THEN snap[j] ELSE printer[j]
    BY <2>1 DEF Commit
  <2>5. ASSUME Lanes PROVE Lanes'
    <3>1. \A j \in Items, p \in Printers : Occupies(j, p)' => Occupies(j, p)
      BY <2>1, <2>3, <2>4 DEF Occupies, InFlight, EndPass
    <3>2. \A j \in L : snap[j] \in Printers /\ printer'[j] = snap[j]
      BY <2>4, <2>5 DEF Lanes, Aimed
    <3>3. \A j \in InFlight : printer'[j] = printer[j] /\ j \notin L
      BY <2>3, <2>4 DEF InFlight, Hands, PassOff
    <3>4. \A j \in Items : status'[j] = "printing" => printer'[j] = printer[j]
      BY <2>1, <2>3, <2>4
    <3>5. InFlight' = InFlight \cup L BY <2>1 DEF InFlight
    <3>6. Aimed'
      BY <2>1, <2>5, <3>2, <3>3, <3>4, <3>5
      DEF Lanes, Aimed, EndPass, InFlight, ClaimedPcs
    <3>7. OneEach' /\ FreeIsFree'
      BY <2>1, <2>5, <3>1 DEF Lanes, OneEach, FreeIsFree, EndPass
    <3>8. Unheld'
      BY <2>1, <2>5, <3>3, <3>5 DEF Lanes, Unheld, InFlight, EndPass
    <3> QED BY <3>6, <3>7, <3>8 DEF Lanes
  <2> QED BY <2>2, <2>5
<1> QED BY <1>1, <1>2

LEMMA RestartKeeps ==
  ASSUME Hands, Restart
  PROVE  Hands' /\ (Lanes => Lanes')
<1>1. /\ EndPass /\ UNCHANGED <<status, printer>> /\ req' = {}
      /\ \A i \in Items : w'[i] = "off"
      /\ \A p \in Printers : hold'[p] = "none"
  BY DEF Restart
<1>2. Hands'
  BY <1>1 DEF Hands, ReqAsked, PassOff, WorkClaimed, EndPass, ClaimedPcs
<1>3. ASSUME Lanes PROVE Lanes'
  <2>1. \A j \in Items, p \in Printers : Occupies(j, p)' => Occupies(j, p)
    BY <1>1 DEF Occupies, InFlight, EndPass
  <2>2. Aimed' BY <1>1, <1>3 DEF Lanes, Aimed, InFlight, EndPass
  <2>3. OneEach' /\ FreeIsFree'
    BY <1>1, <1>3, <2>1 DEF Lanes, OneEach, FreeIsFree, EndPass
  <2>4. Unheld' BY <1>1 DEF Unheld, InFlight, EndPass
  <2> QED BY <2>2, <2>3, <2>4 DEF Lanes
<1> QED BY <1>2, <1>3

\* the pass as a whole
LEMMA PassKeeps ==
  ASSUME IInv, Hands, Pass
  PROVE  Hands' /\ (Lanes => Lanes')
<1> USE DEF IInv, TypeOK, PassTyped
<1>1. CASE Select BY <1>1, SelectKeeps
<1>2. CASE Seed BY <1>2, SeedKeeps
<1>3. CASE Launch BY <1>3, LaunchKeeps
<1>4. ASSUME NEW i \in Items, PassOver(i) PROVE Hands' /\ (Lanes => Lanes')
  BY <1>4, DropKeeps DEF PassOver
<1>5. ASSUME NEW i \in Items, NEW p \in Printers, HoldBack(i, p)
      PROVE  Hands' /\ (Lanes => Lanes')
  BY <1>5, DropKeeps DEF HoldBack, Offer
<1>6. ASSUME NEW i \in Items, NEW p \in Printers, Skip(i, p)
      PROVE  Hands' /\ (Lanes => Lanes')
  <2>1. CASE AbortPass(assigned \cup {i}) BY <2>1, AbortPassKeeps
  <2>2. CASE ~AbortPass(assigned \cup {i})
    BY <1>6, <2>2, CommitKeeps DEF Skip, Offer, RowsTyped, poolVars, memVars
  <2> QED BY <2>1, <2>2
<1>7. ASSUME NEW i \in Items, NEW p \in Printers, Block(i, p)
      PROVE  Hands' /\ (Lanes => Lanes')
  <2>1. CASE AbortPass(assigned \cup {i}) BY <2>1, AbortPassKeeps
  <2>2. CASE ~AbortPass(assigned \cup {i}) /\ ModelBased(i)
    BY <1>7, <2>2, CommitKeeps DEF Block, Offer, poolVars, memVars
  <2>3. CASE ~AbortPass(assigned \cup {i}) /\ ~ModelBased(i)
    <3>1. snap[i] = p BY <1>7, <2>3 DEF Block, Offer, ModelBased
    <3>2. snap' = snap BY <1>7, <2>3, <3>1 DEF Block
    <3> QED BY <1>7, <2>3, <3>2, CommitKeeps DEF Block, Offer, poolVars, memVars
  <2> QED BY <2>1, <2>2, <2>3
<1>8. ASSUME NEW i \in Items, NEW p \in Printers, Take(i, p)
      PROVE  Hands' /\ (Lanes => Lanes')
  BY <1>8, TakeKeeps
<1> QED BY <1>1, <1>2, <1>3, <1>4, <1>5, <1>6, <1>7, <1>8 DEF Pass

LEMMA InitHands == Init => Hands /\ Lanes
<1> SUFFICES ASSUME Init PROVE Hands /\ Lanes OBVIOUS
<1>1. InFlight = {} /\ \A i \in Items, p \in Printers : ~Occupies(i, p)
  BY DEF Init, InFlight, Occupies
<1>2. Hands BY DEF Init, Hands, ReqAsked, PassOff, WorkClaimed, ClaimedPcs
<1>3. Lanes
  BY <1>1 DEF Init, Lanes, Aimed, OneEach, FreeIsFree, Unheld
<1> QED BY <1>2, <1>3

LEMMA NextHands == ASSUME IInv, Hands, [Next]_vars, MaxGen = 1 PROVE Hands'
<1>1. CASE UNCHANGED vars
  BY <1>1 DEF vars, rowVars, passVars, poolVars, memVars, Hands, ReqAsked, PassOff,
     WorkClaimed
<1>2. CASE Pass BY <1>2, PassKeeps
<1>3. CASE User BY <1>3, UserHandsCalm, HandsCalmStep
<1>4. CASE Restart BY <1>4, RestartKeeps
<1>5. ASSUME NEW i \in Items, Worker(i) PROVE Hands' BY <1>5, WorkerCalm, HandsCalmStep
<1>6. ASSUME NEW i \in Items, Dog(i) PROVE Hands' BY <1>6, DogCalm, HandsCalmStep
<1>7. ASSUME NEW p \in Printers, HoldOpens(p) \/ CloseRow(p) \/ Printer(p) PROVE Hands'
  BY <1>7, PrinterCalm, HandsCalmStep
<1> QED BY <1>1, <1>2, <1>3, <1>4, <1>5, <1>6, <1>7 DEF Next

LEMMA NextLanes ==
  ASSUME IInv, Hands, Lanes, [Next]_vars, MaxGen = 1, "edit" \notin Stimuli
  PROVE  Lanes'
<1>1. CASE UNCHANGED vars
  BY <1>1 DEF vars, rowVars, passVars, poolVars, memVars, Lanes, Aimed, OneEach,
     FreeIsFree, Unheld, Occupies, InFlight
<1>2. CASE Pass BY <1>2, PassKeeps
<1>3. CASE User
  <2>1. CASE \A i \in Items : ~Add(i)
    BY <1>3, <2>1, UserHandsCalm, UserLanesCalm, LanesCalmStep
  <2>2. ASSUME NEW i \in Items, Add(i) PROVE Lanes' BY <2>2, AddLanes
  <2> QED BY <2>1, <2>2
<1>4. CASE Restart BY <1>4, RestartKeeps
<1>5. ASSUME NEW i \in Items, Worker(i) PROVE Lanes'
  BY <1>5, WorkerCalm, LanesCalmStep, PublishLanes
<1>6. ASSUME NEW i \in Items, Dog(i) PROVE Lanes' BY <1>6, DogCalm, LanesCalmStep
<1>7. ASSUME NEW p \in Printers, HoldOpens(p) \/ CloseRow(p) \/ Printer(p) PROVE Lanes'
  BY <1>7, PrinterCalm, LanesCalmStep
<1> QED BY <1>1, <1>2, <1>3, <1>4, <1>5, <1>6, <1>7 DEF Next

LEMMA SpecHands == ASSUME MaxGen = 1 PROVE Spec => [](IInv /\ Hands)
<1>1. Init => IInv /\ Hands BY InitIInv, InitHands
<1>2. IInv /\ Hands /\ [Next]_vars => (IInv /\ Hands)' BY NextIInv, NextHands
<1> QED BY <1>1, <1>2, PTL DEF Spec

LEMMA SpecLanes ==
  ASSUME MaxGen = 1, "edit" \notin Stimuli
  PROVE  Spec => [](IInv /\ Hands /\ Lanes)
<1>1. Init => IInv /\ Hands /\ Lanes BY InitIInv, InitHands
<1>2. IInv /\ Hands /\ Lanes /\ [Next]_vars => (IInv /\ Hands /\ Lanes)'
  BY NextIInv, NextHands, NextLanes
<1> QED BY <1>1, <1>2, PTL DEF Spec

\* Two rows are never 'printing' on one printer, for any number of rows,
\* printers, workers and passes, and whatever crashes and slow requests there
\* are; no row is edited (an edit between the pass and the claim moves a row
\* out of the lane its worker runs in).
THEOREM OneAtATime ==
  ASSUME MaxGen = 1, "edit" \notin Stimuli
  PROVE  Spec => []OnePrinting
<1>1. Lanes => OnePrinting
  BY DEF Lanes, Aimed, OneEach, Occupies, OnePrinting
<1> QED BY <1>1, SpecLanes, PTL

LEMMA SendsIsPublish ==
  ASSUME IInv, [Next]_vars, MaxGen = 1, NEW i \in Items, Sends(i)
  PROVE  Publish(i)
<1> USE DEF IInv, TypeOK, HistTyped, Sends
<1>1. UNCHANGED sent => FALSE OBVIOUS
<1>2. ASSUME NEW j \in Items, Publish(j) PROVE Publish(i)
  <2>1. i # j => sent'[i] = sent[i] BY <1>2 DEF Publish
  <2>2. i = j BY <2>1
  <2> QED BY <1>2, <2>2
<1>3. ASSUME NEW j \in Items, Add(j) PROVE FALSE
  BY <1>3 DEF Add
<1>4. CASE Pass
  BY <1>1, <1>4 DEF Pass, Select, Seed, Launch, PassOver, HoldBack, Skip, Block, Take,
     AbortPass, histVars
<1>5. CASE User
  BY <1>1, <1>3, <1>5 DEF User, Cancel, Delete, Stop, StartNow, Ask, Edit, Resume,
     ClearPlate, histVars
<1>6. CASE Restart BY <1>1, <1>6 DEF Restart, histVars
<1>7. ASSUME NEW j \in Items, Worker(j) PROVE Publish(i)
  BY <1>1, <1>2, <1>7 DEF Worker, Claim, PrepareFails, PrepareDefers, PrepareSucceeds,
     ArchiveCopied, ArchiveFails, UploadFails, MarkPrinting, Refused, Finish, histVars
<1>8. ASSUME NEW j \in Items, Dog(j) PROVE FALSE
  BY <1>1, <1>8 DEF Dog, DogSeesActive, DogGivesUp, DogReads, DogReverts,
     DogRevertFails, histVars
<1>9. ASSUME NEW p \in Printers, HoldOpens(p) \/ CloseRow(p) \/ Printer(p) PROVE FALSE
  BY <1>1, <1>9 DEF HoldOpens, CloseRow, Printer, ReportsActive, LosesCommand,
     ReportsEnd, LinkChanges, histVars
<1>10. CASE UNCHANGED vars BY <1>1, <1>10 DEF vars, histVars
<1> QED
  BY <1>4, <1>5, <1>6, <1>7, <1>8, <1>9, <1>10 DEF Next

\* No start command goes to a printer whose last one is not settled, whichever
\* pass picked the row; no row is edited.
THEOREM HoldsKept ==
  ASSUME MaxGen = 1, "edit" \notin Stimuli
  PROVE  Spec => HoldRespected
<1>1. ASSUME IInv, Lanes, [Next]_vars
      PROVE  [\A i \in Items : Sends(i) => hold[tgt[i]] = "none"]_vars
  <2> SUFFICES ASSUME NEW i \in Items, Sends(i) PROVE hold[tgt[i]] = "none"
    OBVIOUS
  <2>1. Publish(i) BY <1>1, SendsIsPublish
  <2>2. i \in InFlight /\ w[i] = "publish" /\ tgt[i] = lane[i]
    BY <1>1, <2>1 DEF Publish, InFlight, Lanes, Aimed, ClaimedPcs, WorkerPcs
  <2> QED BY <1>1, <2>2 DEF Lanes, Unheld
<1> QED BY <1>1, SpecLanes, PTL DEF Spec, HoldRespected
-----------------------------------------------------------------------------
(* Claims. *)

LEMMA NextClaims ==
  ASSUME IInv, Hands, ClaimOwned, [Next]_vars, MaxGen = 1, "dbFails" \notin Stimuli
  PROVE  ClaimOwned'
<1> USE DEF ClaimOwned, IInv, TypeOK, RowsTyped, PoolTyped, PassTyped, To
<1>1. UNCHANGED <<claimed, w>> => ClaimOwned' OBVIOUS
<1>2. CASE Pass
  <2>1. CASE Launch
    <3>1. \A j \in picks : w[j] = "off" BY DEF Hands, PassOff
    <3>2. \A j \in picks : ~claimed[j] BY <3>1 DEF ClaimedPcs
    <3>3. CASE AbortPass(assigned) BY <1>1, <3>3 DEF AbortPass, rowVars, poolVars
    <3>4. CASE ~AbortPass(assigned)
      <4>1. /\ UNCHANGED claimed
            /\ \A j \in Items \ picks : w'[j] = w[j]
        BY <2>1, <3>4 DEF Launch
      <4> QED BY <3>2, <4>1
    <3> QED BY <3>3, <3>4
  <2>2. CASE ~Launch
    BY <1>1, <1>2, <2>2 DEF Pass, Select, Seed, PassOver, HoldBack, Skip, Block, Take,
       AbortPass, rowVars, poolVars
  <2> QED BY <2>1, <2>2
<1>3. CASE User
  <2>1. ASSUME NEW i \in Items, Add(i) PROVE ClaimOwned' BY <2>1 DEF Add, poolVars
  <2>2. CASE \A i \in Items : ~Add(i)
    BY <1>1, <1>3, <2>2 DEF User, Cancel, Delete, Stop, StartNow, Ask, Edit, Resume,
       ClearPlate, rowVars, poolVars
  <2> QED BY <2>1, <2>2
<1>4. CASE Restart BY <1>4 DEF Restart, StaleClaimsCleared
<1>5. ASSUME NEW i \in Items, Worker(i) PROVE ClaimOwned'
  <2> USE DEF ClaimedPcs, WorkerPcs
  <2>1. CASE Claim(i) BY <2>1 DEF Claim
  <2>2. CASE Finish(i) BY <2>2 DEF Finish, ReleaseClaim
  <2>3. CASE PrepareFails(i) \/ PrepareDefers(i) \/ PrepareSucceeds(i)
    BY <2>3 DEF PrepareFails, PrepareDefers, PrepareSucceeds, rowVars
  <2>4. CASE ArchiveCopied(i) \/ ArchiveFails(i) \/ UploadFails(i)
    BY <2>4 DEF ArchiveCopied, ArchiveFails, UploadFails
  <2>5. CASE MarkPrinting(i) \/ Refused(i)
    BY <2>5 DEF MarkPrinting, Refused, rowVars
  <2>6. CASE Publish(i)
    <3>1. /\ UNCHANGED claimed
          /\ w[i] = "publish" /\ w' = [w EXCEPT ![i] = w'[i]]
          /\ w'[i] \in {"finish", "refused"}
      BY <2>6 DEF Publish, rowVars
    <3> QED BY <3>1
  <2> QED BY <1>5, <2>1, <2>2, <2>3, <2>4, <2>5, <2>6 DEF Worker
<1>6. ASSUME NEW i \in Items, Dog(i) PROVE ClaimOwned'
  BY <1>1, <1>6 DEF Dog, DogSeesActive, DogGivesUp, DogReads, DogReverts,
     DogRevertFails, rowVars, poolVars
<1>7. ASSUME NEW p \in Printers, HoldOpens(p) \/ CloseRow(p) \/ Printer(p) PROVE ClaimOwned'
  BY <1>1, <1>7 DEF HoldOpens, CloseRow, Printer, ReportsActive, LosesCommand,
     ReportsEnd, LinkChanges, rowVars, poolVars
<1>8. CASE UNCHANGED vars BY <1>1, <1>8 DEF vars, rowVars, poolVars
<1> QED BY <1>2, <1>3, <1>4, <1>5, <1>6, <1>7, <1>8 DEF Next

\* A claim in the database always has a worker that will release it, in
\* whatever state its row is, after any crash; the database does not fail.
THEOREM ClaimsHaveWorkers ==
  ASSUME MaxGen = 1, "dbFails" \notin Stimuli
  PROVE  Spec => []ClaimOwned
<1>1. Init => ClaimOwned BY DEF Init, ClaimOwned
<1>2. IInv /\ Hands /\ ClaimOwned /\ [Next]_vars => ClaimOwned' BY NextClaims
<1> QED BY <1>1, <1>2, SpecHands, PTL DEF Spec

LEMMA NextTarget ==
  ASSUME IInv, Hands, TargetFixed, [Next]_vars, MaxGen = 1,
         ~({"edit", "slow"} \subseteq Stimuli)
  PROVE  TargetFixed'
<1> USE DEF TargetFixed, IInv, TypeOK, RowsTyped, PoolTyped, PassTyped, To
<1>1. UNCHANGED <<printer, w, tgt>> => TargetFixed' OBVIOUS
<1>2. \A j \in todo \cup picks : w[j] = "off" BY DEF Hands, PassOff
<1>3. ASSUME NEW S, NEW new, Commit(S, new), S \subseteq todo \cup picks,
             UNCHANGED tgt,
             \A j \in Items : w'[j] = w[j] \/ w'[j] = "launched"
      PROVE  TargetFixed'
  BY <1>2, <1>3 DEF Commit, ClaimedPcs, WorkerPcs
<1>4. CASE Pass
  <2>1. assigned \subseteq picks BY DEF Hands, PassOff
  <2>2. ASSUME NEW S, AbortPass(S) PROVE TargetFixed'
    BY <1>1, <2>2 DEF AbortPass, rowVars, poolVars
  <2>3. CASE Launch BY <1>3, <2>1, <2>2, <2>3 DEF Launch
  <2>4. ASSUME NEW i \in Items, NEW p \in Printers, Skip(i, p) PROVE TargetFixed'
    <3>1. CASE AbortPass(assigned \cup {i}) BY <2>2, <3>1
    <3>2. CASE ~AbortPass(assigned \cup {i})
      BY <1>3, <2>1, <2>4, <3>2 DEF Skip, poolVars
    <3> QED BY <3>1, <3>2
  <2>5. ASSUME NEW i \in Items, NEW p \in Printers, Block(i, p) PROVE TargetFixed'
    <3>1. CASE AbortPass(assigned \cup {i}) BY <2>2, <3>1
    <3>2. CASE ~AbortPass(assigned \cup {i})
      BY <1>3, <2>1, <2>5, <3>2 DEF Block, Offer, poolVars
    <3> QED BY <3>1, <3>2
  <2>6. CASE Select \/ Seed BY <1>1, <2>6 DEF Select, Seed, rowVars, poolVars
  <2>7. ASSUME NEW i \in Items, PassOver(i) PROVE TargetFixed'
    BY <1>1, <2>7 DEF PassOver, rowVars, poolVars
  <2>8. ASSUME NEW i \in Items, NEW p \in Printers, HoldBack(i, p) \/ Take(i, p)
        PROVE  TargetFixed'
    BY <1>1, <2>8 DEF HoldBack, Take, rowVars, poolVars
  <2> QED BY <1>4, <2>3, <2>4, <2>5, <2>6, <2>7, <2>8 DEF Pass
<1>5. CASE User
  <2>1. ASSUME NEW i \in Items, Add(i) PROVE TargetFixed'
    BY <2>1 DEF Add, poolVars, Books, Unborn, ClaimedPcs
  <2>2. ASSUME NEW i \in Items, NEW p \in Printers \cup {NoPrinter}, Edit(i, p) PROVE TargetFixed'
    <3>1. ~claimed[i] BY <2>2 DEF Edit, Admitted, Allowed, Editable, Hands, ReqAsked
    <3>2. w[i] \notin ClaimedPcs BY <3>1 DEF Hands, WorkClaimed
    <3> QED BY <2>2, <3>2 DEF Edit, poolVars
  <2>3. CASE /\ \A i \in Items : ~Add(i)
             /\ \A i \in Items, p \in Printers \cup {NoPrinter} : ~Edit(i, p)
    BY <1>1, <1>5, <2>3 DEF User, Cancel, Delete, Stop, StartNow, Ask, Resume,
       ClearPlate, rowVars, poolVars
  <2> QED BY <2>1, <2>2, <2>3
<1>6. CASE Restart BY <1>6 DEF Restart, ClaimedPcs
<1>7. ASSUME NEW i \in Items, Worker(i) PROVE TargetFixed'
  <2> USE DEF ClaimedPcs, WorkerPcs
  <2>1. CASE Claim(i) BY <2>1 DEF Claim
  <2>2. CASE Finish(i) BY <2>2 DEF Finish
  <2>3. CASE PrepareFails(i) \/ PrepareDefers(i) \/ PrepareSucceeds(i)
    BY <2>3 DEF PrepareFails, PrepareDefers, PrepareSucceeds, rowVars
  <2>4. CASE ArchiveCopied(i) \/ ArchiveFails(i) \/ UploadFails(i)
    BY <2>4 DEF ArchiveCopied, ArchiveFails, UploadFails
  <2>5. CASE MarkPrinting(i) \/ Refused(i)
    BY <2>5 DEF MarkPrinting, Refused, rowVars
  <2>6. CASE Publish(i)
    <3>1. /\ UNCHANGED <<printer, tgt>>
          /\ w[i] = "publish" /\ w' = [w EXCEPT ![i] = w'[i]]
          /\ w'[i] \in {"finish", "refused"}
      BY <2>6 DEF Publish, rowVars
    <3> QED BY <3>1
  <2> QED BY <1>7, <2>1, <2>2, <2>3, <2>4, <2>5, <2>6 DEF Worker
<1>8. ASSUME NEW i \in Items, Dog(i) PROVE TargetFixed'
  BY <1>1, <1>8 DEF Dog, DogSeesActive, DogGivesUp, DogReads, DogReverts,
     DogRevertFails, rowVars, poolVars
<1>9. ASSUME NEW p \in Printers, HoldOpens(p) \/ CloseRow(p) \/ Printer(p) PROVE TargetFixed'
  BY <1>1, <1>9 DEF HoldOpens, CloseRow, Printer, ReportsActive, LosesCommand,
     ReportsEnd, LinkChanges, rowVars, poolVars
<1>10. CASE UNCHANGED vars BY <1>1, <1>10 DEF vars, rowVars, poolVars
<1> QED BY <1>4, <1>5, <1>6, <1>7, <1>8, <1>9, <1>10 DEF Next

\* The printer a worker uploads to and starts is the one its row names, with
\* edits, passes and crashes at any moment, as long as no edit has its check
\* and its write apart.
THEOREM TargetKept ==
  ASSUME MaxGen = 1, ~({"edit", "slow"} \subseteq Stimuli)
  PROVE  Spec => []TargetFixed
<1>1. Init => TargetFixed BY DEF Init, TargetFixed, ClaimedPcs
<1>2. IInv /\ Hands /\ TargetFixed /\ [Next]_vars => TargetFixed' BY NextTarget
<1> QED BY <1>1, <1>2, SpecHands, PTL DEF Spec
-----------------------------------------------------------------------------
(* Cancellations. *)

LEMMA CancelsFrame ==
  ASSUME Cancels, UNCHANGED <<status, revoked>>,
         \A i \in Items : /\ w'[i] \in {"publish", "refused"} => w[i] \in {"publish", "refused"}
                          /\ dog'[i] # "off" => dog[i] # "off"
  PROVE  Cancels'
BY DEF Cancels, SkippedGated, Underway, Revoked

\* a row that was waiting when the user took it back had no command under way
LEMMA RevokeCancels ==
  ASSUME IInv, Cancels, NEW i \in Items, NEW new \in {"cancelled", "absent"},
         status' = [status EXCEPT ![i] = new],
         revoked' = [revoked EXCEPT ![i] = @ \/ status[i] \in {"pending", "skipped"}],
         UNCHANGED <<w, dog>>
  PROVE  Cancels'
<1> USE DEF IInv, TypeOK, RowsTyped, HistTyped
<1>1. \A j \in Items \ {i} : status'[j] = status[j] /\ revoked'[j] = revoked[j] OBVIOUS
<1>2. status'[i] = new /\ revoked'[i] = (revoked[i] \/ status[i] \in {"pending", "skipped"})
  OBVIOUS
<1>3. SkippedGated' BY <1>1, <1>2 DEF Cancels, SkippedGated
<1>4. Underway' BY <1>1, <1>2 DEF Cancels, Underway
<1>5. CASE status[i] \in {"pending", "skipped"}
  <2>1. w[i] \notin {"publish", "refused"} BY <1>5 DEF Cancels, Underway
  <2>2. dog[i] = "off" BY <1>5 DEF Books, Waiting, Settled
  <2>3. Revoked' BY <1>1, <1>2, <2>1, <2>2 DEF Cancels, Revoked
  <2> QED BY <1>3, <1>4, <2>3 DEF Cancels
<1>6. CASE status[i] \notin {"pending", "skipped"}
  <2>1. Revoked' BY <1>1, <1>2, <1>6 DEF Cancels, Revoked
  <2> QED BY <1>3, <1>4, <2>1 DEF Cancels
<1> QED BY <1>5, <1>6

\* a step that settles a row, and wakes neither its worker nor its watchdog
LEMMA SettleCancels ==
  ASSUME IInv, Cancels, NEW i \in Items, UNCHANGED revoked,
         \/ UNCHANGED status
         \/ \E o \in {"failed", "completed", "cancelled"} : status' = [status EXCEPT ![i] = o],
         \A j \in Items : /\ w'[j] \in {"publish", "refused"} => w[j] \in {"publish", "refused"}
                          /\ dog'[j] # "off" => dog[j] # "off"
  PROVE  Cancels'
<1>1. CASE UNCHANGED status BY <1>1, CancelsFrame
<1>2. ASSUME NEW o \in {"failed", "completed", "cancelled"}, status' = [status EXCEPT ![i] = o]
      PROVE  Cancels'
  <2>1. \A j \in Items : status'[j] = IF j = i THEN o ELSE status[j]
    BY <1>2 DEF IInv, TypeOK, RowsTyped
  <2> QED BY <2>1 DEF Cancels, SkippedGated, Underway, Revoked
<1> QED BY <1>1, <1>2

LEMMA PassCancels == ASSUME IInv, Hands, Cancels, Pass PROVE Cancels'
<1> USE DEF IInv, TypeOK, RowsTyped, PassTyped, PoolTyped
<1>1. UNCHANGED <<status, w, dog, revoked>> => Cancels' BY CancelsFrame
<1>2. ASSUME NEW S, AbortPass(S) PROVE Cancels'
  BY <1>1, <1>2 DEF AbortPass, rowVars, poolVars, memVars, histVars
<1>3. CASE Select \/ Seed
  BY <1>1, <1>3 DEF Select, Seed, rowVars, poolVars, memVars, histVars
<1>4. CASE Launch
  <2>1. CASE AbortPass(assigned) BY <1>2, <2>1
  <2>2. CASE ~AbortPass(assigned)
    BY <1>4, <2>2, CancelsFrame DEF Launch, memVars, histVars
  <2> QED BY <2>1, <2>2
<1>5. ASSUME NEW i \in Items, PassOver(i) PROVE Cancels'
  BY <1>1, <1>5 DEF PassOver, rowVars, poolVars, memVars, histVars
<1>6. ASSUME NEW i \in Items, NEW p \in Printers, HoldBack(i, p) \/ Take(i, p)
      PROVE  Cancels'
  BY <1>1, <1>6 DEF HoldBack, Take, rowVars, poolVars, memVars, histVars
<1>7. ASSUME NEW i \in Items, NEW p \in Printers, Skip(i, p) PROVE Cancels'
  <2>1. CASE AbortPass(assigned \cup {i}) BY <1>2, <2>1
  <2>2. CASE ~AbortPass(assigned \cup {i})
    <3>1. i \in todo /\ i \in Gated BY <1>7 DEF Skip, Offer, GateOpen
    <3>2. w[i] = "off" /\ dog[i] = "off" BY <3>1 DEF Hands, PassOff
    <3>3. /\ UNCHANGED <<w, dog, revoked>>
          /\ \A j \in Items : status'[j] = IF j = i THEN "skipped" ELSE status[j]
      BY <1>7, <2>2 DEF Skip, poolVars, memVars, histVars
    <3> QED BY <3>1, <3>2, <3>3 DEF Cancels, SkippedGated, Underway, Revoked
  <2> QED BY <2>1, <2>2
<1>8. ASSUME NEW i \in Items, NEW p \in Printers, Block(i, p) PROVE Cancels'
  <2>1. CASE AbortPass(assigned \cup {i}) BY <1>2, <2>1
  <2>2. CASE ~AbortPass(assigned \cup {i})
    BY <1>1, <1>8, <2>2 DEF Block, poolVars, memVars, histVars
  <2> QED BY <2>1, <2>2
<1> QED BY <1>3, <1>4, <1>5, <1>6, <1>7, <1>8, Zenon DEF Pass

LEMMA UserCancels ==
  ASSUME IInv, Cancels, User, MaxGen = 1, "resume" \notin Stimuli \/ Gated = {}
  PROVE  Cancels'
<1> USE DEF IInv, TypeOK, RowsTyped, HistTyped
<1>1. UNCHANGED <<status, w, dog, revoked>> => Cancels' BY CancelsFrame
<1>2. ASSUME NEW i \in Items, Add(i) PROVE Cancels'
  <2>1. w[i] = "off" BY <1>2 DEF Add, Books, Unborn
  <2>2. /\ UNCHANGED <<w, dog>>
        /\ \A j \in Items : /\ status'[j] = IF j = i THEN "pending" ELSE status[j]
                            /\ revoked'[j] = IF j = i THEN FALSE ELSE revoked[j]
    BY <1>2 DEF Add, poolVars, memVars
  <2> QED BY <2>1, <2>2 DEF Cancels, SkippedGated, Underway, Revoked
<1>3. ASSUME NEW i \in Items, Cancel(i) PROVE Cancels'
  BY <1>3, RevokeCancels DEF Cancel, poolVars
<1>4. ASSUME NEW i \in Items, Delete(i) PROVE Cancels'
  BY <1>4, RevokeCancels DEF Delete, poolVars
<1>5. ASSUME NEW i \in Items, Stop(i) PROVE Cancels'
  BY <1>5, SettleCancels DEF Stop, poolVars, histVars
<1>6. ASSUME NEW i \in Items, StartNow(i) PROVE Cancels'
  BY <1>1, <1>6 DEF StartNow, poolVars, histVars
<1>7. ASSUME NEW i \in Items, NEW op \in RowRoutes, Ask(op, i) PROVE Cancels'
  BY <1>1, <1>7 DEF Ask, rowVars, poolVars, histVars
<1>8. ASSUME NEW i \in Items, NEW p \in Printers \cup {NoPrinter}, Edit(i, p) PROVE Cancels'
  BY <1>1, <1>8 DEF Edit, poolVars, histVars
<1>9. ASSUME NEW p \in Printers, Resume(p) PROVE Cancels'
  <2>1. Gated = {} BY <1>9 DEF Resume
  <2>2. \A i \in Items : status'[i] = status[i]
    BY <1>9, <2>1 DEF Resume, Cancels, SkippedGated
  <2>3. UNCHANGED <<w, dog, revoked>> BY <1>9 DEF Resume, poolVars, memVars, histVars
  <2> QED BY <2>2, <2>3 DEF Cancels, SkippedGated, Underway, Revoked
<1>10. ASSUME NEW p \in Printers, ClearPlate(p) PROVE Cancels'
  BY <1>1, <1>10 DEF ClearPlate, rowVars, poolVars, memVars, histVars
<1> QED BY <1>2, <1>3, <1>4, <1>5, <1>6, <1>7, <1>8, <1>9, <1>10 DEF User

LEMMA WorkerCancels ==
  ASSUME IInv, Cancels, NEW i \in Items, Worker(i)
  PROVE  Cancels'
<1> USE DEF IInv, TypeOK, RowsTyped, PoolTyped, MemTyped, To
<1>1. CASE Claim(i) \/ PrepareDefers(i) \/ PrepareSucceeds(i) \/ ArchiveCopied(i) \/ Finish(i)
  BY <1>1, CancelsFrame DEF Claim, PrepareDefers, PrepareSucceeds, ArchiveCopied, Finish,
     rowVars, memVars, histVars
<1>2. CASE PrepareFails(i) \/ ArchiveFails(i) \/ UploadFails(i)
  <2>1. \A j \in Items : status'[j] \in {status[j], "failed"}
    BY <1>2 DEF PrepareFails, ArchiveFails, UploadFails, FailRow
  <2>2. UNCHANGED <<dog, revoked>> /\ \A j \in Items : w'[j] \in {w[j], "finish"}
    BY <1>2 DEF PrepareFails, ArchiveFails, UploadFails, memVars, histVars
  <2> QED BY <2>1, <2>2 DEF Cancels, SkippedGated, Underway, Revoked
<1>3. CASE MarkPrinting(i)
  BY <1>3 DEF MarkPrinting, StillPending, Cancels, SkippedGated, Underway, Revoked,
     memVars, histVars
<1>4. CASE Publish(i)
  BY <1>4 DEF Publish, Cancels, SkippedGated, Underway, Revoked, rowVars
<1>5. CASE Refused(i)
  BY <1>5 DEF Refused, FailRow, Cancels, SkippedGated, Underway, Revoked, memVars, histVars
<1> QED BY <1>1, <1>2, <1>3, <1>4, <1>5 DEF Worker

LEMMA DogCancels ==
  ASSUME IInv, Cancels, NEW i \in Items, Dog(i)
  PROVE  Cancels'
<1> USE DEF IInv, TypeOK, RowsTyped, MemTyped
<1>1. CASE DogSeesActive(i) \/ DogGivesUp(i) \/ DogReads(i) \/ DogRevertFails(i)
  BY <1>1, CancelsFrame DEF DogSeesActive, DogGivesUp, DogReads, DogRevertFails, Dismiss,
     rowVars, poolVars, histVars
<1>2. CASE DogReverts(i)
  <2>1. dog[i] # "off" BY <1>2 DEF DogReverts
  <2>2. w[i] \notin {"publish", "refused"} /\ ~revoked[i]
    BY <2>1 DEF Books, Starting, Settled, Cancels, Revoked
  <2>3. /\ UNCHANGED <<w, revoked>>
        /\ \A j \in Items : dog'[j] # "off" => dog[j] # "off"
        /\ \A j \in Items \ {i} : status'[j] = status[j]
        /\ status'[i] \in {"pending", "failed"}
    BY <1>2 DEF DogReverts, Dismiss, FailRow, poolVars, histVars
  <2> QED BY <2>2, <2>3 DEF Cancels, SkippedGated, Underway, Revoked
<1> QED BY <1>1, <1>2 DEF Dog

LEMMA NextCancels ==
  ASSUME IInv, Hands, Cancels, [Next]_vars, MaxGen = 1,
         "resume" \notin Stimuli \/ Gated = {}
  PROVE  Cancels'
<1>1. UNCHANGED <<status, w, dog, revoked>> => Cancels' BY CancelsFrame
<1>2. CASE Restart
  BY <1>2, CancelsFrame DEF Restart, histVars
<1>3. ASSUME NEW p \in Printers, HoldOpens(p) \/ Printer(p) PROVE Cancels'
  BY <1>1, <1>3 DEF HoldOpens, Printer, ReportsActive, LosesCommand, ReportsEnd,
     LinkChanges, rowVars, poolVars, memVars, histVars
<1>4. ASSUME NEW p \in Printers, CloseRow(p) PROVE Cancels'
  <2>1. ended[p] \in {"failed", "completed", "cancelled"}
    BY <1>4 DEF CloseRow, IInv, TypeOK, PrnTyped, Outcomes
  <2>2. UNCHANGED <<w, dog, revoked>> BY <1>4 DEF CloseRow, poolVars, memVars, histVars
  <2>3. \/ UNCHANGED status
        \/ \E i \in Items : status' = [status EXCEPT ![i] = ended[p]]
    BY <1>4 DEF CloseRow
  <2> QED BY <1>1, <2>1, <2>2, <2>3, SettleCancels
<1>5. CASE UNCHANGED vars BY <1>1, <1>5 DEF vars, rowVars, poolVars, memVars, histVars
<1> QED
  BY <1>2, <1>3, <1>4, <1>5, PassCancels, UserCancels, WorkerCancels, DogCancels DEF Next

\* A row the user cancelled or deleted while it waited is never sent to a
\* printer, however far its upload had come and whatever the watchdog of an
\* earlier start still writes.  Resuming a queue is excluded, unless no row is
\* gated: a pass writes 'skipped' over a cancellation it has not seen, and
\* resume makes the row wait again.
THEOREM CancelFinal ==
  ASSUME MaxGen = 1, "resume" \notin Stimuli \/ Gated = {}
  PROVE  Spec => CancelWins
<1>1. Init => Cancels
  BY DEF Init, Cancels, SkippedGated, Underway, Revoked
<1>2. IInv /\ Hands /\ Cancels /\ [Next]_vars => Cancels' BY NextCancels
<1>3. ASSUME IInv, Cancels, [Next]_vars
      PROVE  [\A i \in Items : Sends(i) => ~revoked[i]]_vars
  <2> SUFFICES ASSUME NEW i \in Items, Sends(i) PROVE ~revoked[i]
    OBVIOUS
  <2>1. Publish(i) BY <1>3, SendsIsPublish
  <2> QED BY <1>3, <2>1 DEF Publish, Cancels, Revoked
<1> QED BY <1>1, <1>2, <1>3, SpecHands, PTL DEF Spec, CancelWins
-----------------------------------------------------------------------------
(* Prints.  A row is spent when a printer has its start command or has begun *)
(* to print it.                                                              *)

Spent(i) == i \in begun \/ \E p \in Printers : i \in queued[p]

\* nothing works for a spent row, and it does not wait for work
SpentRests ==
  \A i \in Items : Spent(i) => /\ gen[i] # 0 /\ status[i] \notin {"pending", "skipped"}
                               /\ w[i] \in {"off", "finish"} /\ i \notin todo \cup picks

\* a watchdog looks at the printer its row prints on, where the command went
DogAims ==
  \A i \in Items : dog[i] # "off" =>
    /\ dogAt[i] \in Printers
    /\ status[i] = "printing" => dogAt[i] = printer[i]
    /\ dog[i] = "watch" => \A p \in Printers : i \in queued[p] => p = dogAt[i]

\* it sees that the print goes on until the row is closed, and writes off only
\* what the printer has not taken
DogRight ==
  \A i \in Items :
    /\ dog[i] = "write" => ~Spent(i)
    /\ dog[i] = "revert" /\ status[i] = "printing" => ~Spent(i)
    /\ dog[i] = "watch" /\ status[i] = "printing" /\ i \in begun
         => state[dogAt[i]] = "RUNNING" \/ ended[dogAt[i]] # "none"

Prints == SpentRests /\ DogAims /\ DogRight

\* a step that neither gives a printer a command nor moves a watchdog
LEMMA PrintsCalm ==
  ASSUME Prints, UNCHANGED <<queued, dog, dogAt, state, ended>>, begun' \subseteq begun,
         \A j \in Items : Spent(j) =>
            /\ gen'[j] # 0 /\ status'[j] \notin {"pending", "skipped"}
            /\ w'[j] \in {"off", "finish"} /\ j \notin todo' \cup picks',
         \A j \in Items : status'[j] = "printing" /\ dog[j] # "off"
            => status[j] = "printing" /\ printer'[j] = printer[j]
  PROVE  Prints'
<1>1. \A j \in Items : Spent(j)' => Spent(j) BY DEF Spent
<1>2. SpentRests' BY <1>1 DEF Prints, SpentRests
<1>3. DogAims' BY DEF Prints, DogAims
<1>4. DogRight' BY <1>1 DEF Prints, DogRight
<1> QED BY <1>2, <1>3, <1>4 DEF Prints

LEMMA PassPrints ==
  ASSUME IInv, Hands, Prints, Pass
  PROVE  Prints'
<1> USE DEF IInv, TypeOK, RowsTyped, PassTyped, PoolTyped, rowVars, poolVars, memVars,
            prnVars, histVars
<1>1. \A j \in Items : Spent(j) => /\ gen[j] # 0 /\ status[j] \notin {"pending", "skipped"}
                                   /\ w[j] \in {"off", "finish"} /\ j \notin todo \cup picks
  BY DEF Prints, SpentRests
<1>2. ASSUME UNCHANGED <<rowVars, poolVars, memVars, prnVars, histVars>>,
             todo' \cup picks' \subseteq todo \cup picks
      PROVE  Prints'
  BY <1>1, <1>2, PrintsCalm
<1>3. ASSUME NEW S, AbortPass(S) PROVE Prints'
  BY <1>2, <1>3 DEF AbortPass, EndPass
<1>4. CASE Select
  <2>1. \A j \in todo' : status[j] = "pending" BY <1>4 DEF Select
  <2>2. UNCHANGED <<rowVars, poolVars, memVars, prnVars, histVars, picks>>
    BY <1>4 DEF Select
  <2> QED BY <1>1, <2>1, <2>2, PrintsCalm
<1>5. CASE Seed BY <1>1, <1>5, PrintsCalm DEF Seed
<1>6. ASSUME NEW i \in Items, PassOver(i) PROVE Prints' BY <1>2, <1>6 DEF PassOver
<1>7. ASSUME NEW i \in Items, NEW p \in Printers, HoldBack(i, p) \/ Take(i, p) PROVE Prints'
  BY <1>2, <1>7 DEF HoldBack, Take, Offer
<1>8. ASSUME NEW S, NEW new, Commit(S, new), S \subseteq todo \cup picks,
             todo' \cup picks' \subseteq todo \cup picks,
             UNCHANGED <<gen, memVars, prnVars, histVars>>,
             \A j \in Items : status'[j] = status[j] \/ (j \in todo /\ status'[j] = "skipped"),
             \A j \in Items : w'[j] = w[j] \/ j \in picks
      PROVE  Prints'
  <2>1. \A j \in S : status[j] # "printing" BY <1>8 DEF Hands, PassOff
  <2>2. \A j \in Items \ S : printer'[j] = printer[j] BY <1>8 DEF Commit
  <2> QED BY <1>1, <1>8, <2>1, <2>2, PrintsCalm
<1>9. CASE Launch
  <2>1. assigned \subseteq picks BY DEF Hands, PassOff
  <2>2. CASE AbortPass(assigned) BY <1>3, <2>2
  <2>3. CASE ~AbortPass(assigned)
    BY <1>8, <1>9, <2>1, <2>3 DEF Launch, EndPass
  <2> QED BY <2>2, <2>3
<1>10. ASSUME NEW i \in Items, NEW p \in Printers, Skip(i, p) PROVE Prints'
  <2>1. assigned \subseteq picks BY DEF Hands, PassOff
  <2>2. CASE AbortPass(assigned \cup {i}) BY <1>3, <2>2
  <2>3. CASE ~AbortPass(assigned \cup {i})
    <3>1. /\ Commit(assigned, snap) /\ i \in todo
          /\ todo' = todo \ {i} /\ status' = [status EXCEPT ![i] = "skipped"]
          /\ UNCHANGED <<gen, picks, w, memVars, prnVars, histVars>>
      BY <1>10, <2>3 DEF Skip, Offer
    <3> QED BY <1>8, <2>1, <3>1
  <2> QED BY <2>2, <2>3
<1>11. ASSUME NEW i \in Items, NEW p \in Printers, Block(i, p) PROVE Prints'
  <2>1. assigned \subseteq picks BY DEF Hands, PassOff
  <2>2. CASE AbortPass(assigned \cup {i}) BY <1>3, <2>2
  <2>3. CASE ~AbortPass(assigned \cup {i})
    <3>1. PICK S \in {assigned, assigned \cup {i}} :
            /\ Commit(S, snap') /\ i \in todo /\ todo' = todo \ {i}
            /\ UNCHANGED <<status, gen, picks, w, memVars, prnVars, histVars>>
      BY <1>11, <2>3 DEF Block, Offer
    <3> QED BY <1>8, <2>1, <3>1
  <2> QED BY <2>2, <2>3
<1> QED BY <1>4, <1>5, <1>6, <1>7, <1>9, <1>10, <1>11 DEF Pass

LEMMA UserPrints ==
  ASSUME IInv, Hands, Prints, User, MaxGen = 1, "edit" \notin Stimuli
  PROVE  Prints'
<1> USE DEF IInv, TypeOK, RowsTyped, MemTyped, passVars, poolVars, memVars, prnVars, histVars
<1>1. \A j \in Items : Spent(j) => /\ gen[j] # 0 /\ status[j] \notin {"pending", "skipped"}
                                   /\ w[j] \in {"off", "finish"} /\ j \notin todo \cup picks
  BY DEF Prints, SpentRests
<1>2. ASSUME UNCHANGED <<gen, passVars, poolVars, dog, dogAt, state, ended, queued, begun>>,
             \A j \in Items : \/ status'[j] = status[j] /\ printer'[j] = printer[j]
                              \/ status'[j] \in {"cancelled", "absent"}
                              \/ status[j] = "skipped" /\ status'[j] = "pending"
      PROVE  Prints'
  BY <1>1, <1>2, PrintsCalm
<1>3. ASSUME NEW i \in Items, Add(i) PROVE Prints'
  <2>1. gen[i] = 0 /\ dog[i] = "off" BY <1>3, ConstAssumption DEF Add
  <2>2. ~Spent(i) BY <1>1, <2>1
  <2>3. \A j \in Items \ {i} : /\ status'[j] = status[j] /\ printer'[j] = printer[j]
                               /\ gen'[j] = gen[j]
    BY <1>3 DEF Add
  <2>4. begun' \subseteq begun /\ UNCHANGED <<passVars, poolVars, memVars, prnVars>>
    BY <1>3 DEF Add
  <2> QED BY <1>1, <2>1, <2>2, <2>3, <2>4, PrintsCalm
<1>4. ASSUME NEW i \in Items, Cancel(i) \/ Delete(i) \/ Stop(i) PROVE Prints'
  BY <1>2, <1>4 DEF Cancel, Delete, Stop
<1>5. ASSUME NEW i \in Items, StartNow(i) PROVE Prints' BY <1>2, <1>5 DEF StartNow
<1>6. ASSUME NEW i \in Items, NEW op \in RowRoutes, Ask(op, i) PROVE Prints'
  BY <1>2, <1>6 DEF Ask, rowVars
<1>7. ASSUME NEW i \in Items, NEW p \in Printers \cup {NoPrinter}, Edit(i, p) PROVE FALSE
  BY <1>7 DEF Edit, Admitted, Hands, ReqAsked
<1>8. ASSUME NEW p \in Printers, Resume(p) PROVE Prints' BY <1>2, <1>8 DEF Resume
<1>9. ASSUME NEW p \in Printers, ClearPlate(p) PROVE Prints'
  BY <1>2, <1>9 DEF ClearPlate, rowVars
<1> QED BY <1>3, <1>4, <1>5, <1>6, <1>7, <1>8, <1>9 DEF User

LEMMA WorkerPrints ==
  ASSUME IInv, Hands, Lanes, Prints, NEW i \in Items, Worker(i)
  PROVE  Prints'
<1> USE DEF IInv, TypeOK, RowsTyped, PoolTyped, MemTyped, To, passVars, memVars, prnVars,
            histVars
<1>1. \A j \in Items : Spent(j) => /\ gen[j] # 0 /\ status[j] \notin {"pending", "skipped"}
                                   /\ w[j] \in {"off", "finish"} /\ j \notin todo \cup picks
  BY DEF Prints, SpentRests
<1>2. ASSUME UNCHANGED <<gen, printer, passVars, dog, dogAt, state, ended, queued, begun>>,
             w[i] \notin {"off", "finish"} \/ (w'[i] = "off" /\ UNCHANGED status),
             \A j \in Items \ {i} : w'[j] = w[j] /\ status'[j] = status[j],
             status'[i] # "printing" \/ status'[i] = status[i]
      PROVE  Prints'
  BY <1>1, <1>2, PrintsCalm
<1>3. CASE Claim(i) BY <1>2, <1>3 DEF Claim
<1>4. CASE PrepareFails(i) \/ ArchiveFails(i) \/ UploadFails(i)
  <2>1. /\ UNCHANGED <<gen, printer, passVars, dog, dogAt, state, ended, queued, begun>>
        /\ w[i] \in {"loaded", "archiving", "uploading"} /\ FailRow(i)
        /\ \A j \in Items \ {i} : w'[j] = w[j]
    BY <1>4 DEF PrepareFails, ArchiveFails, UploadFails
  <2>2. status'[i] # "printing" /\ \A j \in Items \ {i} : status'[j] = status[j]
    BY <2>1 DEF FailRow
  <2>3. ~Spent(i) BY <1>1, <2>1
  <2> QED BY <1>1, <2>1, <2>2, <2>3, PrintsCalm
<1>5. CASE PrepareDefers(i) \/ PrepareSucceeds(i)
  BY <1>2, <1>5 DEF PrepareDefers, PrepareSucceeds, rowVars
<1>6. CASE ArchiveCopied(i) BY <1>2, <1>6 DEF ArchiveCopied
<1>7. CASE MarkPrinting(i)
  <2>1. status[i] = "pending" => dog[i] = "off" BY DEF Books, Waiting, Settled
  <2>2. /\ UNCHANGED <<gen, printer, passVars, dog, dogAt, state, ended, queued, begun>>
        /\ w[i] = "uploading"
        /\ \A j \in Items \ {i} : w'[j] = w[j] /\ status'[j] = status[j]
        /\ status'[i] = status[i] \/ status[i] = "pending"
    BY <1>7 DEF MarkPrinting, StillPending
  <2>3. ~Spent(i) BY <1>1, <2>2
  <2> QED BY <1>1, <2>1, <2>2, <2>3, PrintsCalm
<1>8. CASE Refused(i)
  <2>1. /\ UNCHANGED <<gen, printer, passVars, dog, dogAt, state, ended, queued, begun>>
        /\ w[i] = "refused" /\ \A j \in Items \ {i} : w'[j] = w[j]
    BY <1>8 DEF Refused
  <2>2. status'[i] # "printing" /\ \A j \in Items \ {i} : status'[j] = status[j]
    BY <1>8 DEF Refused, FailRow
  <2>3. ~Spent(i) BY <1>1, <2>1
  <2> QED BY <1>1, <2>1, <2>2, <2>3, PrintsCalm
<1>9. CASE Finish(i) BY <1>2, <1>9 DEF Finish
<1>10. CASE Publish(i)
  <2>1. w[i] = "publish" /\ UNCHANGED <<rowVars, passVars, state, ended, begun>>
    BY <1>10 DEF Publish
  <2>2. \A j \in Items \ {i} : w'[j] = w[j] /\ dog'[j] = dog[j] /\ dogAt'[j] = dogAt[j]
    BY <1>10 DEF Publish
  <2>3. ~Spent(i) /\ dog[i] = "off" /\ status[i] \notin {"pending", "skipped"}
    BY <1>1, <2>1 DEF Books, Starting, Settled
  <2>4. gen[i] # 0 /\ i \notin todo \cup picks
    BY <2>1 DEF Books, Unborn, Hands, PassOff
  <2>5. tgt[i] \in Printers /\ printer[i] = tgt[i]
    BY <2>1 DEF Lanes, Aimed, InFlight, ClaimedPcs, WorkerPcs
  <2>6. CASE Accepts(tgt[i])
    <3>1. /\ w'[i] = "finish" /\ dog'[i] = "watch" /\ dogAt'[i] = tgt[i]
          /\ queued' = [queued EXCEPT ![tgt[i]] = @ \cup {i}]
      BY <1>10, <2>6 DEF Publish
    <3>2. \A p \in Printers : queued'[p] = IF p = tgt[i] THEN queued[p] \cup {i} ELSE queued[p]
      BY <3>1 DEF PrnTyped
    <3>3. \A j \in Items \ {i} : Spent(j)' => Spent(j)
      BY <2>1, <3>2 DEF Spent
    <3>4. SpentRests' 
      BY <2>1, <2>2, <2>3, <2>4, <3>1, <3>3 DEF Prints, SpentRests, rowVars
    <3>5. DogAims'
      <4>1. \A p \in Printers : i \in queued'[p] => p = tgt[i] BY <2>3, <3>2 DEF Spent
      <4>2. \A j \in Items \ {i}, p \in Printers : j \in queued'[p] => j \in queued[p]
        BY <3>2
      <4> QED BY <2>1, <2>2, <2>5, <3>1, <4>1, <4>2 DEF Prints, DogAims, rowVars
    <3>6. i \notin begun BY <2>3 DEF Spent
    <3>7. DogRight'
      BY <2>1, <2>2, <3>1, <3>3, <3>6 DEF Prints, DogRight, rowVars
    <3> QED BY <3>4, <3>5, <3>7 DEF Prints
  <2>7. CASE ~Accepts(tgt[i])
    <3>1. UNCHANGED <<queued, dog, dogAt>> BY <1>10, <2>7 DEF Publish
    <3> QED BY <1>1, <2>1, <2>2, <2>3, <3>1, PrintsCalm DEF rowVars
  <2> QED BY <2>6, <2>7
<1> QED
  BY <1>3, <1>4, <1>5, <1>6, <1>7, <1>8, <1>9, <1>10 DEF Worker

LEMMA DogPrints ==
  ASSUME IInv, Prints, NEW i \in Items, Dog(i), "late" \notin Stimuli
  PROVE  Prints'
<1> USE DEF IInv, TypeOK, RowsTyped, MemTyped, passVars, poolVars, prnVars, histVars
<1>1. UNCHANGED <<gen, printer, w, todo, picks, state, ended, queued, begun>>
  BY DEF Dog, DogSeesActive, DogGivesUp, DogReads, DogReverts, DogRevertFails, rowVars
<1>2. \A j \in Items : Spent(j)' <=> Spent(j) BY <1>1 DEF Spent
<1>3. \A j \in Items \ {i} : dog'[j] = dog[j] /\ dogAt'[j] = dogAt[j] /\ status'[j] = status[j]
  BY DEF Dog, DogSeesActive, DogGivesUp, DogReads, DogReverts, DogRevertFails, Dismiss,
     FailRow, rowVars
<1>4. ASSUME dog'[i] = "off", UNCHANGED status \/ ~Spent(i) PROVE Prints'
  <2>1. SpentRests' BY <1>1, <1>2, <1>3, <1>4 DEF Prints, SpentRests
  <2>2. DogAims' BY <1>1, <1>3, <1>4 DEF Prints, DogAims
  <2>3. DogRight' BY <1>1, <1>2, <1>3, <1>4 DEF Prints, DogRight
  <2> QED BY <2>1, <2>2, <2>3 DEF Prints
<1>5. CASE DogSeesActive(i) \/ DogRevertFails(i)
  BY <1>4, <1>5 DEF DogSeesActive, DogRevertFails, Dismiss, rowVars
<1>6. CASE DogReverts(i)
  <2>1. ~Spent(i) BY <1>6 DEF DogReverts, Prints, DogRight
  <2> QED BY <1>4, <1>6, <2>1 DEF DogReverts, Dismiss
<1>7. CASE DogReads(i)
  <2>1. CASE status[i] # "printing" BY <1>4, <1>7, <2>1 DEF DogReads, StillPrinting, Dismiss, rowVars
  <2>2. CASE status[i] = "printing"
    <3>1. /\ dog[i] = "revert" /\ dog'[i] = "write"
          /\ UNCHANGED <<status, dogAt>>
      BY <1>7, <2>2 DEF DogReads, StillPrinting, rowVars
    <3>2. ~Spent(i) BY <2>2, <3>1 DEF Prints, DogRight
    <3>3. SpentRests' BY <1>1, <1>2, <3>1 DEF Prints, SpentRests
    <3>4. DogAims' BY <1>1, <1>3, <3>1 DEF Prints, DogAims
    <3>5. DogRight' BY <1>1, <1>2, <1>3, <3>1, <3>2 DEF Prints, DogRight
    <3> QED BY <3>3, <3>4, <3>5 DEF Prints
  <2> QED BY <2>1, <2>2
<1>8. CASE DogGivesUp(i)
  <2>1. /\ dog[i] = "watch" /\ dog'[i] = "revert"
        /\ UNCHANGED <<status, dogAt>>
        /\ state[dogAt[i]] # "RUNNING" /\ queued[dogAt[i]] = {} /\ ended[dogAt[i]] = "none"
    BY <1>8 DEF DogGivesUp, rowVars
  <2>2. status[i] = "printing" => ~Spent(i)
    BY <2>1 DEF Prints, DogAims, DogRight, Spent
  <2>3. SpentRests' BY <1>1, <1>2, <2>1 DEF Prints, SpentRests
  <2>4. DogAims' BY <1>1, <1>3, <2>1 DEF Prints, DogAims
  <2>5. DogRight' BY <1>1, <1>2, <1>3, <2>1, <2>2 DEF Prints, DogRight
  <2> QED BY <2>3, <2>4, <2>5 DEF Prints
<1> QED BY <1>5, <1>6, <1>7, <1>8 DEF Dog

LEMMA PrinterPrints ==
  ASSUME IInv, Hands, Lanes, Prints, NEW p \in Printers,
         HoldOpens(p) \/ CloseRow(p) \/ Printer(p)
  PROVE  Prints'
<1> USE DEF IInv, TypeOK, RowsTyped, MemTyped, PrnTyped, passVars, poolVars, memVars
<1>1. UNCHANGED <<gen, printer, w, todo, picks, dog, dogAt>>
  BY DEF HoldOpens, CloseRow, Printer, ReportsActive, LosesCommand, ReportsEnd,
     LinkChanges, rowVars
<1>2. CASE HoldOpens(p) \/ LinkChanges(p)
  BY <1>1, <1>2, PrintsCalm
  DEF HoldOpens, LinkChanges, rowVars, prnVars, histVars, Prints, SpentRests
<1>3. CASE LosesCommand(p)
  <2>1. /\ \A q \in Printers : queued'[q] \subseteq queued[q]
        /\ UNCHANGED <<status, state, ended, begun>>
    BY <1>3 DEF LosesCommand, rowVars, histVars
  <2>2. \A j \in Items : Spent(j)' => Spent(j) BY <2>1 DEF Spent
  <2>3. SpentRests' BY <1>1, <2>1, <2>2 DEF Prints, SpentRests
  <2>4. DogAims' BY <1>1, <2>1 DEF Prints, DogAims
  <2>5. DogRight' BY <1>1, <2>1, <2>2 DEF Prints, DogRight
  <2> QED BY <2>3, <2>4, <2>5 DEF Prints
<1>4. CASE ReportsActive(p)
  <2>1. /\ \A q \in Printers : queued'[q] \subseteq queued[q]
        /\ UNCHANGED <<status, ended>>
        /\ \A q \in Printers : state[q] = "RUNNING" => state'[q] = "RUNNING"
        /\ state'[p] = "RUNNING"
        /\ \A j \in begun' : j \in begun \/ j \in queued[p]
    BY <1>4 DEF ReportsActive, rowVars, GcodeStates
  <2>2. \A j \in Items : Spent(j)' => Spent(j) BY <2>1 DEF Spent
  <2>3. SpentRests' BY <1>1, <2>1, <2>2 DEF Prints, SpentRests
  <2>4. DogAims' BY <1>1, <2>1 DEF Prints, DogAims
  <2>5. \A j \in Items : dog[j] = "watch" => dogAt[j] \in Printers /\ (j \in queued[p] => dogAt[j] = p)
    BY DEF Prints, DogAims
  <2>6. DogRight' BY <1>1, <2>1, <2>2, <2>5 DEF Prints, DogRight
  <2> QED BY <2>3, <2>4, <2>6 DEF Prints
<1>5. CASE ReportsEnd(p)
  <2>1. /\ UNCHANGED <<status, queued, begun>>
        /\ \A q \in Printers \ {p} : state'[q] = state[q] /\ ended'[q] = ended[q]
        /\ ended'[p] \in Outcomes
    BY <1>5 DEF ReportsEnd, rowVars
  <2>2. \A j \in Items : Spent(j)' <=> Spent(j) BY <2>1 DEF Spent
  <2>3. SpentRests' BY <1>1, <2>1, <2>2 DEF Prints, SpentRests
  <2>4. DogAims' BY <1>1, <2>1 DEF Prints, DogAims
  <2>5. \A j \in Items : dog[j] = "watch" => dogAt[j] \in Printers BY DEF Prints, DogAims
  <2>6. DogRight' BY <1>1, <2>1, <2>2, <2>5 DEF Prints, DogRight, Outcomes
  <2> QED BY <2>3, <2>4, <2>6 DEF Prints
<1>6. CASE CloseRow(p)
  <2>1. /\ UNCHANGED <<queued, begun, state>>
        /\ \A q \in Printers \ {p} : ended'[q] = ended[q]
        /\ ended[p] \in Outcomes
    BY <1>6 DEF CloseRow, prnVars, histVars
  <2>2. \A j \in Items : Spent(j)' <=> Spent(j) BY <2>1 DEF Spent
  <2>3. \A j \in Items : status'[j] = status[j] \/ status'[j] \in Outcomes
    BY <1>6, <2>1 DEF CloseRow
  <2>4. ASSUME NEW j \in Items, printer[j] = p PROVE status'[j] # "printing"
    <3> SUFFICES ASSUME status[j] = "printing" PROVE status'[j] # "printing"
      BY <2>3 DEF Outcomes
    <3>1. PICK k \in {i \in Items : status[i] = "printing" /\ printer[i] = p} :
             status' = [status EXCEPT ![k] = ended[p]]
      BY <1>6, <2>4 DEF CloseRow
    <3>2. Occupies(j, p) /\ Occupies(k, p) BY <2>4, <3>1 DEF Occupies
    <3>3. j = k BY <3>1, <3>2 DEF Lanes, OneEach
    <3> QED BY <2>1, <3>1, <3>3 DEF Outcomes
  <2>5. SpentRests' BY <1>1, <2>2, <2>3 DEF Prints, SpentRests, Outcomes
  <2>6. DogAims' BY <1>1, <2>1, <2>3 DEF Prints, DogAims, Outcomes
  <2>7. DogRight'
    <3> SUFFICES ASSUME NEW j \in Items
                 PROVE  /\ dog[j] = "write" => ~Spent(j)'
                        /\ dog[j] = "revert" /\ status'[j] = "printing" => ~Spent(j)'
                        /\ dog[j] = "watch" /\ status'[j] = "printing" /\ j \in begun
                             => state[dogAt[j]] = "RUNNING" \/ ended'[dogAt[j]] # "none"
      BY <1>1, <2>1 DEF DogRight
    <3>1. status'[j] = "printing" => status[j] = "printing" /\ printer[j] # p
      BY <2>3, <2>4 DEF Outcomes
    <3>2. dog[j] # "off" /\ status[j] = "printing" => dogAt[j] = printer[j] /\ dogAt[j] \in Printers
      BY DEF Prints, DogAims
    <3> QED BY <2>1, <2>2, <3>1, <3>2 DEF Prints, DogRight
  <2> QED BY <2>5, <2>6, <2>7 DEF Prints
<1> QED BY <1>2, <1>3, <1>4, <1>5, <1>6 DEF Printer

LEMMA RestartPrints == ASSUME Prints, Restart PROVE Prints'
<1>1. /\ \A j \in Items : dog'[j] = "off" /\ w'[j] = "off"
      /\ todo' = {} /\ picks' = {} /\ UNCHANGED <<status, gen, queued, begun>>
  BY DEF Restart, EndPass, histVars
<1>2. \A j \in Items : Spent(j)' <=> Spent(j) BY <1>1 DEF Spent
<1>3. SpentRests' BY <1>1, <1>2 DEF Prints, SpentRests
<1>4. DogAims' /\ DogRight' BY <1>1 DEF DogAims, DogRight
<1> QED BY <1>3, <1>4 DEF Prints

LEMMA NextPrints ==
  ASSUME IInv, Hands, Lanes, Prints, [Next]_vars, MaxGen = 1,
         "edit" \notin Stimuli, "late" \notin Stimuli
  PROVE  Prints'
<1>1. CASE UNCHANGED vars
  BY <1>1 DEF vars, rowVars, passVars, poolVars, memVars, prnVars, histVars, Prints,
     SpentRests, DogAims, DogRight, Spent
<1> QED
  BY <1>1, PassPrints, UserPrints, RestartPrints, WorkerPrints, DogPrints, PrinterPrints
  DEF Next

\* A row whose print a printer has begun is never sent to a printer again, with
\* any number of rows and printers, crashes at any moment, failing writes,
\* foreign jobs and stops; no row is edited, and what a printer does with a
\* command is reported and handled before the watchdog gives up.
THEOREM PrintedOnce ==
  ASSUME MaxGen = 1, "edit" \notin Stimuli, "late" \notin Stimuli
  PROVE  Spec => BegunOnce
<1>1. Init => Prints
  BY DEF Init, Prints, SpentRests, DogAims, DogRight, Spent
<1>2. IInv /\ Hands /\ Lanes /\ Prints /\ [Next]_vars => Prints' BY NextPrints
<1>3. ASSUME IInv, Prints, [Next]_vars
      PROVE  [\A i \in Items : Sends(i) => i \notin begun]_vars
  <2> SUFFICES ASSUME NEW i \in Items, Sends(i) PROVE i \notin begun
    OBVIOUS
  <2>1. Publish(i) BY <1>3, SendsIsPublish
  <2> QED BY <1>3, <2>1 DEF Publish, Prints, SpentRests, Spent
<1> QED BY <1>1, <1>2, <1>3, SpecLanes, PTL DEF Spec, BegunOnce
=============================================================================
