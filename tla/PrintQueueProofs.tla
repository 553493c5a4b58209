-------------------------- MODULE PrintQueueProofs --------------------------
(***************************************************************************)
(* Proofs about the print queue: its types, the bound on the start         *)
(* commands a row can cause, and that no row waits with one still open.    *)
(* An id is assumed to be used once (MaxGen = 1): a row that takes over    *)
(* an id may inherit the worker of the old one.                            *)
(***************************************************************************)
EXTENDS PrintQueue, TLAPS

(* The inductive invariant.  A start command is on the books of a row when   *)
(* dispatch_attempts counts it or a watchdog still watches it.               *)

\* all commands of the row are counted, and it may have another one
Settled(i) == sent[i] = attempts[i] /\ attempts[i] < MaxAttempts /\ dog[i] = "off"

Budget ==
  \A i \in Items : \/ sent[i] = attempts[i]
                   \/ sent[i] = attempts[i] + 1 /\ attempts[i] < MaxAttempts
Watching == \A i \in Items : dog[i] # "off" => sent[i] = attempts[i] + 1
Waiting  == \A i \in Items : status[i] \in {"pending", "skipped"} => Settled(i)
Chosen   == \A i \in todo : w[i] = "off" /\ Settled(i)
Starting ==
  \A i \in Items :
    /\ w[i] \in {"publish", "refused"} => Settled(i)
    /\ w[i] = "publish" => status[i] \notin {"pending", "skipped"}
Unborn ==
  \A i \in Items : gen[i] = 0 => /\ status[i] = "absent" /\ w[i] = "off"
                                 /\ i \notin todo \cup picks

Books == Budget /\ Watching /\ Waiting /\ Chosen /\ Starting /\ Unborn
IInv == TypeOK /\ Books

bookVars == <<status, attempts, gen, todo, picks, w, dog, sent>>
-----------------------------------------------------------------------------
LEMMA InitIInv == Init => IInv
<1> SUFFICES ASSUME Init PROVE IInv OBVIOUS
<1>1. RowsTyped BY ConstAssumption DEF Init, RowsTyped, Statuses
<1>2. PassTyped BY DEF Init, PassTyped
<1>3. PoolTyped BY ConstAssumption DEF Init, PoolTyped, WorkerPcs
<1>4. MemTyped BY DEF Init, MemTyped
<1>5. PrnTyped BY DEF Init, PrnTyped, GcodeStates
<1>6. HistTyped BY DEF Init, HistTyped
<1>7. Books
  BY ConstAssumption
  DEF Init, Books, Budget, Watching, Waiting, Chosen, Starting, Unborn, Settled
<1> QED BY <1>1, <1>2, <1>3, <1>4, <1>5, <1>6, <1>7 DEF IInv, TypeOK

\* A step that leaves a group of variables alone keeps their types.
LEMMA Frames ==
  ASSUME TypeOK
  PROVE  /\ UNCHANGED rowVars  => RowsTyped'
         /\ UNCHANGED passVars => PassTyped'
         /\ UNCHANGED poolVars => PoolTyped'
         /\ UNCHANGED memVars  => MemTyped'
         /\ UNCHANGED prnVars  => PrnTyped'
         /\ UNCHANGED histVars => HistTyped'
<1>1. UNCHANGED rowVars => RowsTyped' BY DEF TypeOK, RowsTyped, rowVars
<1>2. UNCHANGED passVars => PassTyped' BY DEF TypeOK, PassTyped, passVars
<1>3. UNCHANGED poolVars => PoolTyped' BY DEF TypeOK, PoolTyped, poolVars
<1>4. UNCHANGED memVars => MemTyped' BY DEF TypeOK, MemTyped, memVars
<1>5. UNCHANGED prnVars => PrnTyped' BY DEF TypeOK, PrnTyped, prnVars
<1>6. UNCHANGED histVars => HistTyped' BY DEF TypeOK, HistTyped, histVars
<1> QED BY <1>1, <1>2, <1>3, <1>4, <1>5, <1>6

LEMMA BooksFrame == ASSUME Books, UNCHANGED bookVars PROVE Books'
BY DEF Books, Budget, Watching, Waiting, Chosen, Starting, Unborn, Settled, bookVars

\* completed_at stays a relation between rows
LEMMA Stamps ==
  ASSUME TypeOK, NEW i \in Items, NEW S
  PROVE  Stamp(i) \subseteq Items \X Items /\ Unstamp(S) \subseteq Items \X Items
BY DEF TypeOK, RowsTyped, Stamp, Unstamp
-----------------------------------------------------------------------------
(* The scheduler pass. *)

LEMMA EndPassTyped == ASSUME TypeOK, EndPass PROVE PassTyped'
BY DEF TypeOK, PassTyped, EndPass

LEMMA CommitTyped ==
  ASSUME TypeOK, NEW S, NEW new \in [Items -> Printers \cup {NoPrinter}], Commit(S, new)
  PROVE  printer' \in [Items -> Printers \cup {NoPrinter}]
BY DEF TypeOK, RowsTyped, Commit

LEMMA AbortPassIInv == ASSUME IInv, NEW S, AbortPass(S) PROVE IInv'
<1>1. PassTyped' BY EndPassTyped DEF IInv, AbortPass
<1>2. RowsTyped' /\ PoolTyped' /\ MemTyped' /\ PrnTyped' /\ HistTyped'
  BY Frames DEF IInv, AbortPass
<1>3. Books'
  BY DEF IInv, Books, Budget, Watching, Waiting, Chosen, Starting, Unborn, Settled,
         AbortPass, EndPass, rowVars, poolVars, memVars, histVars
<1> QED BY <1>1, <1>2, <1>3 DEF IInv, TypeOK

LEMMA SelectIInv == ASSUME IInv, Select PROVE IInv'
<1>1. PassTyped' BY DEF IInv, TypeOK, PassTyped, Select, RowsTyped
<1>2. RowsTyped' /\ PoolTyped' /\ MemTyped' /\ PrnTyped' /\ HistTyped'
  BY Frames DEF IInv, Select
<1>3. Books'
  BY DEF IInv, Books, Budget, Watching, Waiting, Chosen, Starting, Unborn,
    Settled, Select, rowVars, poolVars, memVars, histVars
<1> QED BY <1>1, <1>2, <1>3 DEF IInv, TypeOK

LEMMA SeedIInv == ASSUME IInv, Seed PROVE IInv'
<1>1. PassTyped' BY DEF IInv, TypeOK, PassTyped, Seed
<1>2. MemTyped' BY DEF IInv, TypeOK, MemTyped, Seed, Held
<1>3. RowsTyped' /\ PoolTyped' /\ PrnTyped' /\ HistTyped'
  BY Frames DEF IInv, Seed
<1>4. Books'
  BY DEF IInv, Books, Budget, Watching, Waiting, Chosen, Starting, Unborn,
    Settled, Seed, rowVars, poolVars, histVars
<1> QED BY <1>1, <1>2, <1>3, <1>4 DEF IInv, TypeOK

LEMMA PassOverIInv == ASSUME IInv, NEW i \in Items, PassOver(i) PROVE IInv'
<1>1. PassTyped' BY DEF IInv, TypeOK, PassTyped, PassOver
<1>2. RowsTyped' /\ PoolTyped' /\ MemTyped' /\ PrnTyped' /\ HistTyped'
  BY Frames DEF IInv, PassOver
<1>3. Books'
  BY DEF IInv, Books, Budget, Watching, Waiting, Chosen, Starting, Unborn,
    Settled, PassOver, rowVars, poolVars, memVars, histVars
<1> QED BY <1>1, <1>2, <1>3 DEF IInv, TypeOK

LEMMA HoldBackIInv ==
  ASSUME IInv, NEW i \in Items, NEW p \in Printers, HoldBack(i, p)
  PROVE  IInv'
<1>1. PassTyped' BY DEF IInv, TypeOK, PassTyped, HoldBack
<1>2. RowsTyped' /\ PoolTyped' /\ MemTyped' /\ PrnTyped' /\ HistTyped'
  BY Frames DEF IInv, HoldBack
<1>3. Books'
  BY DEF IInv, Books, Budget, Watching, Waiting, Chosen, Starting, Unborn,
    Settled, HoldBack, rowVars, poolVars, memVars, histVars
<1> QED BY <1>1, <1>2, <1>3 DEF IInv, TypeOK

LEMMA TakeIInv ==
  ASSUME IInv, NEW i \in Items, NEW p \in Printers, Take(i, p)
  PROVE  IInv'
<1>1. PassTyped' BY DEF IInv, TypeOK, PassTyped, Take
<1>2. RowsTyped' /\ PoolTyped' /\ MemTyped' /\ PrnTyped' /\ HistTyped'
  BY Frames DEF IInv, Take
<1>3. Books'
  BY DEF IInv, Books, Budget, Watching, Waiting, Chosen, Starting, Unborn,
    Settled, Take, Offer, rowVars, poolVars, memVars, histVars
<1> QED BY <1>1, <1>2, <1>3 DEF IInv, TypeOK

LEMMA SkipIInv ==
  ASSUME IInv, NEW i \in Items, NEW p \in Printers, Skip(i, p)
  PROVE  IInv'
<1>1. CASE AbortPass(assigned \cup {i}) BY <1>1, AbortPassIInv
<1>2. CASE ~AbortPass(assigned \cup {i})
  <2>1. PassTyped' BY <1>2 DEF IInv, TypeOK, PassTyped, Skip
  <2>2. printer' \in [Items -> Printers \cup {NoPrinter}]
    BY <1>2, CommitTyped DEF IInv, TypeOK, PassTyped, Skip
  <2>3. RowsTyped'
    BY <1>2, <2>2, Stamps DEF IInv, TypeOK, RowsTyped, Skip, Statuses
  <2>4. PoolTyped' /\ MemTyped' /\ PrnTyped' /\ HistTyped'
    BY <1>2, Frames DEF IInv, Skip
  <2>5. Books'
    BY <1>2 DEF IInv, Books, Budget, Watching, Waiting, Chosen, Starting, Unborn,
       Settled, TypeOK, RowsTyped, Skip, Offer, poolVars, memVars, histVars
  <2> QED BY <2>1, <2>2, <2>3, <2>4, <2>5 DEF IInv, TypeOK
<1> QED BY <1>1, <1>2

LEMMA BlockIInv ==
  ASSUME IInv, NEW i \in Items, NEW p \in Printers, Block(i, p)
  PROVE  IInv'
<1>1. CASE AbortPass(assigned \cup {i}) BY <1>1, AbortPassIInv
<1>2. CASE ~AbortPass(assigned \cup {i})
  <2>1. PassTyped' BY <1>2 DEF IInv, TypeOK, PassTyped, Block
  <2>2. printer' \in [Items -> Printers \cup {NoPrinter}]
    BY <1>2, <2>1, CommitTyped DEF IInv, PassTyped, Block
  <2>3. RowsTyped' BY <1>2, <2>2 DEF IInv, TypeOK, RowsTyped, Block
  <2>4. PoolTyped' /\ MemTyped' /\ PrnTyped' /\ HistTyped'
    BY <1>2, Frames DEF IInv, Block
  <2>5. Books'
    BY <1>2 DEF IInv, Books, Budget, Watching, Waiting, Chosen, Starting, Unborn,
       Settled, Block, poolVars, memVars, histVars
  <2> QED BY <2>1, <2>3, <2>4, <2>5 DEF IInv, TypeOK
<1> QED BY <1>1, <1>2

LEMMA LaunchIInv == ASSUME IInv, Launch PROVE IInv'
<1>1. CASE AbortPass(assigned) BY <1>1, AbortPassIInv
<1>2. CASE ~AbortPass(assigned)
  <2>1. PICK L \in SUBSET picks :
          /\ Commit(assigned, snap)
          /\ w' = [i \in Items |-> IF i \in L THEN "launched" ELSE w[i]]
          /\ lane' = [i \in Items |-> IF i \in L THEN snap[i] ELSE lane[i]]
          /\ EndPass
          /\ UNCHANGED <<status, claimed, attempts, startMode, acked, archived, gen,
                         newer, libRow, tgt, memVars, prnVars, histVars>>
    BY <1>2 DEF Launch
  <2>2. PassTyped' BY <2>1, EndPassTyped DEF IInv
  <2>3. RowsTyped' BY <2>1, CommitTyped DEF IInv, TypeOK, RowsTyped, PassTyped
  <2>4. PoolTyped' BY <2>1 DEF IInv, TypeOK, PassTyped, PoolTyped, WorkerPcs
  <2>5. MemTyped' /\ PrnTyped' /\ HistTyped' BY <2>1, Frames DEF IInv
  <2>6. Books'
    BY <2>1 DEF IInv, Books, Budget, Watching, Waiting, Chosen, Starting, Unborn,
       Settled, TypeOK, PassTyped, PoolTyped, EndPass, memVars, histVars
  <2> QED BY <2>2, <2>3, <2>4, <2>5, <2>6 DEF IInv, TypeOK
<1> QED BY <1>1, <1>2

-----------------------------------------------------------------------------
(* The dispatch workers. *)

LEMMA ClaimIInv == ASSUME IInv, NEW i \in Items, Claim(i) PROVE IInv'
<1>1. RowsTyped' BY DEF IInv, TypeOK, RowsTyped, Claim
<1>2. PoolTyped'
  BY DEF IInv, TypeOK, PoolTyped, Claim, To, WorkerPcs, RowsTyped
<1>3. PassTyped' /\ MemTyped' /\ PrnTyped' /\ HistTyped'
  BY Frames DEF IInv, Claim
<1>4. Books'
  <2>1. UNCHANGED <<status, attempts, gen, todo, picks, dog, sent>>
    BY DEF Claim, passVars, memVars, histVars
  <2>2. Budget' /\ Watching' /\ Waiting'
    BY <2>1 DEF IInv, Books, Budget, Watching, Waiting, Settled
  <2>3. /\ \A j \in Items \ {i} : w'[j] = w[j]
        /\ w'[i] \in {"loaded", "off"}
        /\ w[i] = "launched"
    BY DEF IInv, TypeOK, PoolTyped, Claim, To
  <2>4. i \notin todo BY <2>3 DEF IInv, Books, Chosen
  <2>5. Chosen'
    BY <2>1, <2>3, <2>4 DEF IInv, TypeOK, PassTyped, Books, Chosen, Settled
  <2>6. Starting' BY <2>1, <2>3 DEF IInv, Books, Starting, Settled
  <2>7. Unborn' BY <2>1, <2>3 DEF IInv, Books, Unborn
  <2> QED BY <2>2, <2>5, <2>6, <2>7 DEF Books
<1> QED BY <1>1, <1>2, <1>3, <1>4 DEF IInv, TypeOK

LEMMA PrepareFailsIInv ==
  ASSUME IInv, NEW i \in Items, PrepareFails(i)
  PROVE  IInv'
<1>1. RowsTyped'
  BY Stamps DEF IInv, TypeOK, RowsTyped, PrepareFails, FailRow, Statuses
<1>2. PoolTyped' BY DEF IInv, TypeOK, PoolTyped, PrepareFails, To, WorkerPcs
<1>3. PassTyped' /\ MemTyped' /\ PrnTyped' /\ HistTyped'
  BY Frames DEF IInv, PrepareFails
<1>4. Books'
  BY DEF IInv, Books, Budget, Watching, Waiting, Chosen, Starting, Unborn,
    Settled, TypeOK, RowsTyped, PoolTyped, PrepareFails, FailRow, To,
    passVars, memVars, histVars
<1> QED BY <1>1, <1>2, <1>3, <1>4 DEF IInv, TypeOK

LEMMA ArchiveFailsIInv ==
  ASSUME IInv, NEW i \in Items, ArchiveFails(i)
  PROVE  IInv'
<1>1. RowsTyped'
  BY Stamps DEF IInv, TypeOK, RowsTyped, ArchiveFails, FailRow, Statuses
<1>2. PoolTyped' BY DEF IInv, TypeOK, PoolTyped, ArchiveFails, To, WorkerPcs
<1>3. PassTyped' /\ MemTyped' /\ PrnTyped' /\ HistTyped'
  BY Frames DEF IInv, ArchiveFails
<1>4. Books'
  BY DEF IInv, Books, Budget, Watching, Waiting, Chosen, Starting, Unborn,
    Settled, TypeOK, RowsTyped, PoolTyped, ArchiveFails, FailRow, To,
    passVars, memVars, histVars
<1> QED BY <1>1, <1>2, <1>3, <1>4 DEF IInv, TypeOK

LEMMA UploadFailsIInv ==
  ASSUME IInv, NEW i \in Items, UploadFails(i)
  PROVE  IInv'
<1>1. RowsTyped'
  BY Stamps DEF IInv, TypeOK, RowsTyped, UploadFails, FailRow, Statuses
<1>2. PoolTyped' BY DEF IInv, TypeOK, PoolTyped, UploadFails, To, WorkerPcs
<1>3. PassTyped' /\ MemTyped' /\ PrnTyped' /\ HistTyped'
  BY Frames DEF IInv, UploadFails
<1>4. Books'
  BY DEF IInv, Books, Budget, Watching, Waiting, Chosen, Starting, Unborn,
    Settled, TypeOK, RowsTyped, PoolTyped, UploadFails, FailRow, To, passVars,
    memVars, histVars
<1> QED BY <1>1, <1>2, <1>3, <1>4 DEF IInv, TypeOK

LEMMA PrepareDefersIInv ==
  ASSUME IInv, NEW i \in Items, PrepareDefers(i)
  PROVE  IInv'
<1>1. PoolTyped' BY DEF IInv, TypeOK, PoolTyped, PrepareDefers, To, WorkerPcs
<1>2. RowsTyped' /\ PassTyped' /\ MemTyped' /\ PrnTyped' /\ HistTyped'
  BY Frames DEF IInv, PrepareDefers
<1>3. Books'
  BY DEF IInv, Books, Budget, Watching, Waiting, Chosen, Starting, Unborn,
    Settled, TypeOK, PoolTyped, PrepareDefers, To, rowVars, passVars, memVars,
    histVars
<1> QED BY <1>1, <1>2, <1>3 DEF IInv, TypeOK

LEMMA PrepareSucceedsIInv ==
  ASSUME IInv, NEW i \in Items, PrepareSucceeds(i)
  PROVE  IInv'
<1>1. PoolTyped'
  BY DEF IInv, TypeOK, PoolTyped, PrepareSucceeds, To, WorkerPcs
<1>2. RowsTyped' /\ PassTyped' /\ MemTyped' /\ PrnTyped' /\ HistTyped'
  BY Frames DEF IInv, PrepareSucceeds
<1>3. Books'
  BY DEF IInv, Books, Budget, Watching, Waiting, Chosen, Starting, Unborn,
    Settled, TypeOK, PoolTyped, PrepareSucceeds, To, rowVars, passVars,
    memVars, histVars
<1> QED BY <1>1, <1>2, <1>3 DEF IInv, TypeOK

LEMMA ArchiveCopiedIInv ==
  ASSUME IInv, NEW i \in Items, ArchiveCopied(i)
  PROVE  IInv'
<1>1. RowsTyped' BY DEF IInv, TypeOK, RowsTyped, ArchiveCopied
<1>2. PoolTyped' BY DEF IInv, TypeOK, PoolTyped, ArchiveCopied, To, WorkerPcs
<1>3. PassTyped' /\ MemTyped' /\ PrnTyped' /\ HistTyped'
  BY Frames DEF IInv, ArchiveCopied
<1>4. Books'
  BY DEF IInv, Books, Budget, Watching, Waiting, Chosen, Starting, Unborn,
    Settled, TypeOK, PoolTyped, ArchiveCopied, To, passVars, memVars, histVars
<1> QED BY <1>1, <1>2, <1>3, <1>4 DEF IInv, TypeOK

LEMMA MarkPrintingIInv ==
  ASSUME IInv, NEW i \in Items, MarkPrinting(i)
  PROVE  IInv'
<1>1. RowsTyped' BY DEF IInv, TypeOK, RowsTyped, MarkPrinting, Statuses
<1>2. PoolTyped' BY DEF IInv, TypeOK, PoolTyped, MarkPrinting, To, WorkerPcs
<1>3. PassTyped' /\ MemTyped' /\ PrnTyped' /\ HistTyped'
  BY Frames DEF IInv, MarkPrinting
<1>4. Books'
  <2>1. Budget'
    BY DEF IInv, Books, Budget, TypeOK, RowsTyped, PoolTyped, PassTyped,
      MarkPrinting, StillPending, To, passVars, memVars, histVars
  <2>2. Watching'
    BY DEF IInv, Books, Watching, TypeOK, RowsTyped, PoolTyped, PassTyped,
      MarkPrinting, StillPending, To, passVars, memVars, histVars
  <2>3. Waiting'
    BY DEF IInv, Books, Waiting, Settled, TypeOK, RowsTyped, PoolTyped,
      PassTyped, MarkPrinting, StillPending, To, passVars, memVars, histVars
  <2>4. Chosen'
    BY DEF IInv, Books, Chosen, Settled, TypeOK, RowsTyped, PoolTyped,
      PassTyped, MarkPrinting, StillPending, To, passVars, memVars, histVars
  <2>5. Starting'
    BY DEF IInv, Books, Starting, Settled, Waiting, TypeOK, RowsTyped,
      PoolTyped, PassTyped, MarkPrinting, StillPending, To, passVars, memVars,
      histVars
  <2>6. Unborn'
    BY DEF IInv, Books, Unborn, TypeOK, RowsTyped, PoolTyped, PassTyped,
      MarkPrinting, StillPending, To, passVars, memVars, histVars
  <2> QED BY <2>1, <2>2, <2>3, <2>4, <2>5, <2>6 DEF Books
<1> QED BY <1>1, <1>2, <1>3, <1>4 DEF IInv, TypeOK

\* The flag and its column stay flags.
LEMMA PlateTyped ==
  ASSUME PrnTyped, NEW p, NEW b \in BOOLEAN, SetPlate(p, b)
  PROVE  plate' \in [Printers -> BOOLEAN] /\ plateRow' \in [Printers -> BOOLEAN]
BY DEF PrnTyped, SetPlate

LEMMA PublishIInv == ASSUME IInv, NEW i \in Items, Publish(i) PROVE IInv'
<1>1. PoolTyped' BY DEF IInv, TypeOK, PoolTyped, Publish, To, WorkerPcs
<1>2. MemTyped' BY DEF IInv, TypeOK, MemTyped, Publish, PoolTyped
<1>3. PrnTyped'
  <2>1. SetPlate(tgt[i], FALSE) BY DEF Publish
  <2>2. queued' \in [Printers -> SUBSET Items]
    BY DEF IInv, TypeOK, PrnTyped, Publish
  <2> QED BY <2>1, <2>2, PlateTyped DEF IInv, TypeOK, PrnTyped, Publish
<1>4. HistTyped' BY DEF IInv, TypeOK, HistTyped, Publish
<1>5. RowsTyped' /\ PassTyped' BY Frames DEF IInv, Publish
<1>6. Books'
  <2>1. Budget'
    BY DEF IInv, Books, Budget, Starting, Settled, TypeOK, RowsTyped,
      PoolTyped, PassTyped, MemTyped, HistTyped, Publish, To, rowVars,
      passVars
  <2>2. Watching'
    BY DEF IInv, Books, Watching, Starting, Settled, TypeOK, RowsTyped,
      PoolTyped, PassTyped, MemTyped, HistTyped, Publish, To, rowVars,
      passVars
  <2>3. Waiting'
    BY DEF IInv, Books, Waiting, Settled, Starting, TypeOK, RowsTyped,
      PoolTyped, PassTyped, MemTyped, HistTyped, Publish, To, rowVars,
      passVars
  <2>4. Chosen'
    BY DEF IInv, Books, Chosen, Settled, TypeOK, RowsTyped, PoolTyped,
      PassTyped, MemTyped, HistTyped, Publish, To, rowVars, passVars
  <2>5. Starting'
    BY DEF IInv, Books, Starting, Settled, TypeOK, RowsTyped, PoolTyped,
      PassTyped, MemTyped, HistTyped, Publish, To, rowVars, passVars
  <2>6. Unborn'
    BY DEF IInv, Books, Unborn, TypeOK, RowsTyped, PoolTyped, PassTyped,
      MemTyped, HistTyped, Publish, To, rowVars, passVars
  <2> QED BY <2>1, <2>2, <2>3, <2>4, <2>5, <2>6 DEF Books
<1> QED BY <1>1, <1>2, <1>3, <1>4, <1>5, <1>6 DEF IInv, TypeOK

LEMMA RefusedIInv == ASSUME IInv, NEW i \in Items, Refused(i) PROVE IInv'
<1>1. RowsTyped'
  BY Stamps DEF IInv, TypeOK, RowsTyped, Refused, FailRow, Statuses
<1>2. PoolTyped' BY DEF IInv, TypeOK, PoolTyped, Refused, To, WorkerPcs
<1>3. PassTyped' /\ MemTyped' /\ PrnTyped' /\ HistTyped'
  BY Frames DEF IInv, Refused
<1>4. Books'
  BY DEF IInv, Books, Budget, Watching, Waiting, Chosen, Starting, Unborn,
    Settled, TypeOK, RowsTyped, PoolTyped, Refused, FailRow, To, passVars,
    memVars, histVars
<1> QED BY <1>1, <1>2, <1>3, <1>4 DEF IInv, TypeOK

LEMMA FinishIInv == ASSUME IInv, NEW i \in Items, Finish(i) PROVE IInv'
<1>1. RowsTyped' BY DEF IInv, TypeOK, RowsTyped, Finish, ReleaseClaim
<1>2. PoolTyped'
  BY ConstAssumption DEF IInv, TypeOK, PoolTyped, Finish, To, WorkerPcs
<1>3. PassTyped' /\ MemTyped' /\ PrnTyped' /\ HistTyped'
  BY Frames DEF IInv, Finish
<1>4. Books'
  BY DEF IInv, Books, Budget, Watching, Waiting, Chosen, Starting, Unborn,
    Settled, TypeOK, PoolTyped, Finish, To, passVars, memVars, histVars
<1> QED BY <1>1, <1>2, <1>3, <1>4 DEF IInv, TypeOK

-----------------------------------------------------------------------------
(* The watchdogs and the printers. *)

LEMMA DogSeesActiveIInv ==
  ASSUME IInv, NEW i \in Items, DogSeesActive(i)
  PROVE  IInv'
<1>1. MemTyped'
  BY DEF IInv, TypeOK, MemTyped, DogSeesActive, DropHold, Dismiss
<1>2. RowsTyped' /\ PassTyped' /\ PoolTyped' /\ PrnTyped' /\ HistTyped'
  BY Frames DEF IInv, DogSeesActive
<1>3. Books'
  BY DEF IInv, Books, Budget, Watching, Waiting, Chosen, Starting, Unborn,
    Settled, TypeOK, MemTyped, DogSeesActive, Dismiss, rowVars, passVars,
    poolVars, histVars
<1> QED BY <1>1, <1>2, <1>3 DEF IInv, TypeOK

LEMMA DogGivesUpIInv ==
  ASSUME IInv, NEW i \in Items, DogGivesUp(i)
  PROVE  IInv'
<1>1. MemTyped' BY DEF IInv, TypeOK, MemTyped, DogGivesUp, DropHold
<1>2. RowsTyped' /\ PassTyped' /\ PoolTyped' /\ PrnTyped' /\ HistTyped'
  BY Frames DEF IInv, DogGivesUp
<1>3. Books'
  BY DEF IInv, Books, Budget, Watching, Waiting, Chosen, Starting, Unborn,
    Settled, TypeOK, MemTyped, DogGivesUp, rowVars, passVars, poolVars,
    histVars
<1> QED BY <1>1, <1>2, <1>3 DEF IInv, TypeOK

LEMMA DogReadsIInv == ASSUME IInv, NEW i \in Items, DogReads(i) PROVE IInv'
<1>1. MemTyped' BY DEF IInv, TypeOK, MemTyped, DogReads, StillPrinting, Dismiss
<1>2. RowsTyped' /\ PassTyped' /\ PoolTyped' /\ PrnTyped' /\ HistTyped'
  BY Frames DEF IInv, DogReads, StillPrinting
<1>3. Books'
  <2>1. \A j \in Items : dog'[j] # "off" => dog[j] # "off"
    BY DEF IInv, TypeOK, MemTyped, DogReads, StillPrinting, Dismiss
  <2>2. UNCHANGED <<status, attempts, gen, todo, picks, w, sent>>
    BY DEF DogReads, StillPrinting, rowVars, passVars, poolVars, histVars
  <2>3. \A j \in Items : Settled(j) => Settled(j)'
    BY <2>1, <2>2 DEF Settled, IInv, TypeOK, MemTyped, DogReads, StillPrinting, Dismiss
  <2> QED
    BY <2>1, <2>2, <2>3
    DEF IInv, TypeOK, PassTyped, Books, Budget, Watching, Waiting, Chosen, Starting, Unborn
<1> QED BY <1>1, <1>2, <1>3 DEF IInv, TypeOK

LEMMA DogRevertsIInv ==
  ASSUME IInv, NEW i \in Items, DogReverts(i)
  PROVE  IInv'
<1>1. RowsTyped'
  <2>1. attempts[i] + 1 \in 0..MaxAttempts
    BY ConstAssumption
    DEF IInv, Books, Budget, Watching, TypeOK, RowsTyped, HistTyped, DogReverts
  <2>2. attempts' \in [Items -> 0..MaxAttempts]
    BY <2>1 DEF IInv, TypeOK, RowsTyped, DogReverts, CountAttempt
  <2>3. status' \in [Items -> Statuses]
    BY DEF IInv, TypeOK, RowsTyped, DogReverts, FailRow, Statuses
  <2>4. newer' = newer \/ newer' = Stamp(i) BY DEF DogReverts, FailRow
  <2>5. newer' \subseteq Items \X Items
    BY <2>4, Stamps DEF IInv, TypeOK, RowsTyped
  <2> QED BY <2>2, <2>3, <2>5 DEF IInv, TypeOK, RowsTyped, DogReverts
<1>2. MemTyped' BY DEF IInv, TypeOK, MemTyped, DogReverts, Dismiss
<1>3. PassTyped' /\ PoolTyped' /\ PrnTyped' /\ HistTyped'
  BY Frames DEF IInv, DogReverts
<1>4. Books'
  <2>1. Budget'
    BY ConstAssumption DEF IInv, Books, Budget, Watching, TypeOK, RowsTyped,
      PassTyped, MemTyped, HistTyped, DogReverts, FailRow, CountAttempt,
      Exhausted, Dismiss, passVars, poolVars, histVars
  <2>2. Watching'
    BY ConstAssumption DEF IInv, Books, Watching, Budget, TypeOK, RowsTyped,
      PassTyped, MemTyped, HistTyped, DogReverts, FailRow, CountAttempt,
      Exhausted, Dismiss, passVars, poolVars, histVars
  <2>3. Waiting'
    BY ConstAssumption DEF IInv, Books, Waiting, Settled, Budget, Watching,
      TypeOK, RowsTyped, PassTyped, MemTyped, HistTyped, DogReverts, FailRow,
      CountAttempt, Exhausted, Dismiss, passVars, poolVars, histVars
  <2>4. Chosen'
    BY ConstAssumption DEF IInv, Books, Chosen, Settled, Budget, Watching,
      TypeOK, RowsTyped, PassTyped, MemTyped, HistTyped, DogReverts, FailRow,
      CountAttempt, Exhausted, Dismiss, passVars, poolVars, histVars
  <2>5. Starting'
    BY ConstAssumption DEF IInv, Books, Starting, Settled, Budget, Watching,
      TypeOK, RowsTyped, PassTyped, MemTyped, HistTyped, DogReverts, FailRow,
      CountAttempt, Exhausted, Dismiss, passVars, poolVars, histVars
  <2>6. Unborn'
    BY ConstAssumption DEF IInv, Books, Unborn, TypeOK, RowsTyped, PassTyped,
      MemTyped, HistTyped, DogReverts, FailRow, CountAttempt, Exhausted,
      Dismiss, passVars, poolVars, histVars
  <2> QED BY <2>1, <2>2, <2>3, <2>4, <2>5, <2>6 DEF Books
<1> QED BY <1>1, <1>2, <1>3, <1>4 DEF IInv, TypeOK

LEMMA DogRevertFailsIInv ==
  ASSUME IInv, NEW i \in Items, DogRevertFails(i)
  PROVE  IInv'
<1>1. MemTyped' BY DEF IInv, TypeOK, MemTyped, DogRevertFails, Dismiss
<1>2. RowsTyped' /\ PassTyped' /\ PoolTyped' /\ PrnTyped' /\ HistTyped'
  BY Frames DEF IInv, DogRevertFails
<1>3. Books'
  BY DEF IInv, Books, Budget, Watching, Waiting, Chosen, Starting, Unborn,
    Settled, TypeOK, MemTyped, DogRevertFails, Dismiss, rowVars, passVars,
    poolVars, histVars
<1> QED BY <1>1, <1>2, <1>3 DEF IInv, TypeOK

LEMMA HoldOpensIInv ==
  ASSUME IInv, NEW p \in Printers, HoldOpens(p)
  PROVE  IInv'
<1>1. MemTyped' BY DEF IInv, TypeOK, MemTyped, HoldOpens
<1>2. RowsTyped' /\ PassTyped' /\ PoolTyped' /\ PrnTyped' /\ HistTyped'
  BY Frames DEF IInv, HoldOpens
<1>3. Books'
  BY DEF IInv, Books, Budget, Watching, Waiting, Chosen, Starting, Unborn,
    Settled, HoldOpens, rowVars, passVars, poolVars, histVars
<1> QED BY <1>1, <1>2, <1>3 DEF IInv, TypeOK

LEMMA ReportsActiveIInv ==
  ASSUME IInv, NEW p \in Printers, ReportsActive(p)
  PROVE  IInv'
<1>1. PrnTyped' /\ HistTyped'
  BY DEF IInv, TypeOK, PrnTyped, HistTyped, ReportsActive, GcodeStates
<1>2. RowsTyped' /\ PassTyped' /\ PoolTyped' /\ MemTyped'
  BY Frames DEF IInv, ReportsActive
<1>3. Books'
  BY BooksFrame DEF IInv, bookVars, ReportsActive, rowVars, passVars,
    poolVars, memVars
<1> QED BY <1>1, <1>2, <1>3 DEF IInv, TypeOK

LEMMA LosesCommandIInv ==
  ASSUME IInv, NEW p \in Printers, LosesCommand(p)
  PROVE  IInv'
<1>1. PrnTyped' BY DEF IInv, TypeOK, PrnTyped, LosesCommand, GcodeStates
<1>2. RowsTyped' /\ PassTyped' /\ PoolTyped' /\ MemTyped' /\ HistTyped'
  BY Frames DEF IInv, LosesCommand
<1>3. Books'
  BY BooksFrame DEF IInv, bookVars, LosesCommand, rowVars, passVars, poolVars,
    memVars, histVars
<1> QED BY <1>1, <1>2, <1>3 DEF IInv, TypeOK

LEMMA LinkChangesIInv ==
  ASSUME IInv, NEW p \in Printers, LinkChanges(p)
  PROVE  IInv'
<1>1. PrnTyped' BY DEF IInv, TypeOK, PrnTyped, LinkChanges, GcodeStates
<1>2. RowsTyped' /\ PassTyped' /\ PoolTyped' /\ MemTyped' /\ HistTyped'
  BY Frames DEF IInv, LinkChanges
<1>3. Books'
  BY BooksFrame DEF IInv, bookVars, LinkChanges, rowVars, passVars, poolVars,
    memVars, histVars
<1> QED BY <1>1, <1>2, <1>3 DEF IInv, TypeOK

LEMMA ReportsEndIInv ==
  ASSUME IInv, NEW p \in Printers, ReportsEnd(p)
  PROVE  IInv'
<1>1. PrnTyped' /\ HistTyped'
  BY PlateTyped
  DEF IInv, TypeOK, PrnTyped, HistTyped, ReportsEnd, GcodeStates, Outcomes
<1>2. RowsTyped' /\ PassTyped' /\ PoolTyped' /\ MemTyped'
  BY Frames DEF IInv, ReportsEnd
<1>3. Books'
  BY BooksFrame DEF IInv, bookVars, ReportsEnd, rowVars, passVars, poolVars,
    memVars
<1> QED BY <1>1, <1>2, <1>3 DEF IInv, TypeOK

LEMMA CloseRowIInv == ASSUME IInv, NEW p \in Printers, CloseRow(p) PROVE IInv'
<1>1. RowsTyped'
  <2> DEFINE rows == {i \in Items : status[i] = "printing" /\ printer[i] = p}
  <2>1. CASE rows = {} BY <2>1 DEF IInv, TypeOK, RowsTyped, CloseRow
  <2>2. CASE rows # {}
    <3>1. PICK i \in rows : status' = [status EXCEPT ![i] = ended[p]] /\ newer' = Stamp(i)
      BY <2>2 DEF CloseRow
    <3>2. ended[p] \in Statuses
      BY DEF IInv, TypeOK, PrnTyped, CloseRow, Outcomes, Statuses
    <3>3. newer' \subseteq Items \X Items BY <3>1, Stamps DEF IInv
    <3> QED BY <3>1, <3>2, <3>3 DEF IInv, TypeOK, RowsTyped, CloseRow
  <2> QED BY <2>1, <2>2
<1>2. PrnTyped' BY DEF IInv, TypeOK, PrnTyped, CloseRow
<1>3. PassTyped' /\ PoolTyped' /\ MemTyped' /\ HistTyped'
  BY Frames DEF IInv, CloseRow
<1>4. Books'
  BY DEF IInv, Books, Budget, Watching, Waiting, Chosen, Starting, Unborn,
    Settled, TypeOK, RowsTyped, CloseRow, PrnTyped, Outcomes, passVars,
    poolVars, memVars, histVars
<1> QED BY <1>1, <1>2, <1>3, <1>4 DEF IInv, TypeOK

-----------------------------------------------------------------------------
(* The routes, and a restart. *)

LEMMA AddIInv == ASSUME IInv, NEW i \in Items, Add(i), MaxGen = 1 PROVE IInv'
<1>1. RowsTyped'
  <2>1. gen' \in [Items -> 0..MaxGen]
    <3>1. gen[i] + 1 \in 0..MaxGen
      BY ConstAssumption DEF IInv, TypeOK, RowsTyped, Add
    <3> QED BY <3>1 DEF IInv, TypeOK, RowsTyped, Add
  <2>2. printer' \in [Items -> Printers \cup {NoPrinter}]
    BY ConstAssumption DEF IInv, TypeOK, RowsTyped, Add
  <2>3. attempts' \in [Items -> 0..MaxAttempts]
    BY ConstAssumption DEF IInv, TypeOK, RowsTyped, Add
  <2>4. status' \in [Items -> Statuses]
    BY DEF IInv, TypeOK, RowsTyped, Add, Statuses
  <2> QED BY <2>1, <2>2, <2>3, <2>4 DEF IInv, TypeOK, RowsTyped, Add
<1>2. HistTyped' BY DEF IInv, TypeOK, HistTyped, Add
<1>3. PassTyped' /\ PoolTyped' /\ MemTyped' /\ PrnTyped'
  BY Frames DEF IInv, Add
<1>4. Books'
  BY ConstAssumption DEF IInv, Books, Budget, Watching, Waiting, Chosen,
    Starting, Unborn, Settled, TypeOK, RowsTyped, HistTyped, Add, passVars,
    poolVars, memVars
<1> QED BY <1>1, <1>2, <1>3, <1>4 DEF IInv, TypeOK

LEMMA AdmittedTyped ==
  ASSUME TypeOK, NEW op, NEW i, Admitted(op, i), UNCHANGED <<hold, dog, dogAt>>
  PROVE  MemTyped'
BY DEF TypeOK, MemTyped, Admitted

LEMMA AskIInv ==
  ASSUME IInv, NEW i \in Items, NEW op \in RowRoutes, Ask(op, i)
  PROVE  IInv'
<1>1. MemTyped' BY DEF IInv, TypeOK, MemTyped, Ask
<1>2. RowsTyped' /\ PassTyped' /\ PoolTyped' /\ PrnTyped' /\ HistTyped'
  BY Frames DEF IInv, Ask
<1>3. Books'
  BY BooksFrame DEF IInv, bookVars, Ask, rowVars, passVars, poolVars, histVars
<1> QED BY <1>1, <1>2, <1>3 DEF IInv, TypeOK

LEMMA CancelIInv == ASSUME IInv, NEW i \in Items, Cancel(i) PROVE IInv'
<1>1. RowsTyped' BY Stamps DEF IInv, TypeOK, RowsTyped, Cancel, Statuses
<1>2. HistTyped' BY DEF IInv, TypeOK, HistTyped, Cancel
<1>3. PassTyped' /\ PoolTyped' /\ PrnTyped'
  BY Frames DEF IInv, Cancel
<1>4. Books'
  BY DEF IInv, Books, Budget, Watching, Waiting, Chosen, Starting, Unborn,
    Settled, TypeOK, RowsTyped, Cancel, Admitted, passVars, poolVars
<1>5. MemTyped' BY AdmittedTyped DEF IInv, Cancel
<1> QED BY <1>1, <1>2, <1>3, <1>4, <1>5 DEF IInv, TypeOK

LEMMA DeleteIInv == ASSUME IInv, NEW i \in Items, Delete(i) PROVE IInv'
<1>1. RowsTyped' BY Stamps DEF IInv, TypeOK, RowsTyped, Delete, Statuses
<1>2. HistTyped' BY DEF IInv, TypeOK, HistTyped, Delete
<1>3. PassTyped' /\ PoolTyped' /\ PrnTyped'
  BY Frames DEF IInv, Delete
<1>4. Books'
  BY DEF IInv, Books, Budget, Watching, Waiting, Chosen, Starting, Unborn,
    Settled, TypeOK, RowsTyped, Delete, passVars, poolVars
<1>5. MemTyped' BY AdmittedTyped DEF IInv, Delete
<1> QED BY <1>1, <1>2, <1>3, <1>4, <1>5 DEF IInv, TypeOK

LEMMA EditIInv ==
  ASSUME IInv, NEW i \in Items, NEW p \in Printers \cup {NoPrinter}, Edit(i, p)
  PROVE  IInv'
<1>1. RowsTyped' BY DEF IInv, TypeOK, RowsTyped, Edit
<1>2. PassTyped' /\ PoolTyped' /\ PrnTyped' /\ HistTyped'
  BY Frames DEF IInv, Edit
<1>3. Books'
  BY BooksFrame DEF IInv, bookVars, Edit, rowVars, passVars, poolVars, histVars
<1>4. MemTyped' BY AdmittedTyped DEF IInv, Edit
<1> QED BY <1>1, <1>2, <1>3, <1>4 DEF IInv, TypeOK

LEMMA StopIInv == ASSUME IInv, NEW i \in Items, Stop(i) PROVE IInv'
<1>1. RowsTyped' BY Stamps DEF IInv, TypeOK, RowsTyped, Stop, Statuses
<1>2. PassTyped' /\ PoolTyped' /\ PrnTyped' /\ HistTyped'
  BY Frames DEF IInv, Stop
<1>3. Books'
  BY DEF IInv, Books, Budget, Watching, Waiting, Chosen, Starting, Unborn,
    Settled, TypeOK, RowsTyped, Stop, Admitted, passVars, poolVars, histVars
<1>4. MemTyped' BY AdmittedTyped DEF IInv, Stop
<1> QED BY <1>1, <1>2, <1>3, <1>4 DEF IInv, TypeOK

LEMMA StartNowIInv == ASSUME IInv, NEW i \in Items, StartNow(i) PROVE IInv'
<1>1. RowsTyped' BY DEF IInv, TypeOK, RowsTyped, StartNow
<1>2. PassTyped' /\ PoolTyped' /\ PrnTyped' /\ HistTyped'
  BY Frames DEF IInv, StartNow
<1>3. Books'
  BY BooksFrame DEF IInv, bookVars, StartNow, rowVars, passVars, poolVars, histVars
<1>4. MemTyped' BY AdmittedTyped DEF IInv, StartNow
<1> QED BY <1>1, <1>2, <1>3, <1>4 DEF IInv, TypeOK

LEMMA ResumeIInv == ASSUME IInv, NEW p \in Printers, Resume(p) PROVE IInv'
<1>1. RowsTyped' BY DEF IInv, TypeOK, RowsTyped, Resume, Statuses, Unstamp
<1>2. PassTyped' /\ PoolTyped' /\ MemTyped' /\ PrnTyped' /\ HistTyped'
  BY Frames DEF IInv, Resume
<1>3. Books'
  BY DEF IInv, Books, Budget, Watching, Waiting, Chosen, Starting, Unborn,
    Settled, TypeOK, RowsTyped, Resume, passVars, poolVars, memVars, histVars
<1> QED BY <1>1, <1>2, <1>3 DEF IInv, TypeOK

LEMMA ClearPlateIInv ==
  ASSUME IInv, NEW p \in Printers, ClearPlate(p)
  PROVE  IInv'
<1>1. PrnTyped' /\ HistTyped'
  BY PlateTyped DEF IInv, TypeOK, PrnTyped, HistTyped, ClearPlate
<1>2. RowsTyped' /\ PassTyped' /\ PoolTyped' /\ MemTyped'
  BY Frames DEF IInv, ClearPlate
<1>3. Books'
  BY BooksFrame DEF IInv, bookVars, ClearPlate, rowVars, passVars, poolVars,
    memVars
<1> QED BY <1>1, <1>2, <1>3 DEF IInv, TypeOK

LEMMA RestartIInv == ASSUME IInv, Restart PROVE IInv'
<1>1. RowsTyped' BY DEF IInv, TypeOK, RowsTyped, Restart, StaleClaimsCleared
<1>2. PassTyped' BY EndPassTyped DEF IInv, TypeOK, PassTyped, Restart
<1>3. PoolTyped'
  BY ConstAssumption DEF IInv, TypeOK, PoolTyped, Restart, WorkerPcs
<1>4. MemTyped' BY DEF IInv, TypeOK, MemTyped, Restart
<1>5. PrnTyped' BY DEF IInv, TypeOK, PrnTyped, Restart
<1>6. HistTyped' BY Frames DEF IInv, Restart
<1>7. Books'
  BY DEF IInv, Books, Budget, Watching, Waiting, Chosen, Starting, Unborn,
    Settled, TypeOK, RowsTyped, Restart, EndPass, histVars
<1> QED BY <1>1, <1>2, <1>3, <1>4, <1>5, <1>6, <1>7 DEF IInv, TypeOK

-----------------------------------------------------------------------------
LEMMA NextIInv == ASSUME IInv, [Next]_vars, MaxGen = 1 PROVE IInv'
<1>1. CASE UNCHANGED vars
  BY <1>1, Frames, BooksFrame
  DEF vars, IInv, TypeOK, bookVars, rowVars, passVars, poolVars, memVars, histVars
<1>2. CASE Pass
  BY <1>2, SelectIInv, SeedIInv, LaunchIInv, PassOverIInv, HoldBackIInv, SkipIInv,
     BlockIInv, TakeIInv DEF Pass
<1>3. CASE User
  BY <1>3, AddIInv, AskIInv, CancelIInv, DeleteIInv, StopIInv, StartNowIInv, EditIInv, ResumeIInv,
     ClearPlateIInv DEF User
<1>4. CASE Restart BY <1>4, RestartIInv
<1>5. ASSUME NEW i \in Items, Worker(i) PROVE IInv'
  BY <1>5, ClaimIInv, PrepareFailsIInv, PrepareDefersIInv, PrepareSucceedsIInv,
     ArchiveCopiedIInv, ArchiveFailsIInv, UploadFailsIInv, MarkPrintingIInv, PublishIInv,
     RefusedIInv, FinishIInv DEF Worker
<1>6. ASSUME NEW i \in Items, Dog(i) PROVE IInv'
  BY <1>6, DogSeesActiveIInv, DogGivesUpIInv, DogReadsIInv, DogRevertsIInv,
     DogRevertFailsIInv DEF Dog
<1>7. ASSUME NEW p \in Printers, HoldOpens(p) \/ CloseRow(p) \/ Printer(p) PROVE IInv'
  BY <1>7, HoldOpensIInv, CloseRowIInv, ReportsActiveIInv, LosesCommandIInv,
     ReportsEndIInv, LinkChangesIInv DEF Printer
<1> QED BY <1>1, <1>2, <1>3, <1>4, <1>5, <1>6, <1>7 DEF Next

LEMMA SpecIInv == ASSUME MaxGen = 1 PROVE Spec => []IInv
<1>1. Init => IInv BY InitIInv
<1>2. IInv /\ [Next]_vars => IInv' BY NextIInv
<1> QED BY <1>1, <1>2, PTL DEF Spec

\* Every variable always has its type, and no row is reverted more often than
\* dispatch_attempts allows, for any number of rows and printers.
THEOREM TypeCorrect == ASSUME MaxGen = 1 PROVE Spec => []TypeOK
<1>1. IInv => TypeOK BY DEF IInv
<1> QED BY <1>1, SpecIInv, PTL

\* A row never causes more than DISPATCH_MAX_ATTEMPTS start commands, whatever
\* crashes, refusals, cancellations and late answers there are.
THEOREM BudgetKept == ASSUME MaxGen = 1 PROVE Spec => []CommandBudget
<1>1. IInv => CommandBudget
  BY ConstAssumption DEF IInv, Books, Budget, CommandBudget, TypeOK, RowsTyped, HistTyped
<1> QED BY <1>1, SpecIInv, PTL

\* A row that waits for dispatch has no start command that is not counted:
\* nothing but a watchdog's verdict gives back a row that was sent.
THEOREM NoReprint == ASSUME MaxGen = 1 PROVE Spec => []NoPhantomReprint
<1>1. IInv => NoPhantomReprint
  BY DEF IInv, Books, Waiting, Settled, NoPhantomReprint
<1> QED BY <1>1, SpecIInv, PTL
=============================================================================
