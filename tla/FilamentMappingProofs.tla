----------------------- MODULE FilamentMappingProofs -----------------------
(* Safety of the matching loops of FilamentMapping, for any printers, AMS   *)
(* contents and requirement lists.  The induction is over the requirements: *)
(* what a row records of the trays already taken is what the next step      *)
(* needs to choose another one.                                             *)
EXTENDS FilamentMapping, WellFoundedInduction, TLAPS

\* Every tray in a row, and every tray chosen by hand, is off the offer; the
\* program takes none of those chosen by hand.
TakenOffOffer ==
    job # Nothing =>
        /\ \E S : row \in Seq(S)
        /\ Range(job.manual) \subseteq used
        /\ \A k \in DOMAIN row :
              /\ row[k].tray \in used
              /\ row[k].user \/ row[k].tray = -1 \/ row[k].tray \notin Range(job.manual)

RowsInv == TakenOffOffer /\ OneSlotPerTray /\ NozzleKept

\* What a step may choose: the user's tray, none, or a free one that passes
\* the filter of its path.
LEMMA PickIsFree ==
    ASSUME NEW r, NEW taken, NEW t \in Picks(r, taken)
    PROVE  \/ Honoured(job, r) /\ t \in Range(job.manual)
           \/ ~Honoured(job, r) /\ t = -1
           \/ /\ ~Honoured(job, r)
              /\ t \notin taken
              /\ Hard(job.path) /\ ~job.fts /\ r.nozzle # NoNozzle =>
                   \E i \in DOMAIN job.list :
                      job.list[i].id = t /\ job.list[i].nozzle = r.nozzle
<1> DEFINE C == Candidates(job, r, taken)
<1>1. CASE Honoured(job, r)
  <2>1. t = job.manual[r.slot] /\ r.slot \in DOMAIN job.manual
    BY <1>1 DEF Picks, Honoured
  <2> QED BY <1>1, <2>1 DEF Range
<1>2. CASE ~Honoured(job, r) /\ Choice(job, r, C) = {}
  BY <1>2 DEF Picks
<1>3. CASE ~Honoured(job, r) /\ Choice(job, r, C) # {}
  <2>1. PICK i \in Choice(job, r, C) : t = job.list[i].id
    BY <1>3 DEF Picks
  <2>2. i \in C
    BY <2>1 DEF Choice
  <2>3. i \in DOMAIN job.list /\ job.list[i].id \notin taken
    BY <2>2 DEF Candidates
  <2>4. Hard(job.path) /\ ~job.fts /\ r.nozzle # NoNozzle => job.list[i].nozzle = r.nozzle
    BY <2>2 DEF Candidates
  <2> QED BY <1>3, <2>1, <2>3, <2>4
<1> QED BY <1>1, <1>2, <1>3

\* A row grows by one entry and keeps the others.
LEMMA RowGrows ==
    ASSUME NEW s, NEW S, s \in Seq(S), NEW e
    PROVE  /\ Append(s, e) \in Seq(S \cup {e})
           /\ DOMAIN Append(s, e) = DOMAIN s \cup {Len(s) + 1}
           /\ Append(s, e)[Len(s) + 1] = e
           /\ \A k \in DOMAIN s : Append(s, e)[k] = s[k] /\ k # Len(s) + 1
<1>1. s \in Seq(S \cup {e}) /\ Len(s) \in Nat /\ DOMAIN s = 1..Len(s)
  OBVIOUS
<1> QED BY <1>1

\* The start of a matching has an empty row.
LEMMA StartSafe ==
    ASSUME NEW path, NEW p, NEW st, NEW L, NEW choices, Start(path, p, st, L, choices)
    PROVE  RowsInv'
<1>1. row' = << >> /\ used' = Range(job'.manual)
  BY DEF Start
<1>2. row' \in Seq({}) /\ DOMAIN row' = {}
  BY <1>1
<1> QED BY <1>1, <1>2 DEF RowsInv, TakenOffOffer, OneSlotPerTray, NozzleKept

\* A requirement is matched.
LEMMA MatchSafe == ASSUME RowsInv, Match PROVE RowsInv'
<1> DEFINE n == Len(row) + 1
<1> DEFINE r == reqs[n]
<1>1. PICK t \in Picks(r, used) :
        /\ row' = Append(row, [tray |-> t, user |-> Honoured(job, r)])
        /\ used' = used \cup {t}
  BY DEF Match, MarkUsed
<1>2. job # Nothing /\ job' = job /\ reqs' = reqs
  BY DEF Match, Running
<1> DEFINE e == [tray |-> t, user |-> Honoured(job, r)]
<1>3. PICK S : row \in Seq(S)
  BY <1>2 DEF RowsInv, TakenOffOffer
<1>4. /\ row' \in Seq(S \cup {e})
      /\ DOMAIN row' = DOMAIN row \cup {n}
      /\ row'[n] = e
      /\ \A k \in DOMAIN row : row'[k] = row[k] /\ k # n
  BY <1>1, <1>3, RowGrows
<1>5. \/ e.user /\ t \in Range(job.manual)
      \/ ~e.user /\ t = -1
      \/ /\ ~e.user /\ t \notin used
         /\ Hard(job.path) /\ ~job.fts /\ r.nozzle # NoNozzle =>
              \E i \in DOMAIN job.list :
                 job.list[i].id = t /\ job.list[i].nozzle = r.nozzle
  BY <1>1, PickIsFree
<1>6. e.tray = t
  OBVIOUS
<1> HIDE DEF e, n, r
<1>7. TakenOffOffer'
  <2>1. Range(job.manual) \subseteq used'
    BY <1>1, <1>2 DEF RowsInv, TakenOffOffer
  <2>2. ASSUME NEW k \in DOMAIN row'
        PROVE  /\ row'[k].tray \in used'
               /\ row'[k].user \/ row'[k].tray = -1 \/ row'[k].tray \notin Range(job.manual)
    <3>1. CASE k \in DOMAIN row
      BY <3>1, <1>1, <1>2, <1>4 DEF RowsInv, TakenOffOffer
    <3>2. CASE k = n
      BY <3>2, <1>1, <1>2, <1>4, <1>5, <1>6 DEF RowsInv, TakenOffOffer
    <3> QED BY <1>4, <3>1, <3>2
  <2> QED BY <1>2, <1>4, <2>1, <2>2 DEF TakenOffOffer
<1>8. OneSlotPerTray'
  <2>1. ASSUME NEW j \in DOMAIN row', NEW k \in DOMAIN row', j # k,
               row'[j].tray = row'[k].tray, row'[j].tray # -1
        PROVE  row'[j].user /\ row'[k].user
    <3>1. CASE j \in DOMAIN row /\ k \in DOMAIN row
      BY <2>1, <3>1, <1>2, <1>4 DEF RowsInv, OneSlotPerTray
    <3>2. ASSUME NEW m \in DOMAIN row, row[m].tray = t, t # -1
          PROVE  row[m].user /\ e.user
      <4>1. t \in used
        BY <3>2, <1>2 DEF RowsInv, TakenOffOffer
      <4>2. e.user /\ t \in Range(job.manual)
        BY <4>1, <3>2, <1>5
      <4> QED BY <4>2, <3>2, <1>2 DEF RowsInv, TakenOffOffer
    <3>3. CASE j = n /\ k \in DOMAIN row
      BY <2>1, <3>2, <3>3, <1>4, <1>6
    <3>4. CASE k = n /\ j \in DOMAIN row
      BY <2>1, <3>2, <3>4, <1>4, <1>6
    <3> QED BY <2>1, <1>4, <3>1, <3>3, <3>4
  <2> QED BY <2>1 DEF OneSlotPerTray
<1>9. NozzleKept'
  <2>1. ASSUME NEW k \in DOMAIN row', Hard(job.path), ~job.fts,
               ~row'[k].user, reqs[k].nozzle # NoNozzle
        PROVE  \/ row'[k].tray = -1
               \/ \E i \in DOMAIN job.list : /\ job.list[i].id = row'[k].tray
                                            /\ job.list[i].nozzle = reqs[k].nozzle
    <3>1. CASE k \in DOMAIN row
      BY <2>1, <3>1, <1>2, <1>4 DEF RowsInv, NozzleKept
    <3>2. CASE k = n
      BY <2>1, <3>2, <1>4, <1>5, <1>6 DEF r
    <3> QED BY <1>4, <3>1, <3>2
  <2> QED BY <2>1, <1>2 DEF NozzleKept
<1> QED BY <1>7, <1>8, <1>9 DEF RowsInv

\* Nothing else touches the loop or its requirements.
LEMMA OthersSafe ==
    ASSUME RowsInv, UNCHANGED <<reqs, loop>>
    PROVE  RowsInv'
BY DEF RowsInv, TakenOffOffer, OneSlotPerTray, NozzleKept, loop

LEMMA FinishSafe == ASSUME Finish PROVE RowsInv'
BY DEF Finish, RowsInv, TakenOffOffer, OneSlotPerTray, NozzleKept

LEMMA RowsInductive == ASSUME RowsInv, [Next]_vars PROVE RowsInv'
<1>1. CASE Match
  BY <1>1, MatchSafe
<1>2. CASE Finish
  BY <1>2, FinishSafe
<1>3. CASE Submit \/ \E ps \in Selections : Select(ps)
  BY <1>3, OthersSafe DEF Submit, Select, Edit
<1>4. CASE \E s \in Slots : SelectSlot(s)
  BY <1>4, OthersSafe DEF SelectSlot, Edit
<1>5. ASSUME NEW p \in Printers, StatusAnswer(p) \/ StatusError(p) \/ SwapSpool(p)
      PROVE  RowsInv'
  BY <1>5, OthersSafe DEF StatusAnswer, StatusError, SwapSpool
<1>6. ASSUME NEW p \in Printers, AutoConfigure(p)
      PROVE  RowsInv'
  BY <1>6, StartSafe DEF AutoConfigure
<1>7. ASSUME NEW p \in Printers, UseDefault(p) \/ \E s \in Slots : SelectOwnSlot(p, s)
      PROVE  RowsInv'
  BY <1>7, OthersSafe DEF UseDefault, SelectOwnSlot, Edit
<1>8. ASSUME NEW p \in Printers, Enqueue(p)
      PROVE  RowsInv'
  BY <1>8, OthersSafe, StartSafe DEF Enqueue
<1>9. ASSUME NEW p \in Printers, Dispatch(p)
      PROVE  RowsInv'
  BY <1>9, OthersSafe, StartSafe DEF Dispatch
<1>10. CASE UNCHANGED vars
  BY <1>10, OthersSafe DEF vars
<1> QED
  BY <1>1, <1>2, <1>3, <1>4, <1>5, <1>6, <1>7, <1>8, <1>9, <1>10 DEF Next

LEMMA RowsHold == Spec => []RowsInv
<1>1. Init => RowsInv
  BY DEF Init, RowsInv, TakenOffOffer, OneSlotPerTray, NozzleKept
<1> QED BY <1>1, RowsInductive, PTL DEF Spec

\* On every path, whatever is loaded and whatever the print needs, the program
\* never maps two filaments to one tray, nor one to a tray the user gave away.
THEOREM TrayUsedOnce == Spec => []OneSlotPerTray
<1>1. RowsInv => OneSlotPerTray
  BY DEF RowsInv
<1> QED BY <1>1, RowsHold, PTL

\* On every path with the hard filter, and without a track switch, a filament
\* is mapped by the program to a tray of its own nozzle or to none.
THEOREM NozzleRespected == Spec => []NozzleKept
<1>1. RowsInv => NozzleKept
  BY DEF RowsInv
<1> QED BY <1>1, RowsHold, PTL
-----------------------------------------------------------------------------
(* Numbers: a least and a greatest element, and what follows for the slots  *)
(* of a print.                                                              *)

LEMMA LeastElement ==
    ASSUME NEW S \in SUBSET Nat, S # {}
    PROVE  \E x \in S : \A y \in S : x <= y
<1> DEFINE Less == OpToRel(<, Nat)
<1>1. IsWellFoundedOn(Less, Nat)
  BY NatLessThanWellFounded
<1>2. \A x, y \in Nat : y < x => <<y, x>> \in Less
  BY DEF OpToRel
<1> HIDE DEF Less
<1>3. PICK x \in S : \A y \in S : ~ (<<y, x>> \in Less)
  BY <1>1, WFMin
<1>4. ASSUME NEW y \in S PROVE x <= y
  <2>1. ~ (y < x) /\ x \in Nat /\ y \in Nat
    BY <1>2, <1>3
  <2> QED BY <2>1
<1> QED BY <1>4

LEMMA GreatestElement ==
    ASSUME NEW S \in SUBSET Nat, S # {}, NEW b \in Nat, \A x \in S : x <= b
    PROVE  \E x \in S : \A y \in S : y <= x
<1> DEFINE Below == {b - x : x \in S}
<1>0. \A x \in S : x \in Nat /\ b - x \in Nat
  OBVIOUS
<1>1. Below \in SUBSET Nat /\ Below # {}
  BY <1>0
<1> HIDE DEF Below
<1>2. \E d \in Below : \A e \in Below : d <= e
  BY <1>1, LeastElement, Zenon
<1> PICK d \in Below : \A e \in Below : d <= e
  BY <1>2
<1>3. PICK x \in S : d = b - x
  BY DEF Below
<1>4. ASSUME NEW y \in S PROVE y <= x
  <2>1. b - y \in Below
    BY DEF Below
  <2>2. b - x <= b - y
    BY <1>2, <1>3, <2>1
  <2> QED BY <2>2
<1> QED BY <1>4

LEMMA SlotsBounded ==
    ASSUME reqs \in Plates
    PROVE  \E b \in Nat : \A k \in DOMAIN reqs : reqs[k].slot <= b
<1>1. Len(reqs) \in Nat /\ DOMAIN reqs = 1..Len(reqs)
  BY PlateAssumption
<1>2. \A k \in DOMAIN reqs : reqs[k].slot \in Nat
  BY PlateAssumption DEF Range
<1> DEFINE Bounded(n) == \E b \in Nat : \A k \in 1..n : reqs[k].slot <= b
           Bad == {n \in 0..Len(reqs) : ~ Bounded(n)}
<1>3. CASE Bad = {}
  <2>0. Len(reqs) \in 0..Len(reqs)
    BY <1>1
  <2>1. Bounded(Len(reqs))
    BY <1>3, <2>0
  <2> QED BY <1>1, <2>1
<1>4. CASE Bad # {}
  <2>0. Bad \in SUBSET Nat
    BY <1>1
  <2> HIDE DEF Bad
  <2>1. PICK n \in Bad : \A m \in Bad : n <= m
    BY <1>4, <2>0, LeastElement
  <2>2. n # 0
    <3>1. Bounded(0)
      <4>1. \A k \in 1..0 : reqs[k].slot <= 0
        OBVIOUS
      <4> QED BY <4>1
    <3> QED BY <2>1, <3>1 DEF Bad
  <2>3. n \in 0..Len(reqs) /\ ~ Bounded(n)
    BY DEF Bad
  <2> HIDE DEF Bounded
  <2>4. n \in DOMAIN reqs /\ n - 1 \in 0..Len(reqs)
    BY <1>1, <2>2, <2>3
  <2>5. n - 1 \notin Bad
    BY <2>0, <2>1
  <2>6. Bounded(n - 1)
    BY <2>4, <2>5 DEF Bad
  <2>7. PICK b \in Nat : \A k \in 1..(n - 1) : reqs[k].slot <= b
    BY <2>6 DEF Bounded
  <2>8. PICK c \in Nat : b <= c /\ reqs[n].slot <= c
    <3>1. reqs[n].slot \in Nat
      BY <1>2, <2>4
    <3>2. b + reqs[n].slot \in Nat /\ b <= b + reqs[n].slot /\ reqs[n].slot <= b + reqs[n].slot
      BY <3>1
    <3> QED BY <3>2
  <2>9. ASSUME NEW k \in 1..n PROVE reqs[k].slot <= c
    <3>1. CASE k = n BY <2>8, <3>1
    <3>2. CASE k # n
      <4>1. k \in 1..(n - 1) /\ k \in DOMAIN reqs BY <1>1, <2>3, <2>4, <3>2
      <4>2. reqs[k].slot <= b /\ reqs[k].slot \in Nat BY <1>2, <2>7, <4>1
      <4> QED BY <2>8, <4>2
    <3> QED BY <3>1, <3>2
  <2> QED BY <2>3, <2>9 DEF Bounded
<1> QED BY <1>3, <1>4

LEMMA SlotsHaveMax ==
    ASSUME reqs \in Plates, Slots # {}
    PROVE  /\ Max(Slots) \in Slots
           /\ \A s \in Slots : s \in 1..Max(Slots)
<1>1. \A s \in Slots : s \in Nat /\ s # 0
  BY PlateAssumption DEF Slots, Range
<1>2. PICK b \in Nat : \A k \in DOMAIN reqs : reqs[k].slot <= b
  BY SlotsBounded
<1>3. \A s \in Slots : s <= b
  BY <1>2 DEF Slots
<1>4. \E m \in Slots : \A s \in Slots : s <= m
  BY <1>1, <1>3, GreatestElement
<1>5. \E m \in Slots : \A s \in Slots : m >= s
  BY <1>1, <1>4
<1>6. Max(Slots) \in Slots /\ \A s \in Slots : Max(Slots) >= s
  BY <1>5 DEF Max
<1> QED BY <1>1, <1>6

\* Of the requirements with one slot number the last one gives the tray.
LEMMA LastOfSlot ==
    ASSUME reqs \in Plates, NEW r, NEW s \in Slots
    PROVE  \E k \in DOMAIN reqs : reqs[k].slot = s /\ TrayOf(r, s) = r[k].tray
<1> DEFINE K == {k \in DOMAIN reqs : reqs[k].slot = s}
<1>1. Len(reqs) \in Nat /\ DOMAIN reqs = 1..Len(reqs)
  BY PlateAssumption
<1>2. K \in SUBSET Nat /\ K # {} /\ \A k \in K : k <= Len(reqs)
  BY <1>1 DEF Slots
<1> HIDE DEF K
<1>3. \E k \in K : \A j \in K : j <= k
  BY <1>1, <1>2, GreatestElement
<1>4. \E k \in DOMAIN reqs :
        reqs[k].slot = s /\ \A j \in DOMAIN reqs : reqs[j].slot = s => j <= k
  BY <1>3 DEF K
<1> DEFINE l == CHOOSE k \in DOMAIN reqs :
                  reqs[k].slot = s /\ \A j \in DOMAIN reqs : reqs[j].slot = s => j <= k
<1>5. l \in DOMAIN reqs /\ reqs[l].slot = s
  BY <1>4
<1>6. TrayOf(r, s) = r[l].tray
  BY DEF TrayOf
<1> QED BY <1>5, <1>6

\* What a finished matching makes of its row: a number for each slot, and for
\* a slot of the print the tray of one of its requirements.
LEMMA MappingTrue ==
    ASSUME reqs \in Plates, NEW r, DOMAIN r = DOMAIN reqs,
           \A k \in DOMAIN r : r[k].tray \in Nat \cup {-1}
    PROVE  LET m == AmsMapping(r)
           IN  \/ m = Nothing /\ Slots = {}
               \/ /\ m \notin {Nothing, NotYet}
                  /\ \A s \in DOMAIN m : m[s] \in Nat \cup {-1}
                  /\ \A s \in Slots : /\ s \in DOMAIN m
                                      /\ \E k \in DOMAIN r : reqs[k].slot = s /\ m[s] = r[k].tray
<1> DEFINE m == AmsMapping(r)
<1>1. CASE Slots = {}
  BY <1>1 DEF AmsMapping
<1>2. CASE Slots # {}
  <2> DEFINE top == Max(Slots)
  <2>1. top \in Slots /\ \A s \in Slots : s \in 1..top
    BY <1>2, SlotsHaveMax
  <2> HIDE DEF top
  <2>2. m = [s \in 1..top |-> IF s \in Slots THEN TrayOf(r, s) ELSE -1]
    BY <1>2 DEF AmsMapping, top
  <2>3. \A s \in Slots : \E k \in DOMAIN r : reqs[k].slot = s /\ TrayOf(r, s) = r[k].tray
    BY LastOfSlot
  <2>4. \A s \in Slots : TrayOf(r, s) \in Nat \cup {-1}
    BY <2>3
  <2>5. m \in [1..top -> Nat \cup {-1}] /\ m \in [1..top -> Int]
    BY <2>2, <2>4
  <2>6. m \notin {Nothing, NotYet}
    <3>1. PICK k \in DOMAIN reqs : reqs[k].slot = top
      BY <2>1 DEF Slots
    <3>2. Nothing \notin [1..top -> Int] /\ NotYet \notin [1..top -> Int]
      BY <3>1, PlateAssumption DEF Range
    <3> QED BY <2>5, <3>2
  <2>7. \A s \in DOMAIN m : m[s] \in Nat \cup {-1}
    BY <2>5
  <2>8. ASSUME NEW s \in Slots
        PROVE  s \in DOMAIN m /\ \E k \in DOMAIN r : reqs[k].slot = s /\ m[s] = r[k].tray
    BY <2>1, <2>2, <2>3
  <2> QED BY <2>6, <2>7, <2>8
<1> QED BY <1>1, <1>2
-----------------------------------------------------------------------------
(* The list of loaded filaments, and the tray chosen from it.               *)

Known == UNION {Statuses[p] : p \in Printers}
Loaded(L) ==
    /\ DOMAIN L \subseteq Nat
    /\ \A i \in DOMAIN L : L[i].id \in Nat /\ L[i].order \in Int /\ L[i].remain \in Int
Weights(g) == \A x \in DOMAIN g : g[x] \in Int
\* a mapping of slots to trays made by the user
IsChoice(c) == \A s \in DOMAIN c : c[s] \in Nat

LEMMA FilamentsLoaded ==
    ASSUME NEW st \in Known, NEW dual
    PROVE  Loaded(Filaments(st, dual)) /\ Weights(st.grams)
<1> DEFINE ams == {k \in DOMAIN st.tray : HasType(st.tray[k])}
           vt == {k \in DOMAIN st.vt : HasType(st.vt[k])}
           n == Len(st.tray)
           L == Filaments(st, dual)
<1>1. /\ st.tray \in Seq(Range(st.tray)) /\ st.vt \in Seq(Range(st.vt))
      /\ \A t \in Range(st.tray) : t.unit \in Nat
      /\ \A t \in Range(st.tray) \cup Range(st.vt) : t.slot \in Nat /\ t.remain \in Int
      /\ \A id \in DOMAIN st.grams : st.grams[id] \in Int
  BY StatusAssumption DEF Known
<1>2. /\ n \in Nat /\ ams \subseteq 1..n /\ vt \subseteq Nat \ {0}
      /\ \A k \in vt : st.vt[k] \in Range(st.vt)
      /\ \A k \in ams : st.tray[k] \in Range(st.tray)
  BY <1>1
<1>3. DOMAIN L = ams \cup {n + j : j \in vt}
  BY DEF Filaments
<1>4. ASSUME NEW k \in ams
      PROVE  L[k].id \in Nat /\ L[k].order \in Int /\ L[k].remain \in Int
  <2> DEFINE t == st.tray[k]
  <2>1. t.unit \in Nat /\ t.slot \in Nat /\ t.remain \in Int
    BY <1>1, <1>2
  <2>2. /\ L[k].id = GlobalTrayId(t.unit, t.slot)
        /\ L[k].order = SlotPriority(t.unit, t.slot)
        /\ L[k].remain = t.remain
    BY <1>3 DEF Filaments
  <2> HIDE DEF t
  <2>3. GlobalTrayId(t.unit, t.slot) \in Nat /\ SlotPriority(t.unit, t.slot) \in Int
    BY <2>1 DEF GlobalTrayId, SlotPriority
  <2> QED BY <2>1, <2>2, <2>3
<1>5. ASSUME NEW j \in vt
      PROVE  L[n + j].id \in Nat /\ L[n + j].order \in Int /\ L[n + j].remain \in Int
  <2> DEFINE t == st.vt[j]
  <2>1. t.slot \in Nat /\ t.remain \in Int
    BY <1>1, <1>2
  <2>2. n + j \notin ams /\ (n + j) - n = j /\ n + j \in DOMAIN L
    BY <1>2, <1>3
  <2>3. L[n + j].id = t.slot /\ L[n + j].order = SlotPriority(-1, t.slot)
        /\ L[n + j].remain = t.remain
    BY <1>3, <2>2 DEF Filaments
  <2> HIDE DEF t
  <2>4. SlotPriority(-1, t.slot) \in Int
    BY <2>1 DEF SlotPriority
  <2> QED BY <2>1, <2>3, <2>4
<1> HIDE DEF ams, vt, L
<1>6. DOMAIN L \subseteq Nat
  <2>1. \A k \in ams : k \in Nat
    BY <1>2
  <2>2. \A j \in vt : n + j \in Nat
    BY <1>2
  <2> QED BY <1>3, <2>1, <2>2
<1> QED BY <1>1, <1>3, <1>4, <1>5, <1>6 DEF Loaded, Weights, L, n

LEMMA ListsLoaded ==
    ASSUME NEW st \in Known \cup {Nothing, NotYet}
    PROVE  /\ Loaded(BuildLoadedFilaments(st)) /\ Weights(Read(st).grams)
           /\ BuildLoadedFilaments(st) # << >> => st \in Known /\ Weights(st.grams)
<1>1. Loaded(<< >>) /\ Weights(<< >>)
  <2>1. DOMAIN << >> = {}
    OBVIOUS
  <2> QED BY <2>1 DEF Loaded, Weights
<1>2. CASE st \in {NotYet, Nothing}
  BY <1>1, <1>2 DEF BuildLoadedFilaments, Read, Unknown
<1>3. CASE st \notin {NotYet, Nothing}
  BY <1>3, FilamentsLoaded DEF BuildLoadedFilaments, Read
<1> QED BY <1>2, <1>3

LEMMA Antisymmetric ==
    ASSUME NEW w, Loaded(w.list), Weights(w.grams),
           NEW i \in DOMAIN w.list, NEW j \in DOMAIN w.list, Earlier(w, i, j)
    PROVE  ~ Earlier(w, j, i)
<1> DEFINE a == SortKey(w.list[i], w.grams)
           b == SortKey(w.list[j], w.grams)
<1>1. ASSUME NEW k \in DOMAIN w.list
      PROVE  \E x, y, z \in Int : SortKey(w.list[k], w.grams) = <<x, y, z>>
  <2> DEFINE f == w.list[k]
             left == IF f.remain >= 0 THEN f.remain ELSE 101
  <2>1. f.order \in Int /\ f.remain \in Int /\ (f.id \in DOMAIN w.grams => w.grams[f.id] \in Int)
    BY DEF Loaded, Weights
  <2>2. left \in Int
    BY <2>1
  <2>3. SortKey(f, w.grams) = IF f.id \in DOMAIN w.grams THEN <<0, w.grams[f.id], f.order>>
                              ELSE <<1, left, f.order>>
    BY DEF SortKey
  <2> HIDE DEF left
  <2> QED BY <2>1, <2>2, <2>3
<1>2. (\E x, y, z \in Int : a = <<x, y, z>>) /\ (\E x, y, z \in Int : b = <<x, y, z>>)
  BY <1>1
<1>3. i \in Nat /\ j \in Nat
  BY DEF Loaded
<1>4. /\ w.prefer /\ a # b => LessKey(a, b) /\ (Earlier(w, j, i) => LessKey(b, a))
      /\ ~ (w.prefer /\ a # b) => i < j /\ (Earlier(w, j, i) => j < i)
  BY DEF Earlier
<1> HIDE DEF a, b
<1>5. a[1] \in Int /\ a[2] \in Int /\ a[3] \in Int /\ b[1] \in Int /\ b[2] \in Int /\ b[3] \in Int
  BY <1>2
<1>6. ~ (LessKey(a, b) /\ LessKey(b, a))
  <2> SUFFICES ASSUME LessKey(a, b), LessKey(b, a) PROVE FALSE
    OBVIOUS
  <2>1. PICK n \in 1..3 : a[n] < b[n] /\ \A m \in 1..(n - 1) : a[m] = b[m]
    BY DEF LessKey
  <2>2. PICK o \in 1..3 : b[o] < a[o] /\ \A m \in 1..(o - 1) : b[m] = a[m]
    BY DEF LessKey
  <2>3. a[n] \in Int /\ b[n] \in Int /\ a[o] \in Int /\ b[o] \in Int
    BY <1>5
  <2>4. CASE n < o BY <2>1, <2>2, <2>3, <2>4
  <2>5. CASE o < n BY <2>1, <2>2, <2>3, <2>5
  <2>6. CASE n = o BY <2>1, <2>2, <2>3, <2>6
  <2> QED BY <2>4, <2>5, <2>6
<1> QED BY <1>3, <1>4, <1>6

\* At most one tray is chosen: the ranks are tried in order, and within a rank
\* no two trays are each the first.
LEMMA OneChoice ==
    ASSUME NEW w, Loaded(w.list), Weights(w.grams), NEW r,
           NEW C \in SUBSET DOMAIN w.list, NEW i \in Choice(w, r, C), NEW j \in Choice(w, r, C)
    PROVE  i = j
<1> DEFINE R == Ranks(w, r, C)
<1>1. DOMAIN R = 1..7
  BY DEF Ranks
<1>2. PICK n \in DOMAIN R : /\ i \in R[n] /\ \A m \in 1..(n - 1) : R[m] = {}
                           /\ \A k \in R[n] \ {i} : Earlier(w, i, k)
  BY DEF Choice
<1>3. PICK o \in DOMAIN R : /\ j \in R[o] /\ \A m \in 1..(o - 1) : R[m] = {}
                           /\ \A k \in R[o] \ {j} : Earlier(w, j, k)
  BY DEF Choice
<1> HIDE DEF R
<1>4. n = o
  BY <1>1, <1>2, <1>3
<1>5. i \in DOMAIN w.list /\ j \in DOMAIN w.list
  BY DEF Choice
<1> QED BY <1>2, <1>3, <1>4, <1>5, Antisymmetric
-----------------------------------------------------------------------------
(* A matching in progress: the user's choices are honoured, and the card    *)
(* takes the trays the mapping takes.                                       *)

DialogTrue ==
    /\ reqs \in Plates /\ selected \in Selections
    /\ live \in [Printers -> Known] /\ seen \in [Printers -> Known \cup {Nothing, NotYet}]
    /\ IsChoice(manual)
    /\ DOMAIN own = Printers
    /\ \A p \in Printers : own[p] # Nothing => IsChoice(own[p])

JobTrue ==
    job # Nothing =>
        /\ job.printer \in Printers
        /\ Loaded(job.list) /\ Weights(job.grams) /\ IsChoice(job.manual)
        /\ Len(row) <= Len(reqs)
        /\ \A k \in DOMAIN row :
              /\ row[k].tray \in Nat \cup {-1}
              /\ Honoured(job, reqs[k]) => row[k].tray = job.manual[reqs[k].slot]

\* the loaded filaments a tray id stands for
Fed(w, t) == {i \in DOMAIN w.list : w.list[i].id = t}

BadgeTrue ==
    job # Nothing /\ job.path = "override" /\ Range(job.manual) \subseteq Ids(job.list) =>
        /\ \A x \in Nat : x \in badgeUsed <=> x \in used
        /\ Len(badge) = Len(row) /\ \E S : badge \in Seq(S)
        /\ \A k \in DOMAIN row : badge[k] \in Badges(job, reqs[k], Fed(job, row[k].tray))

\* The way of a print: what its item and its command say of the slots the
\* user chose a tray for.
Untouched(p) == item[p] = NotYet /\ sent[p] = NotYet /\ DOMAIN asked[p] = {}
Carries(m, c) == \A s \in DOMAIN c : m # Nothing /\ s \in DOMAIN m /\ m[s] = c[s]
Numbers(m) == m \in {Nothing, NotYet} \/ \A s \in DOMAIN m : m[s] \in Int

JourneyTrue ==
    /\ todo \subseteq Printers
    /\ DOMAIN asked = Printers /\ DOMAIN item = Printers /\ DOMAIN sent = Printers
    /\ phase = "open" => todo = {} /\ \A p \in Printers : Untouched(p)
    /\ \A p \in todo : Untouched(p)
    /\ \A p \in Printers :
        /\ IsChoice(asked[p]) /\ Numbers(item[p])
        /\ item[p] # NotYet => Carries(item[p], asked[p])
        /\ sent[p] # NotYet => item[p] # NotYet /\ Carries(sent[p], asked[p])

\* The matching in progress is the one for a new item, and meets what the user
\* asked for; or the scheduler's own, of a print the user asked nothing for.
ErrandTrue ==
    job # Nothing =>
        /\ job.path \notin {"auto", "schedule"} =>
              /\ phase # "open" /\ job.printer \notin todo /\ item[job.printer] = NotYet
              /\ \A s \in DOMAIN asked[job.printer] :
                    /\ s \in Slots /\ s \in DOMAIN job.manual
                    /\ job.path = "override" \/ job.manual[s] \in Ids(job.list)
                    /\ asked[job.printer][s] = job.manual[s]
        /\ job.path = "schedule" =>
              item[job.printer] # NotYet /\ DOMAIN asked[job.printer] = {}

LEMMA Selecting ==
    ASSUME selected \in Selections
    PROVE  selected[1] \in Printers /\ Range(selected) \subseteq Printers
BY DEF Selections, Range

LEMMA RequirementsAre ==
    ASSUME reqs \in Plates
    PROVE  /\ Len(reqs) \in Nat /\ DOMAIN reqs = 1..Len(reqs)
           /\ \A s \in Slots : s \in Nat /\ s > 0
<1>1. reqs \in Seq(Range(reqs)) /\ \A r \in Range(reqs) : r.slot \in Nat
  BY PlateAssumption
<1>2. \A k \in DOMAIN reqs : reqs[k].slot \in Nat
  BY <1>1 DEF Range
<1> QED BY <1>1, <1>2 DEF Slots

\* What may be picked is a tray or none; the user's choice if it is honoured.
LEMMA PickTrue ==
    ASSUME Loaded(job.list), IsChoice(job.manual),
           NEW r, NEW taken, NEW t \in Picks(r, taken)
    PROVE  /\ t \in Nat \cup {-1}
           /\ Honoured(job, r) => t = job.manual[r.slot]
<1>1. CASE Honoured(job, r)
  <2>1. t = job.manual[r.slot] /\ r.slot \in DOMAIN job.manual
    BY <1>1 DEF Picks, Honoured
  <2> QED BY <2>1 DEF IsChoice
<1>2. CASE ~ Honoured(job, r) /\ Choice(job, r, Candidates(job, r, taken)) = {}
  BY <1>2 DEF Picks
<1>3. CASE ~ Honoured(job, r) /\ Choice(job, r, Candidates(job, r, taken)) # {}
  <2>1. PICK i \in Choice(job, r, Candidates(job, r, taken)) : t = job.list[i].id
    BY <1>3 DEF Picks
  <2>2. i \in DOMAIN job.list
    BY <2>1 DEF Choice, Candidates
  <2> QED BY <1>3, <2>1, <2>2 DEF Loaded
<1> QED BY <1>1, <1>2, <1>3

LEMMA CandidatesIn ==
    ASSUME NEW w, NEW r, NEW taken
    PROVE  Candidates(w, r, taken) \in SUBSET DOMAIN w.list
BY DEF Candidates

\* The card looks among the trays the mapping looks among, and finds the same.
LEMMA CardChoice ==
    ASSUME job.path = "override", NEW r, NEW C
    PROVE  CardFinds(job, r, C) = Choice(job, r, C)
<1> DEFINE R == Ranks(job, r, C)
           typed == {i \in C : job.list[i].type = r.type}
           same == {i \in typed : job.list[i].color = r.color}
           close == {i \in typed : ColorsAreSimilar(job.list[i].color, r.color)}
           First(S) == {i \in S : \A j \in S \ {i} : Earlier(job, i, j)}
<1>1. /\ DOMAIN R = 1..7 /\ R[1] = {} /\ R[2] = {} /\ R[3] = {} /\ R[4] = {}
      /\ R[5] = same /\ R[6] = close /\ R[7] = typed
  BY DEF Ranks, Hard
<1>2. Choice(job, r, C) =
        {i \in C : \E n \in DOMAIN R : /\ i \in R[n] /\ \A m \in 1..(n - 1) : R[m] = {}
                                      /\ \A j \in R[n] \ {i} : Earlier(job, i, j)}
  BY DEF Choice
<1>3. CardFinds(job, r, C) = IF same # {} THEN First(same) ELSE IF close # {} THEN First(close)
                        ELSE First(typed)
  BY DEF CardFinds
<1>4. same \subseteq C /\ close \subseteq C /\ typed \subseteq C
  OBVIOUS
<1> HIDE DEF R, typed, same, close
<1>5. ASSUME NEW i \in Choice(job, r, C) PROVE i \in CardFinds(job, r, C)
  <2>1. PICK n \in 5..7 : /\ i \in R[n] /\ \A m \in 1..(n - 1) : R[m] = {}
                          /\ \A j \in R[n] \ {i} : Earlier(job, i, j)
    BY <1>1, <1>2
  <2>2. CASE n = 5 BY <1>1, <1>3, <2>1, <2>2
  <2>3. CASE n = 6 BY <1>1, <1>3, <2>1, <2>3
  <2>4. CASE n = 7
    <3>1. R[5] = {} /\ R[6] = {} BY <2>1, <2>4
    <3> QED BY <1>1, <1>3, <2>1, <2>4, <3>1
  <2> QED BY <2>2, <2>3, <2>4
<1>6. ASSUME NEW i \in CardFinds(job, r, C) PROVE i \in Choice(job, r, C)
  <2>1. ASSUME NEW n \in 5..7, i \in R[n], \A m \in 5..(n - 1) : R[m] = {},
               \A j \in R[n] \ {i} : Earlier(job, i, j), i \in C
        PROVE  i \in Choice(job, r, C)
    <3>1. \A m \in 1..(n - 1) : R[m] = {} BY <1>1, <2>1
    <3> QED BY <1>1, <1>2, <2>1, <3>1
  <2>2. CASE same # {}
    <3>1. i \in First(same) BY <1>3, <2>2
    <3> QED BY <1>1, <1>4, <2>1, <3>1
  <2>3. CASE same = {} /\ close # {}
    <3>1. i \in First(close) BY <1>3, <2>3
    <3> QED BY <1>1, <1>4, <2>1, <2>3, <3>1
  <2>4. CASE same = {} /\ close = {}
    <3>1. i \in First(typed) BY <1>3, <2>4
    <3> QED BY <1>1, <1>4, <2>1, <2>4, <3>1
  <2> QED BY <2>2, <2>3, <2>4
<1> QED BY <1>5, <1>6

LEMMA CardTrays ==
    ASSUME job.path = "override", Loaded(job.list), NEW r, NEW taken, NEW cardTaken,
           \A x \in Nat : x \in cardTaken <=> x \in taken
    PROVE  CardPool(job, r, cardTaken) = Candidates(job, r, taken)
<1>1. \A i \in DOMAIN job.list : job.list[i].id \notin cardTaken <=> job.list[i].id \notin taken
  BY DEF Loaded
<1> QED BY <1>1 DEF CardPool, Candidates, Hard

\* From the same trays the card says of a requirement what is true of the tray
\* the mapping takes, and takes it away too.
LEMMA CardAgrees ==
    ASSUME job.path = "override", Loaded(job.list), Weights(job.grams),
           Range(job.manual) \subseteq Ids(job.list), NEW r, NEW taken, NEW cardTaken,
           \A x \in Nat : x \in cardTaken <=> x \in taken,
           NEW t \in Picks(r, taken), NEW b \in Badges(job, r, Judged(job, r, cardTaken))
    PROVE  /\ b \in Badges(job, r, Fed(job, t))
           /\ \A x \in Nat : x \in {job.list[i].id : i \in Judged(job, r, cardTaken)} <=> x = t
<1> DEFINE C == Candidates(job, r, taken)
           chosen == {i \in DOMAIN job.list : /\ r.slot > 0 /\ r.slot \in DOMAIN job.manual
                                              /\ job.list[i].id = job.manual[r.slot]}
<1>1. CASE Honoured(job, r)
  <2>1. t = job.manual[r.slot] /\ t \in Range(job.manual)
    BY <1>1 DEF Picks, Honoured, Range
  <2>2. Fed(job, t) # {}
    BY <2>1 DEF Fed, Ids
  <2>3. chosen = Fed(job, t)
    BY <1>1, <2>1 DEF Honoured, Fed
  <2>4. Judged(job, r, cardTaken) = Fed(job, t)
    BY <2>2, <2>3 DEF Judged
  <2>5. \A i \in Fed(job, t) : job.list[i].id = t
    BY DEF Fed
  <2> QED BY <2>2, <2>4, <2>5
<1>2. CASE ~Honoured(job, r)
  <2>1. chosen = {}
    BY <1>2 DEF Honoured
  <2>2. Judged(job, r, cardTaken) = Choice(job, r, C)
    BY <2>1, CardChoice, CardTrays DEF Judged
  <2>3. \A i \in DOMAIN job.list : job.list[i].id \in Nat
    BY DEF Loaded
  <2>4. CASE Choice(job, r, C) = {}
    <3>1. t = -1 BY <1>2, <2>4 DEF Picks
    <3>2. Fed(job, t) = {} BY <2>3, <3>1 DEF Fed
    <3> QED BY <2>2, <2>4, <3>1, <3>2
  <2>5. CASE Choice(job, r, C) # {}
    <3>1. PICK i \in Choice(job, r, C) : t = job.list[i].id
      BY <1>2, <2>5 DEF Picks
    <3>2. C \in SUBSET DOMAIN job.list BY CandidatesIn
    <3>3. i \in Fed(job, t) /\ t \in Nat
      BY <2>3, <3>1, <3>2 DEF Fed, Choice
    <3> HIDE DEF C
    <3>4. Choice(job, r, C) = {i}
      BY <3>1, <3>2, OneChoice
    <3>5. b = Fit(job.list[i], r)
      BY <2>2, <3>4 DEF Badges
    <3>6. b \in Badges(job, r, Fed(job, t))
      BY <3>3, <3>5 DEF Badges
    <3> QED BY <2>2, <3>1, <3>3, <3>4, <3>6
  <2> QED BY <2>4, <2>5
<1> QED BY <1>1, <1>2

LEMMA MatchTrue ==
    ASSUME RowsInv, DialogTrue, JobTrue, BadgeTrue, Match
    PROVE  JobTrue' /\ BadgeTrue'
<1> DEFINE n == Len(row) + 1
           r == reqs[n]
<1>1. PICK t \in Picks(r, used), b \in Badges(job, r, Judged(job, r, badgeUsed)) :
        /\ row' = Append(row, [tray |-> t, user |-> Honoured(job, r)])
        /\ used' = MarkUsed(used, t) /\ badge' = Append(badge, b)
        /\ badgeUsed' = badgeUsed \cup {job.list[i].id : i \in Judged(job, r, badgeUsed)}
  BY DEF Match
<1> DEFINE e == [tray |-> t, user |-> Honoured(job, r)]
<1>2. job # Nothing /\ job' = job /\ reqs' = reqs /\ Len(row) < Len(reqs)
  BY DEF Match, Running
<1>3. PICK S : row \in Seq(S)
  BY <1>2 DEF RowsInv, TakenOffOffer
<1>4. /\ row' \in Seq(S \cup {e}) /\ DOMAIN row' = DOMAIN row \cup {n} /\ row'[n] = e
      /\ \A k \in DOMAIN row : row'[k] = row[k] /\ k # n
      /\ Len(row') = n /\ Len(row) \in Nat
  BY <1>1, <1>3, RowGrows
<1>5. Len(reqs) \in Nat
  BY RequirementsAre DEF DialogTrue
<1>6. t \in Nat \cup {-1} /\ (Honoured(job, r) => t = job.manual[r.slot])
  BY <1>2, PickTrue DEF JobTrue
<1>7. e.tray = t
  OBVIOUS
<1>8. JobTrue'
  <2>1. Len(row') <= Len(reqs)
    BY <1>2, <1>4, <1>5
  <2>2. ASSUME NEW k \in DOMAIN row'
        PROVE  /\ row'[k].tray \in Nat \cup {-1}
               /\ Honoured(job, reqs[k]) => row'[k].tray = job.manual[reqs[k].slot]
    <3>1. CASE k \in DOMAIN row
      BY <1>2, <1>4, <3>1 DEF JobTrue
    <3>2. CASE k = n
      BY <1>4, <1>6, <1>7, <3>2
    <3> QED BY <1>4, <3>1, <3>2
  <2> QED BY <1>2, <2>1, <2>2 DEF JobTrue
<1>9. BadgeTrue'
  <2> SUFFICES ASSUME job.path = "override", Range(job.manual) \subseteq Ids(job.list)
               PROVE  /\ \A x \in Nat : x \in badgeUsed' <=> x \in used'
                      /\ Len(badge') = Len(row') /\ \E T : badge' \in Seq(T)
                      /\ \A k \in DOMAIN row' :
                            badge'[k] \in Badges(job, reqs[k], Fed(job, row'[k].tray))
    BY <1>2 DEF BadgeTrue
  <2>1. /\ \A x \in Nat : x \in badgeUsed <=> x \in used
        /\ Len(badge) = Len(row)
        /\ \A k \in DOMAIN row : badge[k] \in Badges(job, reqs[k], Fed(job, row[k].tray))
    BY <1>2 DEF BadgeTrue
  <2>2. PICK T : badge \in Seq(T)
    BY <1>2 DEF BadgeTrue
  <2>3. /\ b \in Badges(job, r, Fed(job, t))
        /\ \A x \in Nat : x \in {job.list[i].id : i \in Judged(job, r, badgeUsed)} <=> x = t
    BY <1>2, <2>1, CardAgrees DEF JobTrue
  <2>4. /\ badge' \in Seq(T \cup {b}) /\ badge'[n] = b /\ Len(badge') = n
        /\ DOMAIN row = DOMAIN badge
        /\ \A k \in DOMAIN badge : badge'[k] = badge[k]
    BY <1>1, <1>3, <2>1, <2>2, RowGrows
  <2>5. \A x \in Nat : x \in badgeUsed' <=> x \in used'
    BY <1>1, <2>1, <2>3 DEF MarkUsed
  <2>6. ASSUME NEW k \in DOMAIN row'
        PROVE  badge'[k] \in Badges(job, reqs[k], Fed(job, row'[k].tray))
    <3>1. CASE k \in DOMAIN row BY <1>4, <2>1, <2>4, <3>1
    <3>2. CASE k = n BY <1>4, <1>7, <2>3, <2>4, <3>2
    <3> QED BY <1>4, <3>1, <3>2
  <2> QED BY <1>4, <2>4, <2>5, <2>6
<1> QED BY <1>8, <1>9

LEMMA StartTrue ==
    ASSUME reqs \in Plates, reqs' = reqs, NEW p \in Printers, NEW path, NEW st, NEW L, NEW choices,
           Loaded(L), Weights(st.grams), IsChoice(choices), Start(path, p, st, L, choices)
    PROVE  JobTrue' /\ BadgeTrue'
<1>1. /\ job'.printer = p /\ job'.list = L /\ job'.grams = st.grams /\ job'.manual = choices
      /\ row' = << >> /\ badge' = << >> /\ used' = Range(choices) /\ badgeUsed' = Range(choices)
  BY DEF Start
<1>2. Len(row') = 0 /\ DOMAIN row' = {} /\ Len(badge') = 0 /\ badge' \in Seq({})
  BY <1>1
<1>3. Len(reqs) \in Nat
  BY RequirementsAre
<1> QED BY <1>1, <1>2, <1>3 DEF JobTrue, BadgeTrue

LEMMA ChangedChoice ==
    ASSUME DialogTrue, NEW p \in Printers, NEW c, IsChoice(c), NEW s, NEW d \in Changes(c, p, s)
    PROVE  IsChoice(d)
<1>1. Loaded(BuildLoadedFilaments(seen[p]))
  BY ListsLoaded DEF DialogTrue
<1>2. \A f \in Offered(p, s) : f.id \in Nat
  BY <1>1 DEF Offered, Range, Loaded
<1>3. CASE d = Without(c, s)
  BY <1>3 DEF Without, IsChoice
<1>4. CASE \E f \in Offered(p, s) : d = With(c, s, f.id)
  BY <1>2, <1>4 DEF With, IsChoice
<1> QED BY <1>3, <1>4 DEF Changes

\* A finished row has an entry for each requirement.
LEMMA FullRow ==
    ASSUME RowsInv, DialogTrue, JobTrue, Complete
    PROVE  /\ DOMAIN row = DOMAIN reqs
           /\ \A k \in DOMAIN row : row[k].tray \in Nat \cup {-1}
<1>1. PICK S : row \in Seq(S)
  BY DEF Complete, RowsInv, TakenOffOffer
<1> QED BY <1>1, RequirementsAre DEF DialogTrue, Complete, JobTrue

\* The choices an automatic configuration leaves are trays.
LEMMA FinishTrue ==
    ASSUME RowsInv, DialogTrue, JobTrue, Finish
    PROVE  DialogTrue' /\ JobTrue' /\ BadgeTrue'
<1> DEFINE m == AmsMapping(row)
           chosen == [s \in {s \in DOMAIN m : m[s] # -1} |-> m[s]]
<1>1. Complete /\ job' = Nothing /\ UNCHANGED <<reqs, selected, live, seen, manual>>
  BY DEF Finish
<1>2. own' = own \/ (m # Nothing /\ own' = [own EXCEPT ![job.printer] = chosen])
  <2>1. CASE job.path = "auto"
    BY <2>1 DEF Finish
  <2>2. CASE job.path = "schedule"
    BY <2>2 DEF Finish
  <2>3. CASE job.path \notin {"auto", "schedule"}
    BY <2>3 DEF Finish
  <2> QED BY <2>1, <2>2, <2>3
<1>3. ASSUME m # Nothing PROVE IsChoice(chosen)
  <2>1. \A s \in DOMAIN m : m[s] \in Nat \cup {-1}
    BY <1>1, <1>3, FullRow, MappingTrue DEF DialogTrue
  <2> HIDE DEF m
  <2> QED BY <2>1 DEF IsChoice
<1> HIDE DEF chosen
<1>4. DialogTrue'
  BY <1>1, <1>2, <1>3 DEF DialogTrue, IsChoice
<1> QED BY <1>1, <1>4 DEF JobTrue, BadgeTrue

Matching == RowsInv /\ DialogTrue /\ JobTrue /\ BadgeTrue

\* Outside the loop and its requirements nothing touches a matching.
LEMMA OthersMatching ==
    ASSUME JobTrue, BadgeTrue, UNCHANGED <<reqs, loop>>
    PROVE  JobTrue' /\ BadgeTrue'
BY DEF JobTrue, BadgeTrue, loop, Honoured, Ids

LEMMA DialogSteps ==
    ASSUME DialogTrue,
           \/ \E ps \in Selections : Select(ps)
           \/ \E s \in Slots : SelectSlot(s)
           \/ \E p \in Printers : \/ StatusAnswer(p) \/ StatusError(p) \/ SwapSpool(p)
                                  \/ UseDefault(p)
                                  \/ \E s \in Slots : SelectOwnSlot(p, s)
    PROVE  DialogTrue' /\ UNCHANGED <<reqs, loop>>
<1>1. ASSUME NEW ps \in Selections, Select(ps)
      PROVE  DialogTrue' /\ UNCHANGED <<reqs, loop>>
  BY <1>1 DEF Select, Edit, DialogTrue, IsChoice, NoChoice
<1>2. ASSUME NEW s \in Slots, SelectSlot(s)
      PROVE  DialogTrue' /\ UNCHANGED <<reqs, loop>>
  <2>1. IsChoice(manual')
    BY <1>2, ChangedChoice, Selecting DEF SelectSlot, DialogTrue
  <2> QED BY <1>2, <2>1 DEF SelectSlot, Edit, DialogTrue, IsChoice
<1>3. ASSUME NEW p \in Printers, StatusAnswer(p) \/ StatusError(p) \/ SwapSpool(p)
      PROVE  DialogTrue' /\ UNCHANGED <<reqs, loop>>
  <2>1. UNCHANGED <<reqs, dialog, loop>>
    BY <1>3 DEF StatusAnswer, StatusError, SwapSpool
  <2>2. live' \in [Printers -> Known] /\ seen' \in [Printers -> Known \cup {Nothing, NotYet}]
    BY <1>3 DEF StatusAnswer, StatusError, SwapSpool, DialogTrue, Known
  <2> QED BY <2>1, <2>2 DEF DialogTrue, dialog, IsChoice
<1>4. ASSUME NEW p \in Printers, UseDefault(p)
      PROVE  DialogTrue' /\ UNCHANGED <<reqs, loop>>
  BY <1>4 DEF UseDefault, Edit, DialogTrue, IsChoice
<1>5. ASSUME NEW p \in Printers, NEW s \in Slots, SelectOwnSlot(p, s)
      PROVE  DialogTrue' /\ UNCHANGED <<reqs, loop>>
  <2>1. PICK c \in Changes(own[p], p, s) : own' = [own EXCEPT ![p] = c]
    BY <1>5 DEF SelectOwnSlot
  <2>2. IsChoice(c)
    BY <1>5, ChangedChoice DEF SelectOwnSlot, DialogTrue
  <2> QED BY <1>5, <2>1, <2>2 DEF SelectOwnSlot, Edit, DialogTrue, IsChoice
<1> QED BY <1>1, <1>2, <1>3, <1>4, <1>5

\* The matchings are started with what a printer has loaded.
LEMMA StartSteps ==
    ASSUME DialogTrue, JobTrue, BadgeTrue, NEW p \in Printers,
           AutoConfigure(p) \/ Enqueue(p) \/ Dispatch(p)
    PROVE  DialogTrue' /\ JobTrue' /\ BadgeTrue'
<1>1. reqs' = reqs /\ reqs \in Plates /\ UNCHANGED <<selected, manual, own, live, seen>>
  BY DEF AutoConfigure, Enqueue, Dispatch, Edit, DialogTrue, dialog
<1>2. DialogTrue'
  BY <1>1 DEF DialogTrue, IsChoice
<1>3. IsChoice(NoChoice)
  BY DEF IsChoice, NoChoice
<1>4. CASE AutoConfigure(p)
  <2>1. /\ Loaded(BuildLoadedFilaments(seen[p])) /\ Weights(seen[p].grams)
    BY <1>4, ListsLoaded DEF AutoConfigure, DialogTrue
  <2>2. Start("auto", p, seen[p], BuildLoadedFilaments(seen[p]), NoChoice)
    BY <1>4 DEF AutoConfigure
  <2> QED BY <1>1, <1>2, <1>3, <2>1, <2>2, StartTrue
<1>5. CASE Enqueue(p)
  <2> DEFINE path == SubmitPath(p)
             st == Read(seen[SourceOf(p)])
             L == BuildLoadedFilaments(seen[SourceOf(p)])
             wish == IF path = "override" THEN own[p] ELSE manual
  <2>1. UNCHANGED loop \/ Start(path, p, st, L, wish)
    BY <1>5 DEF Enqueue
  <2>2. SourceOf(p) \in Printers
    BY Selecting DEF SourceOf, DialogTrue
  <2>3. Loaded(L) /\ Weights(st.grams)
    BY <2>2, ListsLoaded DEF DialogTrue
  <2>4. IsChoice(wish)
    BY DEF DialogTrue, SubmitPath
  <2> HIDE DEF path, st, L, wish
  <2>5. CASE UNCHANGED loop
    BY <1>1, <1>2, <2>5, OthersMatching
  <2>6. CASE Start(path, p, st, L, wish)
    BY <1>1, <1>2, <2>3, <2>4, <2>6, StartTrue
  <2> QED BY <2>1, <2>5, <2>6
<1>6. CASE Dispatch(p)
  <2>1. UNCHANGED loop \/ Start("schedule", p, live[p], SchedulerFilaments(live[p]), NoChoice)
    BY <1>6 DEF Dispatch
  <2>2. Loaded(SchedulerFilaments(live[p])) /\ Weights(live[p].grams)
    BY FilamentsLoaded DEF SchedulerFilaments, DialogTrue
  <2>3. CASE UNCHANGED loop
    BY <1>1, <1>2, <2>3, OthersMatching
  <2>4. CASE Start("schedule", p, live[p], SchedulerFilaments(live[p]), NoChoice)
    BY <1>1, <1>2, <1>3, <2>2, <2>4, StartTrue
  <2> QED BY <2>1, <2>3, <2>4
<1> QED BY <1>4, <1>5, <1>6

LEMMA MatchingInductive == ASSUME Matching, [Next]_vars PROVE Matching'
<1> USE DEF Matching
<1>0. RowsInv'
  BY RowsInductive
<1>1. CASE Match
  <2>1. UNCHANGED <<reqs, dialog, live, seen>>
    BY <1>1 DEF Match
  <2>2. DialogTrue'
    BY <2>1 DEF DialogTrue, dialog, IsChoice
  <2> QED BY <1>0, <1>1, <2>2, MatchTrue
<1>2. CASE Finish
  BY <1>0, <1>2, FinishTrue
<1>3. CASE Submit \/ UNCHANGED vars
  <2>1. UNCHANGED <<reqs, selected, manual, own, live, seen, loop>>
    BY <1>3 DEF Submit, vars, dialog
  <2>2. DialogTrue'
    BY <2>1 DEF DialogTrue, IsChoice
  <2> QED BY <1>0, <2>1, <2>2, OthersMatching
<1>4. ASSUME \/ \E ps \in Selections : Select(ps)
             \/ \E s \in Slots : SelectSlot(s)
             \/ \E p \in Printers : \/ StatusAnswer(p) \/ StatusError(p) \/ SwapSpool(p)
                                    \/ UseDefault(p)
                                    \/ \E s \in Slots : SelectOwnSlot(p, s)
      PROVE  Matching'
  BY <1>0, <1>4, DialogSteps, OthersMatching
<1>5. ASSUME NEW p \in Printers, AutoConfigure(p) \/ Enqueue(p) \/ Dispatch(p)
      PROVE  Matching'
  BY <1>0, <1>5, StartSteps
<1> QED BY <1>1, <1>2, <1>3, <1>4, <1>5 DEF Next

LEMMA InitMatching == Init => Matching
<1> SUFFICES ASSUME Init PROVE Matching
  OBVIOUS
<1>1. RowsInv
  BY DEF Init, RowsInv, TakenOffOffer, OneSlotPerTray, NozzleKept
<1>2. live \in [Printers -> Known] /\ seen \in [Printers -> Known \cup {Nothing, NotYet}]
  BY DEF Init, Known
<1>3. DialogTrue
  BY <1>2 DEF Init, DialogTrue, IsChoice, NoChoice
<1> QED BY <1>1, <1>3 DEF Init, Matching, JobTrue, BadgeTrue

LEMMA MatchingHolds == Spec => []Matching
BY InitMatching, MatchingInductive, PTL DEF Spec

\* What the card of a printer says of each filament is true of the tray queued
\* for it, for any printers, spools and files, as long as the trays chosen by hand
\* are loaded (computeMatchDetails against computeMappingWithOverrides).
THEOREM CardTellsTruth == Spec => []BadgeHonest
<1>1. Matching => BadgeHonest
  BY DEF Matching, BadgeTrue, BadgeHonest, Fed
<1> QED BY <1>1, MatchingHolds, PTL
-----------------------------------------------------------------------------
(* The way of a print through the queue.                                    *)

LEMMA ItemFromRow ==
    ASSUME Matching, JourneyTrue, ErrandTrue, Complete
    PROVE  LET m == AmsMapping(row)
           IN  /\ m # NotYet /\ Numbers(m)
               /\ job.path \notin {"auto", "schedule"} => Carries(m, asked[job.printer])
<1> DEFINE m == AmsMapping(row)
<1>1. /\ DOMAIN row = DOMAIN reqs /\ reqs \in Plates /\ job # Nothing
      /\ \A k \in DOMAIN row : row[k].tray \in Nat \cup {-1}
  BY FullRow DEF Matching, DialogTrue, Complete
<1>2. \/ m = Nothing /\ Slots = {}
      \/ /\ m \notin {Nothing, NotYet}
         /\ \A s \in DOMAIN m : m[s] \in Nat \cup {-1}
         /\ \A s \in Slots : /\ s \in DOMAIN m
                             /\ \E k \in DOMAIN row : reqs[k].slot = s /\ m[s] = row[k].tray
  BY <1>1, MappingTrue
<1> HIDE DEF m
<1>3. m # NotYet /\ Numbers(m)
  BY <1>2, NoTray DEF Numbers
<1>4. ASSUME job.path \notin {"auto", "schedule"}, NEW s \in DOMAIN asked[job.printer]
      PROVE  m # Nothing /\ s \in DOMAIN m /\ m[s] = asked[job.printer][s]
  <2>1. /\ s \in Slots /\ s \in DOMAIN job.manual
        /\ job.path = "override" \/ job.manual[s] \in Ids(job.list)
        /\ asked[job.printer][s] = job.manual[s]
    BY <1>1, <1>4 DEF ErrandTrue
  <2>2. PICK k \in DOMAIN row : reqs[k].slot = s /\ m[s] = row[k].tray
    BY <1>2, <2>1
  <2>3. s > 0
    BY <1>1, <2>1, RequirementsAre
  <2>4. Honoured(job, reqs[k])
    BY <2>1, <2>2, <2>3 DEF Honoured
  <2>5. row[k].tray = job.manual[s]
    BY <1>1, <2>2, <2>4 DEF Matching, JobTrue
  <2> QED BY <1>2, <2>1, <2>2, <2>5
<1> QED BY <1>3, <1>4 DEF Carries, m

\* Most steps leave the queue alone.
Queue == <<todo, phase, asked, item, sent>>
LEMMA QueueAlone ==
    ASSUME JourneyTrue, ErrandTrue, UNCHANGED <<reqs, Queue, job>>
    PROVE  JourneyTrue' /\ ErrandTrue'
<1>1. JourneyTrue'
  BY DEF JourneyTrue, Queue, Untouched, Carries, Numbers, IsChoice
<1>2. ErrandTrue'
  BY DEF ErrandTrue, Queue, Slots, Ids
<1> QED BY <1>1, <1>2

LEMMA FinishJourney ==
    ASSUME Matching, JourneyTrue, ErrandTrue, Finish
    PROVE  JourneyTrue' /\ ErrandTrue'
<1> DEFINE m == AmsMapping(row)
           q == job.printer
<1>1. /\ job # Nothing /\ q \in Printers /\ m # NotYet /\ Numbers(m)
      /\ job.path \notin {"auto", "schedule"} => Carries(m, asked[q])
  BY ItemFromRow DEF Finish, Complete, Matching, JobTrue
<1>2. job' = Nothing /\ UNCHANGED <<reqs, todo, phase, asked>>
  BY DEF Finish
<1>3. ErrandTrue'
  BY <1>2 DEF ErrandTrue
<1>4. CASE job.path = "auto"
  <2>1. UNCHANGED <<item, sent>>
    BY <1>4 DEF Finish
  <2>2. JourneyTrue'
    BY <1>2, <2>1 DEF JourneyTrue, Untouched, Carries, Numbers, IsChoice
  <2> QED BY <1>3, <2>2
<1>5. CASE job.path = "schedule"
  <2>1. sent' = [sent EXCEPT ![q] = IF Resolved(m) THEN m ELSE Nothing] /\ item' = item
    BY <1>5 DEF Finish
  <2> HIDE DEF m, q
  <2>2. item[q] # NotYet /\ DOMAIN asked[q] = {}
    BY <1>1, <1>5 DEF ErrandTrue, q
  <2>3. q \notin todo /\ phase # "open"
    BY <1>1, <2>2 DEF JourneyTrue, Untouched
  <2>4. \A p \in Printers : p # q => sent'[p] = sent[p]
    BY <2>1 DEF JourneyTrue
  <2>5. Carries(sent'[q], asked[q])
    BY <2>2 DEF Carries
  <2>6. JourneyTrue'
    <3>1. \A p \in Printers : sent'[p] # NotYet => item[p] # NotYet /\ Carries(sent'[p], asked[p])
      BY <2>2, <2>4, <2>5 DEF JourneyTrue
    <3>2. DOMAIN sent' = Printers
      BY <2>1 DEF JourneyTrue
    <3>3. \A p \in todo : sent'[p] = sent[p]
      BY <2>3, <2>4 DEF JourneyTrue
    <3> QED BY <1>2, <2>1, <2>3, <3>1, <3>2, <3>3
            DEF JourneyTrue, Untouched, Carries, Numbers, IsChoice
  <2> QED BY <1>3, <2>6
<1>6. CASE job.path \notin {"auto", "schedule"}
  <2>1. item' = [item EXCEPT ![q] = m] /\ sent' = sent
    BY <1>6 DEF Finish
  <2> HIDE DEF m, q
  <2>2. phase # "open" /\ q \notin todo /\ item[q] = NotYet
    BY <1>1, <1>6 DEF ErrandTrue, q
  <2>3. item'[q] = m /\ (\A p \in Printers : p # q => item'[p] = item[p])
    BY <1>1, <2>1 DEF JourneyTrue
  <2>4. DOMAIN item' = Printers /\ \A p \in todo : item'[p] = item[p]
    BY <2>1, <2>2, <2>3 DEF JourneyTrue
  <2>5. \A p \in Printers : Numbers(item'[p])
    BY <1>1, <2>3 DEF JourneyTrue
  <2>6. \A p \in Printers : /\ item'[p] # NotYet => Carries(item'[p], asked[p])
                            /\ sent[p] # NotYet => item'[p] # NotYet
    BY <1>1, <1>6, <2>2, <2>3 DEF JourneyTrue
  <2>7. JourneyTrue'
    <3>1. UNCHANGED <<todo, phase, asked, sent>>
      BY <1>2, <2>1
    <3>2. \A p \in todo : Untouched(p)'
      BY <2>4, <3>1 DEF JourneyTrue, Untouched
    <3>3. ASSUME NEW p \in Printers
          PROVE  /\ IsChoice(asked[p]) /\ Numbers(item'[p])
                 /\ item'[p] # NotYet => Carries(item'[p], asked[p])
                 /\ sent[p] # NotYet => item'[p] # NotYet /\ Carries(sent[p], asked[p])
      <4>1. IsChoice(asked[p]) /\ (sent[p] # NotYet => Carries(sent[p], asked[p]))
        BY DEF JourneyTrue
      <4> QED BY <2>5, <2>6, <4>1
    <3> QED BY <2>2, <2>4, <3>1, <3>2, <3>3 DEF JourneyTrue
  <2> QED BY <1>3, <2>7
<1> QED BY <1>4, <1>5, <1>6

\* An item is added: what the user asked for is what its matching will honour.
LEMMA EnqueueJourney ==
    ASSUME Matching, JourneyTrue, NEW p \in Printers, Enqueue(p)
    PROVE  JourneyTrue' /\ ErrandTrue' /\ UNCHANGED sent
<1> DEFINE path == SubmitPath(p)
           st == Read(seen[SourceOf(p)])
           L == BuildLoadedFilaments(seen[SourceOf(p)])
           wish == IF path = "override" THEN own[p] ELSE manual
           asks == [s \in Wishes(path, L, wish) |-> wish[s]]
<1>1. /\ p \in todo /\ job = Nothing /\ todo' = todo \ {p}
      /\ UNCHANGED <<reqs, phase, sent>>
  BY DEF Enqueue, dialog
<1>2. \/ item' = [item EXCEPT ![p] = Nothing] /\ UNCHANGED <<asked, loop>>
      \/ /\ Start(path, p, st, L, wish) /\ UNCHANGED item
         /\ asked' = [asked EXCEPT ![p] = asks]
  BY DEF Enqueue
<1>3. path \notin {"auto", "schedule"}
  BY DEF SubmitPath
<1>4. IsChoice(wish)
  BY DEF SubmitPath, Matching, DialogTrue
<1> HIDE DEF path, st, L, wish
<1>5. IsChoice(asks)
  BY <1>4 DEF Wishes, IsChoice
<1>6. /\ \A s \in DOMAIN asks : /\ s \in Slots /\ s \in DOMAIN wish
                                /\ path = "override" \/ wish[s] \in Ids(L)
                                /\ asks[s] = wish[s]
  BY DEF Wishes
<1> HIDE DEF asks
<1>7. phase # "open" /\ Untouched(p)
  BY <1>1 DEF JourneyTrue
<1>8. CASE item' = [item EXCEPT ![p] = Nothing] /\ UNCHANGED <<asked, loop>>
  <2>1. item'[p] = Nothing /\ (\A q \in Printers : q # p => item'[q] = item[q])
    BY <1>8 DEF JourneyTrue
  <2>2. Carries(Nothing, asked[p]) /\ Numbers(Nothing) /\ sent[p] = NotYet
    BY <1>7 DEF Untouched, Carries, Numbers
  <2>3. ASSUME NEW q \in Printers
        PROVE  /\ IsChoice(asked[q]) /\ Numbers(item'[q])
               /\ item'[q] # NotYet => Carries(item'[q], asked[q])
               /\ sent[q] # NotYet => item'[q] # NotYet /\ Carries(sent[q], asked[q])
    BY <2>1, <2>2 DEF JourneyTrue
  <2>4. \A q \in todo' : Untouched(q)'
    BY <1>1, <1>8, <2>1 DEF JourneyTrue, Untouched
  <2>5. DOMAIN item' = Printers
    BY <1>8 DEF JourneyTrue
  <2>6. JourneyTrue'
    BY <1>1, <1>7, <1>8, <2>3, <2>4, <2>5 DEF JourneyTrue
  <2>7. ErrandTrue'
    BY <1>1, <1>8 DEF ErrandTrue, loop
  <2> QED BY <1>1, <2>6, <2>7
<1>9. CASE /\ Start(path, p, st, L, wish) /\ UNCHANGED item
           /\ asked' = [asked EXCEPT ![p] = asks]
  <2>1. asked'[p] = asks /\ \A q \in Printers : q # p => asked'[q] = asked[q]
    BY <1>9 DEF JourneyTrue
  <2>2. item[p] = NotYet /\ sent[p] = NotYet
    BY <1>7 DEF Untouched
  <2>3. ASSUME NEW q \in Printers
        PROVE  /\ IsChoice(asked'[q]) /\ Numbers(item[q])
               /\ item[q] # NotYet => Carries(item[q], asked'[q])
               /\ sent[q] # NotYet => item[q] # NotYet /\ Carries(sent[q], asked'[q])
    <3>1. CASE q = p BY <1>5, <2>1, <2>2, <3>1 DEF JourneyTrue
    <3>2. CASE q # p BY <2>1, <3>2 DEF JourneyTrue
    <3> QED BY <3>1, <3>2
  <2>4. \A q \in todo' : Untouched(q)'
    BY <1>1, <1>9, <2>1 DEF JourneyTrue, Untouched
  <2>5. DOMAIN asked' = Printers
    BY <1>9 DEF JourneyTrue
  <2>6. JourneyTrue'
    BY <1>1, <1>7, <1>9, <2>3, <2>4, <2>5 DEF JourneyTrue
  <2>7. job'.path = path /\ job'.printer = p /\ job'.list = L /\ job'.manual = wish
    BY <1>9 DEF Start
  <2>8. Slots' = Slots
    BY <1>1 DEF Slots
  <2>9. ErrandTrue'
    <3>1. phase' # "open" /\ p \notin todo' /\ item'[p] = NotYet
      BY <1>1, <1>7, <1>9, <2>2
    <3>2. ASSUME NEW s \in DOMAIN asked'[p]
          PROVE  /\ s \in Slots' /\ s \in DOMAIN job'.manual
                 /\ job'.path = "override" \/ job'.manual[s] \in Ids(job'.list)
                 /\ asked'[p][s] = job'.manual[s]
      BY <1>6, <2>1, <2>7, <2>8
    <3> QED BY <1>3, <2>7, <3>1, <3>2 DEF ErrandTrue
  <2> QED BY <1>1, <2>6, <2>9
<1> QED BY <1>2, <1>8, <1>9

\* The scheduler starts a print with its item's mapping; if that resolves
\* nothing, the user had asked for nothing.
LEMMA DispatchJourney ==
    ASSUME JourneyTrue, ErrandTrue, NEW p \in Printers, Dispatch(p)
    PROVE  JourneyTrue' /\ ErrandTrue'
<1>1. /\ job = Nothing /\ item[p] # NotYet /\ sent[p] = NotYet
      /\ UNCHANGED <<reqs, todo, phase, asked, item>>
  BY DEF Dispatch, dialog
<1>2. \/ Resolved(item[p]) /\ sent' = [sent EXCEPT ![p] = item[p]] /\ UNCHANGED loop
      \/ ~ Resolved(item[p]) /\ sent' = [sent EXCEPT ![p] = Nothing] /\ UNCHANGED loop
      \/ /\ ~ Resolved(item[p]) /\ UNCHANGED sent
         /\ Start("schedule", p, live[p], SchedulerFilaments(live[p]), NoChoice)
  BY DEF Dispatch
<1>3. /\ Numbers(item[p]) /\ Carries(item[p], asked[p]) /\ IsChoice(asked[p])
      /\ p \notin todo /\ phase # "open"
  BY <1>1 DEF JourneyTrue, Untouched
<1>4. ASSUME ~ Resolved(item[p]) PROVE DOMAIN asked[p] = {}
  <2>1. SUFFICES ASSUME NEW s \in DOMAIN asked[p] PROVE FALSE
    OBVIOUS
  <2>2. item[p] # Nothing /\ s \in DOMAIN item[p] /\ item[p][s] = asked[p][s] /\ asked[p][s] \in Nat
    BY <1>3 DEF Carries, IsChoice
  <2>3. item[p][s] < 0
    BY <1>1, <1>4, <2>2 DEF Resolved, Unresolved
  <2> QED BY <2>2, <2>3
<1>5. ASSUME UNCHANGED loop, NEW m, sent' = [sent EXCEPT ![p] = m],
             m # NotYet, Carries(m, asked[p])
      PROVE  JourneyTrue' /\ ErrandTrue'
  <2>1. sent'[p] = m /\ \A q \in Printers : q # p => sent'[q] = sent[q]
    BY <1>5 DEF JourneyTrue
  <2>2. ASSUME NEW q \in Printers
        PROVE  /\ IsChoice(asked[q]) /\ Numbers(item[q])
               /\ item[q] # NotYet => Carries(item[q], asked[q])
               /\ sent'[q] # NotYet => item[q] # NotYet /\ Carries(sent'[q], asked[q])
    <3>1. /\ IsChoice(asked[q]) /\ Numbers(item[q])
          /\ item[q] # NotYet => Carries(item[q], asked[q])
          /\ sent[q] # NotYet => item[q] # NotYet /\ Carries(sent[q], asked[q])
      BY DEF JourneyTrue
    <3>2. CASE q = p BY <1>1, <1>5, <2>1, <3>1, <3>2
    <3>3. CASE q # p BY <2>1, <3>1, <3>3
    <3> QED BY <3>2, <3>3
  <2>3. \A q \in todo' : Untouched(q)'
    BY <1>1, <1>3, <2>1 DEF JourneyTrue, Untouched
  <2>4. DOMAIN sent' = Printers
    BY <1>5 DEF JourneyTrue
  <2>5. JourneyTrue'
    BY <1>1, <1>3, <2>2, <2>3, <2>4 DEF JourneyTrue
  <2>6. ErrandTrue'
    BY <1>1, <1>5 DEF ErrandTrue, loop
  <2> QED BY <2>5, <2>6
<1>6. CASE Resolved(item[p]) /\ sent' = [sent EXCEPT ![p] = item[p]] /\ UNCHANGED loop
  BY <1>1, <1>3, <1>5, <1>6
<1>7. CASE ~ Resolved(item[p]) /\ sent' = [sent EXCEPT ![p] = Nothing] /\ UNCHANGED loop
  <2>1. Carries(Nothing, asked[p])
    BY <1>4, <1>7 DEF Carries
  <2> QED BY <1>5, <1>7, <2>1, NoTray
<1>8. CASE /\ ~ Resolved(item[p]) /\ UNCHANGED sent
           /\ Start("schedule", p, live[p], SchedulerFilaments(live[p]), NoChoice)
  <2>1. job'.path = "schedule" /\ job'.printer = p
    BY <1>8 DEF Start
  <2>2. UNCHANGED Queue
    BY <1>1, <1>8 DEF Queue
  <2>3. JourneyTrue'
    BY <2>2 DEF JourneyTrue, Queue, Untouched
  <2>4. ErrandTrue'
    BY <1>1, <1>4, <1>8, <2>1 DEF ErrandTrue
  <2> QED BY <2>3, <2>4
<1> QED BY <1>2, <1>6, <1>7, <1>8

LEMMA SubmitJourney == ASSUME Matching, JourneyTrue, ErrandTrue, Submit PROVE JourneyTrue' /\ ErrandTrue'
<1>1. /\ phase = "open" /\ job = Nothing /\ phase' = "queued" /\ todo' = Range(selected)
      /\ UNCHANGED <<reqs, asked, item, sent, job>>
  BY DEF Submit, Open, loop
<1>2. Range(selected) \subseteq Printers
  BY Selecting DEF Matching, DialogTrue
<1>3. \A p \in Printers : Untouched(p)
  BY <1>1 DEF JourneyTrue
<1>4. \A p \in todo' : Untouched(p)'
  BY <1>1, <1>2, <1>3 DEF Untouched
<1>5. JourneyTrue'
  BY <1>1, <1>2, <1>4 DEF JourneyTrue
<1> QED BY <1>1, <1>5 DEF ErrandTrue

Journey == Matching /\ JourneyTrue /\ ErrandTrue

LEMMA JourneyInductive == ASSUME Journey, [Next]_vars PROVE Journey'
<1> USE DEF Journey
<1>0. Matching'
  BY MatchingInductive
<1>1. ASSUME UNCHANGED <<reqs, Queue, job>> PROVE Journey'
  BY <1>0, <1>1, QueueAlone
<1>2. CASE Match \/ UNCHANGED vars
  BY <1>1, <1>2 DEF Match, vars, dialog, loop, Queue
<1>3. CASE Finish
  BY <1>0, <1>3, FinishJourney
<1>4. CASE Submit
  BY <1>0, <1>4, SubmitJourney
<1>5. ASSUME \/ \E ps \in Selections : Select(ps)
             \/ \E s \in Slots : SelectSlot(s)
             \/ \E p \in Printers : \/ StatusAnswer(p) \/ StatusError(p) \/ SwapSpool(p)
                                    \/ UseDefault(p)
                                    \/ \E s \in Slots : SelectOwnSlot(p, s)
      PROVE  Journey'
  <2>1. UNCHANGED <<reqs, Queue, job>>
    BY <1>5 DEF Select, SelectSlot, StatusAnswer, StatusError, SwapSpool, UseDefault,
                SelectOwnSlot, Edit, Queue, loop, dialog
  <2> QED BY <1>1, <2>1
<1>6. ASSUME NEW p \in Printers, AutoConfigure(p)
      PROVE  Journey'
  <2>1. job'.path = "auto" /\ UNCHANGED <<reqs, Queue>>
    BY <1>6 DEF AutoConfigure, Start, Edit, Queue
  <2>2. JourneyTrue'
    BY <2>1 DEF JourneyTrue, Queue, Untouched
  <2>3. ErrandTrue'
    BY <2>1 DEF ErrandTrue
  <2> QED BY <1>0, <2>2, <2>3
<1>7. ASSUME NEW p \in Printers, Enqueue(p)
      PROVE  Journey'
  BY <1>0, <1>7, EnqueueJourney
<1>8. ASSUME NEW p \in Printers, Dispatch(p)
      PROVE  Journey'
  BY <1>0, <1>8, DispatchJourney
<1> QED BY <1>2, <1>3, <1>4, <1>5, <1>6, <1>7, <1>8 DEF Next

LEMMA InitJourney == Init => Journey
<1> SUFFICES ASSUME Init PROVE Journey
  OBVIOUS
<1>1. DOMAIN NoChoice = {}
  BY DEF NoChoice
<1>2. JourneyTrue
  BY <1>1 DEF Init, JourneyTrue, Untouched, Carries, Numbers, IsChoice
<1> QED BY <1>2, InitMatching DEF Init, Journey, ErrandTrue

LEMMA JourneyHolds == Spec => []Journey
BY InitJourney, JourneyInductive, PTL DEF Spec

\* What the user chose for a slot is what the print is started with, through
\* the matching, the queue item and the scheduler (getMappingForPrinter,
\* buildAmsMapping, _ensure_ams_mapping).
THEOREM ChoicesKept == Spec => []ChoicesSurvive
<1>1. Journey => ChoicesSurvive
  BY DEF Journey, JourneyTrue, Carries, ChoicesSurvive
<1> QED BY <1>1, JourneyHolds, PTL
-----------------------------------------------------------------------------
(* A spool that fits is found: the trays are finitely many and ordered, so   *)
(* one of those that fit comes first.                                        *)

LEMMA SortKeyIs ==
    ASSUME NEW w, Loaded(w.list), Weights(w.grams), NEW i \in DOMAIN w.list
    PROVE  SortKey(w.list[i], w.grams) \in Int \X Int \X Int
<1> DEFINE f == w.list[i]
           left == IF f.remain >= 0 THEN f.remain ELSE 101
<1>1. f.order \in Int /\ f.remain \in Int /\ (f.id \in DOMAIN w.grams => w.grams[f.id] \in Int)
  BY DEF Loaded, Weights
<1>2. left \in Int
  BY <1>1
<1>3. SortKey(f, w.grams) = IF f.id \in DOMAIN w.grams THEN <<0, w.grams[f.id], f.order>>
                            ELSE <<1, left, f.order>>
  BY DEF SortKey
<1> HIDE DEF left
<1> QED BY <1>1, <1>2, <1>3

LEMMA LessKeyIs ==
    ASSUME NEW a \in Int \X Int \X Int, NEW b \in Int \X Int \X Int
    PROVE  LessKey(a, b) <=> \/ a[1] < b[1]
                             \/ a[1] = b[1] /\ a[2] < b[2]
                             \/ a[1] = b[1] /\ a[2] = b[2] /\ a[3] < b[3]
<1>1. LessKey(a, b) <=> \E n \in 1..3 : a[n] < b[n] /\ \A m \in 1..(n - 1) : a[m] = b[m]
  BY DEF LessKey
<1>2. (\A m \in 1..(1 - 1) : a[m] = b[m]) <=> TRUE
  OBVIOUS
<1>3. (\A m \in 1..(2 - 1) : a[m] = b[m]) <=> a[1] = b[1]
  OBVIOUS
<1>4. (\A m \in 1..(3 - 1) : a[m] = b[m]) <=> a[1] = b[1] /\ a[2] = b[2]
  OBVIOUS
<1>5. 1..3 = {1, 2, 3}
  OBVIOUS
<1> QED BY <1>1, <1>2, <1>3, <1>4, <1>5

\* Earlier is a total order on the trays of a list.
LEMMA EarlierOrders ==
    ASSUME NEW w, Loaded(w.list), Weights(w.grams),
           NEW i \in DOMAIN w.list, NEW j \in DOMAIN w.list
    PROVE  /\ i # j => Earlier(w, i, j) \/ Earlier(w, j, i)
           /\ \A k \in DOMAIN w.list : Earlier(w, i, j) /\ Earlier(w, j, k) => Earlier(w, i, k)
<1> DEFINE Key(n) == SortKey(w.list[n], w.grams)
           Ahead(a, b) == \/ a[1] < b[1]
                          \/ a[1] = b[1] /\ a[2] < b[2]
                          \/ a[1] = b[1] /\ a[2] = b[2] /\ a[3] < b[3]
<1>1. \A n \in DOMAIN w.list : n \in Nat /\ Key(n) \in Int \X Int \X Int
  BY SortKeyIs DEF Loaded
<1>2. \A m, n \in DOMAIN w.list :
         Earlier(w, m, n) <=> IF w.prefer /\ Key(m) # Key(n) THEN LessKey(Key(m), Key(n))
                              ELSE m < n
  BY DEF Earlier
<1> HIDE DEF Key
<1>3. \A m, n \in DOMAIN w.list :
         Earlier(w, m, n) <=> IF w.prefer /\ Key(m) # Key(n) THEN Ahead(Key(m), Key(n))
                              ELSE m < n
  BY <1>1, <1>2, LessKeyIs
<1>4. \A a, b, c \in Int \X Int \X Int :
         /\ a # b => Ahead(a, b) \/ Ahead(b, a)
         /\ Ahead(a, b) => a # b
         /\ Ahead(a, b) /\ Ahead(b, c) => Ahead(a, c)
  OBVIOUS
<1> HIDE DEF Ahead
<1>5. i # j => Earlier(w, i, j) \/ Earlier(w, j, i)
  BY <1>1, <1>3, <1>4
<1>6. ASSUME NEW k \in DOMAIN w.list, Earlier(w, i, j), Earlier(w, j, k)
      PROVE  Earlier(w, i, k)
  <2>1. i \in Nat /\ j \in Nat /\ k \in Nat
    BY <1>1
  <2>2. CASE ~w.prefer BY <1>3, <1>6, <2>1, <2>2
  <2>3. CASE w.prefer
    <3>1. Key(i) \in Int \X Int \X Int /\ Key(j) \in Int \X Int \X Int
          /\ Key(k) \in Int \X Int \X Int
      BY <1>1
    <3>2. /\ Ahead(Key(i), Key(j)) \/ (Key(i) = Key(j) /\ i < j)
          /\ Ahead(Key(j), Key(k)) \/ (Key(j) = Key(k) /\ j < k)
      BY <1>3, <1>6, <2>3
    <3>3. Ahead(Key(i), Key(k)) \/ (Key(i) = Key(k) /\ i < k)
      BY <1>4, <2>1, <3>1, <3>2
    <3> QED BY <1>3, <1>4, <2>3, <3>1, <3>3
  <2> QED BY <2>2, <2>3
<1> QED BY <1>5, <1>6

IsFirst(w, S, i) == i \in S /\ \A j \in S \ {i} : Earlier(w, i, j)

LEMMA FirstExists ==
    ASSUME NEW w, Loaded(w.list), Weights(w.grams), NEW b \in Nat, DOMAIN w.list \subseteq 0..b,
           NEW S \in SUBSET DOMAIN w.list, S # {}
    PROVE  \E i \in S : IsFirst(w, S, i)
<1> DEFINE Have(n) == \A T \in SUBSET DOMAIN w.list :
                         T # {} /\ T \subseteq 0..n => \E i \in T : IsFirst(w, T, i)
           Bad == {n \in 0..b : ~Have(n)}
<1>1. CASE Bad = {}
  <2> HIDE DEF Have
  <2>1. b \in 0..b /\ Have(b) BY <1>1
  <2>2. S \subseteq 0..b
    OBVIOUS
  <2> QED BY <2>1, <2>2 DEF Have
<1>2. CASE Bad # {}
  <2>1. Bad \in SUBSET Nat
    OBVIOUS
  <2> HIDE DEF Bad
  <2>2. PICK n \in Bad : \A m \in Bad : n <= m
    BY <1>2, <2>1, LeastElement
  <2>3. n \in 0..b /\ ~Have(n)
    BY DEF Bad
  <2>4. PICK T \in SUBSET DOMAIN w.list :
           T # {} /\ T \subseteq 0..n /\ ~ \E i \in T : IsFirst(w, T, i)
    BY <2>3
  <2>5. T \ {n} # {}
    <3> SUFFICES ASSUME T = {n} PROVE FALSE
      BY <2>4
    <3>1. IsFirst(w, T, n) BY DEF IsFirst
    <3> QED BY <2>4, <3>1
  <2>6. n # 0
    BY <2>3, <2>4, <2>5
  <2>7. n - 1 \in 0..b /\ n - 1 \notin Bad
    BY <2>1, <2>2, <2>3, <2>6
  <2>8. Have(n - 1)
    BY <2>7 DEF Bad
  <2>9. T \ {n} \subseteq 0..(n - 1)
    BY <2>3, <2>4
  <2>10. PICK i \in T \ {n} : IsFirst(w, T \ {n}, i)
    BY <2>4, <2>5, <2>8, <2>9
  <2>11. CASE n \notin T \/ Earlier(w, i, n)
    <3>1. IsFirst(w, T, i) BY <2>10, <2>11 DEF IsFirst
    <3> QED BY <2>4, <2>10, <3>1
  <2>12. CASE n \in T /\ Earlier(w, n, i)
    <3>1. \A j \in T \ {n} : Earlier(w, n, j)
      BY <2>4, <2>10, <2>12, EarlierOrders DEF IsFirst
    <3>2. IsFirst(w, T, n) BY <2>12, <3>1 DEF IsFirst
    <3> QED BY <2>4, <2>12, <3>2
  <2>13. n \in T => Earlier(w, i, n) \/ Earlier(w, n, i)
    BY <2>4, <2>10, EarlierOrders
  <2> QED BY <2>11, <2>12, <2>13
<1> QED BY <1>1, <1>2

\* The scheduler takes a tray if one it may take is of a fitting type.
LEMMA SchedulerTakes ==
    ASSUME NEW w, w.path = "schedule", Loaded(w.list), Weights(w.grams),
           NEW b \in Nat, DOMAIN w.list \subseteq 0..b,
           NEW r, NEW C \in SUBSET DOMAIN w.list,
           NEW i \in C, SameGroup(w.list[i].type, r.type)
    PROVE  Choice(w, r, C) # {}
<1> DEFINE R == Ranks(w, r, C)
<1>1. DOMAIN R = 1..7 /\ i \in R[7] /\ \A n \in 1..7 : R[n] \subseteq C
  BY DEF Ranks, Hard
<1>2. Choice(w, r, C) =
        {k \in C : \E n \in DOMAIN R : /\ k \in R[n] /\ \A m \in 1..(n - 1) : R[m] = {}
                                      /\ \A j \in R[n] \ {k} : Earlier(w, k, j)}
  BY DEF Choice
<1> HIDE DEF R
<1> DEFINE N == {n \in 1..7 : R[n] # {}}
<1>3. N \in SUBSET Nat /\ N # {}
  BY <1>1
<1>4. PICK n \in N : \A m \in N : n <= m
  <2> HIDE DEF N
  <2> QED BY <1>3, LeastElement
<1>5. n \in 1..7 /\ R[n] # {} /\ R[n] \in SUBSET DOMAIN w.list
  BY <1>1, <1>4
<1>6. \A m \in 1..(n - 1) : R[m] = {}
  <2> SUFFICES ASSUME NEW m \in 1..(n - 1), R[m] # {} PROVE FALSE
    OBVIOUS
  <2>1. m \in N /\ m < n BY <1>5
  <2> QED BY <1>4, <1>5, <2>1
<1>7. PICK k \in R[n] : IsFirst(w, R[n], k)
  BY <1>5, FirstExists
<1> QED BY <1>1, <1>2, <1>5, <1>6, <1>7 DEF IsFirst

LEMMA SchedulerBounded ==
    ASSUME NEW st \in Known
    PROVE  \E b \in Nat : DOMAIN SchedulerFilaments(st) \subseteq 0..b
<1> DEFINE n == Len(st.tray)
           m == Len(st.vt)
           ams == {k \in DOMAIN st.tray : HasType(st.tray[k])}
           vt == {k \in DOMAIN st.vt : HasType(st.vt[k])}
<1>1. st.tray \in Seq(Range(st.tray)) /\ st.vt \in Seq(Range(st.vt))
  BY StatusAssumption DEF Known
<1>2. n \in Nat /\ m \in Nat /\ ams \subseteq 1..n /\ vt \subseteq 1..m
  BY <1>1
<1>3. DOMAIN SchedulerFilaments(st) = ams \cup {n + j : j \in vt}
  BY DEF SchedulerFilaments, Filaments
<1> HIDE DEF n, m, ams, vt
<1>4. n + m \in Nat
  BY <1>2
<1>5. ams \subseteq 0..(n + m)
  BY <1>2
<1>6. \A j \in vt : n + j \in 0..(n + m)
  BY <1>2
<1> QED BY <1>3, <1>4, <1>5, <1>6

\* the scheduler may feed requirement r from filament f in matching w
Fits(w, f, r) == SameGroup(f.type, r.type) /\ (r.nozzle \in {NoNozzle, f.nozzle} \/ w.fts)

\* As long as the scheduler has found no tray, there was none to find.
Barren ==
    (\A k \in DOMAIN row : row[k].tray = -1) =>
        /\ used \subseteq {-1}
        /\ \A k \in DOMAIN row, i \in DOMAIN job.list : ~Fits(job, job.list[i], reqs[k])
ScheduleTrue ==
    job # Nothing /\ job.path = "schedule" =>
        /\ job.list = SchedulerFilaments(live[job.printer])
        /\ job.fts = live[job.printer].fts /\ job.manual = NoChoice
        /\ Barren

LEMMA MatchBarren ==
    ASSUME Matching, ScheduleTrue, Match
    PROVE  ScheduleTrue'
<1> DEFINE n == Len(row) + 1
           r == reqs[n]
<1>1. PICK t \in Picks(r, used) :
        /\ row' = Append(row, [tray |-> t, user |-> Honoured(job, r)])
        /\ used' = used \cup {t}
  BY DEF Match, MarkUsed
<1>2. job # Nothing /\ job' = job /\ reqs' = reqs /\ live' = live
  BY DEF Match, Running
<1>3. PICK S : row \in Seq(S)
  BY <1>2 DEF Matching, RowsInv, TakenOffOffer
<1> DEFINE e == [tray |-> t, user |-> Honoured(job, r)]
<1>4. /\ DOMAIN row' = DOMAIN row \cup {n} /\ row'[n] = e
      /\ \A k \in DOMAIN row : row'[k] = row[k] /\ k # n
  BY <1>1, <1>3, RowGrows
<1>5. e.tray = t
  OBVIOUS
<1> HIDE DEF n, e
<1> SUFFICES ASSUME job.path = "schedule", \A k \in DOMAIN row' : row'[k].tray = -1
             PROVE  /\ used' \subseteq {-1}
                    /\ \A k \in DOMAIN row', i \in DOMAIN job.list : ~Fits(job, job.list[i], reqs[k])
  BY <1>2 DEF ScheduleTrue, Barren
<1>6. t = -1 /\ \A k \in DOMAIN row : row[k].tray = -1
  BY <1>4, <1>5
<1>7. /\ used \subseteq {-1} /\ job.manual = NoChoice
      /\ \A k \in DOMAIN row, i \in DOMAIN job.list : ~Fits(job, job.list[i], reqs[k])
      /\ job.list = SchedulerFilaments(live[job.printer])
  BY <1>2, <1>6 DEF ScheduleTrue, Barren
<1>8. /\ live[job.printer] \in Known /\ Loaded(job.list) /\ Weights(job.grams)
  BY <1>2 DEF Matching, DialogTrue, JobTrue
<1>9. ASSUME NEW i \in DOMAIN job.list PROVE ~Fits(job, job.list[i], r)
  <2> DEFINE C == Candidates(job, r, used)
  <2>1. DOMAIN NoChoice = {} /\ ~Honoured(job, r)
    BY <1>7 DEF NoChoice, Honoured
  <2>2. \A j \in DOMAIN job.list : job.list[j].id \in Nat
    BY <1>8 DEF Loaded
  <2>3. C \in SUBSET DOMAIN job.list
    BY CandidatesIn
  <2>4. Choice(job, r, C) = {}
    <3> HIDE DEF C
    <3> SUFFICES ASSUME Choice(job, r, C) # {} PROVE FALSE
      OBVIOUS
    <3>1. Picks(r, used) = {job.list[j].id : j \in Choice(job, r, C)}
      BY <2>1 DEF Picks, C
    <3>2. Choice(job, r, C) \subseteq C
      BY DEF Choice
    <3>3. PICK j \in Choice(job, r, C) : t = job.list[j].id
      BY <3>1
    <3> QED BY <1>6, <2>2, <2>3, <3>2, <3>3
  <2>5. ASSUME Fits(job, job.list[i], r) PROVE FALSE
    <3>1. job.list[i].id \notin used
      BY <1>7, <2>2
    <3>2. i \in C
      BY <2>5, <3>1 DEF Candidates, Fits, Hard
    <3>3. PICK b \in Nat : DOMAIN job.list \subseteq 0..b
      BY <1>7, <1>8, SchedulerBounded
    <3>4. SameGroup(job.list[i].type, r.type)
      BY <2>5 DEF Fits
    <3> HIDE DEF C
    <3> QED BY <1>8, <2>3, <2>4, <3>2, <3>3, <3>4, SchedulerTakes
  <2> QED BY <2>5
<1>10. used' \subseteq {-1}
  BY <1>1, <1>6, <1>7
<1>11. ASSUME NEW k \in DOMAIN row', NEW i \in DOMAIN job.list
       PROVE  ~Fits(job, job.list[i], reqs[k])
  <2>1. CASE k \in DOMAIN row BY <1>7, <2>1
  <2>2. CASE k = n BY <1>9, <2>2
  <2> QED BY <1>4, <2>1, <2>2
<1> QED BY <1>10, <1>11

LEMMA ScheduleInductive ==
    ASSUME Matching, ScheduleTrue, [Next]_vars
    PROVE  ScheduleTrue'
<1>1. ASSUME UNCHANGED <<reqs, live, job, row, used>> PROVE ScheduleTrue'
  BY <1>1 DEF ScheduleTrue, Barren, Fits
<1>2. ASSUME NEW path, NEW p, NEW st, NEW L, NEW choices, Start(path, p, st, L, choices),
             path # "schedule"
      PROVE  ScheduleTrue'
  BY <1>2 DEF Start, ScheduleTrue
<1>3. CASE Match
  BY <1>3, MatchBarren
<1>4. CASE Finish \/ \E p \in Printers : SwapSpool(p)
  BY <1>4 DEF Finish, SwapSpool, loop, ScheduleTrue
<1>5. CASE Submit \/ UNCHANGED vars
  BY <1>1, <1>5 DEF Submit, vars, loop
<1>6. ASSUME \/ \E ps \in Selections : Select(ps)
             \/ \E s \in Slots : SelectSlot(s)
             \/ \E p \in Printers : \/ StatusAnswer(p) \/ StatusError(p) \/ UseDefault(p)
                                    \/ \E s \in Slots : SelectOwnSlot(p, s)
      PROVE  ScheduleTrue'
  <2>1. UNCHANGED <<reqs, live, loop>>
    BY <1>6 DEF Select, SelectSlot, StatusAnswer, StatusError, UseDefault, SelectOwnSlot, Edit
  <2> QED BY <1>1, <2>1 DEF loop
<1>7. ASSUME NEW p \in Printers, AutoConfigure(p) PROVE ScheduleTrue'
  BY <1>2, <1>7 DEF AutoConfigure
<1>8. ASSUME NEW p \in Printers, Enqueue(p) PROVE ScheduleTrue'
  <2>1. \/ UNCHANGED loop
        \/ Start(SubmitPath(p), p, Read(seen[SourceOf(p)]), BuildLoadedFilaments(seen[SourceOf(p)]),
                 IF SubmitPath(p) = "override" THEN own[p] ELSE manual)
    BY <1>8 DEF Enqueue
  <2>2. SubmitPath(p) # "schedule" /\ UNCHANGED <<reqs, live>>
    BY <1>8 DEF SubmitPath, Enqueue
  <2> QED BY <1>1, <1>2, <2>1, <2>2 DEF loop
<1>9. ASSUME NEW p \in Printers, Dispatch(p) PROVE ScheduleTrue'
  <2>1. UNCHANGED <<reqs, live>>
    BY <1>9 DEF Dispatch
  <2>2. CASE UNCHANGED loop
    BY <1>1, <2>1, <2>2 DEF loop
  <2>3. CASE Start("schedule", p, live[p], SchedulerFilaments(live[p]), NoChoice)
    <3>1. /\ job'.printer = p /\ job'.list = SchedulerFilaments(live[p])
          /\ job'.fts = live[p].fts /\ job'.manual = NoChoice
          /\ row' = << >> /\ used' = Range(NoChoice)
      BY <2>3 DEF Start
    <3>2. DOMAIN row' = {} /\ used' = {}
      BY <3>1 DEF NoChoice, Range
    <3> QED BY <2>1, <3>1, <3>2 DEF ScheduleTrue, Barren
  <2> QED BY <1>9, <2>2, <2>3 DEF Dispatch
<1> QED BY <1>3, <1>4, <1>5, <1>6, <1>7, <1>8, <1>9 DEF Next

\* the slots of a sliced file are numbered, each once
SlotsDistinct ==
    \A file \in Plates : \A j, k \in DOMAIN file :
        file[j].slot > 0 /\ (file[j].slot = file[k].slot => j = k)

FedStep ==
    \A p \in Printers :
        /\ sent[p] = NotYet /\ sent'[p] # NotYet
        /\ sent'[p] = Nothing \/ Unresolved(sent'[p])
        => \A f \in Range(SchedulerFilaments(live[p])), r \in Range(reqs) : ~Feeds(p, f, r)

\* A row that leaves nothing resolved has found no tray.
LEMMA FinishFed ==
    ASSUME SlotsDistinct, Matching, JourneyTrue, ErrandTrue, ScheduleTrue, Finish
    PROVE  FedStep
<1> DEFINE m == AmsMapping(row)
           q == job.printer
<1>1. /\ DOMAIN row = DOMAIN reqs /\ reqs \in Plates /\ job # Nothing /\ q \in Printers
      /\ \A k \in DOMAIN row : row[k].tray \in Nat \cup {-1}
  BY FullRow DEF Matching, DialogTrue, JobTrue, Finish, Complete
<1>2. CASE job.path # "schedule"
  <2>1. sent' = sent
    BY <1>2 DEF Finish
  <2> QED BY <2>1 DEF FedStep
<1>3. CASE job.path = "schedule"
  <2>1. sent' = [sent EXCEPT ![q] = IF Resolved(m) THEN m ELSE Nothing]
    BY <1>3 DEF Finish
  <2>2. \/ m = Nothing /\ Slots = {}
        \/ /\ m \notin {Nothing, NotYet}
           /\ \A s \in DOMAIN m : m[s] \in Nat \cup {-1}
           /\ \A s \in Slots : /\ s \in DOMAIN m
                               /\ \E k \in DOMAIN row : reqs[k].slot = s /\ m[s] = row[k].tray
    BY <1>1, MappingTrue
  <2> HIDE DEF m
  <2>3. ASSUME Resolved(m) PROVE FedStep
    <3>1. m # Nothing /\ ~Unresolved(m)
      BY <2>3 DEF Resolved
    <3>2. \A p \in Printers : sent'[p] = sent[p] \/ sent'[p] = m
      BY <2>1, <2>3 DEF JourneyTrue
    <3> QED BY <3>1, <3>2 DEF FedStep
  <2>4. ASSUME ~Resolved(m), NEW k \in DOMAIN row PROVE row[k].tray = -1
    <3>1. reqs[k].slot > 0 /\ reqs[k].slot \in Slots
      BY <1>1 DEF SlotsDistinct, Slots
    <3>2. m \notin {Nothing, NotYet} /\ Unresolved(m)
      BY <2>2, <2>4, <3>1 DEF Resolved
    <3>3. PICK j \in DOMAIN row : reqs[j].slot = reqs[k].slot /\ m[reqs[k].slot] = row[j].tray
      BY <2>2, <3>1, <3>2
    <3>4. j = k
      BY <1>1, <3>3 DEF SlotsDistinct
    <3>5. m[reqs[k].slot] < 0
      BY <2>2, <3>1, <3>2 DEF Unresolved
    <3> QED BY <1>1, <3>3, <3>4, <3>5
  <2>5. ASSUME ~Resolved(m) PROVE FedStep
    <3>1. \A k \in DOMAIN row, i \in DOMAIN job.list : ~Fits(job, job.list[i], reqs[k])
      BY <1>1, <1>3, <2>4, <2>5 DEF ScheduleTrue, Barren
    <3>2. job.list = SchedulerFilaments(live[q]) /\ job.fts = live[q].fts
      BY <1>1, <1>3 DEF ScheduleTrue
    <3>3. \A f \in Range(SchedulerFilaments(live[q])), r \in Range(reqs) : ~Feeds(q, f, r)
      BY <1>1, <3>1, <3>2 DEF Range, Feeds, Fits
    <3>4. \A p \in Printers : p # q => sent'[p] = sent[p]
      BY <2>1 DEF JourneyTrue
    <3> HIDE DEF q
    <3> QED BY <3>3, <3>4 DEF FedStep
  <2> QED BY <2>3, <2>5
<1> QED BY <1>2, <1>3

LEMMA DispatchFed ==
    ASSUME JourneyTrue, NEW p \in Printers, Dispatch(p)
    PROVE  FedStep
<1>1. CASE Resolved(item[p]) /\ sent' = [sent EXCEPT ![p] = item[p]]
  <2>1. item[p] # Nothing /\ ~Unresolved(item[p])
    BY <1>1 DEF Resolved
  <2>2. \A o \in Printers : sent'[o] = sent[o] \/ sent'[o] = item[p]
    BY <1>1 DEF JourneyTrue
  <2> QED BY <2>1, <2>2 DEF FedStep
<1>2. CASE /\ SchedulerFilaments(live[p]) = << >> \/ reqs = << >>
           /\ sent' = [sent EXCEPT ![p] = Nothing]
  <2>1. Range(SchedulerFilaments(live[p])) = {} \/ Range(reqs) = {}
    BY <1>2 DEF Range
  <2>2. \A o \in Printers : o # p => sent'[o] = sent[o]
    BY <1>2 DEF JourneyTrue
  <2> QED BY <2>1, <2>2 DEF FedStep
<1>3. CASE UNCHANGED sent
  BY <1>3 DEF FedStep
<1> QED BY <1>1, <1>2, <1>3 DEF Dispatch

LEMMA FedHolds ==
    ASSUME SlotsDistinct, Journey, ScheduleTrue, [Next]_vars
    PROVE  FedStep
<1> USE DEF Journey
<1>1. CASE Finish BY <1>1, FinishFed
<1>2. CASE \E p \in Printers : Dispatch(p) BY <1>2, DispatchFed
<1>3. ASSUME UNCHANGED sent PROVE FedStep
  BY <1>3 DEF FedStep
<1>4. CASE Match \/ Submit \/ UNCHANGED vars
  BY <1>3, <1>4 DEF Match, Submit, vars
<1>5. CASE \/ \E ps \in Selections : Select(ps)
           \/ \E s \in Slots : SelectSlot(s)
           \/ \E p \in Printers : \/ StatusAnswer(p) \/ StatusError(p) \/ SwapSpool(p)
                                  \/ AutoConfigure(p) \/ UseDefault(p) \/ Enqueue(p)
                                  \/ \E s \in Slots : SelectOwnSlot(p, s)
  <2>1. UNCHANGED sent
    BY <1>5 DEF Select, SelectSlot, StatusAnswer, StatusError, SwapSpool, AutoConfigure,
                UseDefault, Enqueue, SelectOwnSlot, Edit
  <2> QED BY <1>3, <2>1
<1> QED BY <1>1, <1>2, <1>4, <1>5 DEF Next

\* No print is started with nothing to feed it while a spool in its printer could,
\* whatever the item carried and however the spools moved before the scheduler
\* looked (_ensure_ams_mapping, #2589).  The file numbers its slots, each once.
THEOREM FedWhenPossible == ASSUME SlotsDistinct PROVE Spec => FedIfPossible
<1>1. Init => ScheduleTrue
  BY DEF Init, ScheduleTrue
<1>2. Journey /\ ScheduleTrue /\ [Next]_vars => ScheduleTrue'
  BY ScheduleInductive DEF Journey
<1>3. Journey /\ ScheduleTrue /\ [Next]_vars => [FedStep]_vars
  BY FedHolds
<1>4. Spec => [][FedStep]_vars
  BY <1>1, <1>2, <1>3, JourneyHolds, PTL DEF Spec
<1> QED BY <1>4 DEF FedIfPossible, FedStep
=============================================================================
