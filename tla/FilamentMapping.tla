-------------------------- MODULE FilamentMapping --------------------------
(***************************************************************************)
(* Which spool feeds which filament of a print: the print dialog maps the  *)
(* slots of the sliced file to the trays of each selected printer, the     *)
(* queue item carries the mapping, and the scheduler keeps it or computes  *)
(* its own just before the start.  The mapping is made four times in the   *)
(* code, with different rules:                                             *)
(*   "single", "plate", "auto"   buildFilamentComparison: the first chosen *)
(*            printer, one plate of several, a printer being auto-         *)
(*            configured;                                                  *)
(*   "override"  computeMappingWithOverrides, for a printer of several;    *)
(*   "schedule"  _match_filaments_to_slots, in the backend.                *)
(* A fifth copy, computeMatchDetails, tells the user on the card of a      *)
(* printer how well its trays match, and has operators of its own below.   *)
(* Each takes the requirements in order and never takes a tray twice: one  *)
(* requirement is one step here, and nothing else happens between the      *)
(* first step of a matching and its last.                                  *)
(***************************************************************************)
EXTENDS Integers, Sequences, SequencesExt

CONSTANTS
    Printers,
    Statuses,     \* Statuses[p]: the AMS contents printer p may report
    Plates,       \* requirement lists a sliced file may have
    TypeGroups,   \* sets of filament types the firmware takes for one another
    NoNozzle, NoIdx, NoColor, NoType,
    Nothing,      \* undefined / None
    NotYet,       \* what has no first value: status, queue item, command
    MaxEdits, MaxSwaps   \* bounds: changes by the user, spools swapped

ASSUME NoTray == Nothing # NotYet

\* Units and trays are numbered from 0; what is left of a spool is a number.
ASSUME StatusAssumption ==
    \A p \in Printers : \A st \in Statuses[p] :
        /\ st.tray \in Seq(Range(st.tray)) /\ st.vt \in Seq(Range(st.vt))
        /\ \A t \in Range(st.tray) : t.unit \in Nat
        /\ \A t \in Range(st.tray) \cup Range(st.vt) : t.slot \in Nat /\ t.remain \in Int
        /\ \A id \in DOMAIN st.grams : st.grams[id] \in Int

\* Slots are numbered from 1, 0 for a missing number; no mapping is Nothing.
ASSUME PlateAssumption ==
    \A file \in Plates :
        /\ file \in Seq(Range(file))
        /\ \A r \in Range(file) : /\ r.slot \in Nat
                                 /\ Nothing \notin [1..r.slot -> Int]
                                 /\ NotYet \notin [1..r.slot -> Int]

Threshold == 40

VARIABLES
    reqs,      \* filaments the print needs, in file order
    plates,    \* are several plates selected?
    lowest,    \* setting prefer_lowest_filament
    selected,  \* the printers of the dialog, in order
    live,      \* what each printer reports now
    seen,      \* the status the browser holds for it, NotYet or (error) Nothing
    manual,    \* manualMappings: slot -> tray
    own,       \* perPrinterConfigs[p].manualMappings, or Nothing: useDefault
    todo,      \* printers still to be queued by the submission
    phase,     \* "open": the dialog; "queued": it has been submitted
    asked,     \* what the user had chosen for p at the submission
    item,      \* ams_mapping of p's queue item, Nothing, or NotYet: no item
    sent,      \* ams_mapping of the print command, Nothing or NotYet
    job,       \* the matching in progress: its inputs, or Nothing
    row, used, \* its results so far, and the trays no longer free
    badge, badgeUsed,   \* how well the card says each is matched, its free trays
    edits, swaps

dialog == <<selected, manual, own, phase>>
loop == <<job, row, used, badge, badgeUsed>>
vars == <<reqs, plates, lowest, dialog, live, seen, todo, asked, item, sent,
          loop, edits, swaps>>
-----------------------------------------------------------------------------
(* A printer status and the list of loaded filaments made from it.          *)

GlobalTrayId(unit, slot) == IF unit >= 128 THEN unit ELSE unit * 4 + slot

SlotPriority(unit, slot) ==
    IF unit < 0 THEN 10000
    ELSE IF unit >= 128 THEN 1000 + (unit - 128) * 4 + slot
    ELSE unit * 4 + slot

HasType(tray) == tray.type # NoType

\* A loaded filament keeps its position in the report: AMS trays come first.
Filaments(st, dual) ==
    LET ams == {k \in DOMAIN st.tray : HasType(st.tray[k])}
        vt  == {k \in DOMAIN st.vt : HasType(st.vt[k])}
        Ams(t) == [id |-> GlobalTrayId(t.unit, t.slot),
                   order |-> SlotPriority(t.unit, t.slot),
                   nozzle |-> IF t.unit \in DOMAIN st.extruder
                              THEN st.extruder[t.unit] ELSE NoNozzle,
                   type |-> t.type, color |-> t.color, idx |-> t.idx, remain |-> t.remain]
        Vt(t)  == [id |-> t.slot, order |-> SlotPriority(-1, t.slot),
                   nozzle |-> IF dual THEN 255 - t.slot ELSE NoNozzle,
                   type |-> t.type, color |-> t.color, idx |-> t.idx, remain |-> t.remain]
    IN  [k \in ams \cup {Len(st.tray) + j : j \in vt} |->
            IF k \in ams THEN Ams(st.tray[k]) ELSE Vt(st.vt[k - Len(st.tray)])]

\* Three signs of a second nozzle in the browser, one in the scheduler.
BuildLoadedFilaments(st) ==
    IF st \in {NotYet, Nothing} THEN << >>
    ELSE Filaments(st, st.nozzle2 \/ DOMAIN st.extruder # {} \/ Len(st.vt) > 1)
SchedulerFilaments(st) == Filaments(st, DOMAIN st.extruder # {})

\* What the browser reads from a status it does not have.
Unknown == [fts |-> FALSE, backup |-> Nothing, grams |-> << >>]
Read(st) == IF st \in {NotYet, Nothing} THEN Unknown ELSE st
EffectivePreferLowest(st) == lowest /\ st.backup # FALSE
-----------------------------------------------------------------------------
(* One requirement r against the loaded list L.  Trays are named by their   *)
(* position in L; C is the set of positions still available.                *)

Abs(x) == IF x < 0 THEN -x ELSE x
ColorsAreSimilar(a, b) ==
    /\ a # NoColor /\ b # NoColor
    /\ \A c \in 1..3 : Abs(a[c] - b[c]) <= Threshold

SameGroup(a, b) == a = b \/ \E g \in TypeGroups : a \in g /\ b \in g

\* preferLowestSortKey: tracked spools first, then the least left, then place.
SortKey(f, grams) ==
    IF f.id \in DOMAIN grams THEN <<0, grams[f.id], f.order>>
    ELSE <<1, IF f.remain >= 0 THEN f.remain ELSE 101, f.order>>
LessKey(a, b) ==
    \E n \in 1..3 : a[n] < b[n] /\ \A m \in 1..(n - 1) : a[m] = b[m]

\* i is found before j: a stable sort by key when the preference is on.
Earlier(w, i, j) ==
    LET a == SortKey(w.list[i], w.grams)
        b == SortKey(w.list[j], w.grams)
    IN  IF w.prefer /\ a # b THEN LessKey(a, b) ELSE i < j

Hard(path) == path \in {"single", "plate", "auto", "schedule"}

\* mutant: every path drops the filter when no tray of the nozzle is left
CandidatesSoft(w, r, taken) ==
    LET free == {i \in DOMAIN w.list : w.list[i].id \notin taken}
        mine == {i \in free : w.list[i].nozzle = r.nozzle}
    IN  IF r.nozzle = NoNozzle \/ mine = {} THEN free ELSE mine

\* The trays left for r.  The hard filter may leave none; the soft one is
\* dropped when it would.
Candidates(w, r, taken) ==
    LET free == {i \in DOMAIN w.list : w.list[i].id \notin taken}
        mine == {i \in free : w.list[i].nozzle = r.nozzle}
    IN  IF r.nozzle = NoNozzle \/ (Hard(w.path) /\ w.fts) THEN free
        ELSE IF Hard(w.path) \/ mine # {} THEN mine
        ELSE free

\* Candidates in order of preference: the only tray with the preset of the
\* slicer; then exact colour, close colour, type, first among the trays with
\* that preset and then among all.  The scheduler takes the type for granted
\* among the former and compares it up to TypeGroups among the latter.
Ranks(w, r, C) ==
    LET twin    == {i \in C : /\ Hard(w.path) /\ r.idx # NoIdx
                              /\ w.list[i].idx = r.idx}
        typed   == {i \in C : IF w.path = "schedule"
                              THEN SameGroup(w.list[i].type, r.type)
                              ELSE w.list[i].type = r.type}
        twinT   == IF w.path = "schedule" THEN twin ELSE twin \cap typed
        exact   == {i \in C : w.list[i].color = r.color}
        similar == {i \in C : ColorsAreSimilar(w.list[i].color, r.color)}
    IN  << IF Cardinality(twin) = 1 THEN twin ELSE {},
           twinT \cap exact, twinT \cap similar, twinT,
           typed \cap exact, typed \cap similar, typed >>

\* The tray taken for r: at most one.
Choice(w, r, C) ==
    LET R == Ranks(w, r, C)
    IN  {i \in C : \E n \in DOMAIN R :
            /\ i \in R[n]
            /\ \A m \in 1..(n - 1) : R[m] = {}
            /\ \A j \in R[n] \ {i} : Earlier(w, i, j)}

Ids(L) == {L[i].id : i \in DOMAIN L}

\* A manual choice is honoured: always on the override path, only for a tray
\* that is loaded on the others.  The scheduler has none.
Honoured(w, r) ==
    /\ r.slot > 0
    /\ r.slot \in DOMAIN w.manual
    /\ w.path = "override" \/ w.manual[r.slot] \in Ids(w.list)

NoChoice == << >>
-----------------------------------------------------------------------------
(* A matching: started, one requirement at a time, finished.                *)

Start(path, p, st, L, choices) ==
    /\ job' = [path |-> path, printer |-> p, list |-> L, manual |-> choices,
               prefer |-> EffectivePreferLowest(st), fts |-> st.fts,
               grams |-> st.grams]
    /\ row' = << >> /\ badge' = << >>
    /\ used' = Range(choices) /\ badgeUsed' = Range(choices)

\* The tray for the next requirement, -1 if there is none.
Picks(r, taken) ==
    LET c == Choice(job, r, Candidates(job, r, taken))
    IN  IF Honoured(job, r) THEN {job.manual[r.slot]}
        ELSE IF c = {} THEN {-1}
        ELSE {job.list[i].id : i \in c}

\* mutant: the tray stays on offer
LeaveFree(taken, t) == taken

MarkUsed(taken, t) == taken \cup {t}
-----------------------------------------------------------------------------
(* The card of a printer, computeMatchDetails: the code matches once more   *)
(* for it, with a copy of the loop that sends no mapping anywhere.          *)

\* (wrong) the filter of the other copies: it may leave no tray
CardPoolHard(w, r, taken) ==
    {i \in DOMAIN w.list : /\ w.list[i].id \notin taken
                             /\ r.nozzle \in {NoNozzle, w.list[i].nozzle}}

\* the trays the card still has, those of the nozzle if there are any
CardPool(w, r, taken) ==
    LET free == {i \in DOMAIN w.list : w.list[i].id \notin taken}
        near == {i \in free : r.nozzle \in {NoNozzle, w.list[i].nozzle}}
    IN  IF near # {} THEN near ELSE free

\* exact type and colour, a close colour, the type alone: the first there is
CardFinds(w, r, pool) ==
    LET typed == {i \in pool : w.list[i].type = r.type}
        same  == {i \in typed : w.list[i].color = r.color}
        close == {i \in typed : ColorsAreSimilar(w.list[i].color, r.color)}
        best  == IF same # {} THEN same ELSE IF close # {} THEN close ELSE typed
    IN  {i \in best : \A j \in best \ {i} : Earlier(w, i, j)}

\* what the card judges r by: the tray chosen by hand if it is loaded
Judged(w, r, taken) ==
    LET chosen == {i \in DOMAIN w.list : /\ r.slot > 0 /\ r.slot \in DOMAIN w.manual
                                           /\ w.list[i].id = w.manual[r.slot]}
    IN  IF chosen # {} THEN chosen ELSE CardFinds(w, r, CardPool(w, r, taken))

Fit(f, r) ==
    IF f.type # r.type THEN "missing"
    ELSE IF f.color = r.color \/ ColorsAreSimilar(f.color, r.color) THEN "exact"
    ELSE "type"
Badges(w, r, judged) ==
    IF judged = {} THEN {"missing"} ELSE {Fit(w.list[i], r) : i \in judged}
-----------------------------------------------------------------------------
Running == job # Nothing /\ Len(row) < Len(reqs)
Complete == job # Nothing /\ Len(row) = Len(reqs)

Match ==
    /\ Running
    /\ LET r == reqs[Len(row) + 1]
           judged == Judged(job, r, badgeUsed)
       IN  \E t \in Picks(r, used), b \in Badges(job, r, judged) :
             /\ row' = Append(row, [tray |-> t, user |-> Honoured(job, r)])
             /\ used' = MarkUsed(used, t)
             /\ badge' = Append(badge, b)
             /\ badgeUsed' = badgeUsed \cup {job.list[i].id : i \in judged}
    /\ UNCHANGED <<job, reqs, plates, lowest, dialog, live, seen, todo, asked, item,
                   sent, edits, swaps>>

\* buildAmsMapping: position is the slot, -1 where the print needs nothing.
Slots == {reqs[k].slot : k \in DOMAIN reqs} \ {0}
TrayOf(r, s) ==
    r[CHOOSE k \in DOMAIN reqs :
            reqs[k].slot = s /\ \A j \in DOMAIN reqs : reqs[j].slot = s => j <= k].tray
AmsMapping(r) ==
    IF Slots = {} THEN Nothing
    ELSE [s \in 1..Max(Slots) |-> IF s \in Slots THEN TrayOf(r, s) ELSE -1]

Unresolved(mapping) == \A s \in DOMAIN mapping : mapping[s] < 0
\* mutants: any stored list is trusted; a padded list is not
Stored(mapping) == mapping \notin {Nothing, NotYet}
FullyResolved(mapping) ==
    mapping \notin {Nothing, NotYet} /\ \A s \in DOMAIN mapping : mapping[s] >= 0

Resolved(mapping) == mapping \notin {Nothing, NotYet} /\ ~Unresolved(mapping)

\* What the finished matching is for: an item, a configuration or a command.
Finish ==
    /\ Complete
    /\ LET m == AmsMapping(row)
           p == job.printer
       IN  CASE job.path = "auto" ->
                  /\ own' = IF m = Nothing THEN own
                            ELSE [own EXCEPT ![p] =
                                [s \in {s \in DOMAIN m : m[s] # -1} |-> m[s]]]
                  /\ UNCHANGED <<item, sent>>
             [] job.path = "schedule" ->
                  /\ sent' = [sent EXCEPT ![p] = IF Resolved(m) THEN m ELSE Nothing]
                  /\ UNCHANGED <<own, item>>
             [] OTHER -> item' = [item EXCEPT ![p] = m] /\ UNCHANGED <<own, sent>>
    /\ job' = Nothing
    /\ UNCHANGED <<row, used, badge, badgeUsed, reqs, plates, lowest, selected,
                   manual, phase, live, seen, todo, asked, edits, swaps>>
-----------------------------------------------------------------------------
(* The dialog.                                                              *)

Open == phase = "open" /\ todo = {} /\ job = Nothing

StatusAnswer(p) ==
    /\ Open
    /\ seen' = [seen EXCEPT ![p] = live[p]]
    /\ UNCHANGED <<reqs, plates, lowest, dialog, live, todo, asked, item, sent,
                   loop, edits, swaps>>

StatusError(p) ==
    /\ Open /\ seen[p] = NotYet
    /\ seen' = [seen EXCEPT ![p] = Nothing]
    /\ UNCHANGED <<reqs, plates, lowest, dialog, live, todo, asked, item, sent,
                   loop, edits, swaps>>

Edit ==
    /\ Open /\ edits < MaxEdits
    /\ edits' = edits + 1
    /\ UNCHANGED <<reqs, plates, lowest, phase, live, seen, todo, asked, item,
                   sent, swaps>>

\* Other printers or another plate: every choice made so far is dropped.
Select(ps) ==
    /\ Edit /\ selected # ps
    /\ selected' = ps
    /\ manual' = NoChoice /\ own' = [p \in Printers |-> Nothing]
    /\ UNCHANGED loop

\* The trays offered for a slot are those of its nozzle.
Offered(p, s) ==
    {f \in Range(BuildLoadedFilaments(seen[p])) :
        \E r \in Range(reqs) : r.slot = s /\ r.nozzle \in {NoNozzle, f.nozzle}}
Without(choices, s) == [x \in DOMAIN choices \ {s} |-> choices[x]]
With(choices, s, t) ==
    [x \in DOMAIN choices \cup {s} |-> IF x = s THEN t ELSE choices[x]]
Changes(choices, p, s) ==
    {With(choices, s, f.id) : f \in Offered(p, s)} \cup {Without(choices, s)}

SelectSlot(s) ==
    /\ Edit /\ Len(selected) = 1
    /\ manual' \in Changes(manual, selected[1], s) \ {manual}
    /\ UNCHANGED <<selected, own, loop>>

SelectOwnSlot(p, s) ==
    /\ Edit /\ Len(selected) > 1 /\ ~plates /\ own[p] # Nothing
    /\ \E c \in Changes(own[p], p, s) \ {own[p]} : own' = [own EXCEPT ![p] = c]
    /\ UNCHANGED <<selected, manual, loop>>

\* The override box of one of several printers: ticked, it is auto-configured.
AutoConfigure(p) ==
    /\ Edit /\ Len(selected) > 1 /\ ~plates /\ p \in Range(selected)
    /\ BuildLoadedFilaments(seen[p]) # << >>
    /\ Start("auto", p, seen[p], BuildLoadedFilaments(seen[p]), NoChoice)
    /\ UNCHANGED <<selected, manual, own>>
UseDefault(p) ==
    /\ Edit /\ own[p] # Nothing
    /\ own' = [own EXCEPT ![p] = Nothing]
    /\ UNCHANGED <<selected, manual, loop>>

\* canSubmit.  Everything sent comes from the render the click happened in.
Submit ==
    /\ Open /\ selected # << >>
    /\ Len(selected) = 1 => seen[selected[1]] # NotYet
    /\ phase' = "queued" /\ todo' = Range(selected)
    /\ UNCHANGED <<reqs, plates, lowest, selected, manual, own, live, seen,
                   asked, item, sent, loop, edits, swaps>>

\* getMappingForPrinter: the path and the status a mapping for p comes from.
SubmitPath(p) ==
    IF plates THEN "plate"
    ELSE IF Len(selected) > 1 /\ own[p] # Nothing THEN "override" ELSE "single"
SourceOf(p) == IF SubmitPath(p) = "override" THEN p ELSE selected[1]

\* the slots whose choice the path honours
Wishes(path, L, wish) ==
    {s \in DOMAIN wish \cap Slots : path = "override" \/ wish[s] \in Ids(L)}

Enqueue(p) ==
    LET path == SubmitPath(p)
        st   == Read(seen[SourceOf(p)])
        L    == BuildLoadedFilaments(seen[SourceOf(p)])
        wish == IF path = "override" THEN own[p] ELSE manual
    IN  /\ p \in todo /\ job = Nothing
        /\ todo' = todo \ {p}
        /\ IF \/ path = "plate" /\ Len(selected) > 1
              \/ path # "plate" /\ L = << >>
           THEN /\ item' = [item EXCEPT ![p] = Nothing]
                /\ UNCHANGED <<asked, loop>>
           ELSE /\ Start(path, p, st, L, wish)
                /\ asked' = [asked EXCEPT ![p] =
                       [s \in Wishes(path, L, wish) |-> wish[s]]]
                /\ UNCHANGED item
        /\ UNCHANGED <<reqs, plates, lowest, dialog, live, seen, sent, edits, swaps>>
-----------------------------------------------------------------------------
(* The printers and the scheduler.                                          *)

SwapSpool(p) ==
    /\ job = Nothing /\ swaps < MaxSwaps
    /\ \E st \in Statuses[p] \ {live[p]} : live' = [live EXCEPT ![p] = st]
    /\ swaps' = swaps + 1
    /\ UNCHANGED <<reqs, plates, lowest, dialog, seen, todo, asked, item, sent,
                   loop, edits>>

\* _ensure_ams_mapping, and the start of the print with what it leaves.
Dispatch(p) ==
    /\ job = Nothing /\ item[p] # NotYet /\ sent[p] = NotYet
    /\ LET L == SchedulerFilaments(live[p])
       IN  IF Resolved(item[p])
           THEN sent' = [sent EXCEPT ![p] = item[p]] /\ UNCHANGED loop
           ELSE IF L = << >> \/ reqs = << >>
           THEN sent' = [sent EXCEPT ![p] = Nothing] /\ UNCHANGED loop
           ELSE Start("schedule", p, live[p], L, NoChoice) /\ UNCHANGED sent
    /\ UNCHANGED <<reqs, plates, lowest, dialog, live, seen, todo, asked, item,
                   edits, swaps>>
-----------------------------------------------------------------------------
Selections == {<<p>> : p \in Printers} \cup
              {ps \in Printers \X Printers : ps[1] # ps[2]}

Init ==
    /\ reqs \in Plates /\ plates \in BOOLEAN /\ lowest \in BOOLEAN
    /\ selected \in Selections
    /\ live \in {l \in [Printers -> UNION {Statuses[p] : p \in Printers}] :
                    \A p \in Printers : l[p] \in Statuses[p]}
    /\ seen = [p \in Printers |-> NotYet]
    /\ manual = NoChoice /\ own = [p \in Printers |-> Nothing]
    /\ todo = {} /\ phase = "open"
    /\ asked = [p \in Printers |-> NoChoice]
    /\ item = [p \in Printers |-> NotYet] /\ sent = [p \in Printers |-> NotYet]
    /\ job = Nothing /\ row = << >> /\ used = {} /\ badge = << >> /\ badgeUsed = {}
    /\ edits = 0 /\ swaps = 0

Next ==
    \/ Match \/ Finish \/ Submit
    \/ \E ps \in Selections : Select(ps)
    \/ \E s \in Slots : SelectSlot(s)
    \/ \E p \in Printers :
        \/ StatusAnswer(p) \/ StatusError(p)
        \/ AutoConfigure(p) \/ UseDefault(p)
        \/ \E s \in Slots : SelectOwnSlot(p, s)
        \/ Enqueue(p) \/ SwapSpool(p) \/ Dispatch(p)

Spec == Init /\ [][Next]_vars
-----------------------------------------------------------------------------
(* Properties.                                                              *)

\* A tray is given to two slots only if the user did so, for both of them:
\* trays matched to one slot are not offered to the next, and those the user
\* chose are never offered (buildFilamentComparison, usedTrayIds; the same in
\* the two other matchings).
OneSlotPerTray ==
    job # Nothing =>
        \A j, k \in DOMAIN row :
            (j # k /\ row[j].tray = row[k].tray /\ row[j].tray # -1)
                => row[j].user /\ row[k].user

\* The hard filter: without a track switch, a filament is never mapped by the
\* program to a tray of the other nozzle (print_scheduler.py:1797 "cross-nozzle
\* assignment causes print failures"), on every path that has the filter.
NozzleKept ==
    job # Nothing /\ Hard(job.path) /\ ~job.fts =>
        \A k \in DOMAIN row :
            (~row[k].user /\ reqs[k].nozzle # NoNozzle) =>
                \/ row[k].tray = -1
                \/ \E i \in DOMAIN job.list : /\ job.list[i].id = row[k].tray
                                             /\ job.list[i].nozzle = reqs[k].nozzle

\* What a card says of a filament is true of the tray that is queued for it,
\* though the card comes from another copy of the matching (computeMatchDetails,
\* computeMappingWithOverrides), as long as the trays chosen by hand are loaded.
BadgeHonest ==
    job # Nothing /\ job.path = "override" /\ Range(job.manual) \subseteq Ids(job.list) =>
        \A k \in DOMAIN row :
            badge[k] \in Badges(job, reqs[k], {i \in DOMAIN job.list :
                                            job.list[i].id = row[k].tray})

\* the scheduler may feed requirement r of a print on p from filament f
Feeds(p, f, r) ==
    /\ r.slot > 0 /\ SameGroup(f.type, r.type)
    /\ r.nozzle \in {NoNozzle, f.nozzle} \/ live[p].fts

\* A print is started with no tray at all only if no spool now in the printer
\* could feed any of its filaments (#2589), whatever the browser knew of the
\* printer, or of another one, when the print was queued.
FedIfPossible ==
    [][\A p \in Printers :
        /\ sent[p] = NotYet /\ sent'[p] # NotYet
        /\ sent'[p] = Nothing \/ Unresolved(sent'[p])
        => \A f \in Range(SchedulerFilaments(live[p])), r \in Range(reqs) :
               ~Feeds(p, f, r)]_vars

\* The trays the user chose for a print are the ones it is started with
\* (print_scheduler.py:1303), through the matching, the queue and the
\* scheduler, however the spools have moved since.
ChoicesSurvive ==
    \A p \in Printers : sent[p] # NotYet =>
        \A s \in DOMAIN asked[p] : sent[p] # Nothing /\ sent[p][s] = asked[p][s]

\* A tray id means nothing on another printer (index.tsx:479): what is queued
\* for a printer was matched against that printer's own trays.
OwnTrays ==
    job # Nothing => job.list \in {BuildLoadedFilaments(seen[job.printer]),
                                  SchedulerFilaments(live[job.printer])}
=============================================================================
