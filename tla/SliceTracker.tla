---------------------------- MODULE SliceTracker ----------------------------
(***************************************************************************)
(* Background slicing: the server's in-memory table of slice jobs          *)
(* (services/slice_dispatch.py, routes/slice_jobs.py) and the browser's    *)
(* tracker (SliceJobTrackerContext.tsx), which polls each job it was given *)
(* and reports its end.  Poll rounds are interval callbacks that await one *)
(* answer after another, so two rounds overlap when answers are slow; the  *)
(* list a round works on is the one of the last render.                    *)
(***************************************************************************)
EXTENDS Integers

CONSTANTS
    Slices,        \* requests to slice
    MaxId,         \* job ids handed out by one server process
    Rounds,        \* poll rounds that may overlap
    MaxRestarts,   \* bound: server restarts
    MaxUpsets,     \* bound: answers lost on the way and toasts closed
    NoJob, Idle

Ids == 1..MaxId
Outcomes == {"completed", "failed"}
Entries == [id : Ids, slice : Slices]
Jobs == [slice : Slices, status : {"pending", "running"} \cup Outcomes,
         stale : BOOLEAN]
Answers == {"none", "open"} \cup Outcomes

ASSUME ConstAssumption ==
    /\ MaxId \in Nat
    /\ NoJob \notin Jobs \cup Ids
    /\ Idle \notin Entries
    /\ Idle \notin [left : SUBSET Entries, at : Entries \cup {Idle}, answer : Answers]

VARIABLES
    jobs,       \* _jobs: per id, NoJob or [slice, status, stale]
    nextId,     \* _next_id
    posted,     \* the job id made for each request, NoJob before
    heard,      \* the requests whose answer reached the browser
    fate,       \* how each slice ended, whoever still knows it
    lost,       \* slices whose record the server has dropped
    active,     \* activeJobs, as last set
    rendered,   \* activeJobsRef.current: activeJobs of the last render
    started,    \* ids in startedAtRef
    toasts,     \* ids with a progress toast
    round,      \* per poll round, Idle or the entries left and the answer got
    told,       \* the outcome reported for each slice, "none" before
    restarts, upsets

server == <<jobs, nextId, posted, fate, lost, restarts>>
screen == <<active, rendered, started, toasts>>
vars == <<server, screen, heard, round, told, upsets>>
-----------------------------------------------------------------------------
(* The server.                                                              *)

Job(s) == [slice |-> s, status |-> "pending", stale |-> FALSE]

\* Finished jobs past the retention window, dropped by the next enqueue.
Swept == {i \in Ids : jobs[i] # NoJob /\ jobs[i].stale}
SlicesOf(I) == {jobs[i].slice : i \in {i \in I : jobs[i] # NoJob}}

\* mutant: two requests get one id
SameIdAgain == nextId
NextId == nextId + 1

Enqueue(s) ==
    /\ posted[s] = NoJob /\ nextId \in Ids
    /\ jobs' = [i \in Ids |-> IF i = nextId THEN Job(s)
                              ELSE IF i \in Swept THEN NoJob ELSE jobs[i]]
    /\ posted' = [posted EXCEPT ![s] = nextId]
    /\ nextId' = NextId
    /\ fate' = [fate EXCEPT ![s] = "pending"]
    /\ lost' = lost \cup SlicesOf(Swept)
    /\ UNCHANGED <<screen, heard, round, told, restarts, upsets>>

\* _run_job
Run(i) ==
    /\ jobs[i] # NoJob /\ jobs[i].status = "pending"
    /\ jobs' = [jobs EXCEPT ![i].status = "running"]
    /\ UNCHANGED <<nextId, posted, fate, lost, restarts, screen, heard,
                   round, told, upsets>>

End(i, o) ==
    /\ jobs[i] # NoJob /\ jobs[i].status = "running"
    /\ jobs' = [jobs EXCEPT ![i].status = o]
    /\ fate' = [fate EXCEPT ![jobs[i].slice] = o]
    /\ UNCHANGED <<nextId, posted, lost, restarts, screen, heard,
                   round, told, upsets>>

\* The retention window of a finished job has passed.
Age(i) ==
    /\ jobs[i] # NoJob /\ jobs[i].status \in Outcomes /\ ~jobs[i].stale
    /\ jobs' = [jobs EXCEPT ![i].stale = TRUE]
    /\ UNCHANGED <<nextId, posted, fate, lost, restarts, screen, heard,
                   round, told, upsets>>

\* The table and the counter live in memory.
Restart ==
    /\ restarts < MaxRestarts
    /\ restarts' = restarts + 1
    /\ lost' = lost \cup SlicesOf(Ids)
    /\ jobs' = [i \in Ids |-> NoJob] /\ nextId' = 1
    /\ UNCHANGED <<posted, fate, screen, heard, round, told, upsets>>
-----------------------------------------------------------------------------
(* The tracker.                                                             *)

\* trackJob: an id that is already tracked keeps its entry, but its clock and
\* its toast start anew.
Track(s) ==
    /\ posted[s] # NoJob /\ s \notin heard /\ heard' = heard \cup {s}
    /\ active' = IF \E e \in active : e.id = posted[s] THEN active
                 ELSE active \cup {[id |-> posted[s], slice |-> s]}
    /\ started' = started \cup {posted[s]}
    /\ toasts' = toasts \cup {posted[s]}
    /\ UNCHANGED <<server, rendered, round, told, upsets>>

Render ==
    /\ rendered # active /\ rendered' = active
    /\ UNCHANGED <<server, active, started, toasts, heard, round, told, upsets>>

\* The 1 Hz tick draws a progress toast for each rendered job with a clock.
Tick ==
    /\ toasts' = toasts \cup ({e.id : e \in rendered} \cap started)
    /\ UNCHANGED <<server, active, rendered, started, heard, round, told, upsets>>

\* The user closes a progress toast: the job goes on, and so does its clock.
Dismiss(i) ==
    /\ i \in toasts /\ upsets < MaxUpsets
    /\ toasts' = toasts \ {i} /\ upsets' = upsets + 1
    /\ UNCHANGED <<server, active, rendered, started, heard, round, told>>

Poll(k) ==
    /\ round[k] = Idle /\ rendered # {}
    /\ round' = [round EXCEPT ![k] =
                    [left |-> rendered, at |-> Idle, answer |-> "none"]]
    /\ UNCHANGED <<server, screen, heard, told, upsets>>

\* getSliceJob: the server reads the job for the next entry of the round.
Ask(k, e) ==
    /\ round[k] # Idle /\ round[k].at = Idle /\ e \in round[k].left
    /\ round' = [round EXCEPT ![k] =
            [left |-> @.left \ {e}, at |-> e,
             answer |-> IF jobs[e.id] = NoJob THEN "open"   \* 404
                        ELSE IF jobs[e.id].status \in Outcomes THEN jobs[e.id].status
                        ELSE "open"]]
    /\ UNCHANGED <<server, screen, heard, told, upsets>>

\* The round turns to its next entry, or is over.
Advance(k) ==
    round' = [round EXCEPT ![k] =
                IF @.left = {} THEN Idle
                ELSE [left |-> @.left, at |-> Idle, answer |-> "none"]]

\* The answer does not arrive.
Miss(k) ==
    /\ round[k] # Idle /\ round[k].at # Idle /\ upsets < MaxUpsets
    /\ upsets' = upsets + 1
    /\ Advance(k)
    /\ UNCHANGED <<server, screen, heard, told>>

\* mutants: the list of the last render is the base; the clock is left running
ForgetRendered(e) ==
    /\ active' = {f \in rendered : f.id # e.id}
    /\ started' = started \ {e.id}
    /\ toasts' = toasts \ {e.id}
ForgetListed(e) ==
    /\ active' = {f \in active : f.id # e.id}
    /\ toasts' = toasts \ {e.id}
    /\ UNCHANGED started

\* completeJob, which forgets the entry, its clock and its toast by its id.
Forget(e) ==
    /\ active' = {f \in active : f.id # e.id}
    /\ started' = started \ {e.id}
    /\ toasts' = toasts \ {e.id}

Receive(k) ==
    /\ round[k] # Idle /\ round[k].at # Idle
    /\ IF round[k].answer \in Outcomes
       THEN /\ Forget(round[k].at) /\ UNCHANGED rendered
            /\ told' = [told EXCEPT ![round[k].at.slice] = round[k].answer]
       ELSE UNCHANGED <<screen, told>>
    /\ Advance(k)
    /\ UNCHANGED <<server, heard, upsets>>
-----------------------------------------------------------------------------
Init ==
    /\ jobs = [i \in Ids |-> NoJob] /\ nextId = 1
    /\ posted = [s \in Slices |-> NoJob]
    /\ fate = [s \in Slices |-> "none"] /\ lost = {}
    /\ active = {} /\ rendered = {} /\ started = {} /\ toasts = {}
    /\ round = [k \in Rounds |-> Idle]
    /\ told = [s \in Slices |-> "none"] /\ heard = {}
    /\ restarts = 0 /\ upsets = 0

RoundStep(k) ==
    Poll(k) \/ Receive(k) \/ \E e \in Entries : Ask(k, e)

Next ==
    \/ \E s \in Slices : Enqueue(s) \/ Track(s)
    \/ \E i \in Ids : Run(i) \/ Age(i) \/ Dismiss(i) \/ \E o \in Outcomes : End(i, o)
    \/ Restart \/ Render \/ Tick
    \/ \E k \in Rounds : RoundStep(k) \/ Miss(k)

\* The interval fires, the requests are answered and React renders.
Fairness == WF_vars(Render) /\ \A k \in Rounds : WF_vars(RoundStep(k))

Spec == Init /\ [][Next]_vars /\ Fairness
-----------------------------------------------------------------------------
(* Properties.                                                              *)

TypeOK ==
    /\ jobs \in [Ids -> Jobs \cup {NoJob}] /\ nextId \in 1..(MaxId + 1)
    /\ posted \in [Slices -> Ids \cup {NoJob}] /\ heard \subseteq Slices
    /\ fate \in [Slices -> {"none", "pending"} \cup Outcomes]
    /\ lost \subseteq Slices
    /\ active \subseteq Entries /\ rendered \subseteq Entries
    /\ started \subseteq Ids /\ toasts \subseteq Ids
    /\ round \in [Rounds -> {Idle} \cup
            [left : SUBSET Entries, at : Entries \cup {Idle}, answer : Answers]]
    /\ told \in [Slices -> {"none"} \cup Outcomes]
    /\ restarts \in Nat /\ upsets \in Nat

\* A progress toast is on the screen for no job but a tracked one: none is drawn
\* again by a tick that still sees the old list, and none stays behind when two
\* rounds complete the same job.  A tracked job keeps its clock, so a toast the
\* user has closed is back at the next tick (completeJob, renderProgressToast).
OnlyTrackedSpin ==
    LET tracked == {e.id : e \in active} IN toasts \subseteq tracked /\ tracked \subseteq started

Reports == INSTANCE SliceReports WITH fate <- fate, told <- told, lost <- lost

\* The tracker keeps the promise of SliceReports: through overlapping rounds,
\* late answers, restarts and sweeps, what is reported of a slice the server
\* has not dropped is how that slice ended.
ReportsKept == Reports!Spec

\* A tracked slice that has ended is reported (the polling continues across
\* navigation and failed polls), unless the server dropped its record before
\* it was polled, or was restarted and gave its id away.
Tracked(s) == \E e \in active : e.slice = s
ReportedInTheEnd ==
    \A s \in Slices :
        (Tracked(s) /\ fate[s] \in Outcomes) ~>
            (told[s] # "none" \/ s \in lost \/ restarts > 0)
=============================================================================
