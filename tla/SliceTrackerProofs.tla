------------------------- MODULE SliceTrackerProofs -------------------------
(* SliceTracker implements SliceReports, for any number of slices, ids and  *)
(* overlapping poll rounds, and no progress toast outlives its entry.         *)
EXTENDS SliceTracker, TLAPS

\* A record in the table is that of the slice its id was made for, and what
\* it says of the slice is true.
TableTrue ==
    /\ \A i \in Ids : jobs[i] # NoJob =>
          /\ i < nextId
          /\ posted[jobs[i].slice] = i
          /\ jobs[i].slice \notin lost
    /\ \A s \in Slices : posted[s] # NoJob /\ s \notin lost =>
          /\ jobs[posted[s]] # NoJob
          /\ jobs[posted[s]].slice = s
          /\ fate[s] = IF jobs[posted[s]].status \in Outcomes
                       THEN jobs[posted[s]].status ELSE "pending"
    /\ \A s \in Slices : posted[s] = NoJob => fate[s] = "none" /\ s \notin lost

\* An entry carries the id of its slice.
Named(e) == posted[e.slice] = e.id
EntriesTrue ==
    /\ \A e \in active \cup rendered : Named(e)
    /\ \A k \in Rounds : round[k] # Idle =>
          /\ \A e \in round[k].left : Named(e)
          /\ round[k].at # Idle => Named(round[k].at)

\* An answer on its way is the end of the slice it was asked for.
AnswersTrue ==
    \A k \in Rounds :
        (round[k] # Idle /\ round[k].at # Idle /\ round[k].answer \in Outcomes
            /\ round[k].at.slice \notin lost)
                => fate[round[k].at.slice] = round[k].answer

\* The clocks are those of the list, and a toast needs a clock.
SpinnerTrue == started = {e.id : e \in active} /\ toasts \subseteq started

Inv == TypeOK /\ TableTrue /\ EntriesTrue /\ AnswersTrue /\ SpinnerTrue

USE DEF Outcomes
-----------------------------------------------------------------------------
LEMMA InitInv == Init => Inv
<1> SUFFICES ASSUME Init PROVE Inv
  OBVIOUS
<1>1. TypeOK
  BY ConstAssumption DEF Init, TypeOK, Ids
<1>2. TableTrue /\ EntriesTrue /\ AnswersTrue /\ SpinnerTrue
  BY ConstAssumption DEF Init, TableTrue, EntriesTrue, AnswersTrue, SpinnerTrue
<1> QED BY <1>1, <1>2 DEF Inv

\* The browser's part of the invariant looks at the table only through ids and
\* fates, and these stay for the slices it was asked about.
LEMMA BrowserKept ==
    ASSUME Inv, UNCHANGED <<screen, round>>, posted' = posted, lost \subseteq lost',
           \A s \in Slices \ lost' : fate[s] \in Outcomes => fate'[s] = fate[s]
    PROVE  EntriesTrue' /\ AnswersTrue' /\ SpinnerTrue'
<1>1. EntriesTrue' /\ SpinnerTrue'
  BY DEF Inv, EntriesTrue, Named, SpinnerTrue, screen
<1>2. ASSUME NEW k \in Rounds, round[k] # Idle, round[k].at # Idle,
             round[k].answer \in Outcomes, round[k].at.slice \notin lost'
      PROVE  fate'[round[k].at.slice] = round[k].answer
  <2>1. round[k].at.slice \in Slices
    BY <1>2 DEF Inv, TypeOK, Entries
  <2>2. fate[round[k].at.slice] = round[k].answer
    BY <1>2 DEF Inv, AnswersTrue
  <2> QED BY <2>1, <2>2, <1>2
<1> QED BY <1>1, <1>2 DEF AnswersTrue

LEMMA EnqueueKeeps == ASSUME Inv, NEW s \in Slices, Enqueue(s) PROVE Inv'
<1>1. TypeOK'
  <2>1. Job(s) \in Jobs
    BY DEF Job, Jobs
  <2>2. jobs' \in [Ids -> Jobs \cup {NoJob}]
    BY <2>1 DEF Inv, TypeOK, Enqueue
  <2>3. lost' \subseteq Slices
    BY ConstAssumption DEF Inv, TypeOK, Enqueue, SlicesOf, Swept, Jobs
  <2>4. nextId' \in 1..(MaxId + 1)
    BY ConstAssumption DEF Inv, TypeOK, Enqueue, NextId, Ids
  <2> QED BY <2>2, <2>3, <2>4 DEF Inv, TypeOK, Enqueue, screen
<1>2. s \notin lost' /\ jobs[nextId] = NoJob /\ posted[s] = NoJob
  <2>1. posted[s] = NoJob /\ s \notin lost
    BY DEF Enqueue, Inv, TableTrue
  <2>2. s \notin SlicesOf(Swept)
    BY <2>1, ConstAssumption DEF SlicesOf, Swept, Inv, TableTrue, TypeOK
  <2>3. jobs[nextId] = NoJob
    BY DEF Enqueue, Inv, TableTrue, TypeOK, Ids
  <2> QED BY <2>1, <2>2, <2>3 DEF Enqueue
<1>3. TableTrue'
  <2>1. ASSUME NEW i \in Ids, jobs'[i] # NoJob
        PROVE  i < nextId' /\ posted'[jobs'[i].slice] = i /\ jobs'[i].slice \notin lost'
    <3>1. CASE i = nextId
      <4>1. jobs'[i] = Job(s)
        BY <3>1 DEF Enqueue, Inv, TypeOK
      <4>2. jobs'[i].slice = s
        BY <4>1 DEF Job
      <4> QED BY <3>1, <4>2, <1>2 DEF Enqueue, NextId, Inv, TypeOK, Ids
    <3>2. CASE i # nextId
      <4>1. jobs'[i] = jobs[i] /\ jobs[i] # NoJob /\ i \notin Swept
        BY <2>1, <3>2 DEF Enqueue, Inv, TypeOK
      <4>2. i < nextId /\ posted[jobs[i].slice] = i /\ jobs[i].slice \notin lost
        BY <4>1 DEF Inv, TableTrue
      <4>3. jobs[i].slice \in Slices /\ jobs[i].slice # s
        BY <4>1, <4>2, <1>2, ConstAssumption DEF Inv, TypeOK, Jobs
      <4>4. jobs[i].slice \notin SlicesOf(Swept)
        <5>1. ASSUME NEW j \in Swept, jobs[j].slice = jobs[i].slice PROVE FALSE
          BY <5>1, <4>1, <4>2 DEF Swept, Inv, TableTrue
        <5> QED BY <5>1 DEF SlicesOf
      <4>5. nextId' = nextId + 1 /\ nextId \in Int /\ i \in Int
        BY DEF Enqueue, NextId, Inv, TypeOK, Ids
      <4> QED BY <4>1, <4>2, <4>3, <4>4, <4>5 DEF Enqueue, Inv, TypeOK
    <3> QED BY <3>1, <3>2
  <2>2. ASSUME NEW q \in Slices, posted'[q] # NoJob, q \notin lost'
        PROVE  /\ jobs'[posted'[q]] # NoJob
               /\ jobs'[posted'[q]].slice = q
               /\ fate'[q] = IF jobs'[posted'[q]].status \in Outcomes
                             THEN jobs'[posted'[q]].status ELSE "pending"
    <3>1. CASE q = s
      <4>1. posted'[q] = nextId /\ jobs'[nextId] = Job(s) /\ fate'[q] = "pending"
        BY <3>1 DEF Enqueue, Inv, TypeOK
      <4>2. Job(s) \in Jobs /\ Job(s).slice = s /\ Job(s).status = "pending"
        BY DEF Job, Jobs
      <4>3. Job(s) # NoJob
        BY <4>2, ConstAssumption
      <4> QED BY <4>1, <4>2, <4>3, <3>1
    <3>2. CASE q # s
      <4>1. posted'[q] = posted[q] /\ fate'[q] = fate[q] /\ q \notin lost
        BY <3>2, <2>2 DEF Enqueue, Inv, TypeOK
      <4>2. /\ jobs[posted[q]] # NoJob /\ jobs[posted[q]].slice = q
            /\ fate[q] = IF jobs[posted[q]].status \in Outcomes
                         THEN jobs[posted[q]].status ELSE "pending"
        BY <4>1, <2>2 DEF Inv, TableTrue
      <4>3. posted[q] \in Ids /\ posted[q] # nextId /\ posted[q] \notin Swept
        BY <4>1, <4>2, <2>2, <1>2 DEF Inv, TypeOK, Enqueue, SlicesOf
      <4>4. jobs'[posted[q]] = jobs[posted[q]]
        BY <4>3 DEF Enqueue, Inv, TypeOK
      <4> QED BY <4>1, <4>2, <4>4
    <3> QED BY <3>1, <3>2
  <2>3. ASSUME NEW q \in Slices, posted'[q] = NoJob
        PROVE  fate'[q] = "none" /\ q \notin lost'
    <3>1. q # s /\ posted[q] = NoJob
      BY <2>3, ConstAssumption DEF Enqueue, Inv, TypeOK
    <3>2. fate[q] = "none" /\ q \notin lost
      BY <3>1 DEF Inv, TableTrue
    <3>3. q \notin SlicesOf(Swept)
      BY <3>1, ConstAssumption DEF SlicesOf, Swept, Inv, TableTrue, TypeOK
    <3> QED BY <3>1, <3>2, <3>3 DEF Enqueue, Inv, TypeOK
  <2> QED BY <2>1, <2>2, <2>3 DEF TableTrue
<1>4. EntriesTrue'
  <2>1. \A e \in Entries : posted[e.slice] = e.id => posted'[e.slice] = e.id
    BY <1>2, ConstAssumption DEF Enqueue, Entries, Inv, TypeOK
  <2>2. active' = active /\ rendered' = rendered /\ round' = round
    BY DEF Enqueue, screen
  <2>3. \A e \in active \cup rendered : e \in Entries /\ Named(e)
    BY DEF Inv, TypeOK, EntriesTrue
  <2>4. ASSUME NEW k \in Rounds, round[k] # Idle
        PROVE  /\ \A e \in round[k].left : posted'[e.slice] = e.id
               /\ round[k].at # Idle => posted'[round[k].at.slice] = round[k].at.id
    <3>1. round[k].left \subseteq Entries /\ round[k].at \in Entries \cup {Idle}
      BY <2>4 DEF Inv, TypeOK
    <3>2. /\ \A e \in round[k].left : Named(e)
          /\ round[k].at # Idle => Named(round[k].at)
      BY <2>4 DEF Inv, EntriesTrue
    <3> QED BY <3>1, <3>2, <2>1 DEF Named
  <2> QED BY <2>1, <2>2, <2>3, <2>4 DEF EntriesTrue, Named
<1>5. AnswersTrue'
  <2>1. ASSUME NEW k \in Rounds, round[k] # Idle, round[k].at # Idle,
               round[k].answer \in Outcomes, round[k].at.slice \notin lost'
        PROVE  fate'[round[k].at.slice] = round[k].answer
    <3>1. fate[round[k].at.slice] = round[k].answer
      BY <2>1 DEF Inv, AnswersTrue, Enqueue
    <3>2. fate[s] = "none"
      BY <1>2 DEF Inv, TableTrue
    <3> QED BY <3>1, <3>2, <2>1 DEF Enqueue, Inv, TypeOK, Entries
  <2>2. round' = round
    BY DEF Enqueue
  <2> QED BY <2>1, <2>2 DEF AnswersTrue
<1>6. SpinnerTrue'
  BY DEF Inv, SpinnerTrue, Enqueue, screen
<1> QED BY <1>1, <1>3, <1>4, <1>5, <1>6 DEF Inv

LEMMA RunKeeps == ASSUME Inv, NEW i \in Ids, Run(i) \/ Age(i) PROVE Inv'
<1>1. PICK r \in Jobs :
        /\ jobs' = [jobs EXCEPT ![i] = r] /\ jobs[i] \in Jobs
        /\ r.slice = jobs[i].slice
        /\ r.status \in Outcomes \/ jobs[i].status \in Outcomes => r.status = jobs[i].status
  <2>1. jobs[i] \in Jobs
    BY ConstAssumption DEF Run, Age, Inv, TypeOK
  <2>2. CASE Run(i)
    <3> DEFINE r == [jobs[i] EXCEPT !.status = "running"]
    <3>1. r \in Jobs /\ r.slice = jobs[i].slice /\ r.status = "running"
      BY <2>1 DEF Jobs
    <3> QED BY <2>1, <2>2, <3>1 DEF Run, Inv, TypeOK
  <2>3. CASE Age(i)
    <3> DEFINE r == [jobs[i] EXCEPT !.stale = TRUE]
    <3>1. r \in Jobs /\ r.slice = jobs[i].slice /\ r.status = jobs[i].status
      BY <2>1 DEF Jobs
    <3> QED BY <2>1, <2>3, <3>1 DEF Age, Inv, TypeOK
  <2> QED BY <2>2, <2>3
<1>2. UNCHANGED <<nextId, posted, fate, lost, restarts, screen, heard, round, told, upsets>>
  BY DEF Run, Age
<1>3. TypeOK'
  BY <1>1, <1>2 DEF Inv, TypeOK, screen
<1>4. TableTrue'
  <2>1. \A j \in Ids : /\ jobs'[j] # NoJob <=> jobs[j] # NoJob
                       /\ jobs[j] # NoJob => jobs'[j].slice = jobs[j].slice
                       /\ (IF jobs'[j].status \in Outcomes THEN jobs'[j].status ELSE "pending")
                          = (IF jobs[j].status \in Outcomes THEN jobs[j].status ELSE "pending")
    BY <1>1, ConstAssumption DEF Inv, TypeOK
  <2>2. \A s \in Slices : posted[s] # NoJob => posted[s] \in Ids
    BY DEF Inv, TypeOK
  <2> QED BY <1>2, <2>1, <2>2 DEF Inv, TableTrue
<1>5. EntriesTrue' /\ AnswersTrue' /\ SpinnerTrue'
  BY <1>2, BrowserKept
<1> QED BY <1>3, <1>4, <1>5 DEF Inv

LEMMA EndKeeps ==
    ASSUME Inv, NEW i \in Ids, NEW o \in Outcomes, End(i, o)
    PROVE  Inv' /\ fate[jobs[i].slice] = "pending" /\ jobs[i].slice \in Slices \ lost
<1>1. jobs[i] \in Jobs /\ jobs[i].slice \in Slices
  BY ConstAssumption DEF End, Inv, TypeOK, Jobs
<1>2. posted[jobs[i].slice] = i /\ jobs[i].slice \notin lost
  BY <1>1, ConstAssumption DEF Inv, TableTrue, End
<1>3. fate[jobs[i].slice] = "pending"
  BY <1>1, <1>2, ConstAssumption DEF Inv, TableTrue, End
<1> DEFINE r == [jobs[i] EXCEPT !.status = o]
<1>4. r \in Jobs /\ r.slice = jobs[i].slice /\ r.status = o
  BY <1>1 DEF Jobs
<1>5. jobs' = [jobs EXCEPT ![i] = r]
  BY DEF End
<1> HIDE DEF r
<1>6. TypeOK'
  BY <1>1, <1>4, <1>5 DEF Inv, TypeOK, End, screen
<1>7. TableTrue'
  <2>1. \A j \in Ids : /\ jobs'[j] # NoJob <=> jobs[j] # NoJob
                       /\ jobs[j] # NoJob => jobs'[j].slice = jobs[j].slice
                       /\ j # i => jobs'[j] = jobs[j]
    BY <1>1, <1>4, <1>5, ConstAssumption DEF Inv, TypeOK
  <2>2. jobs'[i] = r
    BY <1>5 DEF Inv, TypeOK
  <2>3. UNCHANGED <<posted, lost, nextId>>
    BY DEF End
  <2>4. \A i_1 \in Ids : jobs'[i_1] # NoJob =>
          i_1 < nextId' /\ posted'[jobs'[i_1].slice] = i_1 /\ jobs'[i_1].slice \notin lost'
    BY <2>1, <2>3 DEF Inv, TableTrue
  <2>5. ASSUME NEW s \in Slices, posted[s] # NoJob, s \notin lost
        PROVE  /\ jobs'[posted[s]] # NoJob
               /\ jobs'[posted[s]].slice = s
               /\ fate'[s] = IF jobs'[posted[s]].status \in Outcomes
                             THEN jobs'[posted[s]].status ELSE "pending"
    <3>0. posted[s] \in Ids /\ jobs[posted[s]] # NoJob /\ jobs[posted[s]].slice = s
      BY <2>5 DEF Inv, TypeOK, TableTrue
    <3>1. CASE s = jobs[i].slice
      BY <3>0, <3>1, <1>2, <2>1, <2>2, <1>4 DEF End, Inv, TypeOK
    <3>2. CASE s # jobs[i].slice
      BY <3>0, <3>2, <2>1, <2>5 DEF End, Inv, TypeOK, TableTrue
    <3> QED BY <3>1, <3>2
  <2>6. \A s \in Slices : posted[s] = NoJob => fate'[s] = "none" /\ s \notin lost
    BY <1>1, <1>2, ConstAssumption DEF Inv, TypeOK, TableTrue, End
  <2> QED BY <2>3, <2>4, <2>5, <2>6 DEF TableTrue
<1>8. EntriesTrue' /\ AnswersTrue' /\ SpinnerTrue'
  BY <1>3, <1>1, BrowserKept DEF End, Inv, TypeOK
<1> QED BY <1>1, <1>2, <1>3, <1>6, <1>7, <1>8 DEF Inv

LEMMA RestartKeeps == ASSUME Inv, Restart PROVE Inv'
<1>1. TypeOK'
  <2>1. lost' \subseteq Slices
    BY ConstAssumption DEF Inv, TypeOK, Restart, SlicesOf, Jobs
  <2> QED BY <2>1, ConstAssumption DEF Inv, TypeOK, Restart, screen, Ids
<1>2. TableTrue'
  <2>1. \A s \in Slices : posted[s] # NoJob => s \in lost'
    <3>1. ASSUME NEW s \in Slices, posted[s] # NoJob, s \notin lost PROVE s \in SlicesOf(Ids)
      <4>1. posted[s] \in Ids /\ jobs[posted[s]] # NoJob /\ jobs[posted[s]].slice = s
        BY <3>1 DEF Inv, TypeOK, TableTrue
      <4> QED BY <4>1 DEF SlicesOf
    <3> QED BY <3>1 DEF Restart
  <2>2. \A s \in Slices : posted[s] = NoJob => s \notin lost'
    <3>1. ASSUME NEW s \in SlicesOf(Ids) PROVE s \in Slices /\ posted[s] # NoJob
      BY ConstAssumption DEF SlicesOf, Inv, TableTrue, TypeOK, Jobs
    <3> QED BY <3>1 DEF Restart, Inv, TableTrue
  <2>3. \A i \in Ids : jobs'[i] = NoJob
    BY DEF Restart
  <2> QED BY <2>1, <2>2, <2>3 DEF TableTrue, Restart, Inv
<1>3. EntriesTrue' /\ AnswersTrue' /\ SpinnerTrue'
  BY BrowserKept DEF Restart
<1> QED BY <1>1, <1>2, <1>3 DEF Inv

\* Steps of the browser leave the table alone.
LEMMA TableKept ==
    ASSUME Inv, UNCHANGED server
    PROVE  TableTrue'
BY DEF Inv, TableTrue, server

LEMMA TrackKeeps == ASSUME Inv, NEW s \in Slices, Track(s) PROVE Inv'
<1> DEFINE e == [id |-> posted[s], slice |-> s]
<1>1. posted[s] \in Ids /\ e \in Entries /\ Named(e) /\ e.id = posted[s]
  BY DEF Track, Inv, TypeOK, Entries, Named
<1>2. active' = active \/ active' = active \cup {e}
  BY DEF Track
<1>3. {f.id : f \in active'} = {f.id : f \in active} \cup {posted[s]}
  <2>1. CASE \E f \in active : f.id = posted[s]
    BY <2>1 DEF Track
  <2>2. CASE ~ \E f \in active : f.id = posted[s]
    <3>1. active' = active \cup {e}
      BY <2>2 DEF Track
    <3> QED BY <3>1, <1>1
  <2> QED BY <2>1, <2>2
<1> HIDE DEF e
<1>4. TypeOK'
  BY <1>1, <1>2 DEF Inv, TypeOK, Track, server
<1>5. EntriesTrue' /\ AnswersTrue'
  BY <1>1, <1>2 DEF Inv, EntriesTrue, AnswersTrue, Named, Track, server
<1>6. SpinnerTrue'
  BY <1>3 DEF Inv, SpinnerTrue, Track
<1>7. TableTrue'
  BY TableKept DEF Track
<1> QED BY <1>4, <1>5, <1>6, <1>7 DEF Inv

LEMMA ScreenKeeps == ASSUME Inv, Render \/ Tick \/ \E i \in Ids : Dismiss(i) PROVE Inv'
<1>1. TypeOK' /\ EntriesTrue' /\ AnswersTrue' /\ SpinnerTrue'
  <2>1. CASE Render
    BY <2>1 DEF Inv, TypeOK, EntriesTrue, AnswersTrue, Named, SpinnerTrue, Render, server
  <2>2. CASE Tick \/ \E i \in Ids : Dismiss(i)
    <3>1. /\ UNCHANGED <<server, active, rendered, started, heard, round, told>>
          /\ toasts' \subseteq started /\ upsets' \in Nat
      BY <2>2 DEF Tick, Dismiss, Inv, TypeOK, SpinnerTrue
    <3>2. started \subseteq Ids
      BY DEF Inv, TypeOK
    <3> QED BY <3>1, <3>2
         DEF Inv, TypeOK, EntriesTrue, AnswersTrue, Named, SpinnerTrue, server
  <2> QED BY <2>1, <2>2
<1>2. TableTrue'
  BY TableKept DEF Render, Tick, Dismiss
<1> QED BY <1>1, <1>2 DEF Inv

LEMMA PollKeeps == ASSUME Inv, NEW k \in Rounds, Poll(k) PROVE Inv'
<1> DEFINE r == [left |-> rendered, at |-> Idle, answer |-> "none"]
<1>1. /\ r \in [left : SUBSET Entries, at : Entries \cup {Idle}, answer : Answers]
      /\ r.left = rendered /\ r.at = Idle
  BY DEF Inv, TypeOK, Answers
<1>2. round' = [round EXCEPT ![k] = r]
  BY DEF Poll
<1> HIDE DEF r
<1>3. TypeOK'
  BY <1>1, <1>2 DEF Inv, TypeOK, Poll, server, screen
<1>4. round'[k] = r /\ \A j \in Rounds \ {k} : round'[j] = round[j]
  BY <1>2 DEF Inv, TypeOK
<1>5. EntriesTrue' /\ AnswersTrue' /\ SpinnerTrue'
  BY <1>1, <1>4
  DEF Inv, EntriesTrue, AnswersTrue, SpinnerTrue, Named, Poll, server, screen
<1>6. TableTrue'
  BY TableKept DEF Poll
<1> QED BY <1>3, <1>5, <1>6 DEF Inv

LEMMA AskKeeps == ASSUME Inv, NEW k \in Rounds, NEW e \in Entries, Ask(k, e) PROVE Inv'
<1> DEFINE a == IF jobs[e.id] = NoJob THEN "open"
                ELSE IF jobs[e.id].status \in Outcomes THEN jobs[e.id].status
                ELSE "open"
<1>0. /\ a \in Answers
      /\ a \in Outcomes => jobs[e.id] # NoJob /\ jobs[e.id].status = a
  BY DEF Answers
<1>1. round' = [round EXCEPT ![k] = [left |-> round[k].left \ {e}, at |-> e, answer |-> a]]
  BY DEF Ask
<1> HIDE DEF a
<1> DEFINE r == [left |-> round[k].left \ {e}, at |-> e, answer |-> a]
<1>2. /\ r \in [left : SUBSET Entries, at : Entries \cup {Idle}, answer : Answers]
      /\ r.left \subseteq round[k].left /\ r.at = e /\ r.answer = a
  BY <1>0 DEF Inv, TypeOK, Ask
<1>3. round' = [round EXCEPT ![k] = r]
  BY <1>1
<1> HIDE DEF r
<1>4. TypeOK'
  BY <1>2, <1>3 DEF Inv, TypeOK, Ask, server, screen
<1>5. round'[k] = r /\ \A j \in Rounds \ {k} : round'[j] = round[j]
  BY <1>3 DEF Inv, TypeOK
<1>6. posted[e.slice] = e.id /\ e.slice \in Slices /\ e.id \in Ids
  BY DEF Ask, Inv, EntriesTrue, Named, Entries
<1>7. a \in Outcomes /\ e.slice \notin lost => fate[e.slice] = a
  BY <1>0, <1>6, ConstAssumption DEF Inv, TableTrue
<1>8. EntriesTrue'
  BY <1>2, <1>5, <1>6 DEF Inv, EntriesTrue, Named, Ask, server, screen
<1>9. AnswersTrue' /\ SpinnerTrue'
  BY <1>2, <1>5, <1>7 DEF Inv, AnswersTrue, SpinnerTrue, Ask, server, screen
<1>10. TableTrue'
  BY TableKept DEF Ask
<1> QED BY <1>4, <1>8, <1>9, <1>10 DEF Inv

\* A round that turns to its next entry carries no answer and no new entry.
LEMMA AdvanceKeeps ==
    ASSUME Inv, NEW k \in Rounds, round[k] # Idle, Advance(k)
    PROVE  /\ round' \in [Rounds -> {Idle} \cup
                  [left : SUBSET Entries, at : Entries \cup {Idle}, answer : Answers]]
           /\ \A j \in Rounds :
                \/ round'[j] = round[j]
                \/ round'[j] = Idle
                \/ /\ round[j] # Idle
                   /\ round'[j].left = round[j].left /\ round'[j].at = Idle
<1> DEFINE r == [left |-> round[k].left, at |-> Idle, answer |-> "none"]
<1>1. /\ r \in [left : SUBSET Entries, at : Entries \cup {Idle}, answer : Answers]
      /\ r.left = round[k].left /\ r.at = Idle
  BY DEF Inv, TypeOK, Answers
<1>2. round' = [round EXCEPT ![k] = IF round[k].left = {} THEN Idle ELSE r]
  BY DEF Advance
<1> HIDE DEF r
<1> QED BY <1>1, <1>2 DEF Inv, TypeOK

LEMMA MissKeeps == ASSUME Inv, NEW k \in Rounds, Miss(k) PROVE Inv'
<1>1. round[k] # Idle /\ Advance(k)
  BY DEF Miss
<1>2. TypeOK'
  BY <1>1, AdvanceKeeps DEF Inv, TypeOK, Miss, server, screen
<1>3. EntriesTrue' /\ AnswersTrue' /\ SpinnerTrue'
  BY <1>1, AdvanceKeeps
  DEF Inv, EntriesTrue, AnswersTrue, SpinnerTrue, Named, Miss, server, screen
<1>4. TableTrue'
  BY TableKept DEF Miss
<1> QED BY <1>2, <1>3, <1>4 DEF Inv

\* An entry, its clock and its toast go together, for they go by the id.
LEMMA ForgetKeeps ==
    ASSUME Inv, NEW e \in Entries, Forget(e)
    PROVE  /\ active' \subseteq active /\ started' \subseteq Ids /\ toasts' \subseteq Ids
           /\ SpinnerTrue'
<1>1. active' \subseteq active /\ started' \subseteq Ids /\ toasts' \subseteq Ids
  BY DEF Forget, Inv, TypeOK
<1>2. {f.id : f \in active'} = {f.id : f \in active} \ {e.id}
  BY DEF Forget
<1> QED BY <1>1, <1>2 DEF Forget, Inv, SpinnerTrue

LEMMA ReceiveKeeps == ASSUME Inv, NEW k \in Rounds, Receive(k) PROVE Inv'
<1>1. round[k] # Idle /\ round[k].at \in Entries /\ Advance(k)
  BY DEF Receive, Inv, TypeOK
<1>2. /\ active' \subseteq active /\ started' \subseteq Ids /\ toasts' \subseteq Ids
      /\ SpinnerTrue' /\ rendered' = rendered
      /\ told' \in [Slices -> {"none"} \cup Outcomes]
  <2>1. CASE round[k].answer \in Outcomes
    <3>1. round[k].at.slice \in Slices
      BY <1>1 DEF Entries
    <3>2. Forget(round[k].at) /\ rendered' = rendered
      BY <2>1 DEF Receive
    <3>3. told' = [told EXCEPT ![round[k].at.slice] = round[k].answer]
      BY <2>1 DEF Receive
    <3>4. /\ active' \subseteq active /\ started' \subseteq Ids /\ toasts' \subseteq Ids
          /\ SpinnerTrue'
      BY <1>1, <3>2, ForgetKeeps
    <3> QED BY <2>1, <3>1, <3>2, <3>3, <3>4 DEF Inv, TypeOK
  <2>2. CASE round[k].answer \notin Outcomes
    BY <2>2 DEF Receive, Inv, TypeOK, SpinnerTrue, screen
  <2> QED BY <2>1, <2>2
<1>3. TypeOK'
  BY <1>1, <1>2, AdvanceKeeps DEF Inv, TypeOK, Receive, server
<1>4. EntriesTrue' /\ AnswersTrue'
  BY <1>1, <1>2, AdvanceKeeps DEF Inv, EntriesTrue, AnswersTrue, Named, Receive, server
<1>5. TableTrue'
  BY TableKept DEF Receive
<1> QED BY <1>2, <1>3, <1>4, <1>5 DEF Inv

LEMMA Inductive == ASSUME Inv, [Next]_vars PROVE Inv'
<1>1. CASE UNCHANGED vars
  BY <1>1 DEF vars, server, screen, Inv, TypeOK, TableTrue, EntriesTrue, AnswersTrue,
              Named, SpinnerTrue
<1>2. ASSUME NEW s \in Slices, Enqueue(s) \/ Track(s) PROVE Inv'
  BY <1>2, EnqueueKeeps, TrackKeeps
<1>3. ASSUME NEW i \in Ids, Run(i) \/ Age(i) PROVE Inv'
  BY <1>3, RunKeeps
<1>4. ASSUME NEW i \in Ids, NEW o \in Outcomes, End(i, o) PROVE Inv'
  BY <1>4, EndKeeps
<1>5. CASE Restart \/ Render \/ Tick \/ \E i \in Ids : Dismiss(i)
  BY <1>5, RestartKeeps, ScreenKeeps
<1>6. ASSUME NEW k \in Rounds, Poll(k) \/ Receive(k) \/ Miss(k) PROVE Inv'
  BY <1>6, PollKeeps, ReceiveKeeps, MissKeeps
<1>7. ASSUME NEW k \in Rounds, NEW e \in Entries, Ask(k, e) PROVE Inv'
  BY <1>7, AskKeeps
<1> QED BY <1>1, <1>2, <1>3, <1>4, <1>5, <1>6, <1>7 DEF Next, RoundStep

\* The inductive invariant holds in every behaviour of the tracker.
LEMMA Invariant == Spec => []Inv
BY InitInv, Inductive, PTL DEF Spec

\* No progress toast but that of a tracked job, and no tracked job without the
\* clock its toast is drawn by, however rounds, ticks, renders and the user's
\* dismissals interleave (completeJob, renderProgressToast).
THEOREM NoSpinnerLeft == Spec => []OnlyTrackedSpin
<1>1. Inv => OnlyTrackedSpin
  BY DEF Inv, SpinnerTrue, OnlyTrackedSpin
<1> QED BY <1>1, Invariant, PTL
-----------------------------------------------------------------------------
(* The refinement: each step of the tracker is a step of SliceReports, or   *)
(* one that its user cannot see.                                            *)

LEMMA InitReports == Init => Reports!Init
BY DEF Init, Reports!Init

LEMMA StepReports ==
    ASSUME Inv, [Next]_vars PROVE [Reports!Next]_<<fate, told, lost>>
<1> USE DEF Reports!Outcomes
<1>1. ASSUME NEW s \in Slices, Enqueue(s) PROVE Reports!Next
  <2>1. fate[s] = "none" /\ lost \subseteq lost' /\ lost' \subseteq Slices
    <3>1. Inv'
      BY <1>1, EnqueueKeeps
    <3> QED BY <1>1, <3>1 DEF Enqueue, Inv, TypeOK, TableTrue
  <2>2. Reports!Begin(s)
    BY <1>1, <2>1 DEF Enqueue, Reports!Begin
  <2> QED BY <2>1, <2>2 DEF Reports!Next, Reports!Start
<1>2. ASSUME NEW i \in Ids, NEW o \in Outcomes, End(i, o) PROVE Reports!Next
  <2>1. fate[jobs[i].slice] = "pending" /\ jobs[i].slice \in Slices \ lost
    BY <1>2, EndKeeps
  <2>2. Reports!Decide(jobs[i].slice, o)
    BY <1>2, <2>1 DEF End, Reports!Decide
  <2> QED BY <2>1, <2>2 DEF Reports!Next
<1>3. CASE Restart
  <2>1. Inv'
    BY <1>3, RestartKeeps
  <2>2. Reports!Drop
    BY <1>3, <2>1 DEF Restart, Inv, TypeOK, Reports!Drop
  <2> QED BY <2>2 DEF Reports!Next
<1>4. ASSUME NEW k \in Rounds, Receive(k) PROVE [Reports!Next]_<<fate, told, lost>>
  <2>1. CASE round[k].answer \in Outcomes
    <3>1. round[k].at \in Entries /\ round[k].at.slice \in Slices
      BY <1>4 DEF Receive, Inv, TypeOK, Entries
    <3>2. round[k].at.slice \in lost \/ fate[round[k].at.slice] = round[k].answer
      BY <1>4, <2>1 DEF Receive, Inv, AnswersTrue
    <3>3. Reports!Tell(round[k].at.slice, round[k].answer)
      BY <1>4, <2>1, <3>2 DEF Receive, Reports!Tell, server
    <3> QED BY <2>1, <3>1, <3>3 DEF Reports!Next
  <2>2. CASE round[k].answer \notin Outcomes
    BY <1>4, <2>2 DEF Receive, server
  <2> QED BY <2>1, <2>2
<1>5. ASSUME NEW s \in Slices, Track(s) PROVE UNCHANGED <<fate, told, lost>>
  BY <1>5 DEF Track, server
<1>6. ASSUME NEW i \in Ids, Run(i) \/ Age(i) PROVE UNCHANGED <<fate, told, lost>>
  BY <1>6 DEF Run, Age
<1>7. CASE Render \/ Tick \/ (\E i \in Ids : Dismiss(i)) \/ UNCHANGED vars
  BY <1>7 DEF Render, Tick, Dismiss, server, vars
<1>8. ASSUME NEW k \in Rounds, Poll(k) \/ Miss(k) \/ \E e \in Entries : Ask(k, e)
      PROVE  UNCHANGED <<fate, told, lost>>
  BY <1>8 DEF Poll, Miss, Ask, server
<1> QED BY <1>1, <1>2, <1>3, <1>4, <1>5, <1>6, <1>7, <1>8 DEF Next, RoundStep

\* What the user is told of a slice is how it ended, for every number of
\* slices, ids and overlapping rounds, as long as the server knows the slice
\* (completeJob, get_slice_job).
THEOREM ReportsTrue == Spec => ReportsKept
<1>1. Spec => Init /\ [][Next]_vars
  BY PTL DEF Spec
<1>2. Inv /\ [Next]_vars => [Reports!Next]_<<fate, told, lost>>
  BY StepReports
<1> QED BY <1>1, <1>2, InitReports, Invariant, PTL DEF ReportsKept, Reports!Spec
=============================================================================
