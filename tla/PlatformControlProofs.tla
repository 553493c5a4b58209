------------------------ MODULE PlatformControlProofs ------------------------
(***************************************************************************)
(* What PlatformControl guarantees for any number of requests, keys, users, *)
(* sessions and revisions, whatever fails: proofs with TLAPS.               *)
(***************************************************************************)
EXTENDS PlatformControl, TLAPS

\* a request that has got past the grant knows its command
AskedOf(r) == at[r] \notin {"new", "rejected"} => ask[r] \in Commands

\* a request at work has the row of its key, made for its command and open
HoldsRow(r) ==
  at[r] \in Working =>
    /\ bound[Key(r)] = ask[r]
    /\ row[Key(r)] = IF at[r] = "queued" THEN "queued" ELSE "dispatching"

\* and no other request works on it
Alone(r) ==
  \A q \in Requests :
    at[r] \in Working /\ at[q] \in Working /\ Key(q) = Key(r) => q = r

\* nothing has been sent before its POST, and nothing for a key without a row
NotSentYet(r) == at[r] \in {"queued", "check", "lock"} => sent[Key(r)] = 0
RowFirst == \A k \in Keys : row[k] = "none" => sent[k] = 0

\* an answer keeps the row it was taken from
HoldsAnswer(r) ==
  at[r] = "answered" => row[Key(r)] # "none" /\ bound[Key(r)] = ask[r]

Ledger ==
  /\ \A r \in Requests :
       AskedOf(r) /\ HoldsRow(r) /\ Alone(r) /\ NotSentYet(r) /\ HoldsAnswer(r)
  /\ RowFirst
  /\ OneDispatch

IInv == TypeOK /\ Ledger

USE DEF Working, Over, Stages, Open, Settled, JobStates
-----------------------------------------------------------------------------
\* What the printer does with an operation leaves it in a job state.
LEMMA EffectTyped ==
  ASSUME NEW op \in {"pause", "resume", "cancel"}, NEW s \in JobStates
  PROVE  Effect(op, s) \in JobStates
<1>1. \E t \in JobStates : Reached(op, t)
  BY DEF Reached
<1>2. (CHOOSE t \in JobStates : Reached(op, t)) \in JobStates
  BY <1>1
<1> QED
  BY <1>2 DEF Effect

\* The key of a known command is a key.
LEMMA KeyTyped ==
  ASSUME NEW r \in Requests, ask[r] \in Commands
  PROVE  /\ Key(r) \in Keys
         /\ ask[r].op \in {"pause", "resume", "cancel"}
         /\ ask[r].rev \in 1..MaxRev
  BY ConstAssumption DEF Key, Commands

LEMMA InitIInv == Init => IInv
<1> SUFFICES ASSUME Init PROVE IInv
  OBVIOUS
<1>1. TypeOK
  <2>1. /\ row \in [Keys -> {"none"} \cup Open \cup Settled]
        /\ at \in [Requests -> Stages]
        /\ job \in JobStates /\ route \in {"idle", "moved", "off", "on"}
        /\ live \in {"none", "down", "up"} /\ seen \in JobStates \cup {"none"}
    BY DEF Init
  <2>2. /\ bound \in [Keys -> Commands \cup {NoCommand}]
        /\ ask \in [Requests -> Commands \cup {NoCommand}]
    BY DEF Init
  <2>3. /\ mine \in [Requests -> 0..MaxEpoch] /\ epoch \in 0..MaxEpoch
        /\ liveRev \in 1..MaxRev /\ revision \in 1..MaxRev
        /\ sent \in [Keys -> Nat]
    BY ConstAssumption DEF Init
  <2>4. /\ liveGrant \in BOOLEAN /\ enabled \in BOOLEAN /\ granted \in BOOLEAN
    BY DEF Init
  <2> QED
    BY <2>1, <2>2, <2>3, <2>4 DEF TypeOK
<1>2. Ledger
  BY DEF Init, Ledger, AskedOf, HoldsRow, Alone, NotSentYet, HoldsAnswer, RowFirst, OneDispatch
<1> QED
  BY <1>1, <1>2 DEF IInv

\* Steps that change neither the ledger, nor where a request stands, nor what
\* was sent, keep the invariant if they keep the types.
LEMMA LedgerKept ==
  ASSUME Ledger, UNCHANGED <<row, bound, at, ask, sent>>
  PROVE  Ledger'
<1>1. Ledger = Ledger'
  BY DEF Ledger, AskedOf, HoldsRow, Alone, NotSentYet, HoldsAnswer, RowFirst, OneDispatch, Key
<1> QED
  BY <1>1

\* Steps of the routes, the session and the printer do not touch the ledger.
LEMMA EnvironmentIInv ==
  ASSUME IInv, Source \/ PanelActs
  PROVE  IInv'
<1> USE DEF IInv
<1>1. TypeOK'
  <2>1. CASE EndpointChanges
    BY <2>1 DEF EndpointChanges, SessionEnds, TypeOK, ledgerVars, requestVars
  <2>2. CASE EndpointCommits
    <3>1. revision' \in 1..MaxRev
      BY <2>2, ConstAssumption DEF EndpointCommits, TypeOK
    <3> QED
      BY <2>2, <3>1 DEF EndpointCommits, TypeOK, ledgerVars, requestVars, sessionVars
  <2>3. CASE TurnOff \/ TurnOn \/ Acknowledge
    BY <2>3 DEF TurnOff, TurnOn, Acknowledge, TypeOK, ledgerVars, requestVars, sessionVars
  <2>4. CASE TurnedOff
    BY <2>4 DEF TurnedOff, SessionEnds, TypeOK, ledgerVars, requestVars
  <2>5. CASE TurnedOn
    <3>1. epoch' \in 0..MaxEpoch
      BY <2>5, ConstAssumption DEF TurnedOn, SessionStarts, TypeOK
    <3> QED
      BY <2>5, <3>1 DEF TurnedOn, SessionStarts, TypeOK, ledgerVars, requestVars
  <2>6. CASE Connects \/ Disconnects \/ StatusStale
    BY <2>6 DEF Connects, Disconnects, StatusStale, TypeOK, ledgerVars, requestVars, sourceVars
  <2>7. CASE StatusComes
    BY <2>7 DEF StatusComes, TypeOK, ledgerVars, requestVars, sourceVars
  <2>8. CASE PanelActs
    BY <2>8 DEF PanelActs, TypeOK, ledgerVars, requestVars, sessionVars, sourceVars
  <2> QED
    BY <2>1, <2>2, <2>3, <2>4, <2>5, <2>6, <2>7, <2>8 DEF Source
<1>2. UNCHANGED <<row, bound, at, ask, sent>>
  BY DEF Source, PanelActs, EndpointChanges, EndpointCommits, TurnOff, TurnedOff, TurnOn,
         Acknowledge, TurnedOn, Connects, Disconnects, StatusComes, StatusStale,
         ledgerVars, requestVars
<1> QED
  BY <1>1, <1>2, LedgerKept

LEMMA ReceiveIInv ==
  ASSUME IInv, NEW r \in Requests, NEW k \in Keys, NEW op \in Ops, NEW u \in Users,
         Receive(r, k, op, u)
  PROVE  IInv'
<1> USE DEF IInv
<1> DEFINE c == [key |-> k, op |-> op, by |-> u, rev |-> revision]
<1>1. c \in Commands /\ c.key = k
  BY DEF Commands, TypeOK
<1>2. /\ at[r] = "new" /\ UNCHANGED <<row, bound, sent>>
      /\ \/ at' = [at EXCEPT ![r] = "rejected"] /\ ask' = ask
         \/ /\ ask' = [ask EXCEPT ![r] = c]
            /\ \/ at' = [at EXCEPT ![r] = "insert"]
               \/ at' = [at EXCEPT ![r] = "conflict"]
               \/ at' = [at EXCEPT ![r] = "answered"] /\ row[k] # "none" /\ bound[k] = c
  BY <1>1 DEF Receive, Replay, Same, Go, ledgerVars
<1>3. at' \in [Requests -> Stages] /\ ask' \in [Requests -> Commands \cup {NoCommand}]
  BY <1>1, <1>2 DEF TypeOK
<1>4. TypeOK'
  BY <1>3 DEF Receive, TypeOK, ledgerVars, sessionVars, sourceVars
<1>5. \A q \in Requests : q # r => at'[q] = at[q] /\ ask'[q] = ask[q]
  BY <1>2 DEF TypeOK
<1>6. at'[r] \notin Working /\ at'[r] # "new"
      /\ (at'[r] # "rejected" => ask'[r] = c)
      /\ (at'[r] = "answered" => row[k] # "none" /\ bound[k] = c)
  BY <1>2 DEF TypeOK
<1>7. Ledger'
  <2> SUFFICES ASSUME NEW q \in Requests
               PROVE  (AskedOf(q) /\ HoldsRow(q) /\ Alone(q) /\ NotSentYet(q) /\ HoldsAnswer(q))'
    BY <1>2 DEF Ledger, RowFirst, OneDispatch
  <2>1. AskedOf(q)'
    BY <1>1, <1>5, <1>6 DEF Ledger, AskedOf
  <2>2. HoldsRow(q)' /\ NotSentYet(q)'
    BY <1>2, <1>5, <1>6 DEF Ledger, HoldsRow, NotSentYet, Key
  <2>3. Alone(q)'
    BY <1>5, <1>6 DEF Ledger, Alone, Key
  <2>4. HoldsAnswer(q)'
    BY <1>1, <1>2, <1>5, <1>6 DEF Ledger, HoldsAnswer, Key
  <2> QED
    BY <2>1, <2>2, <2>3, <2>4
<1> QED
  BY <1>4, <1>7

\* A step of a request that works on its row and goes on working, or ends
\* without an answer, with the row, the commands and the count as they were.
LEMMA StageIInv ==
  ASSUME IInv, NEW r \in Requests, NEW next,
         at[r] \in Working \cup {"insert"},
         next \in {"gone"} \/ (at[r] \in Working \ {"queued"} /\ next \in Working \ {"queued"}),
         next \in {"check", "lock"} => at[r] \in {"check", "lock"},
         Go(r, next), UNCHANGED <<row, bound, ask, sent>>
  PROVE  Ledger' /\ at' \in [Requests -> Stages]
<1> USE DEF IInv
<1>1. at' \in [Requests -> Stages] /\ at'[r] = next
  BY DEF Go, TypeOK
<1>2. \A q \in Requests : q # r => at'[q] = at[q]
  BY DEF Go, TypeOK
<1>3. Ledger'
  <2> SUFFICES ASSUME NEW q \in Requests
               PROVE  (AskedOf(q) /\ HoldsRow(q) /\ Alone(q) /\ NotSentYet(q) /\ HoldsAnswer(q))'
    BY DEF Ledger, RowFirst, OneDispatch
  <2>1. AskedOf(q)'
    BY <1>1, <1>2 DEF Ledger, AskedOf
  <2>2. HoldsRow(q)'
    BY <1>1, <1>2 DEF Ledger, HoldsRow, Key
  <2>3. NotSentYet(q)'
    BY <1>1, <1>2 DEF Ledger, NotSentYet, Key
  <2>4. Alone(q)'
    BY <1>1, <1>2 DEF Ledger, Alone, Key
  <2>5. HoldsAnswer(q)'
    BY <1>1, <1>2 DEF Ledger, HoldsAnswer, Key
  <2> QED
    BY <2>1, <2>2, <2>3, <2>4, <2>5
<1> QED
  BY <1>1, <1>3

LEMMA StagesIInv ==
  ASSUME IInv, NEW r \in Requests,
         \/ CommitFails(r) \/ Check(r) \/ PostAccepted(r) \/ PostFails(r)
         \/ Confirm(r) \/ ConfirmGivesUp(r) \/ TimesOut(r)
  PROVE  IInv'
<1> USE DEF IInv
<1>1. CASE CommitFails(r)
  <2>1. at[r] \in {"insert", "queued", "good", "bad"} /\ Go(r, "gone")
        /\ UNCHANGED <<row, bound, ask, sent>>
    BY <1>1 DEF CommitFails, ledgerVars
  <2>2. Ledger' /\ at' \in [Requests -> Stages]
    BY <2>1, StageIInv
  <2> QED
    BY <1>1, <2>2 DEF CommitFails, TypeOK, ledgerVars, sessionVars, sourceVars
<1>2. CASE Check(r)
  <2>1. PICK next \in {"lock", "bad"} : Go(r, next)
    BY <1>2 DEF Check
  <2>2. at[r] = "check" /\ UNCHANGED <<row, bound, ask, sent>>
    BY <1>2 DEF Check, ledgerVars
  <2>3. Ledger' /\ at' \in [Requests -> Stages]
    BY <2>1, <2>2, StageIInv
  <2>4. mine' \in [Requests -> 0..MaxEpoch]
    BY <1>2 DEF Check, TypeOK
  <2> QED
    BY <1>2, <2>3, <2>4 DEF Check, TypeOK, ledgerVars, sessionVars, sourceVars
<1>3. CASE PostAccepted(r) \/ PostFails(r) \/ TimesOut(r)
  <2>1. PICK next \in {"confirm", "bad"} : Go(r, next)
    BY <1>3 DEF PostAccepted, PostFails, TimesOut
  <2>2. at[r] \in {"lock", "posting", "confirm"} /\ UNCHANGED <<row, bound, ask, sent>>
    BY <1>3 DEF PostAccepted, PostFails, TimesOut, TimedStages, ledgerVars
  <2>3. Ledger' /\ at' \in [Requests -> Stages]
    BY <2>1, <2>2, StageIInv
  <2>4. ask[r] \in Commands /\ job \in JobStates
    BY <2>2 DEF Ledger, AskedOf, TypeOK
  <2>5. job' \in JobStates
    BY <1>3, <2>4, KeyTyped, EffectTyped DEF PostAccepted, PostFails, TimesOut
  <2>6. UNCHANGED <<row, bound, ask, mine, sessionVars, sourceVars, sent>>
    BY <1>3 DEF PostAccepted, PostFails, TimesOut, ledgerVars
  <2> QED
    BY <2>3, <2>5, <2>6 DEF TypeOK, sessionVars, sourceVars
<1>4. CASE Confirm(r) \/ ConfirmGivesUp(r)
  <2>1. PICK next \in {"good", "bad"} : Go(r, next)
    BY <1>4 DEF Confirm, ConfirmGivesUp
  <2>2. at[r] = "confirm" /\ UNCHANGED <<row, bound, ask, sent>>
    BY <1>4 DEF Confirm, ConfirmGivesUp, ledgerVars
  <2>3. Ledger' /\ at' \in [Requests -> Stages]
    BY <2>1, <2>2, StageIInv
  <2>4. UNCHANGED <<row, bound, ask, mine, sessionVars, sourceVars, job, sent>>
    BY <1>4 DEF Confirm, ConfirmGivesUp, ledgerVars
  <2> QED
    BY <2>3, <2>4 DEF TypeOK, sessionVars, sourceVars
<1> QED
  BY <1>1, <1>2, <1>3, <1>4

\* Only a key without a row gets one: no other request works on it, and nothing
\* has been sent for it.
LEMMA InsertIInv ==
  ASSUME IInv, NEW r \in Requests, Insert(r)
  PROVE  IInv'
<1> USE DEF IInv
<1>1. at[r] = "insert" /\ ask[r] \in Commands /\ Key(r) \in Keys
  BY KeyTyped DEF Insert, Ledger, AskedOf
<1>2. UNCHANGED <<ask, sent, mine, sessionVars, sourceVars, job>>
  BY DEF Insert
<1>3. \A q \in Requests : at[q] \in Stages
  BY DEF TypeOK
<1>4. CASE KeyFree(r)
  <2>1. /\ row' = [row EXCEPT ![Key(r)] = "queued"]
        /\ bound' = [bound EXCEPT ![Key(r)] = ask[r]]
        /\ at' = [at EXCEPT ![r] = "queued"]
        /\ row[Key(r)] = "none"
    BY <1>4 DEF Insert, Go, KeyFree
  <2>2. at'[r] = "queued" /\ \A q \in Requests : q # r => at'[q] = at[q]
    BY <2>1 DEF TypeOK
  <2>3. /\ row'[Key(r)] = "queued" /\ bound'[Key(r)] = ask[r]
        /\ \A k \in Keys : k # Key(r) => row'[k] = row[k] /\ bound'[k] = bound[k]
    BY <1>1, <2>1 DEF TypeOK
  <2>4. \A q \in Requests : at[q] \in Working \cup {"answered"} =>
          Key(q) # Key(r) /\ Key(q) \in Keys
    <3> SUFFICES ASSUME NEW q \in Requests, at[q] \in Working \cup {"answered"}
                 PROVE  Key(q) # Key(r) /\ Key(q) \in Keys
      OBVIOUS
    <3>1. ask[q] \in Commands
      BY DEF Ledger, AskedOf
    <3>2. row[Key(q)] # "none"
      BY DEF Ledger, HoldsRow, HoldsAnswer
    <3> QED
      BY <2>1, <3>1, <3>2, KeyTyped
  <2>5. TypeOK'
    <3>1. /\ row' \in [Keys -> {"none"} \cup Open \cup Settled]
          /\ bound' \in [Keys -> Commands \cup {NoCommand}]
          /\ at' \in [Requests -> Stages]
      BY <1>1, <2>1 DEF TypeOK
    <3> QED
      BY <1>2, <3>1 DEF TypeOK, sessionVars, sourceVars
  <2>6. Ledger'
    <3>1. RowFirst' /\ OneDispatch'
      BY <1>2, <2>3 DEF Ledger, RowFirst, OneDispatch
    <3>2. ASSUME NEW q \in Requests
          PROVE  (AskedOf(q) /\ HoldsRow(q) /\ Alone(q) /\ NotSentYet(q) /\ HoldsAnswer(q))'
      <4>1. AskedOf(q)'
        BY <1>1, <1>2, <2>2 DEF Ledger, AskedOf
      <4>2. HoldsRow(q)'
        BY <1>2, <2>2, <2>3, <2>4 DEF Ledger, HoldsRow, Key
      <4>3. Alone(q)'
        BY <1>2, <2>2, <2>4 DEF Ledger, Alone, Key
      <4>4. sent[Key(r)] = 0
        BY <1>1, <2>1 DEF Ledger, RowFirst
      <4>5. NotSentYet(q)'
        BY <1>2, <2>2, <4>4 DEF Ledger, NotSentYet, Key
      <4>6. HoldsAnswer(q)'
        BY <1>2, <2>2, <2>3, <2>4 DEF Ledger, HoldsAnswer, Key
      <4> QED
        BY <4>1, <4>2, <4>3, <4>5, <4>6
    <3> QED
      BY <3>1, <3>2 DEF Ledger
  <2> QED
    BY <2>5, <2>6
<1>5. CASE ~KeyFree(r)
  <2>1. /\ UNCHANGED <<row, bound>> /\ row[Key(r)] # "none"
        /\ \/ at' = [at EXCEPT ![r] = "conflict"]
           \/ at' = [at EXCEPT ![r] = "answered"] /\ bound[Key(r)] = ask[r]
    BY <1>5 DEF Insert, Replay, Same, Go, KeyFree, Key, ledgerVars
  <2>2. /\ at'[r] \in {"conflict", "answered"}
        /\ at'[r] = "answered" => bound[Key(r)] = ask[r]
        /\ \A q \in Requests : q # r => at'[q] = at[q]
    BY <2>1 DEF TypeOK
  <2>3. TypeOK'
    <3>1. at' \in [Requests -> Stages]
      BY <2>1 DEF TypeOK
    <3> QED
      BY <1>2, <2>1, <3>1 DEF TypeOK, sessionVars, sourceVars
  <2>4. Ledger'
    <3>1. RowFirst' /\ OneDispatch'
      BY <1>2, <2>1 DEF Ledger, RowFirst, OneDispatch
    <3>2. ASSUME NEW q \in Requests
          PROVE  (AskedOf(q) /\ HoldsRow(q) /\ Alone(q) /\ NotSentYet(q) /\ HoldsAnswer(q))'
      <4>1. AskedOf(q)' /\ HoldsAnswer(q)'
        BY <1>1, <1>2, <2>1, <2>2 DEF Ledger, AskedOf, HoldsAnswer, Key
      <4>2. HoldsRow(q)' /\ NotSentYet(q)'
        BY <1>2, <2>1, <2>2 DEF Ledger, HoldsRow, NotSentYet, Key
      <4>3. Alone(q)'
        BY <1>2, <2>2 DEF Ledger, Alone, Key
      <4> QED
        BY <4>1, <4>2, <4>3
    <3> QED
      BY <3>1, <3>2 DEF Ledger
  <2> QED
    BY <2>3, <2>4
<1> QED
  BY <1>4, <1>5

\* A request at work writes the status of its own row, in step with its stage.
LEMMA RowWriteIInv ==
  ASSUME IInv, NEW r \in Requests, MarkDispatching(r) \/ Settle(r)
  PROVE  IInv'
<1> USE DEF IInv
<1>1. /\ at[r] \in Working /\ ask[r] \in Commands /\ Key(r) \in Keys
      /\ bound[Key(r)] = ask[r] /\ row[Key(r)] # "none"
  BY KeyTyped DEF MarkDispatching, Settle, Ledger, AskedOf, HoldsRow
<1>2. PICK st \in {"dispatching", "acknowledged", "failed"} :
        /\ row' = [row EXCEPT ![Key(r)] = st]
        /\ \/ st = "dispatching" /\ at[r] = "queued" /\ at' = [at EXCEPT ![r] = "check"]
           \/ st # "dispatching" /\ at' = [at EXCEPT ![r] = "answered"]
  BY DEF MarkDispatching, RowDispatching, Settle, Go
<1>3. UNCHANGED <<bound, ask, mine, sent, sessionVars, sourceVars, job>>
  BY DEF MarkDispatching, Settle
<1>4. /\ at'[r] \in {"check", "answered"}
      /\ at'[r] = "check" => st = "dispatching" /\ at[r] = "queued"
      /\ \A q \in Requests : q # r => at'[q] = at[q]
  BY <1>2 DEF TypeOK
<1>5. /\ row'[Key(r)] = st
      /\ \A k \in Keys : k # Key(r) => row'[k] = row[k]
  BY <1>1, <1>2 DEF TypeOK
<1>6. TypeOK'
  <2>1. row' \in [Keys -> {"none"} \cup Open \cup Settled] /\ at' \in [Requests -> Stages]
    BY <1>2 DEF TypeOK
  <2> QED
    BY <1>3, <2>1 DEF TypeOK, sessionVars, sourceVars
<1>7. \A q \in Requests : at[q] \in Working /\ q # r => Key(q) # Key(r)
  BY <1>1 DEF Ledger, Alone
<1>8. \A q \in Requests : at[q] \in Working \cup {"answered"} => Key(q) \in Keys
  BY KeyTyped DEF Ledger, AskedOf
<1>9. Ledger'
  <2>1. RowFirst' /\ OneDispatch'
    BY <1>1, <1>3, <1>5 DEF Ledger, RowFirst, OneDispatch
  <2>2. ASSUME NEW q \in Requests
        PROVE  (AskedOf(q) /\ HoldsRow(q) /\ Alone(q) /\ NotSentYet(q) /\ HoldsAnswer(q))'
    <3>1. AskedOf(q)'
      BY <1>1, <1>3, <1>4 DEF Ledger, AskedOf
    <3>2. HoldsRow(q)'
      BY <1>1, <1>3, <1>4, <1>5, <1>7, <1>8 DEF Ledger, HoldsRow, Key
    <3>3. Alone(q)'
      BY <1>1, <1>3, <1>4 DEF Ledger, Alone, Key
    <3>4. NotSentYet(q)'
      BY <1>3, <1>4 DEF Ledger, NotSentYet, Key
    <3>5. HoldsAnswer(q)'
      BY <1>1, <1>3, <1>4, <1>5, <1>8 DEF Ledger, HoldsAnswer, Key
    <3> QED
      BY <3>1, <3>2, <3>3, <3>4, <3>5
  <2> QED
    BY <2>1, <2>2 DEF Ledger
<1> QED
  BY <1>6, <1>9

\* The POST is issued once: no other request stands before a POST for the key.
LEMMA IssueIInv ==
  ASSUME IInv, NEW r \in Requests, Issue(r)
  PROVE  IInv'
<1> USE DEF IInv
<1>1. /\ at[r] = "lock" /\ ask[r] \in Commands /\ Key(r) \in Keys
      /\ sent[Key(r)] = 0 /\ row[Key(r)] = "dispatching"
  BY KeyTyped DEF Issue, Ledger, AskedOf, NotSentYet, HoldsRow
<1>2. UNCHANGED <<row, bound, ask, mine, sessionVars, sourceVars, job>>
  BY DEF Issue, ledgerVars
<1>3. CASE UsableUnderLock(r)
  <2>1. /\ at' = [at EXCEPT ![r] = "posting"]
        /\ sent' = [sent EXCEPT ![Key(r)] = @ + 1]
    BY <1>3 DEF Issue, Go
  <2>2. at'[r] = "posting" /\ \A q \in Requests : q # r => at'[q] = at[q]
    BY <2>1 DEF TypeOK
  <2>3. /\ sent'[Key(r)] = 1
        /\ \A k \in Keys : k # Key(r) => sent'[k] = sent[k]
    BY <1>1, <2>1 DEF TypeOK
  <2>4. TypeOK'
    <3>1. at' \in [Requests -> Stages]
      BY <2>1 DEF TypeOK, Stages, Working
    <3>2. sent' \in [Keys -> Nat]
      BY <1>1, <2>1 DEF TypeOK
    <3> QED
      BY <1>2, <3>1, <3>2 DEF TypeOK, sessionVars, sourceVars
  <2>5. \A q \in Requests : at[q] \in Working /\ q # r => Key(q) # Key(r) /\ Key(q) \in Keys
    BY <1>1, KeyTyped DEF Ledger, Alone, AskedOf
  <2>6. Ledger'
    <3>1. RowFirst' /\ OneDispatch'
      BY <1>1, <1>2, <2>3 DEF Ledger, RowFirst, OneDispatch
    <3>2. ASSUME NEW q \in Requests
          PROVE  (AskedOf(q) /\ HoldsRow(q) /\ Alone(q) /\ NotSentYet(q) /\ HoldsAnswer(q))'
      <4>1. AskedOf(q)' /\ HoldsAnswer(q)'
        BY <1>1, <1>2, <2>2 DEF Ledger, AskedOf, HoldsAnswer, Key
      <4>2. HoldsRow(q)' /\ Alone(q)'
        BY <1>1, <1>2, <2>2 DEF Ledger, HoldsRow, Alone, Key
      <4>3. NotSentYet(q)'
        BY <1>2, <2>2, <2>3, <2>5 DEF Ledger, NotSentYet, Key
      <4> QED
        BY <4>1, <4>2, <4>3
    <3> QED
      BY <3>1, <3>2 DEF Ledger
  <2> QED
    BY <2>4, <2>6
<1>4. CASE ~UsableUnderLock(r)
  <2>1. Go(r, "bad") /\ UNCHANGED sent
    BY <1>4 DEF Issue
  <2>2. Ledger' /\ at' \in [Requests -> Stages]
    BY <1>1, <1>2, <2>1, StageIInv
  <2> QED
    BY <1>2, <2>1, <2>2 DEF TypeOK, sessionVars, sourceVars
<1> QED
  BY <1>3, <1>4

\* A restart ends every request at work and settles the rows they held.
LEMMA RestartIInv ==
  ASSUME IInv, Restart
  PROVE  IInv'
<1> USE DEF IInv
<1>1. /\ row' = [k \in Keys |-> IF row[k] \in Open THEN "failed" ELSE row[k]]
      /\ at' = [r \in Requests |-> IF at[r] \in {"insert"} \cup Working THEN "gone" ELSE at[r]]
      /\ UNCHANGED <<bound, ask, mine, enabled, revision, job, sent>>
  BY DEF Restart, InterruptedFail
<1>2. TypeOK'
  <2>1. row' \in [Keys -> {"none"} \cup Open \cup Settled] /\ at' \in [Requests -> Stages]
    BY <1>1 DEF TypeOK
  <2>2. /\ live' \in {"none", "down", "up"} /\ liveRev' \in 1..MaxRev
        /\ liveGrant' \in BOOLEAN /\ epoch' \in 0..MaxEpoch
        /\ seen' \in JobStates \cup {"none"}
    <3>1. CASE enabled
      <4>1. /\ live' = "down" /\ seen' = "none" /\ liveRev' = revision
            /\ liveGrant' = FALSE /\ epoch' = epoch + 1 /\ epoch < MaxEpoch
        BY <3>1 DEF Restart, SessionStarts
      <4>2. epoch' \in 0..MaxEpoch
        BY <4>1, ConstAssumption DEF TypeOK
      <4> QED
        BY <4>1, <4>2 DEF TypeOK
    <3>2. CASE ~enabled
      BY <3>2 DEF Restart, SessionEnds, TypeOK
    <3> QED
      BY <3>1, <3>2 DEF TypeOK
  <2>3. granted' \in BOOLEAN /\ route' = "idle"
    BY DEF Restart
  <2> QED
    BY <1>1, <2>1, <2>2, <2>3 DEF TypeOK
<1>3. \A r \in Requests :
        /\ at'[r] \notin Working
        /\ at'[r] \in {"new", "rejected", "answered"} => at[r] = at'[r]
        /\ at[r] \in {"new", "rejected"} => at'[r] = at[r]
  BY <1>1 DEF TypeOK
<1>4. \A k \in Keys : row'[k] = "none" <=> row[k] = "none"
  BY <1>1
<1>5. \A r \in Requests : at[r] = "answered" => Key(r) \in Keys
  BY KeyTyped DEF Ledger, AskedOf
<1>6. Ledger'
  <2>1. RowFirst' /\ OneDispatch'
    BY <1>1, <1>4 DEF Ledger, RowFirst, OneDispatch
  <2>2. ASSUME NEW q \in Requests
        PROVE  (AskedOf(q) /\ HoldsRow(q) /\ Alone(q) /\ NotSentYet(q) /\ HoldsAnswer(q))'
    BY <1>1, <1>3, <1>4, <1>5
       DEF Ledger, AskedOf, HoldsRow, Alone, NotSentYet, HoldsAnswer, Key
  <2> QED
    BY <2>1, <2>2 DEF Ledger
<1> QED
  BY <1>2, <1>6

\* Every step keeps the invariant.
LEMMA NextIInv == IInv /\ [Next]_vars => IInv'
<1> SUFFICES ASSUME IInv, [Next]_vars PROVE IInv'
  OBVIOUS
<1>1. CASE \E r \in Requests, k \in Keys, op \in Ops, u \in Users : Receive(r, k, op, u)
  BY <1>1, ReceiveIInv
<1>2. ASSUME NEW r \in Requests, Handle(r) \/ PostAccepted(r) \/ PostFails(r)
      PROVE  IInv'
  BY <1>2, InsertIInv, RowWriteIInv, IssueIInv, StagesIInv DEF Handle
<1>3. CASE Source \/ PanelActs
  BY <1>3, EnvironmentIInv
<1>4. CASE Restart
  BY <1>4, RestartIInv
<1>5. CASE UNCHANGED vars
  <2>1. UNCHANGED <<row, bound, at, ask, sent>>
    BY <1>5 DEF vars, ledgerVars, requestVars
  <2>2. Ledger'
    BY <2>1, LedgerKept DEF IInv
  <2>3. TypeOK'
    BY <1>5 DEF IInv, TypeOK, vars, ledgerVars, requestVars, sessionVars, sourceVars
  <2> QED
    BY <2>2, <2>3 DEF IInv
<1> QED
  BY <1>1, <1>2, <1>3, <1>4, <1>5 DEF Next

LEMMA IInvHolds == Spec => []IInv
  BY InitIInv, NextIInv, PTL DEF Spec
-----------------------------------------------------------------------------
\* Every variable has its type.
THEOREM TypeCorrect == Spec => []TypeOK
<1>1. IInv => TypeOK
  BY DEF IInv
<1> QED
  BY <1>1, IInvHolds, PTL

\* At most one command is sent to the printer for an idempotency key, however
\* requests with it are repeated, raced or cut off by restarts.
THEOREM DispatchOnce == Spec => []OneDispatch
<1>1. IInv => OneDispatch
  BY DEF IInv, Ledger
<1> QED
  BY <1>1, IInvHolds, PTL

\* A request is answered only with the row made for its own command.
THEOREM OwnAnswer == Spec => []AnswersOwn
<1>1. IInv => AnswersOwn
  BY DEF IInv, Ledger, HoldsAnswer, AnswersOwn
<1> QED
  BY <1>1, IInvHolds, PTL

\* No command is sent that the ledger does not already show as dispatching.
THEOREM AuditBeforeSend == Spec => AuditedFirst
<1>1. IInv /\ [Next]_vars =>
        [\A r \in Requests :
           Issues(r) => row[Key(r)] = "dispatching" /\ bound[Key(r)] = ask[r]]_vars
  BY DEF IInv, Ledger, HoldsRow, Issues
<1> QED
  BY <1>1, IInvHolds, PTL DEF Spec, AuditedFirst

\* A settled row is never changed again.
THEOREM SettledForGood == Spec => SettledStays
<1>1. IInv /\ [Next]_vars => [\A k \in Keys : row[k] \in Settled => row'[k] = row[k]]_vars
  <2> SUFFICES ASSUME IInv, Next, NEW k \in Keys, row[k] \in Settled
               PROVE  row'[k] = row[k]
    OBVIOUS
  <2>1. ASSUME NEW r \in Requests, Insert(r) \/ MarkDispatching(r) \/ Settle(r)
        PROVE  row'[k] = row[k]
    <3>1. /\ row' = row \/ \E st : row' = [row EXCEPT ![Key(r)] = st]
          /\ row' = row \/ row[Key(r)] \notin Settled
      BY <2>1 DEF Insert, KeyFree, MarkDispatching, RowDispatching, Settle, ledgerVars,
                  IInv, Ledger, HoldsRow
    <3> QED
      BY <3>1 DEF IInv, TypeOK
  <2>2. CASE Restart
    BY <2>2 DEF Restart, InterruptedFail
  <2>3. CASE Source \/ PanelActs
    BY <2>3 DEF Source, PanelActs, EndpointChanges, EndpointCommits, TurnOff, TurnedOff, TurnOn,
           Acknowledge, TurnedOn, Connects, Disconnects, StatusComes, StatusStale, ledgerVars
  <2>4. ASSUME NEW r \in Requests,
               \/ CommitFails(r) \/ Check(r) \/ Issue(r) \/ PostAccepted(r) \/ PostFails(r)
               \/ Confirm(r) \/ ConfirmGivesUp(r) \/ TimesOut(r)
        PROVE  row'[k] = row[k]
    BY <2>4 DEF CommitFails, Check, Issue, PostAccepted, PostFails, Confirm, ConfirmGivesUp,
                TimesOut, ledgerVars
  <2>5. ASSUME NEW r \in Requests, NEW q \in Keys, NEW op \in Ops, NEW u \in Users,
               Receive(r, q, op, u)
        PROVE  row'[k] = row[k]
    BY <2>5 DEF Receive, ledgerVars
  <2> QED
    BY <2>1, <2>2, <2>3, <2>4, <2>5 DEF Next, Handle
<1> QED
  BY <1>1, IInvHolds, PTL DEF Spec, SettledStays
-----------------------------------------------------------------------------
(* The session of a command.  A session is one value of epoch; its revision *)
(* and its grant are fixed when it starts, so what a request read of it     *)
(* before it waited for the lock still holds if it is still the present one. *)

SessionTaken ==
  \A r \in Requests :
    /\ mine[r] <= epoch
    /\ at[r] = "lock" /\ mine[r] = epoch => liveGrant /\ liveRev = ask[r].rev

\* nothing is taken, and the session is the one it was or a new one
LEMMA SessionKept ==
  ASSUME IInv, SessionTaken, UNCHANGED <<ask, mine>>,
         \A r \in Requests : at'[r] = "lock" => at[r] = "lock",
         \/ UNCHANGED <<epoch, liveRev, liveGrant>>
         \/ epoch' = epoch + 1
  PROVE  SessionTaken'
BY DEF SessionTaken, IInv, TypeOK

LEMMA NextSessionTaken == ASSUME IInv, SessionTaken, [Next]_vars PROVE SessionTaken'
<1> USE DEF requestVars, sessionVars, Go
<1>1. ASSUME NEW r \in Requests, NEW k \in Keys, NEW op \in Ops, NEW u \in Users,
             Receive(r, k, op, u)
      PROVE  SessionTaken'
  <2>1. \A q \in Requests : at'[q] = "lock" => at[q] = "lock" /\ UNCHANGED ask[q]
    BY <1>1 DEF Receive, Replay, IInv, TypeOK
  <2> QED BY <1>1, <2>1 DEF Receive, SessionTaken
<1>2. ASSUME NEW r \in Requests, Check(r) PROVE SessionTaken'
  <2>1. CASE at' = [at EXCEPT ![r] = "lock"]
    BY <1>2, <2>1 DEF Check, SessionTaken, IInv, TypeOK
  <2>2. CASE at' = [at EXCEPT ![r] = "bad"] /\ UNCHANGED mine
    BY <1>2, <2>2, SessionKept DEF Check, IInv, TypeOK
  <2> QED BY <1>2, <2>1, <2>2 DEF Check
<1>3. ASSUME NEW r \in Requests,
             \/ Insert(r) \/ MarkDispatching(r) \/ Issue(r) \/ Confirm(r) \/ ConfirmGivesUp(r)
             \/ TimesOut(r) \/ Settle(r) \/ CommitFails(r) \/ PostAccepted(r) \/ PostFails(r)
      PROVE  SessionTaken'
  <2>1. /\ UNCHANGED <<ask, mine, epoch, liveRev, liveGrant>>
        /\ \E stage \in Stages \ {"lock"} : at' = [at EXCEPT ![r] = stage]
    BY <1>3 DEF Insert, Replay, MarkDispatching, Issue, Confirm, ConfirmGivesUp, TimesOut,
                Settle, CommitFails, PostAccepted, PostFails
  <2> QED BY <2>1, SessionKept DEF IInv, TypeOK
<1>4. CASE Source \/ PanelActs
  BY <1>4, SessionKept
  DEF Source, PanelActs, EndpointChanges, EndpointCommits, TurnOff, TurnedOff, TurnOn,
      Acknowledge, TurnedOn, Connects, Disconnects, StatusComes, StatusStale, SessionEnds,
      SessionStarts
<1>5. CASE Restart
  BY <1>5, SessionKept DEF Restart, SessionEnds, SessionStarts
<1>6. CASE UNCHANGED vars BY <1>6, SessionKept DEF vars
<1> QED BY <1>1, <1>2, <1>3, <1>4, <1>5, <1>6 DEF Next, Handle

\* A command that waited for the lock goes out only through the session that
\* was checked, while that is the present one: granted by the owner and made
\* for the revision the request asked for.
THEOREM PresentSession == Spec => IssuedInSession
<1>1. Init => SessionTaken BY DEF Init, SessionTaken
<1>2. ASSUME IInv, SessionTaken, [Next]_vars
      PROVE  [\A r \in Requests :
                Issues(r) => /\ live = "up" /\ liveGrant /\ liveRev = ask[r].rev
                             /\ mine[r] = epoch]_vars
  <2> SUFFICES ASSUME Next, NEW r \in Requests, Issues(r)
               PROVE  live = "up" /\ liveGrant /\ liveRev = ask[r].rev /\ mine[r] = epoch
    BY <1>2 DEF Issues, vars, requestVars
  <2>1. ASSUME NEW q \in Requests, Issue(q) PROVE q = r /\ Usable(r)
    BY <1>2, <2>1 DEF Issue, Go, UsableUnderLock, Issues, IInv, TypeOK
  <2>2. ASSUME NEW q \in Requests,
               \/ Insert(q) \/ MarkDispatching(q) \/ Check(q) \/ Confirm(q) \/ ConfirmGivesUp(q)
               \/ TimesOut(q) \/ Settle(q) \/ CommitFails(q) \/ PostAccepted(q) \/ PostFails(q)
        PROVE  FALSE
    BY <1>2, <2>2 DEF Insert, Replay, MarkDispatching, Check, Confirm, ConfirmGivesUp, TimesOut,
                Settle, CommitFails, PostAccepted, PostFails, Go, Issues, IInv, TypeOK
  <2>3. ASSUME NEW q \in Requests, NEW k \in Keys, NEW op \in Ops, NEW u \in Users,
               Receive(q, k, op, u)
        PROVE  FALSE
    BY <1>2, <2>3 DEF Receive, Replay, Go, Issues, IInv, TypeOK
  <2>4. CASE Source \/ PanelActs \/ Restart
    BY <1>2, <2>4
    DEF Source, PanelActs, EndpointChanges, EndpointCommits, TurnOff, TurnedOff, TurnOn,
        Acknowledge, TurnedOn, Connects, Disconnects, StatusComes, StatusStale, Restart,
        Issues, requestVars, IInv, TypeOK
  <2> QED BY <1>2, <2>1, <2>2, <2>3, <2>4 DEF Next, Handle, Usable, SessionTaken, Issues
<1> QED BY <1>1, <1>2, InitIInv, NextIInv, NextSessionTaken, PTL DEF Spec, IssuedInSession
=============================================================================
