------------------------ MODULE DispatchToastProofs ------------------------
(* What the dispatch toast tells of an item is true, and its timer takes    *)
(* away no item that it was set over, for any number of items, losses and   *)
(* messages under way.                                                      *)
EXTENDS DispatchToast, TLAPS

Stages == {"pending", "uploading", "aborted", "sent"} \cup Ended

\* An end that was announced has happened.
WireTrue ==
    \A n \in 1..Len(wire) :
        /\ wire[n].kind = "acked" => stage[wire[n].item] = "started"
        /\ wire[n].kind = "failed" => stage[wire[n].item] = "failed"

\* An item in progress arrived after the timer was set.
TimerTrue == timer > 0 => Processing(card) \subseteq late

Inv == TypeOK /\ OutcomeTrue /\ WireTrue /\ TimerTrue

\* A step of the dispatcher that takes no item out of an announced end.
Settled(s) == s \in {"started", "failed"}
Onward ==
    /\ stage' \in [Items -> Stages]
    /\ attempts' \in [Items -> Nat]
    /\ emitted' \in [Items -> 0..Awaiting]
    /\ \A j \in Items : Settled(stage[j]) => stage'[j] = stage[j]

USE DEF Ended
-----------------------------------------------------------------------------
LEMMA InitInv == Init => Inv
<1> SUFFICES ASSUME Init PROVE Inv
  OBVIOUS
<1>1. TypeOK
  <2>1. wire \in Seq(Messages)
    BY DEF Init
  <2>2. timer \in 0..Delay
    BY ConstAssumption DEF Init
  <2>3. /\ stage \in [Items -> Stages] /\ card \in [Items -> Statuses]
        /\ attempts \in [Items -> Nat]
    BY DEF Init, Stages, Statuses
  <2>4. pct \in [Items -> 0..Awaiting] /\ emitted \in [Items -> 0..Awaiting]
    BY DEF Init, Awaiting
  <2> QED BY <2>1, <2>2, <2>3, <2>4 DEF Init, TypeOK, Stages
<1>2. OutcomeTrue /\ WireTrue /\ TimerTrue
  BY DEF Init, OutcomeTrue, WireTrue, TimerTrue
<1> QED BY <1>1, <1>2 DEF Inv

LEMMA SilentKeeps == ASSUME Inv, Onward, Silently PROVE Inv'
<1>1. TypeOK'
  BY DEF Inv, TypeOK, Onward, Silently, socket, browser, Stages
<1>2. OutcomeTrue'
  BY DEF Inv, OutcomeTrue, Onward, Settled, Silently, browser
<1>3. WireTrue'
  <2>1. wire' = wire /\ wire \in Seq(Messages)
    BY DEF Silently, socket, Inv, TypeOK
  <2>2. \A n \in 1..Len(wire) : wire[n] \in Messages
    BY <2>1
  <2>3. \A n \in 1..Len(wire) : wire[n].item \in Items
    BY <2>2 DEF Messages
  <2> QED BY <2>1, <2>3 DEF Inv, WireTrue, Onward, Settled
<1>4. TimerTrue'
  BY DEF Inv, TimerTrue, Processing, Silently, browser
<1> QED BY <1>1, <1>2, <1>3, <1>4 DEF Inv

LEMMA SendKeeps ==
    ASSUME Inv, Onward, NEW i \in Items, NEW k \in Kinds, Send(i, k),
           k = "acked" => stage'[i] = "started",
           k = "failed" => stage'[i] = "failed"
    PROVE  Inv'
<1>1. Message(i, k) \in Messages /\ Message(i, k).item = i /\ Message(i, k).kind = k
  BY DEF Message, Messages, Onward
<1>2. wire \in Seq(Messages)
  BY DEF Inv, TypeOK
<1>3. wire' = wire \/ wire' = Append(wire, Message(i, k))
  BY DEF Send
<1>4. wire' \in Seq(Messages)
  BY <1>1, <1>2, <1>3
<1>5. missed' \subseteq Items
  BY DEF Send, Inv, TypeOK
<1>6. TypeOK'
  BY <1>4, <1>5 DEF Inv, TypeOK, Onward, Send, browser, Stages
<1>7. OutcomeTrue'
  BY DEF Inv, OutcomeTrue, Onward, Settled, Send, browser
<1>8. WireTrue'
  <2>1. ASSUME NEW n \in 1..Len(wire)
        PROVE  /\ wire[n].kind = "acked" => stage'[wire[n].item] = "started"
               /\ wire[n].kind = "failed" => stage'[wire[n].item] = "failed"
    <3>1. wire[n] \in Messages
      BY <1>2
    <3> QED BY <3>1 DEF Inv, WireTrue, Onward, Settled, Messages
  <2>2. CASE wire' = wire
    BY <2>1, <2>2 DEF WireTrue
  <2>3. CASE wire' = Append(wire, Message(i, k))
    <3>1. /\ Len(wire') = Len(wire) + 1
          /\ wire'[Len(wire) + 1] = Message(i, k)
          /\ \A n \in 1..Len(wire) : wire'[n] = wire[n]
      BY <2>3, <1>1, <1>2
    <3>2. \A n \in 1..Len(wire') : n = Len(wire) + 1 \/ n \in 1..Len(wire)
      BY <3>1, <1>2
    <3> QED BY <2>1, <3>1, <3>2, <1>1 DEF WireTrue
  <2> QED BY <1>3, <2>2, <2>3
<1>9. TimerTrue'
  BY DEF Inv, TimerTrue, Processing, Send, browser
<1> QED BY <1>6, <1>7, <1>8, <1>9 DEF Inv

LEMMA DispatcherKeeps ==
    ASSUME Inv, NEW i \in Items,
           \/ Mismatch(i) \/ Upload(i) \/ Progress(i) \/ UploadFails(i) \/ Cancel(i) \/ Abort(i)
           \/ Command(i) \/ Ack(i) \/ Revert(i) \/ Unwatched(i)
    PROVE  Inv'
<1> USE DEF Move, Settled, Stages, Kinds
<1>1. ASSUME Fail(i), stage[i] \in {"pending", "uploading", "aborted", "sent"},
             attempts' \in [Items -> Nat]
      PROVE  Inv'
  <2>1. Onward /\ stage'[i] = "failed" /\ Send(i, "failed")
    BY <1>1 DEF Fail, Onward, Inv, TypeOK
  <2> QED BY <2>1, SendKeeps
<1>2. CASE Upload(i)
  <2>1. Onward /\ Send(i, "uploading")
    BY <1>2 DEF Upload, Onward, Inv, TypeOK, Awaiting
  <2> QED BY <2>1, SendKeeps
<1>3. CASE Progress(i)
  <2>1. Onward /\ Send(i, "progress")
    BY <1>3 DEF Progress, Onward, Inv, TypeOK, Awaiting
  <2> QED BY <2>1, SendKeeps
<1>4. CASE Mismatch(i) \/ UploadFails(i) \/ Abort(i)
  BY <1>1, <1>4 DEF Mismatch, UploadFails, Abort, Uploaded, Inv, TypeOK
<1>5. CASE Cancel(i)
  <2>1. Onward /\ Silently
    BY <1>5 DEF Cancel, Onward, Inv, TypeOK
  <2> QED BY <2>1, SilentKeeps
<1>6. CASE Command(i)
  <2>1. CASE Fail(i) /\ UNCHANGED attempts
    BY <1>1, <1>6, <2>1 DEF Command, Uploaded, Inv, TypeOK
  <2>2. CASE (Move(i, "sent") \/ Move(i, "pending")) /\ Silently /\ UNCHANGED <<attempts, emitted>>
    <3>1. Onward
      BY <1>6, <2>2 DEF Command, Uploaded, Onward, Inv, TypeOK
    <3> QED BY <2>2, <3>1, SilentKeeps
  <2> QED BY <1>6, <2>1, <2>2 DEF Command
<1>7. CASE Ack(i)
  <2>1. Onward /\ stage'[i] = "started" /\ Send(i, "acked")
    BY <1>7 DEF Ack, Onward, Inv, TypeOK
  <2> QED BY <2>1, SendKeeps
<1>8. CASE Revert(i)
  <2>0. attempts' \in [Items -> Nat]
    BY <1>8 DEF Revert, Inv, TypeOK
  <2>1. CASE attempts'[i] < MaxAttempts
    <3>1. Onward /\ Silently
      BY <1>8, <2>0, <2>1 DEF Revert, Onward, Inv, TypeOK
    <3> QED BY <3>1, SilentKeeps
  <2>2. CASE ~(attempts'[i] < MaxAttempts)
    <3>1. Fail(i) /\ stage[i] = "sent"
      BY <1>8, <2>2 DEF Revert
    <3> QED BY <2>0, <3>1, <1>1
  <2> QED BY <2>1, <2>2
<1>9. CASE Unwatched(i)
  <2>1. Onward /\ Silently
    BY <1>9 DEF Unwatched, Onward, Inv, TypeOK
  <2> QED BY <2>1, SilentKeeps
<1> QED BY <1>2, <1>3, <1>4, <1>5, <1>6, <1>7, <1>8, <1>9

LEMMA SocketKeeps == ASSUME Inv, Drop \/ Reconnect PROVE Inv'
<1>1. CASE Reconnect
  BY <1>1 DEF Reconnect, Inv, TypeOK, OutcomeTrue, WireTrue, TimerTrue, Processing,
              server, browser
<1>2. CASE Drop
  <2>1. PICK n \in 0..Len(wire) :
          /\ wire' = SubSeq(wire, 1, n)
          /\ missed' = missed \cup {m.item : m \in ToSet(SubSeq(wire, n + 1, Len(wire)))}
    BY <1>2 DEF Drop
  <2>2. wire \in Seq(Messages)
    BY DEF Inv, TypeOK
  <2>3. /\ wire' \in Seq(Messages) /\ Len(wire') = n
        /\ \A k \in 1..n : wire'[k] = wire[k] /\ k \in 1..Len(wire)
    BY <2>1, <2>2
  <2>4. SubSeq(wire, n + 1, Len(wire)) \in Seq(Messages)
    BY <2>1, <2>2
  <2>5. \A m \in ToSet(SubSeq(wire, n + 1, Len(wire))) : m \in Messages
    BY <2>4 DEF ToSet
  <2>6. missed' \subseteq Items
    BY <2>1, <2>5 DEF Messages, Inv, TypeOK
  <2>7. TypeOK'
    <3>1. drops' \in Nat
      <4>1. drops' = drops + 1 /\ drops \in Nat
        BY <1>2 DEF Drop, Inv, TypeOK
      <4> QED BY <4>1
    <3>0. connected' = FALSE
      BY <1>2 DEF Drop
    <3>2. UNCHANGED <<server, browser>>
      BY <1>2 DEF Drop
    <3> QED BY <3>0, <3>1, <3>2, <2>3, <2>6 DEF Inv, TypeOK, server, browser
  <2>8. WireTrue'
    BY <1>2, <2>3 DEF Drop, Inv, WireTrue, server
  <2>9. OutcomeTrue' /\ TimerTrue'
    BY <1>2 DEF Drop, Inv, OutcomeTrue, TimerTrue, Processing, server, browser
  <2> QED BY <2>7, <2>8, <2>9 DEF Inv
<1> QED BY <1>1, <1>2

\* The timer covers what the card has in progress.
LEMMA TimerKept ==
    ASSUME Inv, NEW A \in SUBSET Items, card' \in [Items -> Statuses],
           Processing(card') \subseteq Processing(card) \cup A, AfterChange(A)
    PROVE  timer' \in 0..Delay /\ late' \subseteq Items /\ TimerTrue'
<1>1. CASE Terminal(card')
  BY <1>1, ConstAssumption DEF AfterChange, TimerTrue, Terminal
<1>2. CASE ~Terminal(card')
  BY <1>2 DEF AfterChange, Inv, TypeOK, TimerTrue
<1> QED BY <1>1, <1>2

LEMMA DeliverKeeps == ASSUME Inv, Deliver PROVE Inv'
<1> DEFINE m == Head(wire)
<1>1. wire \in Seq(Messages) /\ wire # <<>>
  BY DEF Inv, TypeOK, Deliver
<1>2. m \in Messages /\ m = wire[1] /\ 1 \in 1..Len(wire)
  BY <1>1
<1>3. wire' \in Seq(Messages) /\ \A n \in 1..Len(wire') : wire'[n] = wire[n + 1] /\ n + 1 \in 1..Len(wire)
  BY <1>1 DEF Deliver
<1>4. UNCHANGED <<server, connected, drops, missed, others>>
  BY DEF Deliver
<1>5. WireTrue'
  BY <1>3, <1>4 DEF Inv, WireTrue, server
<1>6. /\ m.kind = "acked" => stage[m.item] = "started"
      /\ m.kind = "failed" => stage[m.item] = "failed"
  BY <1>2 DEF Inv, WireTrue
<1>7. CASE ~(m.kind = "uploading" \/ card[m.item] # "absent")
  <2>1. UNCHANGED <<card, pct, timer, late>>
    BY <1>7 DEF Deliver
  <2>2. TypeOK' /\ OutcomeTrue' /\ TimerTrue'
    BY <2>1, <1>3, <1>4 DEF Inv, TypeOK, OutcomeTrue, TimerTrue, Processing, server
  <2> QED BY <2>2, <1>5 DEF Inv
<1>8. CASE m.kind = "uploading" \/ card[m.item] # "absent"
  <2> DEFINE A == IF m.kind = "uploading" THEN {m.item} ELSE {}
  <2>1. /\ card' = [card EXCEPT ![m.item] = ShownStatus(m)]
        /\ pct' = [pct EXCEPT ![m.item] = ShownPct(m)]
        /\ AfterChange(A)
    BY <1>8 DEF Deliver
  <2>2. m.item \in Items /\ m.kind \in Kinds /\ m.pct \in 0..Awaiting
    BY <1>2 DEF Messages
  <2> HIDE DEF m
  <2>3. /\ m.kind = "uploading" => ShownStatus(m) = "processing" /\ ShownPct(m) = 0
        /\ m.kind = "progress" => ShownStatus(m) = card[m.item] /\ ShownPct(m) = m.pct
        /\ m.kind = "acked" => ShownStatus(m) = "completed" /\ ShownPct(m) = Awaiting
        /\ m.kind = "failed" => ShownStatus(m) = "failed" /\ ShownPct(m) = pct[m.item]
    BY DEF ShownStatus, ShownPct
  <2>4. ShownStatus(m) \in Statuses
    BY <2>2, <2>3 DEF Kinds, Statuses, Inv, TypeOK
  <2>5. ShownPct(m) \in 0..Awaiting
    BY <2>2, <2>3 DEF Kinds, Inv, TypeOK, Awaiting
  <2>6. card' \in [Items -> Statuses]
    BY <2>1, <2>2, <2>4 DEF Inv, TypeOK
  <2>7. Processing(card') \subseteq Processing(card) \cup A
    BY <2>1, <2>2, <2>3 DEF Processing, Kinds, Inv, TypeOK
  <2>8. A \in SUBSET Items
    BY <2>2
  <2> HIDE DEF A
  <2>9. timer' \in 0..Delay /\ late' \subseteq Items /\ TimerTrue'
    BY <2>1, <2>6, <2>7, <2>8, TimerKept
  <2>10. TypeOK'
    BY <1>3, <1>4, <2>1, <2>2, <2>5, <2>6, <2>9 DEF Inv, TypeOK, server
  <2>11. OutcomeTrue'
    BY <1>4, <1>6, <2>1, <2>2, <2>3 DEF Inv, TypeOK, OutcomeTrue, server, Kinds
  <2> QED BY <1>5, <2>9, <2>10, <2>11 DEF Inv
<1> QED BY <1>7, <1>8

LEMMA CardKeeps ==
    ASSUME Inv, Dismiss \/ Fire \/ Tick \/ Redraw \/ OtherToast PROVE Inv'
<1>1. CASE TakeAway
  <2>1. TypeOK'
    <3>1. card' \in [Items -> Statuses] /\ pct' \in [Items -> 0..Awaiting]
      BY <1>1 DEF TakeAway, Statuses, Awaiting
    <3>2. timer' \in 0..Delay /\ late' \subseteq Items
      BY <1>1, ConstAssumption DEF TakeAway
    <3> QED BY <1>1, <3>1, <3>2 DEF TakeAway, Inv, TypeOK, server, socket
  <2>2. OutcomeTrue' /\ WireTrue' /\ TimerTrue'
    BY <1>1 DEF TakeAway, Inv, OutcomeTrue, WireTrue, TimerTrue, server, socket
  <2> QED BY <2>1, <2>2 DEF Inv
<1>2. CASE Tick
  <2>1. timer' \in 0..Delay /\ timer > 0
    BY <1>2, ConstAssumption DEF Tick, Inv, TypeOK
  <2>2. TypeOK'
    BY <1>2, <2>1 DEF Tick, Inv, TypeOK, server, socket
  <2>3. OutcomeTrue' /\ WireTrue' /\ TimerTrue'
    BY <1>2, <2>1 DEF Tick, Inv, OutcomeTrue, WireTrue, TimerTrue, Processing, server, socket
  <2> QED BY <2>2, <2>3 DEF Inv
<1>3. CASE Redraw \/ OtherToast
  <2>1. card' = card /\ AfterChange({}) /\ others' \in BOOLEAN
        /\ UNCHANGED <<server, socket, pct>>
    BY <1>3 DEF Redraw, OtherToast, Inv, TypeOK
  <2>2. timer' \in 0..Delay /\ late' \subseteq Items /\ TimerTrue'
    BY <2>1, TimerKept DEF Inv, TypeOK
  <2>3. TypeOK'
    BY <2>1, <2>2 DEF Inv, TypeOK, server, socket
  <2>4. OutcomeTrue' /\ WireTrue'
    BY <2>1 DEF Inv, OutcomeTrue, WireTrue, server, socket
  <2> QED BY <2>2, <2>3, <2>4 DEF Inv
<1> QED BY <1>1, <1>2, <1>3 DEF Dismiss, Fire

LEMMA Inductive == ASSUME Inv, [Next]_vars PROVE Inv'
<1>1. CASE UNCHANGED vars
  BY <1>1 DEF vars, server, socket, browser, Inv, TypeOK, OutcomeTrue, WireTrue, TimerTrue,
              Processing
<1>2. CASE Next
  BY <1>2, DispatcherKeeps, SocketKeeps, DeliverKeeps, CardKeeps DEF Next
<1> QED BY <1>1, <1>2

\* The inductive invariant holds in every behaviour of the dispatcher, the
\* socket and the card.
LEMMA Invariant == Spec => []Inv
BY InitInv, Inductive, PTL DEF Spec

\* An item the card shows as completed was started, and one it shows as failed
\* was given up, through losses, retries and dismissals (onDispatchEvent).
THEOREM OutcomeHonest == Spec => []OutcomeTrue
<1>1. Inv => OutcomeTrue
  BY DEF Inv
<1> QED BY <1>1, Invariant, PTL

\* The timer takes away no item that was in progress when it was set, for
\* every delay and number of items (the auto-dismiss effect).
THEOREM TimerSparesEarlier == Spec => OnlyLateLost
<1>1. Inv /\ [Next]_vars => [Fire => Processing(card) \subseteq late]_vars
  BY DEF Inv, TimerTrue, Fire
<1>2. Spec => [][Next]_vars
  BY PTL DEF Spec
<1> QED BY <1>1, <1>2, Invariant, PTL DEF OnlyLateLost
-----------------------------------------------------------------------------
(* The card as a mirror.  Of the messages under way for an item only the    *)
(* last one counts: shown, it makes the card agree with the dispatcher,     *)
(* whatever those before it do.                                             *)

Agrees(i) ==
    card[i] # "absent" =>
        IF stage[i] \in {"started", "failed"}
        THEN card[i] = (IF stage[i] = "started" THEN "completed" ELSE "failed")
        ELSE card[i] = "processing" /\ pct[i] = emitted[i]

Unannounced(i) == \A n \in 1..Len(wire) : wire[n].item # i
LastOf(n, i) ==
    /\ n \in 1..Len(wire) /\ wire[n].item = i
    /\ \A k \in 1..Len(wire) : k > n => wire[k].item # i

\* message m tells of an item at stage s with the progress e
Tells(m, s, e) ==
    /\ m.kind = "acked" <=> s = "started"
    /\ m.kind = "failed" <=> s = "failed"
    /\ m.kind = "progress" => m.pct = e
    /\ m.kind = "uploading" => e = 0

Mirror ==
    \A i \in Items \ missed :
        /\ Unannounced(i) => Agrees(i)
        /\ \A n \in 1..Len(wire) : LastOf(n, i) => Tells(wire[n], stage[i], emitted[i])

\* the dispatcher moves items, but into no announced end and out of none
LEMMA SilentMirror ==
    ASSUME Mirror, Silently, UNCHANGED emitted,
           \A j \in Items : \A s \in {"started", "failed"} : stage'[j] = s <=> stage[j] = s
    PROVE  Mirror'
BY DEF Mirror, Silently, socket, browser, Unannounced, LastOf, Agrees, Tells

\* what it sends tells how the item stands now
LEMMA SendMirror ==
    ASSUME Inv, Mirror, NEW i \in Items, NEW k \in Kinds, Send(i, k),
           \A j \in Items \ {i} : stage'[j] = stage[j] /\ emitted'[j] = emitted[j],
           k = "acked" <=> stage'[i] = "started",
           k = "failed" <=> stage'[i] = "failed",
           k = "uploading" => emitted'[i] = 0
    PROVE  Mirror'
<1>1. wire \in Seq(Messages) /\ UNCHANGED browser BY DEF Inv, TypeOK, Send
<1>2. CASE ~connected
  <2>1. wire' = wire /\ missed' = missed \cup {i} BY <1>2 DEF Send
  <2> QED BY <1>1, <2>1 DEF browser, Mirror, Unannounced, LastOf, Agrees, Tells
<1>3. CASE connected
  <2> DEFINE m == Message(i, k)
  <2>1. m.item = i /\ m.kind = k /\ m.pct = emitted'[i] BY DEF Message
  <2>2. wire' = Append(wire, m) BY <1>3 DEF Send
  <2>3. /\ Len(wire) \in Nat /\ Len(wire') = Len(wire) + 1
        /\ wire'[Len(wire) + 1] = m
        /\ \A n \in 1..Len(wire) : wire'[n] = wire[n]
    BY <1>1, <2>2
  <2>4. \A j \in Items \ missed' : j # i => j \notin missed BY <1>3 DEF Send
  <2>5. ~Unannounced(i)' BY <2>1, <2>3 DEF Unannounced
  <2>6. \A n \in 1..Len(wire') : LastOf(n, i)' => n = Len(wire) + 1 BY <2>1, <2>3 DEF LastOf
  <2>7. Tells(wire'[Len(wire) + 1], stage'[i], emitted'[i]) BY <2>1, <2>3 DEF Tells
  <2>8. ASSUME NEW j \in Items \ missed', j # i
        PROVE  /\ Unannounced(j)' => Agrees(j)'
               /\ \A n \in 1..Len(wire') : LastOf(n, j)' => Tells(wire'[n], stage'[j], emitted'[j])
    <3>1. Unannounced(j)' => Unannounced(j) BY <2>3 DEF Unannounced
    <3>2. Agrees(j) => Agrees(j)' BY <1>1, <2>8 DEF Agrees, browser
    <3>3. ASSUME NEW n \in 1..Len(wire'), LastOf(n, j)'
          PROVE  n \in 1..Len(wire) /\ LastOf(n, j) /\ wire'[n] = wire[n]
      <4>1. n # Len(wire) + 1 BY <2>1, <2>3, <2>8, <3>3 DEF LastOf
      <4>2. n \in 1..Len(wire) BY <2>3, <4>1
      <4>3. LastOf(n, j) BY <2>3, <3>3, <4>2 DEF LastOf
      <4> QED BY <2>3, <4>2, <4>3
    <3>4. stage'[j] = stage[j] /\ emitted'[j] = emitted[j] BY <2>8
    <3> QED BY <2>4, <2>8, <3>1, <3>2, <3>3, <3>4 DEF Mirror
  <2> QED
    <3>1. ASSUME NEW j \in Items \ missed'
          PROVE  /\ Unannounced(j)' => Agrees(j)'
                 /\ \A n \in 1..Len(wire') : LastOf(n, j)' => Tells(wire'[n], stage'[j], emitted'[j])
      <4>1. CASE j = i BY <2>5, <2>6, <2>7, <4>1
      <4>2. CASE j # i BY <2>8, <4>2
      <4> QED BY <4>1, <4>2
    <3> QED BY <3>1 DEF Mirror
<1> QED BY <1>2, <1>3

LEMMA DispatcherMirror ==
    ASSUME Inv, Mirror, NEW i \in Items,
           \/ Mismatch(i) \/ Upload(i) \/ Progress(i) \/ UploadFails(i) \/ Cancel(i) \/ Abort(i)
           \/ Command(i) \/ Ack(i) \/ Revert(i) \/ Unwatched(i)
    PROVE  Mirror'
<1> USE DEF Move, Kinds
<1>0. stage \in [Items -> Stages] /\ emitted \in [Items -> 0..Awaiting] /\ 0 \in 0..Awaiting
  BY DEF Inv, TypeOK, Stages, Awaiting
<1>1. ASSUME Fail(i) PROVE Mirror'
  <2>1. /\ Send(i, "failed") /\ stage'[i] = "failed"
        /\ \A j \in Items \ {i} : stage'[j] = stage[j] /\ emitted'[j] = emitted[j]
    BY <1>0, <1>1 DEF Fail
  <2> QED BY <2>1, SendMirror
<1>2. CASE Upload(i)
  <2>1. /\ Send(i, "uploading") /\ stage'[i] = "uploading" /\ emitted'[i] = 0
        /\ \A j \in Items \ {i} : stage'[j] = stage[j] /\ emitted'[j] = emitted[j]
    BY <1>0, <1>2 DEF Upload
  <2> QED BY <2>1, SendMirror
<1>3. CASE Progress(i)
  <2>1. /\ Send(i, "progress") /\ stage'[i] \in {"uploading", "aborted"}
        /\ \A j \in Items \ {i} : stage'[j] = stage[j] /\ emitted'[j] = emitted[j]
    BY <1>0, <1>3 DEF Progress
  <2> QED BY <2>1, SendMirror
<1>4. CASE Ack(i)
  <2>1. /\ Send(i, "acked") /\ stage'[i] = "started"
        /\ \A j \in Items \ {i} : stage'[j] = stage[j] /\ emitted'[j] = emitted[j]
    BY <1>0, <1>4 DEF Ack
  <2> QED BY <2>1, SendMirror
<1>5. ASSUME Silently, UNCHANGED emitted, stage[i] \in {"pending", "uploading", "sent"},
             \E s \in Stages \ {"started", "failed"} : Move(i, s)
      PROVE  Mirror'
  <2>1. \A j \in Items : \A s \in {"started", "failed"} : stage'[j] = s <=> stage[j] = s
    BY <1>0, <1>5
  <2> QED BY <1>5, <2>1, SilentMirror
<1>6. CASE Cancel(i) \/ Unwatched(i)
  BY <1>5, <1>6 DEF Cancel, Unwatched, Stages
<1>7. CASE Command(i)
  BY <1>1, <1>5, <1>7 DEF Command, Uploaded, Stages
<1>8. CASE Revert(i)
  BY <1>1, <1>5, <1>8 DEF Revert, Stages
<1> QED BY <1>1, <1>2, <1>3, <1>4, <1>6, <1>7, <1>8 DEF Mismatch, UploadFails, Abort

\* what is lost of an item is lost from some message on: the rest is a prefix
LEMMA SocketMirror == ASSUME Inv, Mirror, Drop \/ Reconnect PROVE Mirror'
<1>1. wire \in Seq(Messages) BY DEF Inv, TypeOK
<1>2. CASE Reconnect
  BY <1>2 DEF Reconnect, Mirror, Unannounced, LastOf, Agrees, server, browser
<1>3. CASE Drop
  <2>1. PICK n \in 0..Len(wire) :
          /\ wire' = SubSeq(wire, 1, n)
          /\ missed' = missed \cup {m.item : m \in ToSet(SubSeq(wire, n + 1, Len(wire)))}
    BY <1>3 DEF Drop
  <2>2. UNCHANGED <<server, browser>> BY <1>3 DEF Drop
  <2>3. Len(wire') = n /\ \A k \in 1..n : wire'[k] = wire[k] BY <1>1, <2>1
  <2>4. ASSUME NEW j \in Items \ missed', NEW k \in (n + 1)..Len(wire) PROVE wire[k].item # j
    <3> DEFINE cut == SubSeq(wire, n + 1, Len(wire))
    <3>1. n \in Nat /\ Len(wire) \in Nat /\ n <= Len(wire) BY <1>1
    <3>2. /\ k - n \in 1..(Len(wire) - n)
          /\ n + 1 + (k - n) - 1 = k
      BY <3>1
    <3>3. DOMAIN cut = 1..(Len(wire) - n)
      BY <1>1, <3>1
    <3>4. cut[k - n] = wire[n + 1 + (k - n) - 1]
      BY <1>1, <3>1, <3>2
    <3> HIDE DEF cut
    <3>5. wire[k] \in {cut[x] : x \in DOMAIN cut}
      BY <3>2, <3>3, <3>4
    <3>6. wire[k] \in ToSet(SubSeq(wire, n + 1, Len(wire)))
      BY <3>5 DEF ToSet, cut
    <3> QED BY <2>1, <3>6
  <2>5. ASSUME NEW j \in Items \ missed'
        PROVE  /\ Unannounced(j)' => Agrees(j)'
               /\ \A k \in 1..Len(wire') : LastOf(k, j)' => Tells(wire'[k], stage'[j], emitted'[j])
    <3>1. j \notin missed BY <2>1
    <3>2. \A k \in 1..Len(wire) : k \in 1..n \/ k \in (n + 1)..Len(wire) BY <1>1
    <3>3. Unannounced(j)' => Unannounced(j)
      BY <2>3, <2>4, <3>2 DEF Unannounced
    <3>4. Agrees(j) => Agrees(j)' BY <2>2 DEF Agrees, server, browser
    <3>5. ASSUME NEW k \in 1..Len(wire'), LastOf(k, j)' PROVE LastOf(k, j) /\ k \in 1..Len(wire)
      BY <1>1, <2>3, <2>4, <3>2, <3>5 DEF LastOf
    <3> QED BY <2>2, <2>3, <3>1, <3>3, <3>4, <3>5 DEF Mirror, server
  <2> QED BY <2>5 DEF Mirror
<1> QED BY <1>2, <1>3

\* the last message of an item makes its card agree; the others leave theirs
LEMMA DeliverMirror == ASSUME Inv, Mirror, Deliver PROVE Mirror'
<1> DEFINE m == Head(wire)
<1>1. wire \in Seq(Messages) /\ wire # <<>>
  BY DEF Inv, TypeOK, Deliver
<1>2. m \in Messages /\ m = wire[1] /\ 1 \in 1..Len(wire)
  BY <1>1
<1>3. /\ Len(wire) \in Nat /\ Len(wire') = Len(wire) - 1
      /\ \A n \in 1..Len(wire') : wire'[n] = wire[n + 1] /\ n + 1 \in 1..Len(wire)
      /\ \A n \in 1..Len(wire) : n # 1 => n - 1 \in 1..Len(wire')
  BY <1>1 DEF Deliver
<1>4. stage' = stage /\ emitted' = emitted /\ missed' = missed
  BY DEF Deliver, server
<1>5. m.item \in Items /\ m.kind \in Kinds BY <1>2 DEF Messages
<1>6. ASSUME NEW j \in Items \ missed, NEW n \in 1..Len(wire'), LastOf(n, j)'
      PROVE  Tells(wire'[n], stage[j], emitted[j])
  <2>1. n + 1 \in 1..Len(wire) /\ wire[n + 1] = wire'[n] BY <1>3
  <2>2. ASSUME NEW k \in 1..Len(wire), k > n + 1 PROVE wire[k].item # j
    <3>1. k - 1 \in 1..Len(wire') /\ k - 1 > n /\ (k - 1) + 1 = k BY <1>3, <2>2
    <3>2. wire'[k - 1] = wire[k] BY <1>3, <3>1
    <3> QED BY <1>6, <3>1, <3>2 DEF LastOf
  <2>3. LastOf(n + 1, j) BY <1>6, <2>1, <2>2 DEF LastOf
  <2> QED BY <2>1, <2>3 DEF Mirror
<1>7. ASSUME NEW j \in Items \ missed, Unannounced(j)', j # m.item PROVE Agrees(j)'
  <2>1. card'[j] = card[j] /\ pct'[j] = pct[j]
    BY <1>5, <1>7 DEF Deliver, Inv, TypeOK
  <2>2. ASSUME NEW n \in 1..Len(wire) PROVE wire[n].item # j
    <3>1. CASE n = 1 BY <1>2, <1>7, <3>1
    <3>2. CASE n # 1
      <4>1. n - 1 \in 1..Len(wire') /\ (n - 1) + 1 = n BY <1>3, <3>2
      <4>2. wire'[n - 1] = wire[n] BY <1>3, <4>1
      <4> QED BY <1>7, <4>1, <4>2 DEF Unannounced
    <3> QED BY <3>1, <3>2
  <2>3. Agrees(j) BY <2>2 DEF Mirror, Unannounced
  <2> QED BY <1>4, <2>1, <2>3 DEF Agrees
<1>8. ASSUME NEW j \in Items \ missed, Unannounced(j)', j = m.item PROVE Agrees(j)'
  <2>1. LastOf(1, j)
    <3>1. ASSUME NEW k \in 1..Len(wire), k > 1 PROVE wire[k].item # j
      <4>1. k - 1 \in 1..Len(wire') /\ (k - 1) + 1 = k BY <1>3, <3>1
      <4>2. wire'[k - 1] = wire[k] BY <1>3, <4>1
      <4> QED BY <1>8, <4>1, <4>2 DEF Unannounced
    <3> QED BY <1>2, <1>8, <3>1 DEF LastOf
  <2>2. Tells(m, stage[j], emitted[j]) BY <1>2, <2>1 DEF Mirror
  <2>3. CASE ~(m.kind = "uploading" \/ card[m.item] # "absent")
    BY <1>8, <2>3 DEF Deliver, Agrees
  <2>4. CASE m.kind = "uploading" \/ card[m.item] # "absent"
    <3>1. card'[j] = ShownStatus(m) /\ pct'[j] = ShownPct(m)
      BY <1>5, <1>8, <2>4 DEF Deliver, Inv, TypeOK
    <3> HIDE DEF m
    <3>2. /\ m.kind = "uploading" => ShownStatus(m) = "processing" /\ ShownPct(m) = 0
          /\ m.kind = "progress" => ShownStatus(m) = card[m.item] /\ ShownPct(m) = m.pct
          /\ m.kind = "acked" => ShownStatus(m) = "completed"
          /\ m.kind = "failed" => ShownStatus(m) = "failed"
      BY DEF ShownStatus, ShownPct
    <3>3. m.kind = "progress" => card[j] = "processing"
      BY <1>8, <2>2, <2>4 DEF Tells, Inv, TypeOK, OutcomeTrue, Statuses
    <3> QED BY <1>4, <1>5, <1>8, <2>2, <3>1, <3>2, <3>3 DEF Agrees, Tells, Kinds
  <2> QED BY <2>3, <2>4
<1>9. ASSUME NEW j \in Items \ missed'
      PROVE  /\ Unannounced(j)' => Agrees(j)'
             /\ \A n \in 1..Len(wire') : LastOf(n, j)' => Tells(wire'[n], stage'[j], emitted'[j])
  BY <1>4, <1>6, <1>7, <1>8
<1> QED BY <1>9 DEF Mirror

LEMMA CardMirror ==
    ASSUME Mirror, Dismiss \/ Fire \/ Tick \/ Redraw \/ OtherToast PROVE Mirror'
<1>1. UNCHANGED <<server, socket>>
      /\ (UNCHANGED <<card, pct>> \/ card' = [i \in Items |-> "absent"])
  BY DEF Dismiss, Fire, TakeAway, Tick, Redraw, OtherToast
<1> QED BY <1>1 DEF Mirror, Unannounced, LastOf, Agrees, server, socket

\* With nothing under way and nothing of it lost, an item is shown as it
\* stands, with the progress of its current upload, for any number of items,
\* losses and attempts (onDispatchEvent, _watchdog_print_start).
THEOREM CardTrue == Spec => []CardMirrors
<1>1. Init => Mirror
  BY DEF Init, Mirror, Agrees, LastOf
<1>2. Inv /\ Mirror /\ [Next]_vars => Mirror'
  <2> SUFFICES ASSUME Inv, Mirror, [Next]_vars PROVE Mirror'
    OBVIOUS
  <2>1. CASE UNCHANGED vars
    BY <2>1 DEF vars, server, socket, browser, Mirror, Unannounced, LastOf, Agrees
  <2>2. CASE Next
    BY <2>2, DispatcherMirror, SocketMirror, DeliverMirror, CardMirror DEF Next
  <2> QED BY <2>1, <2>2
<1>3. Mirror => CardMirrors
  BY DEF Mirror, CardMirrors, Unannounced, Agrees
<1> QED BY <1>1, <1>2, <1>3, Invariant, PTL DEF Spec
=============================================================================
