---------------------------- MODULE DispatchToast ----------------------------
(***************************************************************************)
(* The dispatch toast: the one card in which a browser shows the queue     *)
(* items being sent to printers (contexts/ToastContext.tsx).  The          *)
(* dispatcher announces the upload, its progress and most ends of an item  *)
(* over a socket that keeps order and loses what is under way when it      *)
(* drops (services/print_scheduler.py, core/websocket.py).  Some ends are  *)
(* never announced: a deferred or reverted dispatch, a cancellation of a   *)
(* waiting item, a watchdog that lost its printer.                         *)
(***************************************************************************)
EXTENDS Naturals, Sequences, SequencesExt

CONSTANTS
    Items,
    MaxAttempts,   \* DISPATCH_MAX_ATTEMPTS
    Delay,         \* DISPATCH_TERMINAL_DISMISS_MS, in ticks
    MaxDrops,      \* bound: losses of the socket
    MaxWire        \* bound: messages under way

ASSUME ConstAssumption ==
    MaxAttempts \in Nat \ {0} /\ Delay \in Nat \ {0}

Awaiting == 2      \* uploadProgressPct >= 99.9: "Awaiting printer..."
Ended == {"started", "failed", "quiet"}
Kinds == {"uploading", "progress", "acked", "failed"}
Messages == [item : Items, kind : Kinds, pct : 0..Awaiting]
Statuses == {"absent", "processing", "completed", "failed"}

VARIABLES
    stage,      \* of each item at the dispatcher
    attempts,   \* dispatch_attempts
    emitted,    \* the progress announced last: 0, 1 or Awaiting
    connected, wire, drops,
    missed,     \* items with a message lost since their upload was announced
    card,       \* per item "absent" or its DispatchJobStatus
    pct,        \* its uploadProgressPct, 0 when absent
    timer,      \* ticks until the card is dismissed, 0 for no timer
    late,       \* items announced since the timer was set
    others      \* is there another toast, which may be redrawn?

server == <<stage, attempts, emitted>>
socket == <<connected, wire, drops, missed>>
browser == <<card, pct, timer, late, others>>
vars == <<server, socket, browser>>
-----------------------------------------------------------------------------
(* The dispatcher.                                                          *)

Message(i, k) == [item |-> i, kind |-> k, pct |-> emitted'[i]]

\* broadcast_to_user: a browser that is not connected gets nothing.
Send(i, k) ==
    /\ Len(wire) < MaxWire
    /\ wire' = IF connected THEN Append(wire, Message(i, k)) ELSE wire
    /\ missed' = IF ~connected THEN missed \cup {i}
                 ELSE IF k = "uploading" THEN missed \ {i} ELSE missed
    /\ UNCHANGED <<connected, drops, browser>>

Silently == UNCHANGED <<socket, browser>>
Move(i, s) == stage' = [stage EXCEPT ![i] = s]

Upload(i) ==
    /\ stage[i] = "pending" /\ Move(i, "uploading")
    /\ emitted' = [emitted EXCEPT ![i] = 0]
    /\ Send(i, "uploading")
    /\ UNCHANGED attempts

\* _UploadProgressBridge; a retried transfer starts again from the beginning.
Progress(i) ==
    /\ stage[i] \in {"uploading", "aborted"}
    /\ \E p \in 1..Awaiting : emitted' = [emitted EXCEPT ![i] = p]
    /\ Send(i, "progress")
    /\ UNCHANGED <<stage, attempts>>

Fail(i) ==
    /\ Move(i, "failed") /\ emitted' = emitted
    /\ Send(i, "failed")

\* A file sliced for another nozzle is refused before its upload is announced.
Mismatch(i) == stage[i] = "pending" /\ Fail(i) /\ UNCHANGED attempts

UploadFails(i) ==
    stage[i] \in {"uploading", "aborted"} /\ Fail(i) /\ UNCHANGED attempts

\* A cancellation by the user; the dispatcher sees it when the upload is done.
Cancel(i) ==
    /\ stage[i] \in {"pending", "uploading"}
    /\ Move(i, IF stage[i] = "pending" THEN "quiet" ELSE "aborted")
    /\ Silently /\ UNCHANGED <<attempts, emitted>>

Uploaded(i, s) == stage[i] = s /\ emitted[i] = Awaiting

Abort(i) == Uploaded(i, "aborted") /\ Fail(i) /\ UNCHANGED attempts

\* The start command: taken, refused, or deferred because the printer is busy.
Command(i) ==
    /\ Uploaded(i, "uploading")
    /\ \/ Move(i, "sent") /\ Silently /\ UNCHANGED <<attempts, emitted>>
       \/ Move(i, "pending") /\ Silently /\ UNCHANGED <<attempts, emitted>>
       \/ Fail(i) /\ UNCHANGED attempts

\* mutant: the watchdog acknowledges whatever becomes of the start
AckAnyway(i) ==
    /\ stage[i] = "sent" /\ emitted' = emitted /\ Send(i, "acked")
    /\ (Move(i, "started") \/ Move(i, "quiet")) /\ UNCHANGED attempts
\* _watchdog_print_start: the printer starts; or it never does, and the item
\* goes back to the queue until its attempts are spent; or the printer is lost
\* or the row has moved on.
Ack(i) ==
    /\ stage[i] = "sent" /\ emitted' = emitted /\ Send(i, "acked")
    /\ Move(i, "started") /\ UNCHANGED attempts

Revert(i) ==
    /\ stage[i] = "sent"
    /\ attempts' = [attempts EXCEPT ![i] = @ + 1]
    /\ IF attempts'[i] < MaxAttempts
       THEN Move(i, "pending") /\ Silently /\ UNCHANGED emitted
       ELSE Fail(i)

Unwatched(i) ==
    /\ stage[i] = "sent" /\ Move(i, "quiet")
    /\ Silently /\ UNCHANGED <<attempts, emitted>>
-----------------------------------------------------------------------------
(* The socket.                                                              *)

Drop ==
    /\ connected /\ drops < MaxDrops
    /\ connected' = FALSE /\ drops' = drops + 1
    /\ \E n \in 0..Len(wire) :
        /\ wire' = SubSeq(wire, 1, n)
        /\ missed' = missed \cup {m.item : m \in ToSet(SubSeq(wire, n + 1, Len(wire)))}
    /\ UNCHANGED <<server, browser>>

Reconnect ==
    /\ ~connected /\ connected' = TRUE
    /\ UNCHANGED <<server, wire, drops, missed, browser>>
-----------------------------------------------------------------------------
(* The card.                                                                *)

Open(c) == \E i \in Items : c[i] # "absent"
Processing(c) == {i \in Items : c[i] = "processing"}

\* mutants: no card is dismissed that has a failure in it; each change of the
\* card sets the timer
AllCompleted(c) == Open(c) /\ \A i \in Items : c[i] \in {"absent", "completed"}
Opened(c) == Open(c)
\* The condition under which the auto-dismiss effect sets the timer.
Terminal(c) == Open(c) /\ Processing(c) = {}

\* The effect runs after every change of the list of toasts.  It sets the
\* timer anew, but it does not stop one for an item that has just arrived.
AfterChange(arrived) ==
    IF Terminal(card') THEN timer' = Delay /\ late' = {}
    ELSE UNCHANGED timer /\ late' = late \cup arrived

\* mutant: an upload announced again keeps the progress of the card
ShownPctKept(m) ==
    IF m.kind = "acked" THEN Awaiting
    ELSE IF m.kind = "progress" THEN m.pct ELSE pct[m.item]
\* onDispatchEvent
ShownPct(m) ==
    CASE m.kind = "uploading" -> 0
      [] m.kind = "progress" -> m.pct
      [] m.kind = "acked" -> Awaiting
      [] m.kind = "failed" -> pct[m.item]
ShownStatus(m) ==
    CASE m.kind = "uploading" -> "processing"
      [] m.kind = "progress" -> card[m.item]
      [] m.kind = "acked" -> "completed"
      [] m.kind = "failed" -> "failed"

Deliver ==
    /\ wire # <<>> /\ wire' = Tail(wire)
    /\ LET m == Head(wire) IN
       IF m.kind = "uploading" \/ card[m.item] # "absent"
       THEN /\ card' = [card EXCEPT ![m.item] = ShownStatus(m)]
            /\ pct' = [pct EXCEPT ![m.item] = ShownPct(m)]
            /\ AfterChange(IF m.kind = "uploading" THEN {m.item} ELSE {})
       ELSE UNCHANGED <<card, pct, timer, late>>
    /\ UNCHANGED <<server, connected, drops, missed, others>>

TakeAway ==
    /\ card' = [i \in Items |-> "absent"] /\ pct' = [i \in Items |-> 0]
    /\ timer' = 0 /\ late' = {}
    /\ UNCHANGED <<server, socket, others>>

\* dismissToast, from the button of the card
Dismiss == Open(card) /\ TakeAway

Fire == timer = 1 /\ TakeAway

Tick ==
    /\ timer > 1 /\ timer' = timer - 1
    /\ UNCHANGED <<server, socket, card, pct, late, others>>

\* Another toast that comes, goes or is drawn again (that of a slice job is, each
\* second) is a change of the list of toasts.
Redraw ==
    /\ others /\ card' = card /\ AfterChange({})
    /\ UNCHANGED <<server, socket, pct, others>>

OtherToast ==
    /\ others' = ~others /\ card' = card /\ AfterChange({})
    /\ UNCHANGED <<server, socket, pct>>
-----------------------------------------------------------------------------
Init ==
    /\ stage = [i \in Items |-> "pending"] /\ attempts = [i \in Items |-> 0]
    /\ emitted = [i \in Items |-> 0]
    /\ connected = TRUE /\ wire = <<>> /\ drops = 0 /\ missed = {}
    /\ card = [i \in Items |-> "absent"] /\ pct = [i \in Items |-> 0]
    /\ timer = 0 /\ late = {} /\ others = FALSE

Next ==
    \/ \E i \in Items :
        \/ Mismatch(i) \/ Upload(i) \/ Progress(i) \/ UploadFails(i) \/ Cancel(i) \/ Abort(i)
        \/ Command(i) \/ Ack(i) \/ Revert(i) \/ Unwatched(i)
    \/ Drop \/ Reconnect
    \/ Deliver \/ Dismiss \/ Fire \/ Tick \/ Redraw \/ OtherToast

\* Messages that have arrived are handled, and time passes.
Fairness == WF_vars(Deliver) /\ WF_vars(Tick) /\ WF_vars(Fire)

Spec == Init /\ [][Next]_vars /\ Fairness
-----------------------------------------------------------------------------
(* Properties.                                                              *)

TypeOK ==
    /\ stage \in [Items -> {"pending", "uploading", "aborted", "sent"} \cup Ended]
    /\ attempts \in [Items -> Nat]
    /\ emitted \in [Items -> 0..Awaiting]
    /\ connected \in BOOLEAN /\ missed \subseteq Items /\ drops \in Nat
    /\ wire \in Seq(Messages)
    /\ card \in [Items -> Statuses]
    /\ pct \in [Items -> 0..Awaiting]
    /\ timer \in 0..Delay /\ late \subseteq Items /\ others \in BOOLEAN

\* Whatever was lost, dismissed or is still under way: an item shown as
\* completed was started by its printer, and one shown as failed was given up
\* and is not tried again (onDispatchEvent, _watchdog_print_start).
OutcomeTrue ==
    \A i \in Items :
        /\ card[i] = "completed" => stage[i] = "started"
        /\ card[i] = "failed" => stage[i] = "failed"

\* With nothing under way, an item none of whose messages was lost is shown
\* as it stands: its end if that was announced, else the progress of its
\* current upload and not of an earlier one (isAwaitingPrinter).
CardMirrors ==
    wire = <<>> =>
        \A i \in Items \ missed : card[i] # "absent" =>
            IF stage[i] \in {"started", "failed"}
            THEN card[i] = (IF stage[i] = "started" THEN "completed" ELSE "failed")
            ELSE card[i] = "processing" /\ pct[i] = emitted[i]

\* The timer takes away no item that was in progress when it was set.  (It does
\* take away one whose upload was announced since: the timer is not stopped.)
OnlyLateLost == [][Fire => Processing(card) \subseteq late]_vars

\* A card with nothing in progress goes away, failures or not, unless
\* another toast is there: one redrawn each second sets the timer anew each time.
CardGoes ==
    (Open(card) /\ Processing(card) = {}) ~>
        (~Open(card) \/ Processing(card) # {} \/ others)
=============================================================================
