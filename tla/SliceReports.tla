---------------------------- MODULE SliceReports ----------------------------
(***************************************************************************)
(* What background slicing promises its user, without jobs ids, polls or   *)
(* toasts: a slice that was started ends one way, and what the user is     *)
(* told of it is how it ended.  The promise lapses for a slice whose       *)
(* record the server has dropped: of that one anything may be told.        *)
(***************************************************************************)
CONSTANT Slices

VARIABLES
    fate,   \* "none" before the start, "pending", "completed" or "failed"
    told,   \* "none", or the outcome the user was shown last
    lost    \* the slices the server no longer knows

Outcomes == {"completed", "failed"}

Init ==
    /\ fate = [s \in Slices |-> "none"] /\ told = [s \in Slices |-> "none"]
    /\ lost = {}

Begin(s) ==
    /\ fate[s] = "none" /\ fate' = [fate EXCEPT ![s] = "pending"]
    /\ UNCHANGED told

Decide(s, o) ==
    /\ fate[s] = "pending" /\ s \notin lost
    /\ fate' = [fate EXCEPT ![s] = o]
    /\ UNCHANGED <<told, lost>>

Drop ==
    /\ lost' \in {L \in SUBSET Slices : lost \subseteq L}
    /\ UNCHANGED <<fate, told>>

Tell(s, o) ==
    /\ s \in lost \/ fate[s] = o
    /\ told' = [told EXCEPT ![s] = o]
    /\ UNCHANGED <<fate, lost>>

\* A start may find old records to drop.
Start(s) ==
    Begin(s) /\ lost' \in {L \in SUBSET Slices : lost \subseteq L}

Next ==
    \/ Drop
    \/ \E s \in Slices : Start(s) \/ \E o \in Outcomes : Decide(s, o) \/ Tell(s, o)

Spec == Init /\ [][Next]_<<fate, told, lost>>
=============================================================================
