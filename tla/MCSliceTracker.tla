--------------------------- MODULE MCSliceTracker ---------------------------
(* An instance of SliceTracker for TLC: two slices, two overlapping rounds. *)
EXTENDS SliceTracker, TLC
=============================================================================
