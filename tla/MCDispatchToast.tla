-------------------------- MODULE MCDispatchToast --------------------------
(* An instance of DispatchToast for TLC: two items in one card.             *)
EXTENDS DispatchToast, TLC
=============================================================================
