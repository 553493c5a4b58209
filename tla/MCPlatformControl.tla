-------------------------- MODULE MCPlatformControl --------------------------
(* Instances of PlatformControl for TLC: two requests under two keys, one    *)
(* user, two endpoint revisions.                                             *)
EXTENDS PlatformControl, TLC

CONSTANTS r1, r2, k1, k2, u1

\* requests and keys are interchangeable (safety only)
RequestSymmetry == Permutations(Requests) \cup Permutations(Keys)
=============================================================================
