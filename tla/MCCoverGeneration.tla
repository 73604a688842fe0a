------------------------- MODULE MCCoverGeneration -------------------------
(* Small instances of CoverGeneration: every request is for one playlist,  *)
(* which is the contention a claim is about.                               *)
EXTENDS CoverGeneration, TLC

CONSTANTS r1, r2, r3, p1

ThreeRequests == (r1 :> p1) @@ (r2 :> p1) @@ (r3 :> p1)
TwoRequests == (r1 :> p1) @@ (r2 :> p1)

RunSymmetry == Permutations({r1, r2, r3})
=============================================================================
