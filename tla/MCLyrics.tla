------------------------------ MODULE MCLyrics ------------------------------
(* Lyrics on a small instance: a playlist that holds one song twice. *)
EXTENDS Lyrics, TLC
CONSTANTS r1, r2
ResolveSymmetry == Permutations({r1, r2})
MCPlaylist == <<"a", "b", "a">>
MCSize == [a |-> 2, b |-> 3]
=============================================================================
