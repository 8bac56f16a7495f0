-------------------------- MODULE MCExpBufSession --------------------------
(* Two byte values, interchangeable; blocks of two bytes and segments of   *)
(* up to three, so that a segment fits, fills its block exactly, or runs   *)
(* over into the next.                                                     *)
EXTENDS ExpBufSession, TLC

CONSTANTS a, b  \* the two byte values

ByteSymmetry == Permutations({a, b})

=============================================================================
