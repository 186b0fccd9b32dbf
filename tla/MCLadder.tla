------------------------------ MODULE MCLadder ------------------------------
(* Small instances of Ladder: two markets, prices on both sides of each rung *)
(* and one above max_price.                                                  *)
EXTENDS Ladder, TLC

CONSTANTS m1, m2
MCSymmetry == Permutations({m1, m2})
=============================================================================
