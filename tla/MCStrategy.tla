----------------------------- MODULE MCStrategy -----------------------------
(* Stalls of one goal and the pivots that answer them, for TLC: a first    *)
(* dimension that may improve, worsen or be met, and a second that stays.  *)
EXTENDS Strategy

MCGaps == <<{0, 50, 100}, {50}>>
MCFlat == <<{50}>>
=============================================================================
