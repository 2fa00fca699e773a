------------------------------ MODULE MCBadges ------------------------------
(* An instance of Badges for TLC: one image.  Backgrounds do a part of what images do,  *)
(* and elements share the counter of badges and the scheduled update only; BadgesProofs    *)
(* is about any number of elements.                                                         *)
EXTENDS Badges, TLC

CONSTANT i1
=============================================================================
