--------------------------- MODULE MCVerdictLookup ---------------------------
(* Instances of VerdictLookup for TLC: two pages that show one image address, or two  *)
(* addresses of one image.  A tick is five minutes: verdicts are good for two ticks    *)
(* instead of six, the server's key for three instead of 288.                          *)
EXTENDS VerdictLookup, TLC

CONSTANTS p1, p2

SameUrl  == [p \in Pages |-> "a.png"]
OwnUrl   == p1 :> "a.png" @@ p2 :> "b.png"
OneImage == [u \in Urls |-> "image"]

Symmetry == Permutations(Pages)
=============================================================================
