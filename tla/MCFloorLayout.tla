---------------------------- MODULE MCFloorLayout ----------------------------
(* FloorLayout for TLC: a wide table for takeaway and, when it is created,   *)
(* two of the hall.                                                        *)
EXTENDS FloorLayout, TLC

CONSTANTS t1, t2, t3

MCZoneOf  == (t1 :> "paket") @@ (t2 :> "salon") @@ (t3 :> "salon")
\* A spot beyond the canvas or the thing, as a drag goes on there, and a spot
\* between whole percents.
MCPointer == {Point(P(110), P(110)), Point(P(40) + 1, P(30) + 1)}

MCSymmetry == Permutations(Browser) \cup Permutations({t2, t3})
=============================================================================
