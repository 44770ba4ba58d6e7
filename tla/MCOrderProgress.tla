--------------------------- MODULE MCOrderProgress ---------------------------
(* Two orders: one of two items, made by two stations, and one of one item. *)
EXTENDS OrderProgress, TLC

CONSTANTS o1, o2, i1, i2, i3

MCItemsOf == o1 :> {i1, i2} @@ o2 :> {i3}
=============================================================================
