---------------------------- MODULE MCSeparateRects ----------------------------
(* Three rectangles on a grid of three by three squares, all that can be drawn
   and two that cannot; two of them are more than a set of one takes. *)
EXTENDS SeparateRects

GridRect(l, t, r, b) == [left |-> l, top |-> t, right |-> r, bottom |-> b]

GridRects ==
  {GridRect(l, t, r, b) : l \in 0..2, t \in 0..2, r \in 1..3, b \in 1..3}

Drawn == {r \in GridRects : Proper(r)}
NotDrawn == {GridRect(1, 1, 1, 2), GridRect(2, 0, 1, 3)}

ThreeRects == {<<a, b, c>> : a \in Drawn, b \in Drawn \cup NotDrawn, c \in Drawn}
                \cup {<<a, a, a, b>> : a \in Drawn, b \in Drawn}
===============================================================================
