------------------------------ MODULE MCDrawing -----------------------------
(* Drawing on a screen of 12 columns and 11 rows in a buffer 13 words wide:*)
(* circles with every centre on it and around it and every radius up to    *)
(* one that does not fit; cylinders inside, half outside and upside down;  *)
(* and kmain's own radius of 100, of which nothing is visible.             *)
EXTENDS Drawing

Call(f, cx, cy, r, length) == [f |-> f, cx |-> cx, cy |-> cy, r |-> r, length |-> length]

MCCalls ==
  {Call("draw_circle_outline", cx, cy, r, 0) : cx \in -2 .. 14, cy \in -2 .. 12, r \in 0 .. 6}
    \cup {Call("draw_cylinder_outline", cx, base, r, length) :
            cx \in {-1, 3, 5, 6, 12}, base \in -1 .. 12, r \in 0 .. 5, length \in -1 .. 9}
    \cup {Call("draw_circle_outline", 6, 5, 100, 0)}
=============================================================================
