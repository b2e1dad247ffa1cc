------------------------------- MODULE Drawing ------------------------------
(***************************************************************************)
(* The figure kmain draws: put_pixel, draw_circle_outline and              *)
(* draw_cylinder_outline of main.c.  A behaviour is one call of one of the *)
(* two outlines, an iteration of a loop per step; the framebuffer is the   *)
(* set of the words written.                                               *)
(***************************************************************************)
EXTENDS Integers, FiniteSets

CONSTANTS
  Calls,   \* [f, cx, cy, r, length]: cy is base_y and length height of a cylinder
  Width,   \* the screen's visible columns and its rows
  Height,
  Pitch    \* 32-bit words from one row to the next

ASSUME DrawingAssumption ==
  /\ Width \in Nat /\ Height \in Nat /\ Pitch \in Nat
  /\ Width <= Pitch
  /\ \A c \in Calls :
       /\ c.f \in {"draw_circle_outline", "draw_cylinder_outline"}
       /\ c.cx \in Int /\ c.cy \in Int /\ c.r \in Nat /\ c.length \in Int

VARIABLES
  call,
  pc,       \* "circle", "sides", "cap" or "done"
  x, y, d,  \* the arc: a point of one octant and the decision variable
  row,      \* the loop counter of a cylinder's sides
  fb        \* the words of the framebuffer that have been written

vars == <<call, pc, x, y, d, row, fb>>

-----------------------------------------------------------------------------
\* Mutant: the column behind the last counts as visible.
put_pixel_one_over(px, py) ==
  IF px >= 0 /\ px <= Width /\ py >= 0 /\ py < Height THEN {py * Pitch + px} ELSE {}

\* The word put_pixel writes, if any.
put_pixel(px, py) ==
  IF px >= 0 /\ px < Width /\ py >= 0 /\ py < Height THEN {py * Pitch + px} ELSE {}

put_pixels(points) == UNION {put_pixel(p[1], p[2]) : p \in points}

\* Mutant: one of the eight is drawn twice and its mirror image not at all.
OctantsOneMissing(cx, cy) ==
  {<<cx + x, cy + y>>, <<cx - x, cy + y>>, <<cx + x, cy - y>>, <<cx - x, cy - y>>,
   <<cx + y, cy + x>>, <<cx + y, cy + x>>, <<cx + y, cy - x>>, <<cx - y, cy - x>>}

\* The eight points of the circle that x and y stand for.
Octants(cx, cy) ==
  {<<cx + x, cy + y>>, <<cx - x, cy + y>>, <<cx + x, cy - y>>, <<cx - x, cy - y>>,
   <<cx + y, cy + x>>, <<cx - y, cy + x>>, <<cx + y, cy - x>>, <<cx - y, cy - x>>}

\* The four of them on a cylinder's cap, cy being the row of its centre.
CapOctants(cx, cy) == {<<cx + x, cy - y>>, <<cx - x, cy - y>>, <<cx + y, cy - x>>, <<cx - y, cy - x>>}

top_y == call.cy - call.length

Init ==
  /\ call \in Calls
  /\ pc = IF call.f = "draw_circle_outline" THEN "circle" ELSE "sides"
  /\ x = 0 /\ y = call.r /\ d = 3 - 2 * call.r
  /\ row = IF call.f = "draw_circle_outline" THEN 0 ELSE top_y + call.r
  /\ fb = {}

\* Mutant: y never steps down.
AdvanceFlat ==
  /\ x' = x + 1
  /\ y' = y
  /\ d' = d + 4 * x' + 6

\* The next point of the arc.
Advance ==
  /\ x' = x + 1
  /\ IF d < 0 THEN y' = y     /\ d' = d + 4 * x' + 6
              ELSE y' = y - 1 /\ d' = d + 4 * (x' - y') + 10

Circle ==
  /\ pc = "circle" /\ y >= x
  /\ fb' = fb \cup put_pixels(Octants(call.cx, call.cy))
  /\ Advance
  /\ UNCHANGED <<call, pc, row>>

\* Mutant: the sides start at the top of the cap.
SidesFromTop ==
  /\ pc = "sides" /\ row < call.cy
  /\ fb' = fb \cup put_pixels({<<call.cx - call.r, row - call.r>>, <<call.cx + call.r, row - call.r>>})
  /\ row' = row + 1
  /\ UNCHANGED <<call, pc, x, y, d>>

Sides ==
  /\ pc = "sides" /\ row < call.cy
  /\ fb' = fb \cup put_pixels({<<call.cx - call.r, row>>, <<call.cx + call.r, row>>})
  /\ row' = row + 1
  /\ UNCHANGED <<call, pc, x, y, d>>

SidesDone ==
  /\ pc = "sides" /\ row >= call.cy
  /\ pc' = "cap"
  /\ UNCHANGED <<call, x, y, d, row, fb>>

Cap ==
  /\ pc = "cap" /\ y >= x
  /\ fb' = fb \cup put_pixels(CapOctants(call.cx, top_y + call.r))
  /\ Advance
  /\ UNCHANGED <<call, pc, row>>

Done ==
  /\ pc \in {"circle", "cap"} /\ y < x
  /\ pc' = "done"
  /\ UNCHANGED <<call, x, y, d, row, fb>>

Next == Circle \/ Sides \/ SidesDone \/ Cap \/ Done

Spec == Init /\ [][Next]_vars
-----------------------------------------------------------------------------
(* Properties.                                                             *)

\* x, y and d stay in a range the radius gives: y never falls more than
\* two behind x, and d, which must not overflow, within four radii of zero.
TypeOK ==
  /\ pc \in {"circle", "sides", "cap", "done"}
  /\ x \in 0 .. call.r + 1
  /\ y \in -1 .. call.r /\ y >= x - 2
  /\ d \in -(4 * call.r + 3) .. 3 * call.r + 30

\* The figure does not touch the screen's edges: nothing was clipped.
Inside ==
  /\ call.cx - call.r >= 0 /\ call.cx + call.r < Width
  /\ IF call.f = "draw_circle_outline"
     THEN call.cy - call.r >= 0 /\ call.cy + call.r < Height
     ELSE top_y >= 0 /\ top_y + call.r < Height /\ call.cy <= Height

Screen == (0 .. Width - 1) \X (0 .. Height - 1)
Lit == {p \in Screen : p[2] * Pitch + p[1] \in fb}

Neighbours(p) == {q \in Lit \ {p} : q[1] - p[1] \in -1 .. 1 /\ q[2] - p[2] \in -1 .. 1}

\* The row in which a cylinder's outline ends, open to below.
Bottom == IF call.cy > top_y + call.r THEN call.cy - 1 ELSE top_y + call.r

\* A finished outline has no gap: every pixel continues in two others.  The
\* octants, which are drawn from their far ends, meet on the diagonals, and a
\* cylinder's sides meet its cap; only its two feet are ends.
NoGaps ==
  (pc = "done" /\ Inside /\ call.r > 0) =>
    \A p \in Lit :
      \/ Cardinality(Neighbours(p)) >= 2
      \/ /\ call.f = "draw_cylinder_outline"
         /\ p[2] = Bottom /\ Cardinality(Neighbours(p)) = 1

\* The points between the circles of radius r - 2 and r + 1.
Near(a, b, r) ==
  /\ a * a + b * b < (r + 1) * (r + 1)
  /\ r >= 2 => a * a + b * b > (r - 2) * (r - 2)

\* A circle is round to within two pixels: the decision variable is updated
\* after x and y have moved, which draws it smaller than the radius, but not
\* by more; and it is its own mirror image in both axes and the diagonals.
\* This holds of what is on the screen, wherever the edges cut the circle, and
\* every word that was written shows there: what is cut off does not come out
\* at another place, in the next row or in the padding behind one.
Round ==
  (pc = "done" /\ call.f = "draw_circle_outline") =>
    /\ \A w \in fb : \E p \in Lit : w = p[2] * Pitch + p[1]
    /\ \A p \in Lit :
         LET a == p[1] - call.cx
             b == p[2] - call.cy
         IN  /\ Near(a, b, call.r)
             /\ ({<<call.cx - a, call.cy + b>>, <<call.cx + a, call.cy - b>>,
                  <<call.cx + b, call.cy + a>>} \cap Screen) \subseteq Lit
=============================================================================
