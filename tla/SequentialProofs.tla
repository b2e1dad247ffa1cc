--------------------------- MODULE SequentialProofs -------------------------
(***************************************************************************)
(* The two parts of the kernel that run in one go, nothing in between: the *)
(* figure of main.c (module Drawing) and the allocator of pmm.c (module    *)
(* Buddy, instantiated under a name of its own at the end).                *)
(*                                                                         *)
(* The arc is drawn with integers only, from a decision variable that is   *)
(* updated on the way.  What makes it provable for every radius is that d  *)
(* is at all times a polynomial in x, y and r; its sign then bounds the    *)
(* distance of the next point from the circle, and with it d itself.       *)
(***************************************************************************)
EXTENDS Drawing, FiniteSetTheorems, TLAPS

\* What d has come to when the arc is at x, y.
Decision(px, py, r) == 2 * (px * px) + 8 * px + 2 * (py * py) - 6 * py + 3 - 2 * (r * r) + 4 * r

\* By how much d can exceed three radii, from how far the arc is from the
\* diagonal: only the last two or three steps of an arc add to it.
Slack(m) == CASE m = -2 -> 30 [] m = -1 -> 20 [] m = 0 -> 12
              [] m = 1 -> 6 [] m = 2 -> 2 [] OTHER -> 0

ArcInv ==
  /\ x \in Nat /\ y \in Int /\ d \in Int
  /\ y >= -1 /\ y <= call.r /\ y >= x - 2 /\ x <= call.r + 1
  /\ d = Decision(x, y, call.r)
  /\ -(4 * call.r + 3) <= d /\ d <= 3 * call.r + Slack(y - x)
  /\ y >= x => Near(x, y, call.r)

Visible == {py * Pitch + px : px \in 0 .. Width - 1, py \in 0 .. Height - 1}

DInv ==
  /\ call \in Calls
  /\ pc \in {"circle", "sides", "cap", "done"}
  /\ row \in Int
  /\ ArcInv
  /\ fb \subseteq Visible

-----------------------------------------------------------------------------
\* Larger factors, larger product.
LEMMA Product ==
  ASSUME NEW a \in Nat, NEW b \in Nat, NEW c \in Nat, NEW e \in Nat, a <= b, c <= e
  PROVE  a * c <= b * e
<1>1. a * c <= b * c
  <2>1. b = a + (b - a) /\ (b - a) \in Nat
    OBVIOUS
  <2>2. b * c = a * c + (b - a) * c
    BY <2>1
  <2>3. (b - a) * c >= 0
    BY <2>1
  <2> QED
    BY <2>2, <2>3
<1>2. b * c <= b * e
  <2>1. e = c + (e - c) /\ (e - c) \in Nat
    OBVIOUS
  <2>2. b * e = b * c + b * (e - c)
    BY <2>1
  <2>3. b * (e - c) >= 0
    BY <2>1
  <2> QED
    BY <2>2, <2>3
<1> QED
  BY <1>1, <1>2

\* Inside the circle d is negative; how far x can have come there.
LEMMA FlatBound ==
  ASSUME NEW px \in Nat, NEW py \in Nat, NEW r \in Nat, px <= py, py <= r,
         Decision(px, py, r) < 0
  PROVE  Decision(px, py, r) + 4 * px + 10 <= 3 * r + Slack(py - px - 1)
<1> DEFINE m == py - px
           s == Slack(m - 1)
<1>1. m \in Nat /\ py = px + m
  OBVIOUS
<1>2. py * py = px * px + 2 * (px * m) + m * m
  BY <1>1
<1>3. s \in Nat /\ (m = 0 => s = 20) /\ (m = 1 => s = 12) /\ (m = 2 => s = 6)
  BY <1>1 DEF Slack
<1>4. Decision(px, py, r) \in Int /\ Decision(px, py, r) <= -1
  BY DEF Decision
<1>5. CASE m >= 3
  <2>1. px * m >= 3 * px /\ m * m >= 3 * m
    BY <1>1, <1>5, Product
  <2>2. 4 * (px * px) + 14 * px + 3 < 2 * (r * r) - 4 * r
    BY <1>1, <1>2, <1>5, <2>1 DEF Decision
  <2>3. 4 * px + 9 <= 3 * r
    <3> SUFFICES ASSUME 3 * r <= 4 * px + 8 PROVE FALSE
      OBVIOUS
    <3>1. r >= 3
      BY <1>1, <1>5
    <3>2. (3 * r) * (3 * r - 6) <= (4 * px + 8) * (4 * px + 2)
      <4>1. 3 * r \in Nat /\ 3 * r - 6 \in Nat /\ 4 * px + 8 \in Nat /\ 4 * px + 2 \in Nat
            /\ 3 * r - 6 <= 4 * px + 2
        BY <3>1
      <4> QED
        BY <4>1, Product
    <3>3. 9 * (r * r) - 18 * r <= 16 * (px * px) + 40 * px + 16
      BY <3>2
    <3>4. px * px >= px
      BY Product
    <3>5. px >= 1
      BY <3>1, <2>2
    <3> QED
      BY <2>2, <3>3, <3>4, <3>5
  <2> QED
    BY <1>3, <1>4, <2>3
<1>6. CASE m = 2
  <2>1. 4 * (px * px) + 10 * px - 1 < 2 * (r * r) - 4 * r
    BY <1>1, <1>2, <1>6 DEF Decision
  <2>2. 4 * px + 3 <= 3 * r
    <3> SUFFICES ASSUME 3 * r <= 4 * px + 2 PROVE FALSE
      OBVIOUS
    <3>1. r >= 2
      BY <1>1, <1>6
    <3>2. (3 * r) * (3 * r - 6) <= (4 * px + 2) * (4 * px)
      <4>1. 3 * r \in Nat /\ 3 * r - 6 \in Nat /\ 4 * px + 2 \in Nat /\ 4 * px \in Nat
            /\ 3 * r - 6 <= 4 * px
        BY <3>1
      <4> QED
        BY <4>1, Product
    <3>3. 9 * (r * r) - 18 * r <= 16 * (px * px) + 8 * px
      BY <3>2
    <3>4. px * px >= 0 /\ px >= 1
      BY <3>1
    <3> QED
      BY <2>1, <3>3, <3>4
  <2> QED
    BY <1>3, <1>4, <1>6, <2>2
<1>7. CASE m = 1
  <2>1. 4 * px - 3 <= 3 * r
    <3> SUFFICES ASSUME 3 * r < 4 * px - 3 PROVE FALSE
      OBVIOUS
    <3>1. 4 * (px * px) + 6 * px - 1 < 2 * (r * r) - 4 * r
      BY <1>1, <1>2, <1>7 DEF Decision
    <3>2. (3 * r) * (3 * r) <= (4 * px) * (4 * px)
      <4>1. 3 * r \in Nat /\ 4 * px \in Nat /\ 3 * r <= 4 * px
        OBVIOUS
      <4> QED
        BY <4>1, Product
    <3>3. 9 * (r * r) <= 16 * (px * px)
      BY <3>2
    <3>4. px * px >= 0
      OBVIOUS
    <3> QED
      BY <3>1, <3>3, <3>4
  <2> QED
    BY <1>3, <1>4, <1>7, <2>1
<1>8. CASE m = 0
  <2>1. 4 * px - 11 <= 3 * r
    <3> SUFFICES ASSUME 3 * r < 4 * px - 11 PROVE FALSE
      OBVIOUS
    <3>1. 4 * (px * px) + 2 * px + 3 < 2 * (r * r) - 4 * r
      BY <1>1, <1>2, <1>8 DEF Decision
    <3>2. (3 * r) * (3 * r) <= (4 * px) * (4 * px)
      <4>1. 3 * r \in Nat /\ 4 * px \in Nat /\ 3 * r <= 4 * px
        OBVIOUS
      <4> QED
        BY <4>1, Product
    <3>3. 9 * (r * r) <= 16 * (px * px)
      BY <3>2
    <3>4. px * px >= 0
      OBVIOUS
    <3> QED
      BY <3>1, <3>3, <3>4
  <2> QED
    BY <1>3, <1>4, <1>8, <2>1
<1> QED
  BY <1>1, <1>5, <1>6, <1>7, <1>8
-----------------------------------------------------------------------------
\* The state as numbers, for the provers.
LEMMA CallShape ==
  ASSUME call \in Calls
  PROVE  /\ call.cx \in Int /\ call.cy \in Int /\ call.r \in Nat /\ call.length \in Int
         /\ top_y \in Int
BY DrawingAssumption DEF top_y

LEMMA ArcInit == ASSUME Init PROVE ArcInv
<1> DEFINE r == call.r
<1>1. r \in Nat /\ x = 0 /\ y = r /\ d = 3 - 2 * r
  BY CallShape DEF Init
<1>2. d = Decision(x, y, r)
  BY <1>1 DEF Decision
<1>3. Slack(y - x) \in Nat /\ (y - x = 0 => Slack(y - x) = 12)
  BY <1>1 DEF Slack
<1>4. d <= 3 * r + Slack(y - x)
  BY <1>1, <1>3
<1>5. Near(x, y, r)
  BY <1>1 DEF Near
<1> QED
  BY <1>1, <1>2, <1>4, <1>5 DEF ArcInv

\* A step to the right, the arc being inside the circle.
LEMMA ArcFlat ==
  ASSUME call \in Calls, ArcInv, y >= x, d < 0, call' = call,
         x' = x + 1, y' = y, d' = d + 4 * x' + 6
  PROVE  ArcInv'
<1> DEFINE r == call.r
<1>1. /\ r \in Nat /\ x \in Nat /\ y \in Nat /\ d \in Int /\ x <= y /\ y <= r
      /\ d = Decision(x, y, r) /\ -(4 * r + 3) <= d
      /\ Near(x, y, r)
  BY CallShape DEF ArcInv
<1>2. d' = d + 4 * x + 10 /\ d' = Decision(x', y', r)
  BY <1>1 DEF Decision
<1>3. d' <= 3 * r + Slack(y' - x')
  <2>1. d' <= 3 * r + Slack(y - x - 1)
    BY <1>1, <1>2, FlatBound
  <2>2. y' - x' = y - x - 1
    BY <1>1
  <2> QED
    BY <2>1, <2>2
<1>4. Near(x', y', r)
  <2>1. x' * x' = x * x + 2 * x + 1
    BY <1>1
  <2>2. x' * x' + y' * y' < (r + 1) * (r + 1)
    <3>1. 2 * (x * x) + 8 * x + 2 * (y * y) - 6 * y + 3 < 2 * (r * r) - 4 * r
      BY <1>1 DEF Decision
    <3>2. (r + 1) * (r + 1) = r * r + 2 * r + 1
      BY <1>1
    <3> QED
      BY <1>1, <2>1, <3>1, <3>2
  <2> QED
    BY <1>1, <2>1, <2>2 DEF Near
<1> QED
  BY <1>1, <1>2, <1>3, <1>4 DEF ArcInv

\* A step to the right and down, the arc being outside.
LEMMA ArcDown ==
  ASSUME call \in Calls, ArcInv, y >= x, ~(d < 0), call' = call,
         x' = x + 1, y' = y - 1, d' = d + 4 * (x' - y') + 10
  PROVE  ArcInv'
<1> DEFINE r == call.r
           m == y - x
<1>1. /\ r \in Nat /\ x \in Nat /\ y \in Nat /\ d \in Nat /\ x <= y /\ y <= r
      /\ d = Decision(x, y, r) /\ d <= 3 * r + Slack(m)
      /\ Near(x, y, r)
  BY CallShape DEF ArcInv
<1>2. d' = d + 18 - 4 * m /\ d' = Decision(x', y', r)
  BY <1>1 DEF Decision
<1>3. d' <= 3 * r + Slack(y' - x')
  <2>1. m \in Nat /\ y' - x' = m - 2
    BY <1>1
  <2>2. Slack(m) \in Nat /\ Slack(m - 2) \in Nat /\ Slack(m) + 18 - 4 * m <= Slack(m - 2)
    BY <2>1 DEF Slack
  <2> QED
    BY <1>1, <1>2, <2>1, <2>2
<1>4. y' >= x' => Near(x', y', r)
  <2>1. x' * x' = x * x + 2 * x + 1 /\ y' * y' = y * y - 2 * y + 1
    BY <1>1
  <2>2. r >= 2 => x' * x' + y' * y' > (r - 2) * (r - 2)
    <3>1. 2 * (x * x) + 8 * x + 2 * (y * y) - 6 * y + 3 >= 2 * (r * r) - 4 * r
      BY <1>1 DEF Decision
    <3>2. (r - 2) * (r - 2) = r * r - 4 * r + 4
      BY <1>1
    <3> QED
      BY <1>1, <2>1, <3>1, <3>2
  <2> QED
    BY <1>1, <2>1, <2>2 DEF Near
<1>5. -(4 * r + 3) <= d'
  BY <1>1, <1>2
<1> QED
  BY <1>1, <1>2, <1>3, <1>4, <1>5 DEF ArcInv

LEMMA ArcAdvances ==
  ASSUME call \in Calls, ArcInv, y >= x, Advance, call' = call
  PROVE  ArcInv'
BY ArcFlat, ArcDown DEF Advance

LEMMA ArcStays ==
  ASSUME ArcInv, UNCHANGED <<call, x, y, d>>
  PROVE  ArcInv'
BY DEF ArcInv

-----------------------------------------------------------------------------
\* put_pixel's tests keep it on the screen, for any coordinates.
LEMMA PixelVisible ==
  ASSUME NEW px \in Int, NEW py \in Int
  PROVE  put_pixel(px, py) \subseteq Visible
<1> SUFFICES ASSUME px >= 0 /\ px < Width /\ py >= 0 /\ py < Height
             PROVE  py * Pitch + px \in Visible
  BY DEF put_pixel
<1>1. px \in 0 .. Width - 1 /\ py \in 0 .. Height - 1
  BY DrawingAssumption
<1> QED
  BY <1>1 DEF Visible

LEMMA PixelsVisible ==
  ASSUME NEW points, \A p \in points : p[1] \in Int /\ p[2] \in Int
  PROVE  put_pixels(points) \subseteq Visible
BY PixelVisible DEF put_pixels

LEMMA DInit == Init => DInv
<1> SUFFICES ASSUME Init PROVE DInv
  OBVIOUS
<1>1. call \in Calls /\ row \in Int /\ fb \subseteq Visible
  BY CallShape DEF Init
<1>2. pc \in {"circle", "sides", "cap", "done"}
  BY DEF Init
<1> QED
  BY <1>1, <1>2, ArcInit DEF DInv

LEMMA DNext == DInv /\ [Next]_vars => DInv'
<1> SUFFICES ASSUME DInv, [Next]_vars PROVE DInv'
  OBVIOUS
<1>1. /\ call \in Calls /\ ArcInv /\ row \in Int /\ fb \subseteq Visible
      /\ x \in Int /\ y \in Int
      /\ call.cx \in Int /\ call.cy \in Int /\ call.r \in Nat /\ top_y \in Int
  BY CallShape DEF DInv, ArcInv
<1>2. CASE Circle
  <2>1. \A p \in Octants(call.cx, call.cy) : p[1] \in Int /\ p[2] \in Int
    BY <1>1 DEF Octants
  <2>2. fb' \subseteq Visible
    BY <1>1, <1>2, <2>1, PixelsVisible DEF Circle
  <2>3. ArcInv'
    BY <1>1, <1>2, ArcAdvances DEF Circle
  <2> QED
    BY <1>2, <2>2, <2>3 DEF Circle, DInv
<1>3. CASE Sides
  <2>1. \A p \in {<<call.cx - call.r, row>>, <<call.cx + call.r, row>>} :
          p[1] \in Int /\ p[2] \in Int
    BY <1>1
  <2>2. fb' \subseteq Visible
    BY <1>1, <1>3, <2>1, PixelsVisible DEF Sides
  <2>3. ArcInv'
    BY <1>1, <1>3, ArcStays DEF Sides
  <2>4. call' = call /\ pc' = pc /\ row' \in Int
    BY <1>1, <1>3 DEF Sides
  <2> QED
    BY <2>2, <2>3, <2>4 DEF DInv
<1>4. CASE Cap
  <2>1. \A p \in CapOctants(call.cx, top_y + call.r) : p[1] \in Int /\ p[2] \in Int
    BY <1>1 DEF CapOctants
  <2>2. fb' \subseteq Visible
    BY <1>1, <1>4, <2>1, PixelsVisible DEF Cap
  <2>3. ArcInv'
    BY <1>1, <1>4, ArcAdvances DEF Cap
  <2> QED
    BY <1>4, <2>2, <2>3 DEF Cap, DInv
<1>5. CASE SidesDone \/ Done
  <2>1. ArcInv'
    BY <1>1, <1>5, ArcStays DEF SidesDone, Done
  <2> QED
    BY <1>5, <2>1 DEF SidesDone, Done, DInv
<1>6. CASE UNCHANGED vars
  <2>1. ArcInv'
    BY <1>1, <1>6, ArcStays DEF vars
  <2> QED
    BY <1>6, <2>1 DEF vars, DInv, Visible
<1> QED
  BY <1>2, <1>3, <1>4, <1>5, <1>6 DEF Next

LEMMA DInvAlways == Spec => []DInv
BY DInit, DNext, PTL DEF Spec

\* For every radius, x and y stay where the radius lets them and the decision
\* variable within four radii of zero: an int is wide enough for it.
THEOREM DrawingTypeOK == Spec => []TypeOK
<1>1. DInv => TypeOK
  <2> SUFFICES ASSUME DInv PROVE TypeOK
    OBVIOUS
  <2>1. call.r \in Nat /\ x \in Nat /\ y \in Int /\ d \in Int
    BY CallShape DEF DInv, ArcInv
  <2>2. y - x \in Int /\ Slack(y - x) \in 0 .. 30
    BY <2>1 DEF Slack
  <2>3. d \in -(4 * call.r + 3) .. 3 * call.r + 30
    BY <2>1, <2>2 DEF DInv, ArcInv
  <2> QED
    BY <2>1, <2>3 DEF DInv, ArcInv, TypeOK
<1> QED
  BY <1>1, DInvAlways, PTL

-----------------------------------------------------------------------------
\* Two pixels of the screen are two words: rows do not run into each other.
LEMMA WordsDiffer ==
  ASSUME NEW p \in Screen, NEW q \in Screen, p[2] * Pitch + p[1] = q[2] * Pitch + q[1]
  PROVE  p = q
<1> DEFINE a == p[1]  b == p[2]  c == q[1]  e == q[2]
<1>1. /\ a \in Nat /\ b \in Nat /\ c \in Nat /\ e \in Nat /\ Pitch \in Nat
      /\ a < Pitch /\ c < Pitch
      /\ b * Pitch + a = e * Pitch + c
      /\ p = <<a, b>> /\ q = <<c, e>>
  BY DrawingAssumption DEF Screen
<1> HIDE DEF a, b, c, e
<1>2. ASSUME NEW i \in Nat, NEW j \in Nat, i < j PROVE i * Pitch + Pitch <= j * Pitch
  <2>1. (i + 1) * Pitch <= j * Pitch
    BY <1>1, <1>2, Product
  <2>2. (i + 1) * Pitch = i * Pitch + Pitch
    BY <1>1
  <2> QED
    BY <2>1, <2>2
<1>3. b * Pitch \in Nat /\ e * Pitch \in Nat
  BY <1>1
<1>4. ~(b < e) /\ ~(e < b)
  BY <1>1, <1>2, <1>3
<1>5. b = e /\ a = c
  BY <1>1, <1>3, <1>4
<1> QED
  BY <1>1, <1>5

\* The visible part of a circle, as it is and when it is finished.
RoundInv ==
  call.f = "draw_circle_outline" =>
    \A p \in Lit :
      LET a == p[1] - call.cx
          b == p[2] - call.cy
      IN  /\ Near(a, b, call.r)
          /\ ({<<call.cx - a, call.cy + b>>, <<call.cx + a, call.cy - b>>,
               <<call.cx + b, call.cy + a>>} \cap Screen) \subseteq Lit

\* What of a step's points is on the screen is lit, and nothing else.
LEMMA LightsVisible ==
  ASSUME NEW points, points \subseteq Int \X Int, fb' = fb \cup put_pixels(points)
  PROVE  Lit' = Lit \cup (points \cap Screen)
<1> DEFINE word(p) == p[2] * Pitch + p[1]
<1>1. \A p \in Int \X Int : put_pixel(p[1], p[2]) = IF p \in Screen THEN {word(p)} ELSE {}
  BY DrawingAssumption DEF put_pixel, Screen
<1>2. Lit = {p \in Screen : word(p) \in fb} /\ Lit' = {p \in Screen : word(p) \in fb'}
  BY DEF Lit, Screen
<1>3. \A p, q \in Screen : word(p) = word(q) => p = q
  BY WordsDiffer
<1> HIDE DEF word
<1>4. put_pixels(points) = {word(p) : p \in points \cap Screen}
  BY <1>1 DEF put_pixels
<1>5. ASSUME NEW p PROVE p \in Lit' <=> p \in Lit \/ p \in points \cap Screen
  BY <1>2, <1>3, <1>4
<1> QED
  BY <1>5

\* Points on the screen are not clipped.
LEMMA Lights ==
  ASSUME NEW points, points \subseteq Screen, fb' = fb \cup put_pixels(points)
  PROVE  Lit' = Lit \cup points
<1>1. points \subseteq Int \X Int /\ points \cap Screen = points
  BY DrawingAssumption DEF Screen
<1> QED
  BY <1>1, LightsVisible

LEMMA CircleLights ==
  ASSUME DInv, Circle
  PROVE  Lit' = Lit \cup (Octants(call.cx, call.cy) \cap Screen)
<1>1. x \in Int /\ y \in Int /\ call.cx \in Int /\ call.cy \in Int
  BY CallShape DEF DInv, ArcInv
<1>2. Octants(call.cx, call.cy) \subseteq Int \X Int
  BY <1>1 DEF Octants
<1> QED
  BY <1>2, LightsVisible DEF Circle

\* The eight points of a step are as far from the centre as x and y say, and
\* the mirror images of each are among them.
LEMMA OctantsRound ==
  ASSUME call \in Calls, x \in Int, y \in Int, Near(x, y, call.r),
         NEW p \in Octants(call.cx, call.cy)
  PROVE  LET a == p[1] - call.cx
             b == p[2] - call.cy
         IN  /\ Near(a, b, call.r)
             /\ {<<call.cx - a, call.cy + b>>, <<call.cx + a, call.cy - b>>,
                 <<call.cx + b, call.cy + a>>} \subseteq Octants(call.cx, call.cy)
<1> DEFINE a == p[1] - call.cx
           b == p[2] - call.cy
           O == Octants(call.cx, call.cy)
<1>1. call.cx \in Int /\ call.cy \in Int /\ call.r \in Nat
  BY CallShape
<1>2. /\ a \in Int /\ b \in Int
      /\ \/ (a = x \/ a = -x) /\ (b = y \/ b = -y)
         \/ (a = y \/ a = -y) /\ (b = x \/ b = -x)
  BY <1>1 DEF Octants
<1> HIDE DEF a, b
<1>3. a * a + b * b = x * x + y * y
  BY <1>2
<1>4. Near(a, b, call.r)
  BY <1>3 DEF Near
<1>5. \A u, v \in Int :
        \/ (u = x \/ u = -x) /\ (v = y \/ v = -y)
        \/ (u = y \/ u = -y) /\ (v = x \/ v = -x)
        => <<call.cx + u, call.cy + v>> \in O
  BY <1>1 DEF Octants
<1>6. <<call.cx - a, call.cy + b>> \in O
  <2>1. <<call.cx + (-a), call.cy + b>> \in O
    BY <1>2, <1>5
  <2> QED
    BY <1>1, <1>2, <2>1
<1>7. <<call.cx + a, call.cy - b>> \in O
  <2>1. <<call.cx + a, call.cy + (-b)>> \in O
    BY <1>2, <1>5
  <2> QED
    BY <1>1, <1>2, <2>1
<1>8. <<call.cx + b, call.cy + a>> \in O
  BY <1>2, <1>5
<1> QED
  BY <1>4, <1>6, <1>7, <1>8 DEF a, b

\* A step that draws nothing or belongs to a cylinder.
LEMMA RoundStays ==
  ASSUME RoundInv, UNCHANGED call, fb' = fb \/ call.f # "draw_circle_outline"
  PROVE  RoundInv'
<1>1. CASE fb' = fb
  <2>1. Lit' = Lit
    BY <1>1 DEF Lit, Screen
  <2> QED
    BY <2>1 DEF RoundInv, Screen
<1>2. CASE call.f # "draw_circle_outline"
  BY <1>2 DEF RoundInv
<1> QED
  BY <1>1, <1>2

\* A circle has no sides and no cap.
ModeInv == call.f = "draw_circle_outline" => pc \in {"circle", "done"}

LEMMA RoundNext == DInv /\ ModeInv /\ RoundInv /\ [Next]_vars => ModeInv' /\ RoundInv'
<1> SUFFICES ASSUME DInv, ModeInv, RoundInv, [Next]_vars PROVE ModeInv' /\ RoundInv'
  OBVIOUS
<1>1. ModeInv'
  BY DEF Next, Circle, Sides, SidesDone, Cap, Done, vars, ModeInv
<1>2. CASE Circle
  <2>1. call' = call
    BY <1>2 DEF Circle
  <2>2. CASE call.f = "draw_circle_outline"
    <3> DEFINE O == Octants(call.cx, call.cy)
               a(p) == p[1] - call.cx
               b(p) == p[2] - call.cy
               images(p) == {<<call.cx - a(p), call.cy + b(p)>>,
                             <<call.cx + a(p), call.cy - b(p)>>,
                             <<call.cx + b(p), call.cy + a(p)>>}
    <3>1. Lit' = Lit \cup (O \cap Screen)
      BY <1>2, CircleLights
    <3>2. call \in Calls /\ x \in Int /\ y \in Int /\ Near(x, y, call.r)
      BY <1>2 DEF Circle, DInv, ArcInv
    <3>3. \A p \in O : Near(a(p), b(p), call.r) /\ images(p) \subseteq O
      BY <3>2, OctantsRound
    <3>4. \A p \in Lit : Near(a(p), b(p), call.r) /\ (images(p) \cap Screen) \subseteq Lit
      BY <2>2 DEF RoundInv
    <3>5. \A p \in Lit' : Near(a(p), b(p), call.r) /\ (images(p) \cap Screen) \subseteq Lit'
      <4> HIDE DEF O, images, a, b
      <4> QED
        BY <3>1, <3>3, <3>4
    <3> QED
      BY <1>1, <2>1, <3>5 DEF RoundInv, Screen
  <2>3. CASE call.f # "draw_circle_outline"
    BY <1>1, <2>1, <2>3 DEF RoundInv
  <2> QED
    BY <2>2, <2>3
<1>3. CASE Sides \/ Cap
  <2>1. UNCHANGED call /\ call.f # "draw_circle_outline"
    BY <1>3 DEF Sides, Cap, ModeInv
  <2> QED
    BY <1>1, <2>1, RoundStays
<1>4. CASE SidesDone \/ Done \/ UNCHANGED vars
  <2>1. UNCHANGED <<call, fb>>
    BY <1>4 DEF SidesDone, Done, vars
  <2> QED
    BY <1>1, <2>1, RoundStays
<1> QED
  BY <1>2, <1>3, <1>4 DEF Next

\* What of a circle is on the screen is round to within two pixels and its own
\* mirror image, and nothing else is written, for every radius and centre and on
\* a screen of every size and pitch.
THEOREM DrawingRound == Spec => []Round
<1>1. Init => ModeInv /\ RoundInv
  <2> SUFFICES ASSUME Init PROVE ModeInv /\ RoundInv
    OBVIOUS
  <2>1. Lit = {}
    BY DEF Init, Lit, Screen
  <2> QED
    BY <2>1 DEF Init, ModeInv, RoundInv
<1>2. DInv /\ (ModeInv /\ RoundInv) /\ [Next]_vars => (ModeInv /\ RoundInv)'
  BY RoundNext
<1>3. DInv /\ RoundInv => Round
  <2> SUFFICES ASSUME DInv, RoundInv PROVE Round
    OBVIOUS
  <2>1. \A w \in fb : \E p \in Lit : w = p[2] * Pitch + p[1]
    <3> TAKE w \in fb
    <3> PICK px \in 0 .. Width - 1, py \in 0 .. Height - 1 : w = py * Pitch + px
      BY DEF DInv, Visible
    <3>1. <<px, py>> \in Lit
      BY DEF Lit, Screen
    <3> QED
      BY <3>1
  <2> QED
    BY <2>1 DEF RoundInv, Round
<1> QED
  BY <1>1, <1>2, <1>3, DInvAlways, PTL DEF Spec
-----------------------------------------------------------------------------
(* No gaps.  An outline is a chain of points with x from 0 to the diagonal, *)
(* each a step to the right of the one before and at most one down, and its *)
(* images in the other octants.                                             *)

Circular == call.f = "draw_circle_outline"

\* The row of the circle's centre.
Middle == IF Circular THEN call.cy ELSE top_y + call.r

\* The images of a point, which is given relative to the centre: eight of a
\* circle's, of which the first four are also those of a cylinder's cap.
Image(k, u, v) ==
  CASE k = 1 -> <<call.cx + u, Middle - v>>
    [] k = 2 -> <<call.cx - u, Middle - v>>
    [] k = 3 -> <<call.cx + v, Middle - u>>
    [] k = 4 -> <<call.cx - v, Middle - u>>
    [] k = 5 -> <<call.cx + u, Middle + v>>
    [] k = 6 -> <<call.cx - u, Middle + v>>
    [] k = 7 -> <<call.cx + v, Middle + u>>
    [] k = 8 -> <<call.cx - v, Middle + u>>

Octant == IF Circular THEN 1 .. 8 ELSE 1 .. 4

Drawn(u, v) == \A k \in Octant : Image(k, u, v) \in Lit

\* The point before u, v and the point after it have been drawn, or u, v is the
\* first of the chain, or the last so far.
Behind(u, v) ==
  \/ u = 0 /\ v = call.r
  \/ u >= 1 /\ (Drawn(u - 1, v) \/ Drawn(u - 1, v + 1))

Ahead(u, v) ==
  \/ Drawn(u + 1, v) \/ Drawn(u + 1, v - 1)
  \/ u + 1 = x /\ (y = v \/ y = v - 1)

Linked(u, v) == Drawn(u, v) /\ Behind(u, v) /\ Ahead(u, v)

OnChain(p) ==
  \E u \in 0 .. call.r : \E v \in u .. call.r :
    Linked(u, v) /\ \E k \in Octant : p = Image(k, u, v)

\* A cylinder's sides, as far as they have been drawn.
OnSide(p) ==
  /\ ~Circular
  /\ p[1] \in {call.cx - call.r, call.cx + call.r} /\ p[2] \in Middle .. row - 1

ChainInv ==
  Inside =>
    /\ Behind(x, y)
    /\ x >= 1 => Linked(0, call.r)
    /\ \A p \in Lit : OnSide(p) \/ OnChain(p)

SideInv ==
  Inside /\ ~Circular =>
    /\ row >= Middle /\ (row = Middle \/ row <= call.cy)
    /\ pc \in {"cap", "done"} => row >= call.cy
    /\ \A i \in Middle .. row - 1 : <<call.cx - call.r, i>> \in Lit /\ <<call.cx + call.r, i>> \in Lit

EndInv ==
  /\ ~Circular => pc \in {"sides", "cap", "done"}
  /\ pc = "done" => y < x

GInv == ChainInv /\ SideInv /\ ModeInv /\ EndInv

-----------------------------------------------------------------------------
LEMMA MiddleIsInt ==
  ASSUME call \in Calls PROVE Middle \in Int /\ call.cx \in Int
BY CallShape DEF Middle

\* Another point has another image, and a neighbour's is a neighbour.
LEMMA ImageApart ==
  ASSUME call \in Calls, NEW k \in 1 .. 8,
         NEW u \in Int, NEW v \in Int, NEW a \in Int, NEW b \in Int,
         a # u \/ b # v
  PROVE  Image(k, a, b) # Image(k, u, v)
<1>1. Middle \in Int /\ call.cx \in Int
  BY MiddleIsInt
<1>2. k \in {1, 2, 3, 4, 5, 6, 7, 8}
  OBVIOUS
<1> QED
  BY <1>1, <1>2 DEF Image

LEMMA ImageBeside ==
  ASSUME call \in Calls, NEW k \in 1 .. 8,
         NEW u \in Int, NEW v \in Int, NEW a \in Int, NEW b \in Int,
         a - u \in -1 .. 1, b - v \in -1 .. 1
  PROVE  /\ Image(k, a, b)[1] - Image(k, u, v)[1] \in -1 .. 1
         /\ Image(k, a, b)[2] - Image(k, u, v)[2] \in -1 .. 1
<1>1. Middle \in Int /\ call.cx \in Int
  BY MiddleIsInt
<1>2. CASE k = 1
  BY <1>1, <1>2 DEF Image
<1>3. CASE k = 2
  BY <1>1, <1>3 DEF Image
<1>4. CASE k = 3
  BY <1>1, <1>4 DEF Image
<1>5. CASE k = 4
  BY <1>1, <1>5 DEF Image
<1>6. CASE k = 5
  BY <1>1, <1>6 DEF Image
<1>7. CASE k = 6
  BY <1>1, <1>7 DEF Image
<1>8. CASE k = 7
  BY <1>1, <1>8 DEF Image
<1>9. CASE k = 8
  BY <1>1, <1>9 DEF Image
<1> QED
  BY <1>2, <1>3, <1>4, <1>5, <1>6, <1>7, <1>8, <1>9

\* The images of a point are those of its mirror image in the diagonal, and
\* those in the upper octants, or of a circle, those of its mirror image in
\* the vertical axis.
LEMMA Mirrored ==
  ASSUME call \in Calls, NEW u \in Int, NEW v \in Int, Drawn(u, v)
  PROVE  /\ Drawn(v, u)
         /\ \A k \in Octant : k \in {1, 2} \/ Circular => Image(k, -u, v) \in Lit
<1> DEFINE m == Middle  c == call.cx
<1>1. m \in Int /\ c \in Int
  BY MiddleIsInt
<1>2. /\ 1 \in Octant /\ 2 \in Octant /\ 3 \in Octant /\ 4 \in Octant
      /\ Circular => 5 \in Octant /\ 6 \in Octant /\ 7 \in Octant /\ 8 \in Octant
  BY DEF Octant
<1>3. /\ <<c + u, m - v>> \in Lit /\ <<c - u, m - v>> \in Lit
      /\ <<c + v, m - u>> \in Lit /\ <<c - v, m - u>> \in Lit
  BY <1>2 DEF Drawn, Image
<1>4. Circular => /\ <<c + u, m + v>> \in Lit /\ <<c - u, m + v>> \in Lit
                  /\ <<c + v, m + u>> \in Lit /\ <<c - v, m + u>> \in Lit
  <2> SUFFICES ASSUME Circular
               PROVE  /\ Image(5, u, v) \in Lit /\ Image(6, u, v) \in Lit
                      /\ Image(7, u, v) \in Lit /\ Image(8, u, v) \in Lit
    BY DEF Image
  <2> QED
    BY <1>2 DEF Drawn
<1>5. ASSUME NEW k \in Octant PROVE Image(k, v, u) \in Lit
  <2>1. k \in 1 .. 4 \/ (k \in 5 .. 8 /\ Circular)
    BY DEF Octant
  <2> QED
    BY <1>3, <1>4, <2>1 DEF Image
<1>6. c + (-u) = c - u /\ c - (-u) = c + u /\ m - (-u) = m + u /\ m + (-u) = m - u
  BY <1>1
<1>7. ASSUME NEW k \in Octant, k \in {1, 2} \/ Circular PROVE Image(k, -u, v) \in Lit
  <2>1. k \in 1 .. 2 \/ (k \in 1 .. 8 /\ Circular)
    BY <1>7 DEF Octant
  <2> HIDE DEF c, m
  <2>2. CASE k \in 1 .. 2
    BY <1>3, <1>6, <2>2 DEF Image, c, m
  <2>3. CASE k \in 1 .. 8 /\ Circular
    BY <1>3, <1>4, <1>6, <2>3 DEF Image, c, m
  <2> QED
    BY <2>1, <2>2, <2>3
<1> QED
  BY <1>5, <1>7 DEF Drawn

\* Two lit pixels beside a third are two of its neighbours, and one is one.
LEMMA LitFinite == ASSUME NEW p \in Lit PROVE IsFiniteSet(Neighbours(p))
<1>1. IsFiniteSet(0 .. Width - 1) /\ IsFiniteSet(0 .. Height - 1)
  BY DrawingAssumption, FS_Interval
<1>2. IsFiniteSet((0 .. Width - 1) \X (0 .. Height - 1))
  BY <1>1, FS_Product
<1>3. Neighbours(p) \in SUBSET ((0 .. Width - 1) \X (0 .. Height - 1))
  BY DEF Neighbours, Lit, Screen
<1> QED
  BY <1>2, <1>3, FS_Subset

Beside(p, q) == p # q /\ q[1] - p[1] \in -1 .. 1 /\ q[2] - p[2] \in -1 .. 1

LEMMA OneBeside ==
  ASSUME NEW p \in Lit, NEW q \in Lit, Beside(p, q)
  PROVE  Cardinality(Neighbours(p)) \in Nat /\ Cardinality(Neighbours(p)) >= 1
<1>1. {q} \in SUBSET Neighbours(p)
  BY DEF Neighbours, Beside
<1>2. Cardinality({q}) <= Cardinality(Neighbours(p))
  BY <1>1, LitFinite, FS_Subset
<1>3. Cardinality({q}) = 1
  BY FS_Singleton
<1>4. Cardinality(Neighbours(p)) \in Nat
  BY LitFinite, FS_CardinalityType
<1> QED
  BY <1>2, <1>3, <1>4

LEMMA TwoBeside ==
  ASSUME NEW p \in Lit, NEW q \in Lit, NEW s \in Lit, Beside(p, q), Beside(p, s), q # s
  PROVE  Cardinality(Neighbours(p)) >= 2
<1>1. {q} \cup {s} \in SUBSET Neighbours(p)
  BY DEF Neighbours, Beside
<1>2. Cardinality({q} \cup {s}) <= Cardinality(Neighbours(p))
  BY <1>1, LitFinite, FS_Subset
<1>3. IsFiniteSet({q}) /\ Cardinality({q}) = 1
  BY FS_Singleton
<1>4. Cardinality({q} \cup {s}) = 2
  BY <1>3, FS_AddElement
<1>5. Cardinality(Neighbours(p)) \in Nat
  BY LitFinite, FS_CardinalityType
<1> QED
  BY <1>2, <1>4, <1>5

-----------------------------------------------------------------------------
\* A point of the chain that has one before it and one after it, is the first,
\* or is on the diagonal, has two neighbours; of a cylinder's cap, the two
\* ends have one.
LEMMA ChainNeighbours ==
  ASSUME call \in Calls, NEW u \in Nat, NEW v \in Nat, u <= v, v <= call.r, v >= 1,
         Linked(u, v), Drawn(u + 1, v) \/ Drawn(u + 1, v - 1) \/ u = v,
         NEW k \in Octant
  PROVE  LET p == Image(k, u, v)
         IN  /\ p \in Lit
             /\ \/ Cardinality(Neighbours(p)) >= 2
                \/ /\ ~Circular /\ k \in {3, 4} /\ u = 0 /\ v = call.r
                   /\ \E q \in Lit : Beside(p, q) /\ q[2] < p[2]
<1> DEFINE p == Image(k, u, v)
<1>1. p \in Lit /\ k \in 1 .. 8
  BY DEF Linked, Drawn, Octant
<1>2. ASSUME NEW a \in Int, NEW b \in Int, a - u \in -1 .. 1, b - v \in -1 .. 1,
             a # u \/ b # v, Image(k, a, b) \in Lit
      PROVE  Beside(p, Image(k, a, b))
  BY <1>1, <1>2, ImageBeside, ImageApart DEF Beside
<1>3. ASSUME NEW a \in Int, NEW b \in Int, a - u \in -1 .. 1, b - v \in -1 .. 1,
             a # u \/ b # v, Image(k, a, b) \in Lit,
             NEW e \in Int, NEW g \in Int, e - u \in -1 .. 1, g - v \in -1 .. 1,
             e # u \/ g # v, Image(k, e, g) \in Lit, a # e \/ b # g
      PROVE  Cardinality(Neighbours(p)) >= 2
  <2>1. Beside(p, Image(k, a, b)) /\ Beside(p, Image(k, e, g))
    BY <1>2, <1>3
  <2>2. Image(k, a, b) # Image(k, e, g)
    BY <1>1, <1>3, ImageApart
  <2> QED
    BY <1>1, <1>3, <2>1, <2>2, TwoBeside
<1> HIDE DEF p
<1>4. CASE u >= 1
  <2>1. PICK b \in {v, v + 1} : Drawn(u - 1, b)
    BY <1>4 DEF Linked, Behind
  <2>2. b \in Int /\ b - v \in -1 .. 1 /\ u - 1 \in Int /\ (u - 1) - u \in -1 .. 1 /\ u - 1 # u
    BY <2>1
  <2>3. Image(k, u - 1, b) \in Lit
    BY <2>1 DEF Drawn
  <2>4. CASE Drawn(u + 1, v) \/ Drawn(u + 1, v - 1)
    <3>1. PICK g \in {v, v - 1} : Drawn(u + 1, g)
      BY <2>4
    <3>2. g \in Int /\ g - v \in -1 .. 1 /\ u + 1 \in Int /\ (u + 1) - u \in -1 .. 1 /\ u + 1 # u
          /\ u + 1 # u - 1
      BY <3>1
    <3>3. Image(k, u + 1, g) \in Lit
      BY <3>1 DEF Drawn
    <3> QED
      BY <1>1, <1>2, <1>3, <2>2, <2>3, <3>2, <3>3 DEF p
  <2>5. CASE u = v
    <3>1. Image(k, b, u - 1) \in Lit
      BY <2>1, <2>2, Mirrored DEF Drawn
    <3>2. b - u \in -1 .. 1 /\ (u - 1) - v \in -1 .. 1 /\ u - 1 # v /\ b # u - 1
      BY <2>1, <2>5
    <3> QED
      BY <1>1, <1>2, <1>3, <2>2, <2>3, <3>1, <3>2 DEF p
  <2> QED
    BY <2>4, <2>5
<1>5. CASE u = 0
  <2>1. PICK g \in {v, v - 1} : Drawn(1, g)
    BY <1>5
  <2>2. g \in Int /\ g - v \in -1 .. 1 /\ 1 - u \in -1 .. 1 /\ -1 - u \in -1 .. 1
        /\ 1 # u /\ -1 # u
    BY <1>5, <2>1
  <2>3. Image(k, 1, g) \in Lit
    BY <2>1 DEF Drawn
  <2>4. v = call.r
    BY <1>5 DEF Linked, Behind
  <2>5. CASE k \in {1, 2} \/ Circular
    <3>1. Image(k, -1, g) \in Lit
      BY <2>1, <2>2, <2>5, Mirrored
    <3> QED
      BY <1>1, <1>2, <1>3, <2>2, <2>3, <3>1 DEF p
  <2>6. CASE k \in {3, 4} /\ ~Circular
    <3>1. Beside(p, Image(k, 1, g))
      BY <1>2, <2>2, <2>3
    <3>2. p[2] = Middle - 0 /\ Image(k, 1, g)[2] = Middle - 1
      BY <1>5, <2>6 DEF Image, p
    <3>3. Image(k, 1, g)[2] < p[2]
      BY <3>2, MiddleIsInt
    <3> QED
      BY <1>1, <1>5, <2>3, <2>4, <2>6, <3>1, <3>3 DEF p
  <2> QED
    BY <2>5, <2>6 DEF Octant
<1> QED
  BY <1>4, <1>5

-----------------------------------------------------------------------------
\* Inside the screen the images of the arc and the sides are on it.
LEMMA Fits ==
  ASSUME call \in Calls, Inside
  PROVE  /\ \A u \in 0 .. call.r : \A v \in 0 .. call.r : \A k \in Octant :
              Image(k, u, v) \in Screen
         /\ ~Circular => \A i \in Middle .. call.cy - 1 :
              /\ <<call.cx - call.r, i>> \in Screen
              /\ <<call.cx + call.r, i>> \in Screen
<1> DEFINE m == Middle  c == call.cx  r == call.r
<1>1. m \in Int /\ c \in Int /\ r \in Nat /\ Width \in Nat /\ Height \in Nat
      /\ call.cy \in Int /\ call.length \in Int
  BY MiddleIsInt, DrawingAssumption
<1>2. /\ c - r >= 0 /\ c + r < Width
      /\ m - r >= 0 /\ m < Height
      /\ Circular => m + r < Height
      /\ ~Circular => call.cy <= Height
  BY <1>1 DEF Inside, Circular, Middle, top_y
<1> HIDE DEF m, c, r
<1>3. ASSUME NEW u \in 0 .. r, NEW v \in 0 .. r
      PROVE  /\ c + u \in 0 .. Width - 1 /\ c - u \in 0 .. Width - 1
             /\ c + v \in 0 .. Width - 1 /\ c - v \in 0 .. Width - 1
             /\ m - u \in 0 .. Height - 1 /\ m - v \in 0 .. Height - 1
             /\ Circular => m + u \in 0 .. Height - 1 /\ m + v \in 0 .. Height - 1
  BY <1>1, <1>2
<1>4. ASSUME NEW u \in 0 .. r, NEW v \in 0 .. r, NEW k \in Octant
      PROVE  Image(k, u, v) \in Screen
  <2>1. k \in 1 .. 4 \/ (k \in 5 .. 8 /\ Circular)
    BY DEF Octant
  <2>2. CASE k \in 1 .. 4
    BY <1>3, <2>2 DEF Image, Screen, c, m
  <2>3. CASE k \in 5 .. 8 /\ Circular
    BY <1>3, <2>3 DEF Image, Screen, c, m
  <2> QED
    BY <2>1, <2>2, <2>3
<1>5. ASSUME ~Circular, NEW i \in m .. call.cy - 1
      PROVE  <<c - r, i>> \in Screen
             /\ <<c + r, i>> \in Screen
  BY <1>1, <1>2, <1>5 DEF Screen
<1> QED
  BY <1>4, <1>5 DEF m, c, r

\* What a step of the arc draws.
Drawing == {Image(k, x, y) : k \in Octant}

LEMMA OctantsAreImages ==
  /\ Circular => Octants(call.cx, call.cy) = Drawing
  /\ ~Circular => CapOctants(call.cx, top_y + call.r) = Drawing
<1>1. ASSUME Circular PROVE Octants(call.cx, call.cy) = Drawing
  <2>1. Octant = 1 .. 8 /\ Middle = call.cy
    BY <1>1 DEF Octant, Middle
  <2>2. 1 .. 8 = {1, 2, 3, 4, 5, 6, 7, 8}
    OBVIOUS
  <2>3. Drawing = {Image(1, x, y), Image(2, x, y), Image(3, x, y), Image(4, x, y),
                   Image(5, x, y), Image(6, x, y), Image(7, x, y), Image(8, x, y)}
    BY <2>1, <2>2 DEF Drawing
  <2> QED
    BY <2>1, <2>3 DEF Image, Octants
<1>2. ASSUME ~Circular PROVE CapOctants(call.cx, top_y + call.r) = Drawing
  <2>1. Octant = 1 .. 4 /\ Middle = top_y + call.r
    BY <1>2 DEF Octant, Middle
  <2>2. 1 .. 4 = {1, 2, 3, 4}
    OBVIOUS
  <2>3. Drawing = {Image(1, x, y), Image(2, x, y), Image(3, x, y), Image(4, x, y)}
    BY <2>1, <2>2 DEF Drawing
  <2> QED
    BY <2>1, <2>3 DEF Image, CapOctants
<1> QED
  BY <1>1, <1>2

\* What a call is of does not change.
LEMMA SameCall ==
  ASSUME call' = call
  PROVE  /\ Circular' = Circular /\ Middle' = Middle /\ Inside' = Inside /\ Octant' = Octant
         /\ \A k, u, v : Image(k, u, v)' = Image(k, u, v)
BY DEF Circular, Middle, Inside, Octant, Image, top_y

LEMMA GInit == Init => GInv
<1> SUFFICES ASSUME Init PROVE GInv
  OBVIOUS
<1>1. Lit = {} /\ x = 0 /\ y = call.r /\ call.r \in Nat
  BY CallShape DEF Init, Lit, Screen
<1>2. ChainInv
  BY <1>1 DEF ChainInv, Behind
<1>3. Middle \in Int /\ (~Circular => row = Middle /\ pc = "sides")
  BY MiddleIsInt DEF Init, Middle, Circular
<1>4. SideInv
  <2>1. ~Circular => Middle .. row - 1 = {}
    BY <1>3
  <2> QED
    BY <1>3, <2>1 DEF SideInv
<1>5. ModeInv /\ EndInv
  BY <1>3 DEF Init, ModeInv, EndInv
<1> QED
  BY <1>2, <1>4, <1>5 DEF GInv

\* What has been drawn stays.
LEMMA DrawnStays ==
  ASSUME call' = call, Lit \subseteq Lit', NEW u, NEW v
  PROVE  /\ Drawn(u, v) => Drawn(u, v)'
         /\ Behind(u, v) => Behind(u, v)'
BY SameCall DEF Drawn, Behind

LEMMA ChainStays ==
  ASSUME call \in Calls, ChainInv, UNCHANGED <<call, x, y>>, Lit \subseteq Lit',
         row \in Int, row' \in Int, row' >= row,
         \A p \in Lit' : p \in Lit \/ OnSide(p)'
  PROVE  ChainInv'
<1> SUFFICES ASSUME Inside PROVE ChainInv'
  BY SameCall DEF ChainInv
<1>1. \A u, v : Linked(u, v) => Linked(u, v)'
  BY DrawnStays DEF Linked, Ahead
<1>2. \A p : OnChain(p) => OnChain(p)'
  BY <1>1, SameCall DEF OnChain
<1>3. \A p : OnSide(p) => OnSide(p)'
  BY SameCall, MiddleIsInt DEF OnSide
<1>4. Behind(x, y)' /\ (x' >= 1 => Linked(0, call.r)')
  BY <1>1, DrawnStays DEF ChainInv
<1> QED
  BY <1>2, <1>3, <1>4 DEF ChainInv

\* A step of the arc links the point it draws.
LEMMA ChainDraws ==
  ASSUME DInv, ChainInv, y >= x, Advance, UNCHANGED <<call, row>>,
         Inside => Lit' = Lit \cup Drawing
  PROVE  ChainInv'
<1> SUFFICES ASSUME Inside PROVE ChainInv'
  BY SameCall DEF ChainInv
<1>1. /\ x \in Nat /\ y \in Nat /\ x <= y /\ y <= call.r /\ call.r \in Nat /\ call \in Calls
      /\ x' = x + 1 /\ (y' = y \/ y' = y - 1)
  BY CallShape DEF DInv, ArcInv, Advance
<1>2. Lit \subseteq Lit' /\ Behind(x, y)
  BY DEF ChainInv
<1>3. PICK a \in Nat, b \in Nat : a = x /\ b = y
  BY <1>1
<1>4. Linked(a, b)'
  <2>1. Drawn(a, b)'
    <3>1. \A k \in Octant : Image(k, a, b) \in Lit'
      BY <1>3 DEF Drawing
    <3> QED
      BY <3>1, SameCall DEF Drawn
  <2>2. Behind(a, b)'
    BY <1>2, <1>3, DrawnStays
  <2>3. Ahead(a, b)'
    BY <1>1, <1>3 DEF Ahead
  <2> QED
    BY <2>1, <2>2, <2>3 DEF Linked
<1>5. ASSUME NEW u \in Int, NEW v \in Int, Linked(u, v) PROVE Linked(u, v)'
  <2>1. Drawn(u, v)' /\ Behind(u, v)'
    BY <1>2, <1>5, DrawnStays DEF Linked
  <2>2. Ahead(u, v)'
    <3>1. CASE Drawn(u + 1, v) \/ Drawn(u + 1, v - 1)
      BY <1>2, <3>1, DrawnStays DEF Ahead
    <3>2. CASE u + 1 = x /\ (y = v \/ y = v - 1)
      <4>1. u + 1 = a /\ (b = v \/ b = v - 1) /\ Drawn(a, b)'
        BY <1>3, <1>4, <3>2 DEF Linked
      <4> QED
        BY <4>1 DEF Ahead
    <3> QED
      BY <1>5, <3>1, <3>2 DEF Linked, Ahead
  <2> QED
    BY <2>1, <2>2 DEF Linked
<1>6. Behind(x, y)'
  <2>1. PICK g \in Int : g = y'
    BY <1>1
  <2>2. Drawn((a + 1) - 1, g)' \/ Drawn((a + 1) - 1, g + 1)'
    <3>1. (a + 1) - 1 = a /\ (b = g \/ b = g + 1) /\ Drawn(a, b)'
      <4>1. Drawn(a, b)'
        BY <1>4 DEF Linked
      <4>2. g = b \/ g = b - 1
        BY <1>1, <1>3, <2>1
      <4>3. (a + 1) - 1 = a /\ (b = g \/ b = g + 1)
        BY <4>2
      <4> QED
        BY <4>1, <4>3
    <3> QED
      BY <3>1
  <2>3. Behind(a + 1, g)'
    BY <1>3, <2>2 DEF Behind
  <2>4. x' = a + 1 /\ y' = g
    BY <1>1, <1>3, <2>1
  <2> QED
    BY <2>3, <2>4
<1>7. Linked(0, call.r)'
  <2>1. PICK r \in Nat : r = call.r
    BY <1>1
  <2>2. CASE x >= 1
    <3>1. Linked(0, r)
      BY <2>1, <2>2 DEF ChainInv
    <3> QED
      BY <1>5, <2>1, <3>1
  <2>3. CASE ~(x >= 1)
    <3>1. a = 0 /\ b = r
      BY <1>1, <1>2, <1>3, <2>1, <2>3 DEF Behind
    <3> QED
      BY <1>4, <2>1, <3>1
  <2> QED
    BY <2>2, <2>3
<1>8. ASSUME NEW p \in Lit' PROVE OnSide(p)' \/ OnChain(p)'
  <2>1. CASE p \in Lit /\ OnSide(p)
    BY <2>1, SameCall DEF OnSide
  <2>2. CASE p \in Lit /\ OnChain(p)
    <3>1. PICK u \in 0 .. call.r, v \in 0 .. call.r, k \in Octant :
            v \in u .. call.r /\ Linked(u, v) /\ p = Image(k, u, v)
      BY <1>1, <2>2 DEF OnChain
    <3>2. Linked(u, v)'
      BY <1>5, <3>1
    <3> QED
      BY <3>1, <3>2, SameCall DEF OnChain
  <2>3. CASE p \in Drawing
    <3>1. PICK k \in Octant : p = Image(k, a, b)
      BY <1>3, <2>3 DEF Drawing
    <3>2. a \in 0 .. call.r /\ b \in a .. call.r
      BY <1>1, <1>3
    <3> QED
      BY <1>4, <3>1, <3>2, SameCall DEF OnChain
  <2> QED
    BY <2>1, <2>2, <2>3 DEF ChainInv
<1> QED
  BY <1>6, <1>7, <1>8 DEF ChainInv

LEMMA GNext == DInv /\ GInv /\ [Next]_vars => GInv'
<1> SUFFICES ASSUME DInv, GInv, [Next]_vars PROVE GInv'
  OBVIOUS
<1>1. /\ call \in Calls /\ row \in Int /\ Middle \in Int /\ call.cy \in Int
      /\ x \in Nat /\ y \in Int /\ y <= call.r /\ call.r \in Nat
  BY CallShape, MiddleIsInt DEF DInv, ArcInv
<1>2. ModeInv' /\ EndInv'
  BY DEF Next, Circle, Sides, SidesDone, Cap, Done, vars, GInv, ModeInv, EndInv, Circular
<1>3. CASE Circle \/ Cap
  <2>1. y >= x /\ Advance /\ UNCHANGED <<call, row, pc>>
    BY <1>3 DEF Circle, Cap
  <2>2. ASSUME Inside PROVE Lit' = Lit \cup Drawing
    <3>1. x \in 0 .. call.r /\ y \in 0 .. call.r
      BY <1>1, <2>1
    <3>2. Drawing \subseteq Screen
      BY <1>1, <2>2, <3>1, Fits DEF Drawing
    <3>3. fb' = fb \cup put_pixels(Drawing)
      BY <1>3, OctantsAreImages DEF Circle, Cap, GInv, ModeInv, EndInv, Circular
    <3> QED
      BY <3>2, <3>3, Lights
  <2>3. ChainInv'
    BY <2>1, <2>2, ChainDraws DEF GInv
  <2>4. SideInv'
    <3>1. Inside => Lit \subseteq Lit'
      BY <2>2
    <3> QED
      BY <2>1, <3>1, SameCall DEF GInv, SideInv
  <2> QED
    BY <1>2, <2>3, <2>4 DEF GInv
<1>4. CASE Sides
  <2> DEFINE pair == {<<call.cx - call.r, row>>, <<call.cx + call.r, row>>}
  <2>1. /\ row < call.cy /\ row' = row + 1 /\ UNCHANGED <<call, pc, x, y, d>>
        /\ fb' = fb \cup put_pixels(pair) /\ ~Circular /\ pc = "sides"
    BY <1>4 DEF Sides, GInv, ModeInv, Circular
  <2>2. ASSUME Inside PROVE Lit' = Lit \cup pair
    <3>1. row \in Middle .. call.cy - 1
      BY <1>1, <2>1, <2>2 DEF GInv, SideInv
    <3>2. pair \subseteq Screen
      BY <1>1, <2>1, <2>2, <3>1, Fits
    <3> HIDE DEF pair
    <3> QED
      BY <2>1, <3>2, Lights
  <2>3. ASSUME Inside PROVE SideInv' /\ ChainInv'
    <3>1. row >= Middle /\ row' - 1 = row
      BY <1>1, <2>1, <2>3 DEF GInv, SideInv
    <3>2. \A p \in pair : OnSide(p)'
      <4>1. row \in Middle .. row' - 1
        BY <1>1, <3>1
      <4> QED
        BY <2>1, <4>1, SameCall DEF OnSide
    <3>3. ChainInv'
      BY <1>1, <2>1, <2>2, <2>3, <3>2, ChainStays DEF GInv
    <3>4. \A i \in Middle .. row' - 1 : i \in Middle .. row - 1 \/ i = row
      BY <1>1, <2>1
    <3>5. \A i \in Middle .. row' - 1 :
            <<call.cx - call.r, i>> \in Lit' /\ <<call.cx + call.r, i>> \in Lit'
      BY <2>1, <2>2, <2>3, <3>4 DEF GInv, SideInv
    <3>6. SideInv'
      BY <1>1, <2>1, <3>1, <3>5, SameCall DEF SideInv
    <3> QED
      BY <3>3, <3>6
  <2>4. ASSUME ~Inside PROVE SideInv' /\ ChainInv'
    BY <2>1, <2>4, SameCall DEF SideInv, ChainInv
  <2> QED
    BY <1>2, <2>3, <2>4 DEF GInv
<1>5. CASE SidesDone \/ Done \/ UNCHANGED vars
  <2>1. UNCHANGED <<call, x, y, row, fb>>
    BY <1>5 DEF SidesDone, Done, vars
  <2>2. Lit' = Lit
    BY <2>1 DEF Lit, Screen
  <2>3. ChainInv'
    BY <1>1, <2>1, <2>2, ChainStays DEF GInv
  <2>4. SideInv'
    <3>1. pc' \in {"cap", "done"} /\ ~Circular => pc \in {"cap", "done"} \/ row >= call.cy
      BY <1>1, <1>5 DEF SidesDone, Done, vars, GInv, EndInv
    <3> QED
      BY <2>1, <2>2, <3>1, SameCall DEF GInv, SideInv
  <2> QED
    BY <1>2, <2>3, <2>4 DEF GInv
<1> QED
  BY <1>3, <1>4, <1>5 DEF Next

\* When the arc has passed the diagonal, what was last drawn continues in the
\* next octant.
LEMMA Closed ==
  ASSUME DInv, y < x, NEW u \in Nat, NEW v \in Nat, u <= v, Linked(u, v)
  PROVE  Drawn(u + 1, v) \/ Drawn(u + 1, v - 1) \/ u = v
<1> SUFFICES ASSUME u + 1 = x, y = v \/ y = v - 1, u # v
             PROVE  Drawn(u + 1, v - 1)
  BY DEF Linked, Ahead
<1>1. v = u + 1 /\ v - 1 = u
  <2>1. x \in Nat /\ y \in Int
    BY DEF DInv, ArcInv
  <2> QED
    BY <2>1
<1>2. Drawn(v, u)
  BY Mirrored DEF Linked, DInv
<1> QED
  BY <1>1, <1>2

\* A finished outline has no gap, for every radius, wherever it stands on the
\* screen: every pixel continues in two others, but for a cylinder's feet.
THEOREM DrawingNoGaps == Spec => []NoGaps
<1>1. DInv /\ GInv => NoGaps
  <2> SUFFICES ASSUME DInv, GInv, pc = "done", Inside, call.r > 0, NEW p \in Lit
               PROVE  \/ Cardinality(Neighbours(p)) >= 2
                      \/ /\ call.f = "draw_cylinder_outline"
                         /\ p[2] = Bottom /\ Cardinality(Neighbours(p)) = 1
    BY DEF NoGaps
  <2>1. /\ call \in Calls /\ call.r \in Nat /\ row \in Int /\ Middle \in Int
        /\ call.cx \in Int /\ call.cy \in Int
        /\ x \in Nat /\ y \in Int /\ y < x /\ y >= -1
    BY CallShape, MiddleIsInt DEF DInv, ArcInv, GInv, EndInv
  <2>2. ~Circular => /\ call.f = "draw_cylinder_outline"
                     /\ Bottom = IF call.cy > Middle THEN call.cy - 1 ELSE Middle
    BY <2>1, DrawingAssumption DEF Circular, Bottom, Middle
  <2>3. ~Circular => /\ row >= Middle /\ row >= call.cy /\ (row = Middle \/ row <= call.cy)
                     /\ \A i \in Middle .. row - 1 :
                          <<call.cx - call.r, i>> \in Lit /\ <<call.cx + call.r, i>> \in Lit
    BY DEF GInv, SideInv
  \* The chain's points, of a cylinder all but its ends.
  <2>4. ASSUME NEW u \in Nat, NEW v \in Nat, u <= v, v <= call.r, Linked(u, v), NEW k \in Octant
        PROVE  LET q == Image(k, u, v)
               IN  /\ q \in Lit
                   /\ \/ Cardinality(Neighbours(q)) >= 2
                      \/ /\ ~Circular /\ k \in {3, 4} /\ u = 0 /\ v = call.r
                         /\ \E s \in Lit : Beside(q, s) /\ s[2] < q[2]
    <3>1. v >= 1
      BY <2>1, <2>4 DEF Linked, Behind
    <3> QED
      BY <2>1, <2>4, <3>1, Closed, ChainNeighbours
  \* The ends of the cap.
  <2>5. ASSUME ~Circular, p[2] = Middle, NEW s \in Lit, Beside(p, s), s[2] < p[2],
               p = <<call.cx - call.r, Middle>> \/ p = <<call.cx + call.r, Middle>>
        PROVE  Cardinality(Neighbours(p)) >= 2
               \/ (p[2] = Bottom /\ Cardinality(Neighbours(p)) = 1)
    <3>1. CASE Bottom = Middle
      <4>1. Cardinality(Neighbours(p)) \in Nat /\ Cardinality(Neighbours(p)) >= 1
        BY <2>5, OneBeside
      <4> QED
        BY <2>5, <3>1, <4>1
    <3>2. CASE Bottom # Middle
      <4> DEFINE below == <<p[1], Middle + 1>>
      <4>1. Middle + 1 \in Middle .. row - 1
        BY <2>1, <2>2, <2>3, <2>5, <3>2
      <4>2. below \in Lit
        <5>1. /\ <<call.cx - call.r, Middle + 1>> \in Lit
              /\ <<call.cx + call.r, Middle + 1>> \in Lit
          BY <2>3, <2>5, <4>1
        <5>2. p[1] = call.cx - call.r \/ p[1] = call.cx + call.r
          BY <2>5
        <5> QED
          BY <5>1, <5>2
      <4>3. Beside(p, below) /\ below # s
        BY <2>1, <2>5 DEF Beside
      <4> QED
        BY <2>5, <4>2, <4>3, TwoBeside
    <3> QED
      BY <3>1, <3>2
  <2>6. CASE OnChain(p)
    <3>1. PICK u \in Nat, v \in Nat, k \in Octant :
            u <= v /\ v <= call.r /\ Linked(u, v) /\ p = Image(k, u, v)
      BY <2>1, <2>6 DEF OnChain
    <3>2. \/ Cardinality(Neighbours(p)) >= 2
          \/ /\ ~Circular /\ k \in {3, 4} /\ u = 0 /\ v = call.r
             /\ \E s \in Lit : Beside(p, s) /\ s[2] < p[2]
      BY <2>4, <3>1
    <3>3. CASE /\ ~Circular /\ k \in {3, 4} /\ u = 0 /\ v = call.r
               /\ \E s \in Lit : Beside(p, s) /\ s[2] < p[2]
      <4>1. p = <<call.cx - call.r, Middle>> \/ p = <<call.cx + call.r, Middle>>
        BY <2>1, <3>1, <3>3 DEF Image
      <4> QED
        BY <2>2, <2>5, <3>3, <4>1
    <3> QED
      BY <3>2, <3>3
  <2>7. CASE OnSide(p)
    <3>1. /\ ~Circular /\ p[2] \in Middle .. row - 1
          /\ p = <<p[1], p[2]>> /\ p[1] \in {call.cx - call.r, call.cx + call.r}
      BY <2>7 DEF OnSide, Lit, Screen
    <3>2. CASE p[2] = Middle
      <4>1. Linked(0, call.r)
        BY <2>1 DEF GInv, ChainInv, Behind
      <4>2. PICK k \in {3, 4} : p = Image(k, 0, call.r)
        <5>1. Image(3, 0, call.r) = <<call.cx + call.r, Middle>>
              /\ Image(4, 0, call.r) = <<call.cx - call.r, Middle>>
          BY <2>1 DEF Image
        <5> QED
          BY <3>1, <3>2, <5>1
      <4>3. k \in Octant
        BY <3>1 DEF Octant
      <4>4. \/ Cardinality(Neighbours(p)) >= 2
            \/ \E s \in Lit : Beside(p, s) /\ s[2] < p[2]
        BY <2>1, <2>4, <4>1, <4>2, <4>3
      <4> QED
        BY <2>2, <2>5, <3>1, <3>2, <4>4
    <3>3. CASE p[2] # Middle
      <4> DEFINE above == <<p[1], p[2] - 1>>
                 below == <<p[1], p[2] + 1>>
      <4>1. p[2] - 1 \in Middle .. row - 1 /\ p[1] \in Int /\ p[2] \in Int
        BY <2>1, <3>1, <3>3
      <4> \A i \in Middle .. row - 1 : <<p[1], i>> \in Lit
        BY <2>3, <3>1
      <4>2. above \in Lit /\ Beside(p, above)
        BY <4>1 DEF Beside
      <4>3. CASE p[2] + 1 \in Middle .. row - 1
        <5>1. below \in Lit /\ Beside(p, below) /\ above # below
          BY <4>1, <4>3 DEF Beside
        <5> QED
          BY <4>2, <5>1, TwoBeside
      <4>4. CASE p[2] + 1 \notin Middle .. row - 1
        <5>1. p[2] = Bottom
          BY <2>1, <2>2, <2>3, <3>1, <3>3, <4>4
        <5>2. Cardinality(Neighbours(p)) \in Nat /\ Cardinality(Neighbours(p)) >= 1
          BY <4>2, OneBeside
        <5> QED
          BY <2>2, <3>1, <5>1, <5>2
      <4> QED
        BY <4>3, <4>4
    <3> QED
      BY <3>2, <3>3
  <2> QED
    BY <2>6, <2>7 DEF GInv, ChainInv
<1> QED
  BY <1>1, DInvAlways, GInit, GNext, PTL DEF Spec

-----------------------------------------------------------------------------
(* The allocator of pmm.c, which nothing of the figure touches.            *)

CONSTANTS Usize, Sizes
VARIABLES buddies, stage, found, order, position, result

Allocator == INSTANCE Buddy WITH pc <- stage

\* order wraps, it is never negative.
Unsigned == stage = "upwards" => order \in Nat

\* alloc_page is lost in the first of its recursions, whatever the size it was
\* asked for, the state of the bitmaps and the width of a usize: the guard that
\* should end it never holds, and nothing after it is ever reached.
THEOREM AllocFirstRecursionNeverEnds ==
  ASSUME Usize \in Nat \ {0}
  PROVE  Allocator!Spec => Allocator!FirstRecursionNeverEnds
<1>1. Allocator!Init => Unsigned
  BY DEF Allocator!Init, Unsigned
<1>2. Unsigned /\ [Allocator!Next]_(Allocator!vars) =>
        Unsigned' /\ (stage = "upwards" => stage' \in {"upwards", "undefined"})
  <2> SUFFICES ASSUME Unsigned, [Allocator!Next]_(Allocator!vars)
               PROVE  Unsigned' /\ (stage = "upwards" => stage' \in {"upwards", "undefined"})
    OBVIOUS
  <2> USE DEF Unsigned
  <2>1. CASE \E size \in Sizes : Allocator!alloc_page(size)
    BY <2>1 DEF Allocator!alloc_page
  <2>2. CASE Allocator!Search
    BY <2>2 DEF Allocator!Search, Allocator!Orders, Allocator!BUDDY_COUNT
  <2>3. CASE Allocator!set_buddy_present_upwars_rec
    <3>1. stage = "upwards" /\ order \in Nat /\ ~(order < 0)
      BY <2>3 DEF Allocator!set_buddy_present_upwars_rec
    <3>2. (order - 1) % Usize \in Nat
      BY <3>1
    <3> QED
      BY <2>3, <3>1, <3>2 DEF Allocator!set_buddy_present_upwars_rec
  <2>4. CASE Allocator!set_buddy_present_downwards_rec
    BY <2>4 DEF Allocator!set_buddy_present_downwards_rec
  <2>5. CASE Allocator!OutOfBounds
    BY <2>5 DEF Allocator!OutOfBounds
  <2>6. CASE UNCHANGED Allocator!vars
    BY <2>6 DEF Allocator!vars
  <2> QED
    BY <2>1, <2>2, <2>3, <2>4, <2>5, <2>6 DEF Allocator!Next
<1> QED
  BY <1>1, <1>2, PTL DEF Allocator!Spec, Allocator!FirstRecursionNeverEnds
=============================================================================
