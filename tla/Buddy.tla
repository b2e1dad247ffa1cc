-------------------------------- MODULE Buddy -------------------------------
(***************************************************************************)
(* The buddy allocator of pmm.c, as its one operation would run if called: *)
(* alloc_page looks for a free position in the bitmap of an order, marks   *)
(* it there and in the orders below and above by two recursions, and       *)
(* converts it to an address.  Nothing ever links a second buddy to one of *)
(* the static four, so a chain has one element and runs is 0 throughout.   *)
(***************************************************************************)
EXTENDS Integers

CONSTANTS
  Usize,  \* the number of values of a usize: 2^64
  Sizes   \* the sizes asked for

BUDDY_COUNT == 4
BASE_REVISION == 4096
BITMAP_SIZE == 64

Orders == 0 .. BUDDY_COUNT - 1
Positions == 0 .. BITMAP_SIZE - 1

VARIABLES
  buddies,   \* buddies[o]: the bits set in the bitmap of order o
  pc,        \* "idle", "search", "upwards", "downwards" or "undefined"
  found,     \* minimal_buddy_order and the position chosen in it
  order,     \* the parameters of the recursion at its current depth
  position,
  result     \* what the last call returned

vars == <<buddies, pc, found, order, position, result>>

runs == 0

Init ==
  /\ buddies = [o \in Orders |-> {}]
  /\ pc = "idle"
  /\ found = [order |-> 0, position |-> 0]
  /\ order = 0 /\ position = 0
  /\ result = "none"

\* alloc_page's entry: size - 1 wraps for a size of 0, and an order is
\* accepted up to BUDDY_COUNT.
alloc_page(size) ==
  /\ pc = "idle"
  /\ LET minimal == ((size - 1) % Usize) \div BASE_REVISION IN
       IF minimal > BUDDY_COUNT
       THEN result' = "NULL" /\ UNCHANGED <<pc, found>>
       ELSE /\ pc' = "search"
            /\ found' = [found EXCEPT !.order = minimal]
            /\ UNCHANGED result
  /\ UNCHANGED <<buddies, order, position>>

Free(o) == Positions \ buddies[o]

\* The search for the lowest clear bit.
Search ==
  /\ pc = "search" /\ found.order \in Orders
  /\ IF Free(found.order) = {}
     THEN pc' = "idle" /\ result' = "NULL" /\ UNCHANGED <<found, order, position>>
     ELSE \E p \in Free(found.order) :
            /\ \A q \in Free(found.order) : p <= q
            /\ found' = [found EXCEPT !.position = p]
            /\ order' = found.order /\ position' = p
            /\ pc' = "upwards"
            /\ UNCHANGED result
  /\ UNCHANGED buddies

\* 1 << position is an int: the processor takes the count modulo 32, and the
\* sign of 1 << 31 fills the upper half of the bitmap.
Mask == IF position % 32 = 31 THEN 31 .. 63 ELSE {position % 32}

Mark == buddies' = [buddies EXCEPT ![order] = @ \cup Mask]

\* Both recursions return at "order < 0", and otherwise mark their order.  order
\* is unsigned: order - 1 wraps.
Marks == ~(order < 0) /\ order \in Orders

set_buddy_present_upwars_rec ==
  /\ pc = "upwards" /\ (order < 0 \/ Marks)
  /\ IF order < 0
     THEN /\ pc' = "downwards" /\ order' = found.order /\ position' = found.position
          /\ UNCHANGED buddies
     ELSE /\ Mark
          /\ order' = (order - 1) % Usize /\ position' = (position * 2) % 256
          /\ UNCHANGED pc
  /\ UNCHANGED <<found, result>>

convert_position_to_addr == (found.order * BASE_REVISION) * found.position * runs

set_buddy_present_downwards_rec ==
  /\ pc = "downwards" /\ (order < 0 \/ Marks)
  /\ IF order < 0
     THEN /\ pc' = "idle"
          /\ result' = IF convert_position_to_addr = 0 THEN "NULL" ELSE "page"
          /\ UNCHANGED <<buddies, order, position>>
     ELSE /\ Mark
          /\ order' = (order + 1) % Usize /\ position' = position \div 2
          /\ UNCHANGED <<pc, result>>
  /\ UNCHANGED found

\* allocator.buddies[order] outside the array: whatever memory is there is
\* read as a bitmap and written to, without end.
OutOfBounds ==
  /\ \/ pc = "search" /\ found.order \notin Orders
     \/ pc \in {"upwards", "downwards"} /\ ~(order < 0 \/ Marks)
  /\ pc' = "undefined"
  /\ UNCHANGED <<buddies, found, order, position, result>>

Next ==
  \/ \E size \in Sizes : alloc_page(size)
  \/ Search
  \/ set_buddy_present_upwars_rec
  \/ set_buddy_present_downwards_rec
  \/ OutOfBounds

Spec == Init /\ [][Next]_vars
-----------------------------------------------------------------------------
\* What pmm.h numbers the orders (0 to 3) and the guards of the recursions
\* mean to ensure: marking never leaves the four buddies of the allocator.
MarkingStaysInOrders == pc \in {"upwards", "downwards"} => order \in Orders

\* The guard of the recursion that marks upwards never holds: once alloc_page
\* has found a position, it never comes to its second recursion or its return.
FirstRecursionNeverEnds == [][pc = "upwards" => pc' \in {"upwards", "undefined"}]_vars
=============================================================================
