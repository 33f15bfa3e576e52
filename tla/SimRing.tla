------------------------------- MODULE SimRing ------------------------------
(***************************************************************************)
(* The class RingBufCPP as the simulator has it, in usbdac_sim/            *)
(* RingBufCPP.h.  An object is a record [max, head, num, buf]: the         *)
(* template's length travels with the object, so that one operator serves  *)
(* rings of any length.  Every method body runs under the object's own     *)
(* mutex and is one atomic step, as RingBufLock shows for the DLL's copy.  *)
(***************************************************************************)
EXTENDS Integers

Slots(r) == 0 .. r.max - 1

\* The constructor: the array holds whatever memory held.
NewRing(max, garbage) == [max |-> max, head |-> 0, num |-> 0, buf |-> garbage]

RingOf(max, Type) ==
  [max : {max}, head : 0 .. max - 1, num : 0 .. max, buf : [0 .. max - 1 -> Type]]

-----------------------------------------------------------------------------
numElements(r) == r.num
isEmpty(r) == r.num = 0
isFull(r) == r.num >= r.max

\* getHead and getTail name a slot; the pointer getHead returns is good for as long as
\* the caller keeps it.
getHead(r) == r.head
getTail(r) == (r.head + (r.max - r.num)) % r.max

\* A full ring refuses an element, or gives it the place of its oldest one.
add(r, obj, overwrite) ==
  IF isFull(r) /\ ~overwrite THEN r
  ELSE [r EXCEPT !.buf[r.head] = obj,
                 !.head = (@ + 1) % r.max,
                 !.num = IF isFull(r) THEN @ ELSE @ + 1]

\* pull leaves the element it copies out in its slot.
pulled(r) == r.buf[getTail(r)]
pull(r) == IF isEmpty(r) THEN r ELSE [r EXCEPT !.num = @ - 1]

\* The elements queued, whatever their order.
QueuedIn(r) == {r.buf[(getTail(r) + i) % r.max] : i \in 0 .. r.num - 1}
=============================================================================
