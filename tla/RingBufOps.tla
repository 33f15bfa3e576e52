----------------------------- MODULE RingBufOps -----------------------------
(***************************************************************************)
(* The operations of the template class RingBufCPP<Type, MaxElements>      *)
(* (hjkUsbXferDll/RingBufCPP.h; usbdac_sim/RingBufCPP.h is the same file)  *)
(* as functions of the object's state.  Every method body runs between     *)
(* RB_ATOMIC_START and RB_ATOMIC_END, so each of them is one atomic step   *)
(* for its callers; RingBufLock.tla opens the bodies up and shows it.      *)
(*                                                                         *)
(* A ring is a record [head, num, buf]: _head, _numElements and the array  *)
(* _buf, indexed from 0 as in the code.                                    *)
(***************************************************************************)
EXTENDS Integers, Sequences

CONSTANT MaxElements

ASSUME MaxElementsAssumption == MaxElements \in Nat \ {0}

Slot == 0 .. MaxElements - 1

Ring(Type) == [head : Slot, num : 0 .. MaxElements, buf : [Slot -> Type]]

-----------------------------------------------------------------------------
\* Deliberate errors, each a variant of a definition below that the properties
\* have to notice.
TailOffByOne(r) == (r.head + (MaxElements - r.num) + 1) % MaxElements

PullsHead(r) == r.buf[r.head]

AlwaysCounts(r, obj) ==
  [head |-> (r.head + 1) % MaxElements, num |-> r.num + 1, buf |-> [r.buf EXCEPT ![r.head] = obj]]

-----------------------------------------------------------------------------
\* The constructor.  The array holds whatever the memory held.
NewRing(garbage) == [head |-> 0, num |-> 0, buf |-> garbage]

isFull(r) == r.num >= MaxElements

isEmpty(r) == r.num = 0

getTail(r) == (r.head + (MaxElements - r.num)) % MaxElements

\* getHead and peek return a POINTER into _buf, here the slot number; peek
\* tests its bound itself and returns NULL (-1) when it fails.
getHead(r) == r.head

peek(r, n) == IF n < r.num THEN (getTail(r) + n) % MaxElements ELSE -1

\* add is refused when the ring is full and overwrite is false; when overwrite
\* is true it takes the slot of the oldest element, which is the head slot.
\* The code returns !full in both cases.
Admits(r, overwrite) == ~isFull(r) \/ overwrite

Added(r, obj) ==
  [head |-> (r.head + 1) % MaxElements,
   num  |-> IF isFull(r) THEN r.num ELSE r.num + 1,
   buf  |-> [r.buf EXCEPT ![r.head] = obj]]

add(r, obj, overwrite) == IF Admits(r, overwrite) THEN Added(r, obj) ELSE r

\* pull copies the oldest element out and leaves it in its slot.
pulled(r) == r.buf[getTail(r)]

pull(r) == IF isEmpty(r) THEN r ELSE [r EXCEPT !.num = @ - 1]

-----------------------------------------------------------------------------
\* What the ring holds, oldest element first: the abstract queue.
SlotAt(r, i) == (getTail(r) + i - 1) % MaxElements

Contents(r) == [i \in 1 .. r.num |-> r.buf[SlotAt(r, i)]]

\* The slots that hold queued elements.
Queued(r) == {SlotAt(r, i) : i \in 1 .. r.num}
=============================================================================
