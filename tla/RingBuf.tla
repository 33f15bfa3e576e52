------------------------------- MODULE RingBuf ------------------------------
(***************************************************************************)
(* One RingBufCPP object used through its public methods, each an atomic   *)
(* step.  The array starts with arbitrary contents, as _buf does.          *)
(***************************************************************************)
EXTENDS RingBufOps

CONSTANT Type   \* the values of a node

VARIABLES ring,   \* the object
          result  \* what the last call returned, at the moment it returned

vars == <<ring, result>>

Init ==
  /\ \E garbage \in [Slot -> Type] : ring = NewRing(garbage)
  /\ result = [op |-> "none"]

Add(obj, overwrite) ==
  /\ ring' = add(ring, obj, overwrite)
  /\ result' = [op |-> "add", ok |-> ~isFull(ring)]

Pull ==
  /\ ring' = pull(ring)
  /\ result' = IF isEmpty(ring) THEN [op |-> "pull", ok |-> FALSE]
                                ELSE [op |-> "pull", ok |-> TRUE, obj |-> pulled(ring)]

Peek(n) ==
  /\ UNCHANGED ring
  /\ result' = IF peek(ring, n) = -1 THEN [op |-> "peek", ok |-> FALSE]
                                     ELSE [op |-> "peek", ok |-> TRUE,
                                           obj |-> ring.buf[peek(ring, n)]]

NumElements ==
  /\ UNCHANGED ring
  /\ result' = [op |-> "numElements", n |-> ring.num]

Next ==
  \/ \E obj \in Type, overwrite \in BOOLEAN : Add(obj, overwrite)
  \/ Pull
  \/ \E n \in 0 .. MaxElements : Peek(n)
  \/ NumElements

Spec == Init /\ [][Next]_vars

-----------------------------------------------------------------------------
\* The object's fields stay in range: _head inside the array and _numElements
\* never past MaxElements, so that "MaxElements - _numElements" in getTail, an
\* unsigned subtraction, never wraps.
TypeOK == ring \in Ring(Type)

\* The clients fill the head slot in place through the pointer getHead returns
\* and add afterwards (ReadMe.txt:77-78).  That is harmless exactly while the
\* ring is not full: then, and only then, is the head slot outside the queue.
HeadSlotFree == getHead(ring) \notin Queued(ring) <=> ~isFull(ring)

\* The ring is a bounded FIFO queue: oldest element first, overwrite drops
\* exactly the oldest, a refused add has no effect, and every method returns
\* what the abstract queue returns.  About add, pull, peek, numElements and
\* getTail together, over any number of turns of the head round the array.
Abstract == INSTANCE BoundedQueue
              WITH Capacity <- MaxElements, Element <- Type, queue <- Contents(ring)

Refinement == Abstract!Spec
=============================================================================
