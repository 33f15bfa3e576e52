---------------------------- MODULE BoundedQueue ----------------------------
(***************************************************************************)
(* What RingBufCPP.h promises its callers, in its own comments: a FIFO     *)
(* queue of at most Capacity elements.  Adding to a full queue either      *)
(* drops the oldest element (overwrite) or has no effect, and the result   *)
(* of add says whether there was room.                                     *)
(***************************************************************************)
EXTENDS Integers, Sequences

CONSTANTS Capacity,  \* how many elements the queue holds
          Element    \* the elements

VARIABLES queue,     \* the elements, oldest first
          result     \* what the last operation returned

vars == <<queue, result>>

Init == queue = <<>> /\ result = [op |-> "none"]

Full == Len(queue) = Capacity

AddWithRoom(e) ==
  /\ ~Full
  /\ queue' = Append(queue, e)
  /\ result' = [op |-> "add", ok |-> TRUE]

AddRefused(e) ==
  /\ Full
  /\ UNCHANGED queue
  /\ result' = [op |-> "add", ok |-> FALSE]

AddOverwriting(e) ==
  /\ Full
  /\ queue' = Append(Tail(queue), e)
  /\ result' = [op |-> "add", ok |-> FALSE]

Pull ==
  IF queue = <<>>
  THEN UNCHANGED queue /\ result' = [op |-> "pull", ok |-> FALSE]
  ELSE queue' = Tail(queue) /\ result' = [op |-> "pull", ok |-> TRUE, obj |-> queue[1]]

Peek(n) ==
  /\ UNCHANGED queue
  /\ result' = IF n < Len(queue) THEN [op |-> "peek", ok |-> TRUE, obj |-> queue[n + 1]]
                                 ELSE [op |-> "peek", ok |-> FALSE]

NumElements ==
  /\ UNCHANGED queue
  /\ result' = [op |-> "numElements", n |-> Len(queue)]

Next ==
  \/ \E e \in Element : AddWithRoom(e) \/ AddRefused(e) \/ AddOverwriting(e)
  \/ Pull
  \/ \E n \in 0 .. Capacity : Peek(n)
  \/ NumElements

Spec == Init /\ [][Next]_vars
=============================================================================
