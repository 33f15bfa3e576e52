---------------------------- MODULE RingBuf_proofs --------------------------
(***************************************************************************)
(* RingBufCPP is a bounded FIFO queue, for every array size and every node *)
(* type, however long it is used.  The inductive invariant is TypeOK: the  *)
(* lemmas of RingBufOps_proofs need nothing else of the object.            *)
(***************************************************************************)
EXTENDS RingBuf, RingBufOps_proofs

LEMMA StepKeepsType ==
  ASSUME TypeOK, [Next]_vars
  PROVE  TypeOK'
<1>1. CASE UNCHANGED vars
  BY <1>1 DEF TypeOK, vars
<1>2. ASSUME NEW obj \in Type, NEW overwrite \in BOOLEAN, Add(obj, overwrite)
      PROVE  TypeOK'
  <2>1. ring' = Added(ring, obj) \/ ring' = ring
    BY <1>2 DEF Add, add
  <2> QED
    BY <2>1, AddedType DEF TypeOK
<1>3. ASSUME Pull PROVE TypeOK'
  <2>1. CASE isEmpty(ring)
    BY <1>3, <2>1 DEF Pull, pull, TypeOK
  <2>2. CASE ~isEmpty(ring)
    BY <1>3, <2>2, PullTakes DEF Pull, TypeOK
  <2> QED
    BY <2>1, <2>2
<1>4. ASSUME NEW n \in 0 .. MaxElements, Peek(n) PROVE TypeOK'
  BY <1>4 DEF Peek, TypeOK
<1>5. ASSUME NumElements PROVE TypeOK'
  BY <1>5 DEF NumElements, TypeOK
<1> QED
  BY <1>1, <1>2, <1>3, <1>4, <1>5 DEF Next

\* _head stays inside the array and _numElements within MaxElements.
THEOREM TypeCorrect == Spec => []TypeOK
<1>1. Init => TypeOK
  BY NewRingEmpty DEF Init, TypeOK
<1>2. TypeOK /\ [Next]_vars => TypeOK'
  BY StepKeepsType
<1> QED
  BY <1>1, <1>2, PTL DEF Spec

\* A client may fill the head slot in place exactly while the ring is not full.
THEOREM HeadSlotFreeAlways == Spec => []HeadSlotFree
<1>1. TypeOK => HeadSlotFree
  BY HeadSlot DEF TypeOK, HeadSlotFree
<1> QED
  BY <1>1, TypeCorrect, PTL

-----------------------------------------------------------------------------
LEMMA FullIsFull ==
  ASSUME TypeOK
  PROVE  Abstract!Full <=> isFull(ring)
<1>1. Len(Contents(ring)) = ring.num /\ ring.num \in 0 .. MaxElements
  BY ContentsSeq, Fields DEF TypeOK
<1> QED
  BY <1>1, MaxElementsAssumption, SMT DEF Abstract!Full, isFull

LEMMA AddImplements ==
  ASSUME TypeOK, NEW obj \in Type, NEW overwrite \in BOOLEAN, Add(obj, overwrite)
  PROVE  Abstract!AddWithRoom(obj) \/ Abstract!AddRefused(obj) \/ Abstract!AddOverwriting(obj)
<1> USE DEF TypeOK
<1>1. result' = [op |-> "add", ok |-> ~isFull(ring)]
  BY DEF Add
<1>2. CASE ~isFull(ring)
  <2>1. ring' = Added(ring, obj)
    BY <1>2 DEF Add, add, Admits
  <2>2. Contents(ring') = Append(Contents(ring), obj)
    BY <1>2, <2>1, AddAppends
  <2>3. ~isFull(ring) = TRUE
    BY <1>2
  <2> QED
    BY <1>1, <1>2, <2>2, <2>3, FullIsFull DEF Abstract!AddWithRoom
<1>3. CASE isFull(ring) /\ overwrite
  <2>1. ring' = Added(ring, obj)
    BY <1>3 DEF Add, add, Admits
  <2>2. Contents(ring') = Append(Tail(Contents(ring)), obj)
    BY <1>3, <2>1, AddOverwrites
  <2>3. (~isFull(ring)) = FALSE
    BY <1>3
  <2> QED
    BY <1>1, <1>3, <2>2, <2>3, FullIsFull DEF Abstract!AddOverwriting
<1>4. CASE isFull(ring) /\ ~overwrite
  <2>1. ring' = ring
    BY <1>4 DEF Add, add, Admits
  <2>2. Contents(ring') = Contents(ring)
    BY <2>1
  <2>3. (~isFull(ring)) = FALSE
    BY <1>4
  <2> QED
    BY <1>1, <1>4, <2>2, <2>3, FullIsFull DEF Abstract!AddRefused
<1> QED
  BY <1>2, <1>3, <1>4

LEMMA PullImplements ==
  ASSUME TypeOK, Pull
  PROVE  Abstract!Pull
<1> USE DEF TypeOK
<1>1. CASE isEmpty(ring)
  <2>1. Contents(ring) = <<>>
    <3>1. Contents(ring) \in Seq(Type) /\ Len(Contents(ring)) = 0
      BY <1>1, ContentsSeq DEF isEmpty
    <3> QED
      BY <3>1, EmptySeq, SMT
  <2>2. ring' = ring /\ result' = [op |-> "pull", ok |-> FALSE]
    BY <1>1 DEF Pull, pull
  <2> QED
    BY <2>1, <2>2 DEF Abstract!Pull
<1>2. CASE ~isEmpty(ring)
  <2>1. /\ ring' = pull(ring)
        /\ result' = [op |-> "pull", ok |-> TRUE, obj |-> pulled(ring)]
    BY <1>2 DEF Pull
  <2>2. /\ Contents(ring) # <<>> /\ pulled(ring) = Contents(ring)[1]
        /\ Contents(pull(ring)) = Tail(Contents(ring))
    BY <1>2, PullTakes
  <2> QED
    BY <2>1, <2>2 DEF Abstract!Pull
<1> QED
  BY <1>1, <1>2

LEMMA PeekImplements ==
  ASSUME TypeOK, NEW n \in 0 .. MaxElements, Peek(n)
  PROVE  Abstract!Peek(n)
<1> USE DEF TypeOK
<1>1. Len(Contents(ring)) = ring.num
  BY ContentsSeq
<1>2. Contents(ring') = Contents(ring)
  BY DEF Peek
<1>3. CASE n < ring.num
  <2>1. peek(ring, n) # -1 /\ ring.buf[peek(ring, n)] = Contents(ring)[n + 1]
    BY <1>3, PeekPoints
  <2> QED
    BY <1>1, <1>2, <1>3, <2>1 DEF Peek, Abstract!Peek
<1>4. CASE ~(n < ring.num)
  <2>1. peek(ring, n) = -1
    BY <1>4, PeekPoints
  <2> QED
    BY <1>1, <1>2, <1>4, <2>1 DEF Peek, Abstract!Peek
<1> QED
  BY <1>3, <1>4

\* Every method of the ring does what the bounded queue does, and returns what it
\* returns.
THEOREM RingIsQueue == Spec => Refinement
<1>1. Init => Abstract!Init
  <2> SUFFICES ASSUME Init PROVE Abstract!Init
    OBVIOUS
  <2>1. ring \in Ring(Type) /\ ring.num = 0 /\ result = [op |-> "none"]
    BY NewRingEmpty DEF Init
  <2>2. Contents(ring) \in Seq(Type) /\ Len(Contents(ring)) = 0
    BY <2>1, ContentsSeq
  <2>3. Contents(ring) = <<>>
    BY <2>2, EmptySeq, SMT
  <2> QED
    BY <2>1, <2>3 DEF Abstract!Init
<1>2. TypeOK /\ [Next]_vars => [Abstract!Next]_(Abstract!vars)
  <2> SUFFICES ASSUME TypeOK, [Next]_vars
               PROVE  Abstract!Next \/ UNCHANGED Abstract!vars
    OBVIOUS
  <2>1. CASE UNCHANGED vars
    BY <2>1 DEF vars, Abstract!vars
  <2>2. ASSUME NEW obj \in Type, NEW overwrite \in BOOLEAN, Add(obj, overwrite)
        PROVE  Abstract!Next
    BY <2>2, AddImplements DEF Abstract!Next
  <2>3. ASSUME Pull PROVE Abstract!Next
    BY <2>3, PullImplements DEF Abstract!Next
  <2>4. ASSUME NEW n \in 0 .. MaxElements, Peek(n) PROVE Abstract!Next
    BY <2>4, PeekImplements DEF Abstract!Next
  <2>5. ASSUME NumElements PROVE Abstract!Next
    <3>1. Len(Contents(ring)) = ring.num
      BY ContentsSeq DEF TypeOK
    <3>2. Contents(ring') = Contents(ring) /\ result' = [op |-> "numElements", n |-> ring.num]
      BY <2>5 DEF NumElements
    <3> QED
      BY <3>1, <3>2 DEF Abstract!NumElements, Abstract!Next
  <2> QED
    BY <2>1, <2>2, <2>3, <2>4, <2>5 DEF Next
<1> QED
  BY <1>1, <1>2, TypeCorrect, PTL DEF Spec, Refinement, Abstract!Spec
=============================================================================
