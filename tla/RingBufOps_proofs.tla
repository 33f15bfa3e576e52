-------------------------- MODULE RingBufOps_proofs -------------------------
(***************************************************************************)
(* What the operations of RingBufCPP do to the queue that a ring stands    *)
(* for, for every array size and every node type.                          *)
(***************************************************************************)
EXTENDS RingBufOps, SequenceTheorems, TLAPS

USE DEF Slot

\* One turn round the array at most: all the code ever needs of "%".
LEMMA Wrap ==
  ASSUME NEW a \in 0 .. 2 * MaxElements - 1
  PROVE  a % MaxElements = IF a < MaxElements THEN a ELSE a - MaxElements
BY MaxElementsAssumption, SMT

\* Where the i-th oldest of n elements lies when the head is at h.
Place(h, n, i) == IF h - n + i - 1 >= 0 THEN h - n + i - 1 ELSE h - n + i - 1 + MaxElements

LEMMA Fields ==
  ASSUME NEW Type, NEW r \in Ring(Type)
  PROVE  /\ r.head \in 0 .. MaxElements - 1 /\ r.head \in Int
         /\ r.num \in 0 .. MaxElements /\ r.num \in Nat
         /\ r.buf \in [0 .. MaxElements - 1 -> Type]
         /\ MaxElements \in Nat /\ MaxElements > 0
BY MaxElementsAssumption, SMT DEF Ring

\* The constructor makes a well-formed, empty object of any memory.
LEMMA NewRingEmpty ==
  ASSUME NEW Type, NEW garbage \in [Slot -> Type]
  PROVE  NewRing(garbage) \in Ring(Type) /\ NewRing(garbage).num = 0
<1>1. 0 \in 0 .. MaxElements - 1 /\ 0 \in 0 .. MaxElements
  BY MaxElementsAssumption, SMT
<1> QED
  BY <1>1 DEF NewRing, Ring

\* getTail finds the oldest element: num slots behind the head.
LEMMA TailSlot ==
  ASSUME NEW Type, NEW r \in Ring(Type)
  PROVE  getTail(r) = IF r.num = 0 THEN r.head ELSE Place(r.head, r.num, 1)
<1>0. /\ r.head \in 0 .. MaxElements - 1 /\ r.num \in 0 .. MaxElements
      /\ MaxElements \in Nat /\ MaxElements > 0
  BY Fields
<1> DEFINE a == r.head + (MaxElements - r.num)
<1>1. a \in 0 .. 2 * MaxElements - 1
  BY <1>0, SMT
<1>2. getTail(r) = a % MaxElements
  BY DEF getTail
<1> HIDE DEF a
<1>3. a % MaxElements = IF a < MaxElements THEN a ELSE a - MaxElements
  BY <1>1, Wrap
<1>4. getTail(r) = IF a < MaxElements THEN a ELSE a - MaxElements
  BY <1>2, <1>3
<1> QED
  BY <1>0, <1>4, SMT DEF a, Place

LEMMA PlaceSum ==
  ASSUME NEW h \in 0 .. MaxElements - 1, NEW n \in 1 .. MaxElements, NEW i \in 1 .. n,
         NEW a, a = Place(h, n, 1) + i - 1
  PROVE  /\ a \in 0 .. 2 * MaxElements - 1
         /\ Place(h, n, i) = IF a < MaxElements THEN a ELSE a - MaxElements
         /\ Place(h, n, i) \in 0 .. MaxElements - 1
BY MaxElementsAssumption, SMT DEF Place

\* The slot of the i-th queued element, without "%".
LEMMA SlotOf ==
  ASSUME NEW Type, NEW r \in Ring(Type), NEW i \in 1 .. r.num
  PROVE  SlotAt(r, i) = Place(r.head, r.num, i) /\ SlotAt(r, i) \in 0 .. MaxElements - 1
<1>1. /\ r.head \in 0 .. MaxElements - 1 /\ r.num \in 0 .. MaxElements
      /\ MaxElements \in Nat /\ MaxElements > 0
  BY Fields
<1>2. r.num \in 1 .. MaxElements /\ r.num # 0
  BY <1>1, SMT
<1> DEFINE a == Place(r.head, r.num, 1) + i - 1
<1>3. SlotAt(r, i) = a % MaxElements
  BY <1>2, TailSlot DEF SlotAt
<1>a. a = Place(r.head, r.num, 1) + i - 1
  OBVIOUS
<1> HIDE DEF a
<1>4. /\ a \in 0 .. 2 * MaxElements - 1
      /\ Place(r.head, r.num, i) = IF a < MaxElements THEN a ELSE a - MaxElements
      /\ Place(r.head, r.num, i) \in 0 .. MaxElements - 1
  <2> DEFINE h == r.head
             n == r.num
  <2>1. h \in 0 .. MaxElements - 1 /\ n \in 1 .. MaxElements /\ i \in 1 .. n
    BY <1>1, <1>2
  <2>2. a = Place(h, n, 1) + i - 1
    BY <1>a
  <2> HIDE DEF h, n
  <2>3. /\ a \in 0 .. 2 * MaxElements - 1
        /\ Place(h, n, i) = IF a < MaxElements THEN a ELSE a - MaxElements
        /\ Place(h, n, i) \in 0 .. MaxElements - 1
    BY <2>1, <2>2, PlaceSum
  <2> QED
    BY <2>3 DEF h, n
<1>5. a % MaxElements = IF a < MaxElements THEN a ELSE a - MaxElements
  BY <1>4, Wrap
<1> QED
  BY <1>3, <1>4, <1>5

\* _head moves on by one slot, and round at the end.
LEMMA NextHead ==
  ASSUME NEW Type, NEW r \in Ring(Type), NEW obj
  PROVE  /\ Added(r, obj).head = IF r.head + 1 < MaxElements THEN r.head + 1 ELSE 0
         /\ Added(r, obj).num = IF r.num < MaxElements THEN r.num + 1 ELSE r.num
         /\ Added(r, obj).buf = [r.buf EXCEPT ![r.head] = obj]
<1> DEFINE h == r.head + 1
<1>1. h \in 0 .. 2 * MaxElements - 1
  BY Fields, SMT
<1>2. /\ Added(r, obj).head = h % MaxElements
      /\ Added(r, obj).num = IF r.num >= MaxElements THEN r.num ELSE r.num + 1
      /\ Added(r, obj).buf = [r.buf EXCEPT ![r.head] = obj]
  BY DEF Added, isFull
<1> HIDE DEF h
<1>3. h % MaxElements = IF h < MaxElements THEN h ELSE h - MaxElements
  BY <1>1, Wrap
<1>4. Added(r, obj).head = IF h < MaxElements THEN h ELSE h - MaxElements
  BY <1>2, <1>3
<1>5. Added(r, obj).head = IF r.head + 1 < MaxElements THEN r.head + 1 ELSE 0
  BY <1>4, Fields, SMT DEF h
<1>6. Added(r, obj).num = IF r.num < MaxElements THEN r.num + 1 ELSE r.num
  BY <1>2, Fields, SMT
<1> QED
  BY <1>2, <1>5, <1>6

\* The contents are a sequence of nodes, as long as _numElements says.
LEMMA ContentsSeq ==
  ASSUME NEW Type, NEW r \in Ring(Type)
  PROVE  /\ Contents(r) \in Seq(Type)
         /\ Len(Contents(r)) = r.num
         /\ \A i \in 1 .. r.num : Contents(r)[i] = r.buf[SlotAt(r, i)]
<1>1. r.num \in Nat
  BY MaxElementsAssumption, SMT DEF Ring
<1>2. \A i \in 1 .. r.num : r.buf[SlotAt(r, i)] \in Type
  BY SlotOf DEF Ring
<1> QED
  BY <1>1, <1>2, SMT DEF Contents

\* add keeps the object well formed.
LEMMA AddedType ==
  ASSUME NEW Type, NEW r \in Ring(Type), NEW obj \in Type
  PROVE  Added(r, obj) \in Ring(Type)
<1> DEFINE a == Added(r, obj)
<1>1. /\ a.head = IF r.head + 1 < MaxElements THEN r.head + 1 ELSE 0
      /\ a.num = IF r.num < MaxElements THEN r.num + 1 ELSE r.num
  BY NextHead
<1>2. a.buf = [r.buf EXCEPT ![r.head] = obj]
  BY NextHead
<1>3. a = [head |-> a.head, num |-> a.num, buf |-> a.buf]
  BY DEF Added
<1> HIDE DEF a
<1>4. a.head \in 0 .. MaxElements - 1 /\ a.num \in 0 .. MaxElements
  BY <1>1, Fields, SMT
<1>5. a.buf \in [0 .. MaxElements - 1 -> Type]
  BY <1>2, Fields
<1>6. a \in Ring(Type)
  BY <1>3, <1>4, <1>5, SMT DEF Ring
<1> QED
  BY <1>6 DEF a

\* The arithmetic of an add: nothing kept moves, and nothing kept is at the head.
LEMMA PlaceWithRoom ==
  ASSUME NEW h \in 0 .. MaxElements - 1, NEW n \in 0 .. MaxElements - 1, NEW i \in 1 .. n
  PROVE  /\ Place(IF h + 1 < MaxElements THEN h + 1 ELSE 0, n + 1, i) = Place(h, n, i)
         /\ Place(h, n, i) # h
BY MaxElementsAssumption, SMT DEF Place

LEMMA PlaceWhenFull ==
  ASSUME NEW h \in 0 .. MaxElements - 1, NEW i \in 1 .. MaxElements - 1
  PROVE  /\ Place(IF h + 1 < MaxElements THEN h + 1 ELSE 0, MaxElements, i)
                = Place(h, MaxElements, i + 1)
         /\ Place(h, MaxElements, i + 1) # h
BY MaxElementsAssumption, SMT DEF Place

LEMMA PlaceLast ==
  ASSUME NEW h \in 0 .. MaxElements - 1, NEW n \in 1 .. MaxElements
  PROVE  Place(IF h + 1 < MaxElements THEN h + 1 ELSE 0, n, n) = h
BY MaxElementsAssumption, SMT DEF Place

\* An add writes the head slot, behind the i-th element for every i it keeps: the
\* one that was i + d before, where d is 1 if the ring was full and 0 if not.
LEMMA AddKeeps ==
  ASSUME NEW Type, NEW r \in Ring(Type), NEW obj \in Type,
         NEW d \in {0, 1}, d = IF isFull(r) THEN 1 ELSE 0,
         NEW i \in 1 .. r.num - d
  PROVE  Contents(Added(r, obj))[i] = Contents(r)[i + d]
<1> DEFINE a == Added(r, obj)
<1>1. a \in Ring(Type)
  BY AddedType
<1>2. /\ a.head = IF r.head + 1 < MaxElements THEN r.head + 1 ELSE 0
      /\ a.num = IF r.num < MaxElements THEN r.num + 1 ELSE r.num
  BY NextHead
<1>buf. a.buf = [r.buf EXCEPT ![r.head] = obj]
  BY NextHead
<1> HIDE DEF a
<1>3. r.num < MaxElements <=> d = 0
  BY Fields, SMT DEF isFull
<1>4. /\ i + d \in 1 .. r.num /\ i \in 1 .. a.num
      /\ Place(a.head, a.num, i) = Place(r.head, r.num, i + d)
      /\ Place(r.head, r.num, i + d) # r.head
  <2>1. CASE d = 0
    <3>1. /\ i \in 1 .. r.num /\ i + d = i
          /\ a.num = r.num + 1 /\ r.num \in 0 .. MaxElements - 1 /\ i \in 1 .. a.num
      BY <1>2, <1>3, <2>1, Fields, SMT
    <3> QED
      BY <1>2, <3>1, PlaceWithRoom, Fields
  <2>2. CASE d = 1
    <3>1. /\ i \in 1 .. MaxElements - 1 /\ i + d = i + 1 /\ i + d \in 1 .. r.num
          /\ a.num = MaxElements /\ r.num = MaxElements /\ i \in 1 .. a.num
      BY <1>2, <1>3, <2>2, Fields, SMT
    <3> QED
      BY <1>2, <3>1, PlaceWhenFull, Fields
  <2> QED
    BY <2>1, <2>2
<1>5. /\ Contents(a)[i] = a.buf[SlotAt(a, i)]
      /\ Contents(r)[i + d] = r.buf[SlotAt(r, i + d)]
  BY <1>1, <1>4, ContentsSeq
<1>6. /\ SlotAt(a, i) = SlotAt(r, i + d)
      /\ SlotAt(r, i + d) # r.head /\ SlotAt(r, i + d) \in 0 .. MaxElements - 1
  BY <1>1, <1>4, SlotOf
<1>7. a.buf[SlotAt(r, i + d)] = r.buf[SlotAt(r, i + d)]
  BY <1>buf, <1>6, Fields
<1> QED
  BY <1>5, <1>6, <1>7 DEF a

\* The new element is the youngest.
LEMMA AddLast ==
  ASSUME NEW Type, NEW r \in Ring(Type), NEW obj \in Type
  PROVE  /\ Contents(Added(r, obj)) \in Seq(Type)
         /\ Len(Contents(Added(r, obj))) = IF isFull(r) THEN r.num ELSE r.num + 1
         /\ Contents(Added(r, obj))[Len(Contents(Added(r, obj)))] = obj
<1> DEFINE a == Added(r, obj)
<1>1. a \in Ring(Type)
  BY AddedType
<1>2. /\ a.head = IF r.head + 1 < MaxElements THEN r.head + 1 ELSE 0
      /\ a.num = IF r.num < MaxElements THEN r.num + 1 ELSE r.num
  BY NextHead
<1>buf. a.buf = [r.buf EXCEPT ![r.head] = obj]
  BY NextHead
<1> HIDE DEF a
<1>3. a.num \in 1 .. a.num /\ Place(a.head, a.num, a.num) = r.head
  <2>1. r.head \in 0 .. MaxElements - 1 /\ r.num \in 0 .. MaxElements
    BY Fields
  <2>2. a.num \in 1 .. MaxElements
    BY <1>2, <2>1, MaxElementsAssumption, SMT
  <2>3. Place(a.head, a.num, a.num) = r.head
    BY <1>2, <2>1, <2>2, PlaceLast
  <2> QED
    BY <2>2, <2>3, SMT
<1>4. a.num = IF isFull(r) THEN r.num ELSE r.num + 1
  BY <1>2, Fields, SMT DEF isFull
<1>5. Contents(a) \in Seq(Type) /\ Len(Contents(a)) = a.num
  BY <1>1, ContentsSeq
<1>6. Contents(a)[a.num] = a.buf[r.head]
  BY <1>1, <1>3, ContentsSeq, SlotOf
<1>7. a.buf[r.head] = obj
  BY <1>buf, Fields
<1> QED
  BY <1>4, <1>5, <1>6, <1>7 DEF a

\* add with room appends.
LEMMA AddAppends ==
  ASSUME NEW Type, NEW r \in Ring(Type), NEW obj \in Type, ~isFull(r)
  PROVE  Contents(Added(r, obj)) = Append(Contents(r), obj)
<1> DEFINE ca == Contents(Added(r, obj))
           ap == Append(Contents(r), obj)
<1>1. ca \in Seq(Type) /\ Len(ca) = r.num + 1 /\ ca[r.num + 1] = obj
  BY AddLast
<1>2. Contents(r) \in Seq(Type) /\ Len(Contents(r)) = r.num /\ r.num \in Nat
  BY ContentsSeq, Fields
<1>3. /\ ap \in Seq(Type) /\ Len(ap) = r.num + 1 /\ ap[r.num + 1] = obj
      /\ \A i \in 1 .. r.num : ap[i] = Contents(r)[i]
  BY <1>2, AppendProperties
<1>4. ASSUME NEW i \in 1 .. r.num PROVE ca[i] = Contents(r)[i]
  <2>1. i \in 1 .. r.num - 0 /\ i + 0 = i
    BY <1>2, SMT
  <2> QED
    BY <2>1, AddKeeps
<1> HIDE DEF ca, ap
<1>5. ASSUME NEW i \in 1 .. Len(ca) PROVE ca[i] = ap[i]
  <2>1. i \in 1 .. r.num \/ i = r.num + 1
    BY <1>1, <1>2, SMT
  <2> QED
    BY <1>1, <1>3, <1>4, <2>1
<1>6. ca = ap
  BY <1>1, <1>3, <1>5, SeqEqual
<1> QED
  BY <1>6 DEF ca, ap

\* add that overwrites drops exactly the oldest element.
LEMMA AddOverwrites ==
  ASSUME NEW Type, NEW r \in Ring(Type), NEW obj \in Type, isFull(r)
  PROVE  Contents(Added(r, obj)) = Append(Tail(Contents(r)), obj)
<1> DEFINE ca == Contents(Added(r, obj))
           t  == Tail(Contents(r))
           ap == Append(t, obj)
<1>1. ca \in Seq(Type) /\ Len(ca) = r.num /\ ca[r.num] = obj
  BY AddLast
<1>2. /\ Contents(r) \in Seq(Type) /\ Len(Contents(r)) = r.num
      /\ r.num \in Nat /\ r.num > 0
  BY ContentsSeq, Fields, SMT DEF isFull
<1>3. Contents(r) # <<>>
  BY <1>2, EmptySeq, SMT
<1>4. /\ t \in Seq(Type) /\ Len(t) = Len(Contents(r)) - 1
      /\ \A i \in 1 .. Len(t) : t[i] = Contents(r)[i + 1]
  BY <1>2, <1>3, HeadTailProperties
<1> HIDE DEF t
<1>5. /\ ap \in Seq(Type) /\ Len(ap) = Len(t) + 1 /\ ap[Len(t) + 1] = obj
      /\ \A i \in 1 .. Len(t) : ap[i] = t[i]
  BY <1>4, AppendProperties
<1>6. ASSUME NEW i \in 1 .. r.num - 1 PROVE ca[i] = Contents(r)[i + 1]
  BY AddKeeps
<1> HIDE DEF ca, ap
<1>7. ASSUME NEW i \in 1 .. Len(ca) PROVE ca[i] = ap[i]
  <2>1. /\ i \in 1 .. r.num - 1 \/ i = r.num
        /\ Len(t) = r.num - 1 /\ Len(t) + 1 = r.num
    BY <1>1, <1>2, <1>4, SMT
  <2> QED
    BY <1>1, <1>4, <1>5, <1>6, <2>1
<1>8. Len(ca) = Len(ap)
  BY <1>1, <1>2, <1>4, <1>5, SMT
<1>9. ca = ap
  BY <1>1, <1>5, <1>7, <1>8, SeqEqual
<1> QED
  BY <1>9 DEF ca, ap, t

\* pull takes the oldest element out and keeps the object well formed.
LEMMA PullTakes ==
  ASSUME NEW Type, NEW r \in Ring(Type), ~isEmpty(r)
  PROVE  /\ pull(r) \in Ring(Type)
         /\ Contents(r) # <<>>
         /\ pulled(r) = Contents(r)[1]
         /\ Contents(pull(r)) = Tail(Contents(r))
<1> DEFINE p == pull(r)
           t == Tail(Contents(r))
<1>1. r.num \in 1 .. MaxElements
  BY Fields, SMT DEF isEmpty
<1>2. p = [head |-> r.head, num |-> r.num - 1, buf |-> r.buf]
  BY DEF isEmpty, pull, Ring
<1>3. p.head = r.head /\ p.num = r.num - 1 /\ p.buf = r.buf
  BY <1>2
<1>4. p \in Ring(Type)
  <2>1. r.num - 1 \in 0 .. MaxElements
    BY <1>1, Fields, SMT
  <2> QED
    BY <1>2, <2>1, Fields, SMT DEF Ring
<1> HIDE DEF p
<1>5. Contents(r) \in Seq(Type) /\ Len(Contents(r)) = r.num
  BY ContentsSeq
<1>6. Contents(r) # <<>>
  BY <1>1, <1>5, EmptySeq, Fields, SMT
<1>7. pulled(r) = Contents(r)[1]
  <2>1. 1 \in 1 .. r.num /\ r.num # 0
    BY <1>1, Fields, SMT
  <2>2. SlotAt(r, 1) = getTail(r)
    BY <2>1, SlotOf, TailSlot
  <2> QED
    BY <2>1, <2>2, ContentsSeq DEF pulled
<1>8. ASSUME NEW i \in 1 .. r.num - 1
      PROVE  Contents(p)[i] = Contents(r)[i + 1]
  <2>1. /\ i \in 1 .. p.num /\ i + 1 \in 1 .. r.num
        /\ Place(p.head, p.num, i) = Place(r.head, r.num, i + 1)
    BY <1>3, Fields, SMT DEF Place
  <2>2. SlotAt(p, i) = SlotAt(r, i + 1)
    BY <1>4, <2>1, SlotOf
  <2> QED
    BY <1>3, <1>4, <2>1, <2>2, ContentsSeq
<1>9. /\ t \in Seq(Type) /\ Len(t) = Len(Contents(r)) - 1
      /\ \A i \in 1 .. Len(t) : t[i] = Contents(r)[i + 1]
  BY <1>5, <1>6, HeadTailProperties
<1>10. Contents(p) \in Seq(Type) /\ Len(Contents(p)) = p.num
  BY <1>4, ContentsSeq
<1> HIDE DEF t
<1>11. Len(Contents(p)) = Len(t) /\ Len(Contents(p)) = r.num - 1
  BY <1>1, <1>3, <1>5, <1>9, <1>10, SMT
<1>12. \A i \in 1 .. Len(Contents(p)) : Contents(p)[i] = t[i]
  BY <1>8, <1>9, <1>11
<1>13. Contents(p) = t
  BY <1>9, <1>10, <1>11, <1>12, SeqEqual
<1> QED
  BY <1>4, <1>6, <1>7, <1>13 DEF p, t

\* peek(n) points to the element n places behind the oldest, or nowhere.
LEMMA PeekPoints ==
  ASSUME NEW Type, NEW r \in Ring(Type), NEW n \in 0 .. MaxElements
  PROVE  /\ n < r.num => peek(r, n) \in Slot /\ r.buf[peek(r, n)] = Contents(r)[n + 1]
         /\ peek(r, n) = -1 <=> ~(n < r.num)
<1>1. CASE n < r.num
  <2>1. n + 1 \in 1 .. r.num /\ getTail(r) + n = getTail(r) + (n + 1) - 1
    BY <1>1, TailSlot, MaxElementsAssumption, SMT DEF Ring
  <2>2. peek(r, n) = SlotAt(r, n + 1)
    BY <1>1, <2>1 DEF peek, SlotAt
  <2> QED
    BY <1>1, <2>1, <2>2, SlotOf, ContentsSeq, MaxElementsAssumption, SMT
<1>2. CASE ~(n < r.num)
  BY <1>2 DEF peek
<1> QED
  BY <1>1, <1>2

\* The head slot, which clients fill in place, is outside the queue exactly
\* while the ring is not full.
LEMMA HeadSlot ==
  ASSUME NEW Type, NEW r \in Ring(Type)
  PROVE  getHead(r) \notin Queued(r) <=> ~isFull(r)
<1>1. CASE isFull(r)
  <2>1. r.num = MaxElements /\ 1 \in 1 .. r.num
    BY <1>1, MaxElementsAssumption, SMT DEF isFull, Ring
  <2>2. Place(r.head, r.num, 1) = r.head
    BY <2>1, Fields, SMT DEF Place
  <2>3. SlotAt(r, 1) = r.head
    BY <2>1, <2>2, SlotOf
  <2> QED
    BY <1>1, <2>1, <2>3 DEF Queued, getHead
<1>2. CASE ~isFull(r)
  <2>1. ASSUME NEW i \in 1 .. r.num PROVE SlotAt(r, i) # r.head
    <3>1. Place(r.head, r.num, i) # r.head
      BY <1>2, Fields, SMT DEF isFull, Place
    <3> QED
      BY <3>1, SlotOf
  <2> QED
    BY <1>2, <2>1 DEF Queued, getHead
<1> QED
  BY <1>1, <1>2

\* No element occupies two slots, and no two elements share one.
LEMMA SlotsDistinct ==
  ASSUME NEW Type, NEW r \in Ring(Type), NEW i \in 1 .. r.num, NEW j \in 1 .. r.num,
         SlotAt(r, i) = SlotAt(r, j)
  PROVE  i = j
<1>1. Place(r.head, r.num, i) = Place(r.head, r.num, j)
  BY SlotOf
<1> QED
  BY <1>1, Fields, SMT DEF Place

-----------------------------------------------------------------------------
\* A ring of addresses whose slot i holds address i: what the rings of the DLL
\* are as long as the head element is the only one ever added.
Own(r) == r \in Ring(Slot) /\ r.buf = [i \in Slot |-> i]

\* The slot that the latest pull freed, as long as no add has wrapped over it.
Behind(r) == Place(r.head, r.num, 0)

LEMMA PlaceBehind ==
  ASSUME NEW h \in 0 .. MaxElements - 1, NEW n \in 0 .. MaxElements - 2
  PROVE  /\ Place(IF h + 1 < MaxElements THEN h + 1 ELSE 0, n + 1, 0) = Place(h, n, 0)
         /\ Place(h, n, 0) # h
BY MaxElementsAssumption, SMT DEF Place

LEMMA PlacePulled ==
  ASSUME NEW h \in 0 .. MaxElements - 1, NEW n \in 1 .. MaxElements
  PROVE  Place(h, n, 1) = Place(h, n - 1, 0) /\ Place(h, n, 1) \in 0 .. MaxElements - 1
BY MaxElementsAssumption, SMT DEF Place

LEMMA OwnHead ==
  ASSUME NEW r, Own(r)
  PROVE  /\ r.head \in Slot /\ r.buf[r.head] = r.head
         /\ r.head \in {r.buf[i] : i \in Queued(r)} <=> isFull(r)
<1> r \in Ring(Slot) /\ r.buf = [i \in Slot |-> i]
  BY DEF Own
<1>1. r.head \in Slot /\ r.buf[r.head] = r.head
  BY Fields
<1>2. \A i \in Queued(r) : i \in Slot
  BY SlotOf DEF Queued
<1>3. \A i \in Queued(r) : r.buf[i] = i
  BY <1>2
<1>4. r.head \notin Queued(r) <=> ~isFull(r)
  BY HeadSlot DEF getHead
<1> HIDE DEF Slot
<1> QED
  BY <1>1, <1>3, <1>4

\* Adding the head element to its own place moves no address.
LEMMA OwnAdd ==
  ASSUME NEW r, Own(r), NEW overwrite \in BOOLEAN
  PROVE  /\ Own(add(r, r.buf[r.head], overwrite))
         /\ add(r, r.buf[r.head], overwrite).num >= r.num
         /\ add(r, r.buf[r.head], overwrite).num < MaxElements
              => Behind(add(r, r.buf[r.head], overwrite)) = Behind(r)
<1> DEFINE a == add(r, r.buf[r.head], overwrite)
<1> r \in Ring(Slot) /\ r.buf = [i \in Slot |-> i]
  BY DEF Own
<1>0. r.head \in Slot /\ r.buf[r.head] = r.head
  BY OwnHead
<1>1. /\ r.head \in 0 .. MaxElements - 1 /\ r.num \in 0 .. MaxElements
      /\ MaxElements \in Nat
  BY Fields
<1>2. CASE ~Admits(r, overwrite)
  <2>1. a = r
    BY <1>2 DEF add
  <2>2. r.num >= r.num
    BY Fields, SMT
  <2> QED
    BY <2>1, <2>2
<1>3. CASE Admits(r, overwrite)
  <2>1. a = Added(r, r.head)
    BY <1>0, <1>3 DEF add
  <2> HIDE DEF a
  <2>2. a \in Ring(Slot)
    BY <1>0, <2>1, AddedType
  <2>3. /\ a.head = IF r.head + 1 < MaxElements THEN r.head + 1 ELSE 0
        /\ a.num = IF r.num < MaxElements THEN r.num + 1 ELSE r.num
    BY <2>1, NextHead
  <2>4. a.buf = [i \in Slot |-> i]
    BY <1>0, <2>1, NextHead
  <2>5. a.num >= r.num
    BY <1>1, <2>3, SMT
  <2>6. ASSUME a.num < MaxElements PROVE Behind(a) = Behind(r)
    <3>1. r.head \in 0 .. MaxElements - 1 /\ r.num \in 0 .. MaxElements - 2 /\ a.num = r.num + 1
      BY <1>1, <2>3, <2>6, SMT
    <3>2. Behind(a) = Place(IF r.head + 1 < MaxElements THEN r.head + 1 ELSE 0, r.num + 1, 0)
      BY <2>3, <3>1 DEF Behind
    <3> QED
      BY <3>1, <3>2, PlaceBehind DEF Behind
  <2>7. Own(a)
    BY <2>2, <2>4 DEF Own
  <2> QED
    BY <2>5, <2>6, <2>7 DEF a
<1> QED
  BY <1>2, <1>3

\* A pull frees the slot behind and copies out its address.
LEMMA OwnPull ==
  ASSUME NEW r, Own(r), ~isEmpty(r)
  PROVE  /\ Own(pull(r))
         /\ pull(r).num = r.num - 1 /\ pull(r).head = r.head
         /\ pulled(r) = Behind(pull(r)) /\ pulled(r) \in Slot
<1> r \in Ring(Slot) /\ r.buf = [i \in Slot |-> i]
  BY DEF Own
<1>1. r.num \in 1 .. MaxElements
  BY Fields, SMT DEF isEmpty
<1>2. pull(r) = [head |-> r.head, num |-> r.num - 1, buf |-> r.buf]
  BY <1>1 DEF pull, isEmpty, Ring
<1>3. pull(r) \in Ring(Slot)
  BY <1>1, PullTakes
<1>4. getTail(r) = Place(r.head, r.num, 1)
  BY <1>1, TailSlot
<1>5. /\ getTail(r) \in Slot
      /\ getTail(r) = Place(r.head, r.num - 1, 0)
  <2>1. r.head \in 0 .. MaxElements - 1
    BY Fields
  <2> QED
    BY <1>1, <1>4, <2>1, PlacePulled
<1>6. pulled(r) = getTail(r)
  BY <1>5 DEF pulled
<1>7. Own(pull(r))
  BY <1>2, <1>3 DEF Own
<1>8. Behind(pull(r)) = getTail(r)
  BY <1>2, <1>5 DEF Behind
<1> QED
  BY <1>2, <1>5, <1>6, <1>7, <1>8

\* With two slots free, the slot the latest pull freed is not the head slot.
LEMMA OwnBehind ==
  ASSUME NEW r, Own(r), r.num < MaxElements - 1
  PROVE  Behind(r) # r.head
<1> r \in Ring(Slot)
  BY DEF Own
<1>1. r.head \in 0 .. MaxElements - 1 /\ r.num \in 0 .. MaxElements - 2
  BY Fields, SMT
<1> QED
  BY <1>1, PlaceBehind DEF Behind

\* The queue of such a ring: no address twice, and that of the head only when the
\* ring is full.
LEMMA OwnContents ==
  ASSUME NEW r, Own(r)
  PROVE  /\ \A i \in 1 .. r.num : Contents(r)[i] \in Slot
         /\ \A i, j \in 1 .. r.num : Contents(r)[i] = Contents(r)[j] => i = j
         /\ ~isFull(r) => \A i \in 1 .. r.num : Contents(r)[i] # r.head
<1> r \in Ring(Slot) /\ r.buf = [i \in Slot |-> i]
  BY DEF Own
<1>1. ASSUME NEW i \in 1 .. r.num
      PROVE  Contents(r)[i] = SlotAt(r, i) /\ SlotAt(r, i) \in Slot
  <2>1. SlotAt(r, i) \in Slot
    BY SlotOf
  <2>2. Contents(r)[i] = r.buf[SlotAt(r, i)]
    BY ContentsSeq
  <2> HIDE DEF Slot
  <2> QED
    BY <2>1, <2>2
<1>2. \A i, j \in 1 .. r.num : SlotAt(r, i) = SlotAt(r, j) => i = j
  BY SlotsDistinct
<1>3. ~isFull(r) => \A i \in 1 .. r.num : SlotAt(r, i) # r.head
  BY HeadSlot DEF Queued, getHead
<1> HIDE DEF Slot
<1> QED
  BY <1>1, <1>2, <1>3

\* The head goes to the end of the queue, for the oldest address if it must.
LEMMA OwnAddContents ==
  ASSUME NEW r, Own(r), NEW overwrite \in BOOLEAN,
         NEW a, a = add(r, r.buf[r.head], overwrite)
  PROVE  /\ ~isFull(r) => /\ a.num = r.num + 1 /\ Contents(a)[a.num] = r.head
                          /\ \A i \in 1 .. r.num : Contents(a)[i] = Contents(r)[i]
         /\ isFull(r) /\ overwrite => /\ a.num = r.num /\ Contents(a)[a.num] = r.head
                                      /\ \A i \in 1 .. r.num - 1 : Contents(a)[i] = Contents(r)[i + 1]
         /\ isFull(r) /\ ~overwrite => a = r
<1> r \in Ring(Slot)
  BY DEF Own
<1>0. r.head \in Slot /\ r.buf[r.head] = r.head
  BY OwnHead
<1>1. Admits(r, overwrite) => a = Added(r, r.head)
  BY <1>0 DEF add
<1>2. Contents(Added(r, r.head))[Len(Contents(Added(r, r.head)))] = r.head
  BY <1>0, AddLast
<1>3. Len(Contents(Added(r, r.head))) = Added(r, r.head).num
  BY <1>0, AddedType, ContentsSeq
<1>4. /\ ~isFull(r) => Added(r, r.head).num = r.num + 1
      /\ isFull(r) => Added(r, r.head).num = r.num
  BY Fields, SMT DEF Added, isFull
<1>5. ASSUME ~isFull(r), NEW i \in 1 .. r.num
      PROVE  Contents(Added(r, r.head))[i] = Contents(r)[i]
  <2>1. 0 = (IF isFull(r) THEN 1 ELSE 0) /\ i \in 1 .. r.num - 0 /\ i + 0 = i /\ 0 \in {0, 1}
    BY <1>5, Fields
  <2>2. Contents(Added(r, r.head))[i] = Contents(r)[i + 0]
    BY <1>0, <2>1, AddKeeps
  <2> QED
    BY <2>1, <2>2
<1>6. ASSUME isFull(r), NEW i \in 1 .. r.num - 1
      PROVE  Contents(Added(r, r.head))[i] = Contents(r)[i + 1]
  <2>1. 1 = (IF isFull(r) THEN 1 ELSE 0)
    BY <1>6
  <2> QED
    BY <1>0, <2>1, AddKeeps
<1>7. CASE ~isFull(r)
  <2>1. a = Added(r, r.head)
    BY <1>1, <1>7 DEF Admits
  <2> QED
    BY <1>2, <1>3, <1>4, <1>5, <1>7, <2>1
<1>8. CASE isFull(r) /\ overwrite
  <2>1. a = Added(r, r.head)
    BY <1>1, <1>8 DEF Admits
  <2> QED
    BY <1>2, <1>3, <1>4, <1>6, <1>8, <2>1
<1>9. CASE isFull(r) /\ ~overwrite
  BY <1>9 DEF add, Admits
<1> QED
  BY <1>7, <1>8, <1>9

\* A pull takes the first address away.
LEMMA OwnPullContents ==
  ASSUME NEW r, Own(r), ~isEmpty(r)
  PROVE  /\ pulled(r) = Contents(r)[1]
         /\ \A i \in 1 .. r.num - 1 : Contents(pull(r))[i] = Contents(r)[i + 1]
<1> r \in Ring(Slot)
  BY DEF Own
<1>1. /\ Contents(r) \in Seq(Slot) /\ Len(Contents(r)) = r.num /\ r.num \in Nat
      /\ Contents(r) # <<>>
  BY ContentsSeq, Fields, PullTakes
<1>2. pulled(r) = Contents(r)[1] /\ Contents(pull(r)) = Tail(Contents(r))
  BY PullTakes
<1>3. \A i \in 1 .. r.num - 1 : Tail(Contents(r))[i] = Contents(r)[i + 1]
  <2> HIDE DEF Slot
  <2> DEFINE s == Contents(r)
  <2>1. s \in Seq(Slot) /\ Len(s) = r.num /\ r.num \in Nat /\ s # <<>>
    BY <1>1
  <2> HIDE DEF s
  <2>2. \A i \in 1 .. r.num - 1 : Tail(s)[i] = s[i + 1]
    BY <2>1
  <2> QED
    BY <2>2 DEF s
<1> QED
  BY <1>2, <1>3
=============================================================================
