-------------------------- MODULE HjkUsbXfer_proofs -------------------------
(***************************************************************************)
(* The pipeline of the DLL for every number of callers, every ring length, *)
(* every node and frame size.  Three invariants, each resting on the ones  *)
(* before it:                                                              *)
(*                                                                         *)
(* IInv      who owns which buffer: from it follow the type invariant,     *)
(*           that the head pointers are current, when a buffer in use can  *)
(*           be overwritten, and that every case the code reports is one;  *)
(* MemInv    what the buffers hold, whatever is overrun: written memory    *)
(*           is followed from the caller to the device;                    *)
(* StreamInv which sample each node is, as long as no buffer in use is     *)
(*           written.                                                      *)
(***************************************************************************)
EXTENDS HjkUsbXfer, FiniteSetTheorems, SequenceTheorems, TLAPS

InP  == INSTANCE RingBufOps_proofs WITH MaxElements <- InLen
OutP == INSTANCE RingBufOps_proofs WITH MaxElements <- OutLen

\* A caller between WaitForSingleObject and ReleaseMutex.
Holding == {"getHead", "memcpy", "copying", "add", "release"}

MutexHeld ==
  /\ \A c \in Caller : cpc[c] \in Holding <=> dataInMutex = c
  /\ dataInMutex # "free" => submitted > 0

\* The bound on samples leaves one for every caller that waits to submit.
AtLock == {c \in Caller : cpc[c] = "lock"}
Room == submitted + Cardinality(AtLock) <= MaxSamples

\* Slot i of a ring holds buffer i, for ever.
RingsOwn == InP!Own(inRQue) /\ OutP!Own(outRQue)

\* A node that testFormat has seen is still there when it pulls, and the buffer
\* a consumer works on is that of the slot its pull freed, just behind the
\* queue, until the ring is full.
LastPulled ==
  /\ fpc = "pull" => inRQue.num > 0
  /\ Formatting /\ inRQue.num < InLen => nodeInbuf = InP!Behind(inRQue)
  /\ Transferring /\ outRQue.num < OutLen => nodeOutbuf = OutP!Behind(outRQue)

\* Whoever is about to find its ring full has written a queued buffer before.
SeenFull ==
  /\ \A c \in Caller : cpc[c] \in {"copying", "add"} /\ In!isFull(inRQue) => overrun
  /\ index > 0 /\ Out!isFull(outRQue) => overrun
  /\ fpc = "isFull" => index > 0
  /\ fpc = "add" => index = 0 /\ (overwrite => overrun)

IInv ==
  /\ TypeOK /\ Room /\ MutexHeld /\ RingsOwn /\ HeadPointersCurrent
  /\ LastPulled /\ SeenFull /\ ReportsAreReal

-----------------------------------------------------------------------------
\* The ring lemmas, for the two rings of the pipeline.
LEMMA InOwnRing ==
  ASSUME NEW r, InP!Own(r)
  PROVE  /\ r \in In!Ring(0 .. InLen - 1)
         /\ r.head \in 0 .. InLen - 1 /\ r.num \in 0 .. InLen
         /\ r.buf = [i \in 0 .. InLen - 1 |-> i] /\ r.buf[r.head] = r.head
         /\ r.buf[r.head] \in {r.buf[i] : i \in In!Queued(r)} <=> In!isFull(r)
<1>1. r \in In!Ring(0 .. InLen - 1) /\ r.buf = [i \in 0 .. InLen - 1 |-> i]
  BY DEF InP!Own, InP!Ring, In!Ring, InP!Slot, In!Slot
<1>2. r.head \in 0 .. InLen - 1 /\ r.num \in 0 .. InLen
  BY <1>1 DEF In!Ring, In!Slot
<1>3. InLen \in Nat \ {0}
  BY SizesAssumption
<1>4. /\ r.buf[r.head] = r.head
      /\ r.head \in {r.buf[i] : i \in InP!Queued(r)} <=> InP!isFull(r)
  BY <1>3, InP!OwnHead DEF InP!MaxElementsAssumption
<1>5. InP!Queued(r) = In!Queued(r) /\ (InP!isFull(r) <=> In!isFull(r))
  BY DEF InP!Queued, In!Queued, InP!SlotAt, In!SlotAt, InP!getTail, In!getTail,
         InP!isFull, In!isFull
<1> QED
  BY <1>1, <1>2, <1>4, <1>5

LEMMA InOwnAddHead ==
  ASSUME NEW r, InP!Own(r), NEW overwr \in BOOLEAN
  PROVE  /\ InP!Own(In!add(r, r.buf[r.head], overwr))
         /\ In!add(r, r.buf[r.head], overwr).num < InLen
              => InP!Behind(In!add(r, r.buf[r.head], overwr)) = InP!Behind(r)
         /\ In!add(r, r.buf[r.head], overwr).num >= r.num
<1>1. In!add(r, r.buf[r.head], overwr) = InP!add(r, r.buf[r.head], overwr)
  BY DEF InP!add, In!add, InP!Admits, In!Admits, InP!Added, In!Added, InP!isFull, In!isFull
<1>2. InLen \in Nat \ {0}
  BY SizesAssumption
<1> QED
  BY <1>1, <1>2, InP!OwnAdd DEF InP!MaxElementsAssumption

LEMMA InOwnPull ==
  ASSUME NEW r, InP!Own(r), ~In!isEmpty(r)
  PROVE  /\ InP!Own(In!pull(r))
         /\ In!pull(r).num = r.num - 1 /\ In!pull(r).head = r.head
         /\ In!pulled(r) = InP!Behind(In!pull(r)) /\ In!pulled(r) \in 0 .. InLen - 1
<1>1. In!pull(r) = InP!pull(r) /\ In!pulled(r) = InP!pulled(r) /\ ~InP!isEmpty(r)
  BY DEF InP!pull, In!pull, InP!pulled, In!pulled, InP!isEmpty, In!isEmpty,
         InP!getTail, In!getTail
<1>2. InLen \in Nat \ {0}
  BY SizesAssumption
<1> QED
  BY <1>1, <1>2, InP!OwnPull DEF InP!MaxElementsAssumption, InP!Slot

LEMMA InOwnBehind ==
  ASSUME NEW r, InP!Own(r), r.num < InLen - 1
  PROVE  InP!Behind(r) # r.head
BY SizesAssumption, InP!OwnBehind DEF InP!MaxElementsAssumption

LEMMA OutOwnRing ==
  ASSUME NEW r, OutP!Own(r)
  PROVE  /\ r \in Out!Ring(0 .. OutLen - 1)
         /\ r.head \in 0 .. OutLen - 1 /\ r.num \in 0 .. OutLen
         /\ r.buf = [i \in 0 .. OutLen - 1 |-> i] /\ r.buf[r.head] = r.head
         /\ r.buf[r.head] \in {r.buf[i] : i \in Out!Queued(r)} <=> Out!isFull(r)
<1>1. r \in Out!Ring(0 .. OutLen - 1) /\ r.buf = [i \in 0 .. OutLen - 1 |-> i]
  BY DEF OutP!Own, OutP!Ring, Out!Ring, OutP!Slot, Out!Slot
<1>2. r.head \in 0 .. OutLen - 1 /\ r.num \in 0 .. OutLen
  BY <1>1 DEF Out!Ring, Out!Slot
<1>3. OutLen \in Nat \ {0}
  BY SizesAssumption
<1>4. /\ r.buf[r.head] = r.head
      /\ r.head \in {r.buf[i] : i \in OutP!Queued(r)} <=> OutP!isFull(r)
  BY <1>3, OutP!OwnHead DEF OutP!MaxElementsAssumption
<1>5. OutP!Queued(r) = Out!Queued(r) /\ (OutP!isFull(r) <=> Out!isFull(r))
  BY DEF OutP!Queued, Out!Queued, OutP!SlotAt, Out!SlotAt, OutP!getTail, Out!getTail,
         OutP!isFull, Out!isFull
<1> QED
  BY <1>1, <1>2, <1>4, <1>5

LEMMA OutOwnAddHead ==
  ASSUME NEW r, OutP!Own(r), NEW overwr \in BOOLEAN
  PROVE  /\ OutP!Own(Out!add(r, r.buf[r.head], overwr))
         /\ Out!add(r, r.buf[r.head], overwr).num < OutLen
              => OutP!Behind(Out!add(r, r.buf[r.head], overwr)) = OutP!Behind(r)
         /\ Out!add(r, r.buf[r.head], overwr).num >= r.num
<1>1. Out!add(r, r.buf[r.head], overwr) = OutP!add(r, r.buf[r.head], overwr)
  BY DEF OutP!add, Out!add, OutP!Admits, Out!Admits, OutP!Added, Out!Added, OutP!isFull, Out!isFull
<1>2. OutLen \in Nat \ {0}
  BY SizesAssumption
<1> QED
  BY <1>1, <1>2, OutP!OwnAdd DEF OutP!MaxElementsAssumption

LEMMA OutOwnPull ==
  ASSUME NEW r, OutP!Own(r), ~Out!isEmpty(r)
  PROVE  /\ OutP!Own(Out!pull(r))
         /\ Out!pull(r).num = r.num - 1 /\ Out!pull(r).head = r.head
         /\ Out!pulled(r) = OutP!Behind(Out!pull(r)) /\ Out!pulled(r) \in 0 .. OutLen - 1
<1>1. Out!pull(r) = OutP!pull(r) /\ Out!pulled(r) = OutP!pulled(r) /\ ~OutP!isEmpty(r)
  BY DEF OutP!pull, Out!pull, OutP!pulled, Out!pulled, OutP!isEmpty, Out!isEmpty,
         OutP!getTail, Out!getTail
<1>2. OutLen \in Nat \ {0}
  BY SizesAssumption
<1> QED
  BY <1>1, <1>2, OutP!OwnPull DEF OutP!MaxElementsAssumption, OutP!Slot

LEMMA OutOwnBehind ==
  ASSUME NEW r, OutP!Own(r), r.num < OutLen - 1
  PROVE  OutP!Behind(r) # r.head
BY SizesAssumption, OutP!OwnBehind DEF OutP!MaxElementsAssumption

-----------------------------------------------------------------------------
\* The calls.  LocksKept is for the steps of a caller that has the mutex.
LEMMA LocksKept ==
  ASSUME TypeOK, NEW c \in Caller, NEW l, cpc[c] # "lock", l # "lock",
         cpc' = [cpc EXCEPT ![c] = l]
  PROVE  AtLock' = AtLock
BY DEF TypeOK, AtLock

LEMMA LocksFinite == IsFiniteSet(AtLock) /\ Cardinality(AtLock) \in Nat
<1>1. AtLock \subseteq Caller
  BY DEF AtLock
<1>2. IsFiniteSet(AtLock)
  BY <1>1, CallerAssumption, FS_Subset
<1> QED
  BY <1>2, FS_CardinalityType

LEMMA CallKeeps ==
  ASSUME IInv, NEW c \in Caller, Call(c)
  PROVE  IInv'
<1> USE DEF IInv
<1> cpc[c] = "idle" /\ cpc' = [cpc EXCEPT ![c] = "lock"]
  BY DEF Call
<1>1. TypeOK'
  BY DEF TypeOK, Call, callerVars, formatVars, outVars, history
<1>2. Room'
  <2>1. AtLock' = AtLock \cup {c} /\ c \notin AtLock
    BY DEF TypeOK, AtLock
  <2>2. Cardinality(AtLock') = Cardinality(AtLock) + 1
    BY <2>1, LocksFinite, FS_AddElement
  <2>3. submitted + Cardinality(AtLock) < MaxSamples /\ submitted' = submitted
    BY DEF Call, AtLock
  <2> QED
    BY <2>2, <2>3, LocksFinite, SizesAssumption DEF Room, TypeOK
<1>3. MutexHeld'
  BY DEF TypeOK, MutexHeld, Call, Holding
<1>4. RingsOwn'
  BY DEF RingsOwn, Call
<1>5. HeadPointersCurrent'
  BY DEF TypeOK, HeadPointersCurrent, Call, formatVars
<1>6. LastPulled'
  BY DEF LastPulled, Formatting, Transferring, Call, formatVars, outVars
<1>7. SeenFull' /\ ReportsAreReal'
  BY DEF TypeOK, SeenFull, ReportsAreReal, Call, formatVars, history
<1> QED
  BY <1>1, <1>2, <1>3, <1>4, <1>5, <1>6, <1>7

LEMMA EnterKeeps ==
  ASSUME IInv, NEW c \in Caller, Enter(c)
  PROVE  IInv'
<1> USE DEF IInv
<1> /\ cpc[c] = "lock" /\ cpc' = [cpc EXCEPT ![c] = "getHead"]
    /\ dataInMutex = "free" /\ dataInMutex' = c /\ submitted' = submitted + 1
  BY DEF Enter, MutexFree
<1>2. Room' /\ submitted' \in 0 .. MaxSamples
  <2>1. AtLock' = AtLock \ {c} /\ c \in AtLock
    BY DEF TypeOK, AtLock
  <2>2. Cardinality(AtLock') = Cardinality(AtLock) - 1 /\ Cardinality(AtLock') \in Nat
    <3>1. IsFiniteSet(AtLock')
      BY <2>1, LocksFinite, FS_RemoveElement
    <3> QED
      BY <2>1, <3>1, LocksFinite, FS_RemoveElement, FS_CardinalityType
  <2>3. submitted + Cardinality(AtLock) <= MaxSamples /\ submitted \in Nat
    BY SizesAssumption DEF Room, TypeOK
  <2> QED
    BY <2>2, <2>3, LocksFinite, SizesAssumption DEF Room
<1>1. TypeOK'
  BY <1>2 DEF TypeOK, Enter, formatVars, outVars, history
<1>3. MutexHeld'
  BY CallerAssumption, SizesAssumption DEF TypeOK, MutexHeld, Holding
<1>4. RingsOwn'
  BY DEF RingsOwn, Enter
<1>5. HeadPointersCurrent'
  BY DEF TypeOK, HeadPointersCurrent, Enter, formatVars
<1>6. LastPulled'
  BY DEF LastPulled, Formatting, Transferring, Enter, formatVars, outVars
<1>7. SeenFull' /\ ReportsAreReal'
  BY DEF TypeOK, SeenFull, ReportsAreReal, Enter, formatVars, history
<1> QED
  BY <1>1, <1>2, <1>3, <1>4, <1>5, <1>6, <1>7

LEMMA GetHeadKeeps ==
  ASSUME IInv, NEW c \in Caller, GetHead(c)
  PROVE  IInv'
<1> USE DEF IInv
<1> /\ cpc[c] = "getHead" /\ cpc' = [cpc EXCEPT ![c] = "memcpy"]
    /\ nodeIn' = inRQue.head
  BY DEF GetHead, ClaimedSlot, In!getHead
<1>1. TypeOK'
  <2>1. nodeIn' \in 0 .. InLen - 1
    BY InOwnRing DEF RingsOwn
  <2> QED
    BY <2>1 DEF TypeOK, GetHead, formatVars, outVars, history
<1>2. Room'
  BY LocksKept DEF Room, GetHead
<1>3. MutexHeld'
  BY DEF TypeOK, MutexHeld, Holding, GetHead
<1>4. RingsOwn'
  BY DEF RingsOwn, GetHead
\* Nobody else holds the mutex, so no other caller's pointer is lost.
<1>5. HeadPointersCurrent'
  BY DEF TypeOK, MutexHeld, Holding, HeadPointersCurrent, GetHead, formatVars
<1>6. LastPulled'
  BY DEF LastPulled, Formatting, Transferring, GetHead, formatVars, outVars
<1>7. SeenFull' /\ ReportsAreReal'
  BY DEF TypeOK, SeenFull, ReportsAreReal, GetHead, formatVars, history
<1> QED
  BY <1>1, <1>2, <1>3, <1>4, <1>5, <1>6, <1>7

LEMMA CopyBeginKeeps ==
  ASSUME IInv, NEW c \in Caller, CopyBegin(c)
  PROVE  IInv'
<1> USE DEF IInv
<1> cpc[c] = "memcpy" /\ cpc' = [cpc EXCEPT ![c] = "copying"]
  BY DEF CopyBegin
<1>1. TypeOK'
  <2>1. inMem' \in [0 .. InLen - 1 -> Cell]
    BY DEF TypeOK, CopyBegin, Cell
  <2>2. overrun' \in BOOLEAN
    BY DEF CopyBegin
  <2> QED
    BY <2>1, <2>2 DEF TypeOK, CopyBegin, formatVars, outVars
<1>2. Room'
  BY LocksKept DEF Room, CopyBegin
<1>3. MutexHeld'
  BY DEF TypeOK, MutexHeld, Holding, CopyBegin
<1>4. RingsOwn'
  BY DEF RingsOwn, CopyBegin
<1>5. HeadPointersCurrent'
  BY DEF TypeOK, MutexHeld, Holding, HeadPointersCurrent, CopyBegin, formatVars
<1>6. LastPulled'
  BY DEF LastPulled, Formatting, Transferring, CopyBegin, formatVars, outVars
\* In a full ring the head buffer, the one written here, is queued.
<1>7. SeenFull'
  <2>1. In!isFull(inRQue) => overrun'
    <3>1. nodeIn = inRQue.head
      BY DEF HeadPointersCurrent
    <3> QED
      BY <3>1, InOwnRing DEF RingsOwn, CopyBegin, InBusy, InQueued
  <2>2. overrun => overrun'
    BY DEF CopyBegin
  <2> QED
    BY <2>1, <2>2 DEF TypeOK, SeenFull, CopyBegin, formatVars
<1>8. ReportsAreReal'
  BY DEF ReportsAreReal, CopyBegin
<1> QED
  BY <1>1, <1>2, <1>3, <1>4, <1>5, <1>6, <1>7, <1>8

LEMMA CopyEndKeeps ==
  ASSUME IInv, NEW c \in Caller, CopyEnd(c)
  PROVE  IInv'
<1> USE DEF IInv
<1> cpc[c] = "copying" /\ cpc' = [cpc EXCEPT ![c] = "add"]
  BY DEF CopyEnd
<1>1. TypeOK'
  <2>1. Raw(submitted) \in Cell /\ Torn \in Cell
    <3>1. dataInMutex # "free" /\ submitted \in 0 .. MaxSamples
      BY CallerAssumption DEF MutexHeld, Holding, TypeOK
    <3>2. submitted \in 1 .. MaxSamples
      BY <3>1, SizesAssumption DEF MutexHeld
    <3> QED
      BY <3>2 DEF Cell
  <2>2. inMem' \in [0 .. InLen - 1 -> Cell]
    <3>1. PICK cell \in Cell : inMem' = [inMem EXCEPT ![inRQue.buf[nodeIn]] = cell]
      BY <2>1 DEF CopyEnd
    <3> QED
      BY <3>1 DEF TypeOK
  <2> QED
    BY <2>2 DEF TypeOK, CopyEnd, formatVars, outVars, history
<1>2. Room'
  BY LocksKept DEF Room, CopyEnd
<1>3. MutexHeld'
  BY DEF TypeOK, MutexHeld, Holding, CopyEnd
<1>4. RingsOwn'
  BY DEF RingsOwn, CopyEnd
<1>5. HeadPointersCurrent'
  BY DEF TypeOK, MutexHeld, Holding, HeadPointersCurrent, CopyEnd, formatVars
<1>6. LastPulled'
  BY DEF LastPulled, Formatting, Transferring, CopyEnd, formatVars, outVars
<1>7. SeenFull' /\ ReportsAreReal'
  BY DEF TypeOK, SeenFull, ReportsAreReal, CopyEnd, formatVars, history
<1> QED
  BY <1>1, <1>2, <1>3, <1>4, <1>5, <1>6, <1>7

LEMMA AddInKeeps ==
  ASSUME IInv, NEW c \in Caller, AddIn(c)
  PROVE  IInv'
<1> USE DEF IInv
<1> cpc[c] = "add" /\ cpc' = [cpc EXCEPT ![c] = "release"]
  BY DEF AddIn
<1>0. nodeIn = inRQue.head /\ inRQue' = In!add(inRQue, inRQue.buf[inRQue.head], FALSE)
  BY DEF HeadPointersCurrent, AddIn
<1>4. RingsOwn'
  BY <1>0, InOwnAddHead DEF RingsOwn, AddIn
<1>1. TypeOK'
  BY <1>4, InOwnRing DEF RingsOwn, TypeOK, AddIn, formatVars, outVars
<1>2. Room'
  BY LocksKept DEF Room, AddIn
<1>3. MutexHeld'
  BY DEF TypeOK, MutexHeld, Holding, AddIn
<1>5. HeadPointersCurrent'
  BY DEF TypeOK, MutexHeld, Holding, HeadPointersCurrent, AddIn, formatVars
\* An add that has room leaves the slot behind the queue where it is.
<1>6. LastPulled'
  <2>1. inRQue'.num < InLen
          => inRQue.num < InLen /\ InP!Behind(inRQue') = InP!Behind(inRQue)
    <3>1. inRQue.num \in 0 .. InLen /\ inRQue'.num \in 0 .. InLen
      BY <1>4, InOwnRing DEF RingsOwn
    <3>2. inRQue'.num < InLen => InP!Behind(inRQue') = InP!Behind(inRQue)
      BY <1>0, InOwnAddHead DEF RingsOwn
    <3>3. inRQue'.num >= inRQue.num
      BY <1>0, InOwnAddHead DEF RingsOwn
    <3>4. inRQue'.num < InLen => inRQue.num < InLen
      BY <3>1, <3>3, SizesAssumption
    <3> QED
      BY <3>2, <3>4
  <2>2. inRQue.num > 0 => inRQue'.num > 0
    <3>1. inRQue.num \in 0 .. InLen /\ inRQue'.num \in 0 .. InLen
      BY <1>4, InOwnRing DEF RingsOwn
    <3>2. inRQue'.num >= inRQue.num
      BY <1>0, InOwnAddHead DEF RingsOwn
    <3> QED
      BY <3>1, <3>2, SizesAssumption
  <2> QED
    BY <2>1, <2>2 DEF LastPulled, Formatting, Transferring, AddIn, formatVars, outVars
<1>7. SeenFull'
  BY DEF TypeOK, MutexHeld, Holding, SeenFull, AddIn, formatVars
\* A refusal: the ring was full already when the copy began.
<1>8. ReportsAreReal'
  BY DEF ReportsAreReal, SeenFull, AddIn, Refused
<1> QED
  BY <1>1, <1>2, <1>3, <1>4, <1>5, <1>6, <1>7, <1>8

LEMMA LeaveKeeps ==
  ASSUME IInv, NEW c \in Caller, Leave(c)
  PROVE  IInv'
<1> USE DEF IInv
<1> cpc[c] = "release" /\ cpc' = [cpc EXCEPT ![c] = "idle"] /\ dataInMutex' = "free"
  BY DEF Leave
<1>1. TypeOK'
  BY DEF TypeOK, Leave, formatVars, outVars, history
<1>2. Room'
  BY LocksKept DEF Room, Leave
<1>3. MutexHeld'
  BY CallerAssumption DEF TypeOK, MutexHeld, Holding
<1>4. RingsOwn'
  BY DEF RingsOwn, Leave
<1>5. HeadPointersCurrent'
  BY DEF TypeOK, HeadPointersCurrent, Leave, formatVars
<1>6. LastPulled'
  BY DEF LastPulled, Formatting, Transferring, Leave, formatVars, outVars
<1>7. SeenFull' /\ ReportsAreReal'
  BY DEF TypeOK, SeenFull, ReportsAreReal, Leave, formatVars, history
<1> QED
  BY <1>1, <1>2, <1>3, <1>4, <1>5, <1>6, <1>7

-----------------------------------------------------------------------------
\* The format thread.
LEMMA TransposedType == ASSUME NEW cell \in Cell PROVE Transposed(cell) \in Cell
<1>1. CASE cell \in {Fresh, Torn}
  BY <1>1 DEF Transposed, Cell, Fresh, Torn
<1>2. CASE cell \in {Raw(s) : s \in 1 .. MaxSamples}
  BY <1>2 DEF Transposed, Cell, Raw, Bits
<1>3. CASE cell \in {Bits(s) : s \in 1 .. MaxSamples} \cup {Garbled(s) : s \in 1 .. MaxSamples}
  BY <1>3 DEF Transposed, Cell, Bits, Garbled
<1> QED
  BY <1>1, <1>2, <1>3 DEF Cell

LEMMA FormatPollKeeps ==
  ASSUME IInv, FormatPoll
  PROVE  IInv'
<1> USE DEF IInv
<1>1. TypeOK'
  <2>1. nodeOut' \in 0 .. OutLen - 1
    BY OutOwnRing DEF RingsOwn, TypeOK, FormatPoll, FillSlot, Out!getHead
  <2> QED
    BY <2>1 DEF TypeOK, FormatPoll, callerVars, outVars, history
<1>2. Room'
  BY DEF Room, AtLock, FormatPoll, callerVars
<1>3. MutexHeld'
  BY DEF MutexHeld, FormatPoll, callerVars
<1>4. RingsOwn'
  BY DEF RingsOwn, FormatPoll
<1>5. HeadPointersCurrent'
  BY SizesAssumption DEF TypeOK, HeadPointersCurrent, FormatPoll, FillSlot, Out!getHead, callerVars
<1>6. LastPulled'
  <2>1. inRQue.num > 0
    <3>1. inRQue.num \in 0 .. InLen
      BY InOwnRing DEF RingsOwn
    <3>2. inRQue.num # 0
      BY DEF FormatPoll, In!isEmpty
    <3> QED
      BY <3>1, <3>2, SizesAssumption
  <2> QED
    BY <2>1 DEF LastPulled, Formatting, Transferring, FormatPoll, outVars
<1>7. SeenFull'
  BY SizesAssumption DEF TypeOK, SeenFull, FormatPoll, FrameFull, callerVars, history
<1>8. ReportsAreReal'
  BY DEF ReportsAreReal, FormatPoll, history
<1> QED
  BY <1>1, <1>2, <1>3, <1>4, <1>5, <1>6, <1>7, <1>8

LEMMA FormatPullKeeps ==
  ASSUME IInv, FormatPull
  PROVE  IInv'
<1> USE DEF IInv
<1>0. /\ InP!Own(inRQue') /\ inRQue'.num = inRQue.num - 1 /\ inRQue'.head = inRQue.head
      /\ nodeInbuf' = InP!Behind(inRQue') /\ nodeInbuf' \in 0 .. InLen - 1
  <2>1. ~In!isEmpty(inRQue)
    BY DEF LastPulled, FormatPull, In!isEmpty
  <2> QED
    BY <2>1, InOwnPull DEF RingsOwn, FormatPull, NextNode
<1>1. TypeOK'
  BY <1>0, InOwnRing DEF RingsOwn, TypeOK, FormatPull, callerVars, outVars, history
<1>2. Room'
  BY DEF Room, AtLock, FormatPull, callerVars
<1>3. MutexHeld'
  BY DEF MutexHeld, FormatPull, callerVars
<1>4. RingsOwn'
  BY <1>0 DEF RingsOwn, FormatPull
<1>5. HeadPointersCurrent'
  BY <1>0 DEF HeadPointersCurrent, FormatPull, callerVars
<1>6. LastPulled'
  BY <1>0 DEF LastPulled, Formatting, Transferring, FormatPull, outVars
\* The ring is not full now.
<1>7. SeenFull'
  <2>1. ~In!isFull(inRQue')
    <3>1. inRQue.num \in 0 .. InLen
      BY InOwnRing DEF RingsOwn
    <3>2. inRQue'.num = inRQue.num - 1
      BY <1>0
    <3> QED
      BY <3>1, <3>2, SizesAssumption DEF In!isFull
  <2> QED
    BY <2>1 DEF SeenFull, FormatPull, callerVars, history
<1>8. ReportsAreReal'
  BY DEF ReportsAreReal, FormatPull, history
<1> QED
  BY <1>1, <1>2, <1>3, <1>4, <1>5, <1>6, <1>7, <1>8

LEMMA FormatSplitKeeps ==
  ASSUME IInv, FormatSplit
  PROVE  IInv'
<1> USE DEF IInv
<1>1. TypeOK'
  BY DEF TypeOK, FormatSplit, callerVars, outVars, history
<1>2. Room'
  BY DEF Room, AtLock, FormatSplit, callerVars
<1>3. MutexHeld'
  BY DEF MutexHeld, FormatSplit, callerVars
<1>4. RingsOwn'
  BY DEF RingsOwn, FormatSplit
<1>5. HeadPointersCurrent'
  BY DEF TypeOK, HeadPointersCurrent, FormatSplit, callerVars, formatVars
<1>6. LastPulled'
  BY DEF LastPulled, Formatting, Transferring, FormatSplit, formatVars, outVars
<1>7. SeenFull'
  BY DEF TypeOK, SeenFull, FormatSplit, callerVars, formatVars, history
<1>8. ReportsAreReal'
  BY DEF ReportsAreReal, FormatSplit, history
<1> QED
  BY <1>1, <1>2, <1>3, <1>4, <1>5, <1>6, <1>7, <1>8

LEMMA FormatTransposeKeeps ==
  ASSUME IInv, FormatTranspose
  PROVE  IInv'
<1> USE DEF IInv
<1>1. TypeOK'
  <2>1. inMem' \in [0 .. InLen - 1 -> Cell]
    BY TransposedType DEF TypeOK, FormatTranspose
  <2> QED
    BY <2>1 DEF TypeOK, FormatTranspose, callerVars, outVars, history
<1>2. Room'
  BY DEF Room, AtLock, FormatTranspose, callerVars
<1>3. MutexHeld'
  BY DEF MutexHeld, FormatTranspose, callerVars
<1>4. RingsOwn'
  BY DEF RingsOwn, FormatTranspose
<1>5. HeadPointersCurrent'
  BY DEF TypeOK, HeadPointersCurrent, FormatTranspose, callerVars, formatVars
<1>6. LastPulled'
  BY DEF LastPulled, Formatting, Transferring, FormatTranspose, formatVars, outVars
<1>7. SeenFull'
  BY DEF TypeOK, SeenFull, FormatTranspose, callerVars, formatVars, history
<1>8. ReportsAreReal'
  BY DEF ReportsAreReal, FormatTranspose, history
<1> QED
  BY <1>1, <1>2, <1>3, <1>4, <1>5, <1>6, <1>7, <1>8

LEMMA FormatStoreKeeps ==
  ASSUME IInv, FormatStore
  PROVE  IInv'
<1> USE DEF IInv
<1>1. TypeOK'
  <2>1. outMem' \in [0 .. OutLen - 1 -> [0 .. FrameNodes - 1 -> Cell]]
    <3> DEFINE b == outRQue.buf[nodeOut]
               k == index \div chNum
               v == inMem[nodeInbuf]
    <3>1. outMem' = [outMem EXCEPT ![b] = [outMem[b] EXCEPT ![k] = v]] \/ outMem' = outMem
      BY DEF FormatStore, TypeOK
    <3>2. v \in Cell /\ outMem \in [0 .. OutLen - 1 -> [0 .. FrameNodes - 1 -> Cell]]
      BY DEF TypeOK
    <3>3. b \in 0 .. OutLen - 1
      BY OutOwnRing DEF RingsOwn, TypeOK
    <3> HIDE DEF b, k, v
    <3>4. outMem[b] \in [0 .. FrameNodes - 1 -> Cell]
      BY <3>2, <3>3
    <3>5. [outMem[b] EXCEPT ![k] = v] \in [0 .. FrameNodes - 1 -> Cell]
      BY <3>2, <3>4
    <3> QED
      BY <3>1, <3>2, <3>5
  <2>2. index' \in 0 .. FrameWords
    BY SizesAssumption DEF TypeOK, FormatStore, Fits
  <2>3. overrun' \in BOOLEAN
    BY DEF TypeOK, FormatStore
  <2> QED
    BY <2>1, <2>2, <2>3 DEF TypeOK, FormatStore, callerVars, outVars
<1>2. Room'
  BY DEF Room, AtLock, FormatStore, callerVars
<1>3. MutexHeld'
  BY DEF MutexHeld, FormatStore, callerVars
<1>4. RingsOwn'
  BY DEF RingsOwn, FormatStore
<1>5. HeadPointersCurrent'
  BY DEF TypeOK, HeadPointersCurrent, FormatStore, callerVars, formatVars
<1>6. LastPulled'
  BY DEF LastPulled, Formatting, Transferring, FormatStore, formatVars, outVars
\* In a full output ring the head buffer, the one written here, is queued.
<1>7. SeenFull'
  <2>1. Fits => (Out!isFull(outRQue) => overrun')
    <3>1. nodeOut = outRQue.head
      BY DEF HeadPointersCurrent, FormatStore
    <3> QED
      BY <3>1, OutOwnRing DEF RingsOwn, FormatStore, OutBusy, OutQueued
  <2>2. overrun => overrun'
    BY DEF FormatStore
  <2>3. ~Fits => index' = index
    BY DEF FormatStore
  <2> QED
    BY <2>1, <2>2, <2>3 DEF SeenFull, FormatStore, callerVars
<1>8. ReportsAreReal'
  BY DEF ReportsAreReal, FormatStore
<1> QED
  BY <1>1, <1>2, <1>3, <1>4, <1>5, <1>6, <1>7, <1>8

LEMMA FormatIsFullKeeps ==
  ASSUME IInv, FormatIsFull
  PROVE  IInv'
<1> USE DEF IInv
<1>1. TypeOK'
  <2>1. overwrite' \in BOOLEAN
    BY DEF FormatIsFull, Out!isFull
  <2> QED
    BY <2>1, SizesAssumption DEF TypeOK, FormatIsFull, callerVars, outVars, history
<1>2. Room'
  BY DEF Room, AtLock, FormatIsFull, callerVars
<1>3. MutexHeld'
  BY DEF MutexHeld, FormatIsFull, callerVars
<1>4. RingsOwn'
  BY DEF RingsOwn, FormatIsFull
<1>5. HeadPointersCurrent'
  BY DEF HeadPointersCurrent, FormatIsFull, callerVars
<1>6. LastPulled'
  BY DEF LastPulled, Formatting, Transferring, FormatIsFull, formatVars, outVars
<1>7. SeenFull'
  BY DEF SeenFull, FormatIsFull, callerVars, history
<1>8. ReportsAreReal'
  BY DEF ReportsAreReal, FormatIsFull, history
<1> QED
  BY <1>1, <1>2, <1>3, <1>4, <1>5, <1>6, <1>7, <1>8

LEMMA FormatAddKeeps ==
  ASSUME IInv, FormatAdd
  PROVE  IInv'
<1> USE DEF IInv
<1>0. outRQue' = Out!add(outRQue, outRQue.buf[outRQue.head], overwrite) /\ overwrite \in BOOLEAN
  BY DEF HeadPointersCurrent, FormatAdd, TypeOK
<1>9. OutP!Own(outRQue')
  BY <1>0, OutOwnAddHead DEF RingsOwn, FormatAdd
<1>1. TypeOK'
  <2>1. reported' \in BOOLEAN
    BY DEF TypeOK, FormatAdd
  <2> QED
    BY <1>9, <2>1, OutOwnRing DEF TypeOK, FormatAdd, callerVars, outVars
<1>2. Room'
  BY DEF Room, AtLock, FormatAdd, callerVars
<1>3. MutexHeld'
  BY DEF MutexHeld, FormatAdd, callerVars
<1>4. RingsOwn'
  BY <1>9 DEF RingsOwn, FormatAdd
<1>5. HeadPointersCurrent'
  BY DEF HeadPointersCurrent, SeenFull, FormatAdd, callerVars
\* An add that has room leaves the slot behind the queue where it is.
<1>6. LastPulled'
  <2>1. outRQue'.num < OutLen
          => outRQue.num < OutLen /\ OutP!Behind(outRQue') = OutP!Behind(outRQue)
    <3>1. outRQue.num \in 0 .. OutLen /\ outRQue'.num \in 0 .. OutLen
      BY <1>4, OutOwnRing DEF RingsOwn
    <3>2. outRQue'.num < OutLen => OutP!Behind(outRQue') = OutP!Behind(outRQue)
      BY <1>0, OutOwnAddHead DEF RingsOwn
    <3>3. outRQue'.num >= outRQue.num
      BY <1>0, OutOwnAddHead DEF RingsOwn
    <3>4. outRQue'.num < OutLen => outRQue.num < OutLen
      BY <3>1, <3>3, SizesAssumption
    <3> QED
      BY <3>2, <3>4
  <2> QED
    BY <2>1 DEF LastPulled, Formatting, Transferring, FormatAdd, outVars
<1>7. SeenFull'
  BY DEF SeenFull, FormatAdd, callerVars
<1>8. ReportsAreReal'
  BY DEF ReportsAreReal, SeenFull, FormatAdd
<1> QED
  BY <1>1, <1>2, <1>3, <1>4, <1>5, <1>6, <1>7, <1>8

-----------------------------------------------------------------------------
\* The out thread and the device.
LEMMA OutPullKeeps ==
  ASSUME IInv, OutPull
  PROVE  IInv'
<1> USE DEF IInv
<1>0. /\ OutP!Own(outRQue') /\ outRQue'.num = outRQue.num - 1 /\ outRQue'.head = outRQue.head
      /\ nodeOutbuf' = OutP!Behind(outRQue') /\ nodeOutbuf' \in 0 .. OutLen - 1
  BY OutOwnPull DEF RingsOwn, OutPull, NextFrame
<1>1. TypeOK'
  BY <1>0, OutOwnRing DEF TypeOK, OutPull, callerVars, formatVars, history
<1>2. Room'
  BY DEF Room, AtLock, OutPull, callerVars
<1>3. MutexHeld'
  BY DEF MutexHeld, OutPull, callerVars
<1>4. RingsOwn'
  BY <1>0 DEF RingsOwn, OutPull
<1>5. HeadPointersCurrent'
  BY <1>0 DEF HeadPointersCurrent, OutPull, callerVars, formatVars
<1>6. LastPulled'
  BY <1>0 DEF LastPulled, Formatting, Transferring, OutPull, formatVars
\* The ring is not full now.
<1>7. SeenFull'
  <2>1. ~Out!isFull(outRQue')
    <3>1. outRQue.num \in 0 .. OutLen
      BY OutOwnRing DEF RingsOwn
    <3>2. outRQue'.num = outRQue.num - 1
      BY <1>0
    <3> QED
      BY <3>1, <3>2, SizesAssumption DEF Out!isFull
  <2> QED
    BY <2>1 DEF SeenFull, OutPull, callerVars, formatVars, history
<1>8. ReportsAreReal'
  BY DEF ReportsAreReal, OutPull, history
<1> QED
  BY <1>1, <1>2, <1>3, <1>4, <1>5, <1>6, <1>7, <1>8

LEMMA OutBeginKeeps ==
  ASSUME IInv, OutBegin
  PROVE  IInv'
<1> USE DEF IInv
<1>1. TypeOK'
  BY DEF TypeOK, OutBegin, callerVars, formatVars, history
<1>2. Room'
  BY DEF Room, AtLock, OutBegin, callerVars
<1>3. MutexHeld'
  BY DEF MutexHeld, OutBegin, callerVars
<1>4. RingsOwn'
  BY DEF RingsOwn, OutBegin
<1>5. HeadPointersCurrent'
  BY DEF HeadPointersCurrent, OutBegin, callerVars, formatVars
<1>6. LastPulled'
  BY DEF LastPulled, Formatting, Transferring, OutBegin, formatVars
<1>7. SeenFull'
  BY DEF SeenFull, OutBegin, callerVars, formatVars, history
<1>8. ReportsAreReal'
  BY DEF ReportsAreReal, OutBegin, history
<1> QED
  BY <1>1, <1>2, <1>3, <1>4, <1>5, <1>6, <1>7, <1>8

LEMMA UsbCompleteKeeps ==
  ASSUME IInv, UsbComplete
  PROVE  IInv'
<1> USE DEF IInv
<1>1. TypeOK'
  <2>1. sent' \in Seq([0 .. FrameNodes - 1 -> Cell])
    BY DEF TypeOK, UsbComplete
  <2> QED
    BY <2>1 DEF TypeOK, UsbComplete, callerVars, formatVars, history
<1>2. Room'
  BY DEF Room, AtLock, UsbComplete, callerVars
<1>3. MutexHeld'
  BY DEF MutexHeld, UsbComplete, callerVars
<1>4. RingsOwn'
  BY DEF RingsOwn, UsbComplete
<1>5. HeadPointersCurrent'
  BY DEF HeadPointersCurrent, UsbComplete, callerVars, formatVars
<1>6. LastPulled'
  BY DEF LastPulled, Formatting, Transferring, UsbComplete, formatVars
<1>7. SeenFull'
  BY DEF SeenFull, UsbComplete, callerVars, formatVars, history
<1>8. ReportsAreReal'
  BY DEF ReportsAreReal, UsbComplete, history
<1> QED
  BY <1>1, <1>2, <1>3, <1>4, <1>5, <1>6, <1>7, <1>8

LEMMA UsbFailKeeps ==
  ASSUME IInv, UsbFail
  PROVE  IInv'
<1> USE DEF IInv
<1>1. TypeOK'
  BY DEF TypeOK, UsbFail, callerVars, formatVars, history
<1>2. Room'
  BY DEF Room, AtLock, UsbFail, callerVars
<1>3. MutexHeld'
  BY DEF MutexHeld, UsbFail, callerVars
<1>4. RingsOwn'
  BY DEF RingsOwn, UsbFail
<1>5. HeadPointersCurrent'
  BY DEF HeadPointersCurrent, UsbFail, callerVars, formatVars
<1>6. LastPulled'
  BY DEF LastPulled, Formatting, Transferring, UsbFail, formatVars
<1>7. SeenFull'
  BY DEF SeenFull, UsbFail, callerVars, formatVars, history
<1>8. ReportsAreReal'
  BY DEF ReportsAreReal, UsbFail, history
<1> QED
  BY <1>1, <1>2, <1>3, <1>4, <1>5, <1>6, <1>7, <1>8

LEMMA OutWaitKeeps ==
  ASSUME IInv, OutWait
  PROVE  IInv'
<1> USE DEF IInv
<1>1. TypeOK'
  BY DEF TypeOK, OutWait, callerVars, formatVars, history
<1>2. Room'
  BY DEF Room, AtLock, OutWait, callerVars
<1>3. MutexHeld'
  BY DEF MutexHeld, OutWait, callerVars
<1>4. RingsOwn'
  BY DEF RingsOwn, OutWait
<1>5. HeadPointersCurrent'
  BY DEF HeadPointersCurrent, OutWait, callerVars, formatVars
<1>6. LastPulled'
  BY DEF LastPulled, Formatting, Transferring, OutWait, formatVars
<1>7. SeenFull'
  BY DEF SeenFull, OutWait, callerVars, formatVars, history
<1>8. ReportsAreReal'
  BY DEF ReportsAreReal, OutWait, history
<1> QED
  BY <1>1, <1>2, <1>3, <1>4, <1>5, <1>6, <1>7, <1>8

LEMMA OutAbortKeeps ==
  ASSUME IInv, OutAbort
  PROVE  IInv'
<1> USE DEF IInv
<1>1. TypeOK'
  BY DEF TypeOK, OutAbort, callerVars, formatVars, history
<1>2. Room'
  BY DEF Room, AtLock, OutAbort, callerVars
<1>3. MutexHeld'
  BY DEF MutexHeld, OutAbort, callerVars
<1>4. RingsOwn'
  BY DEF RingsOwn, OutAbort
<1>5. HeadPointersCurrent'
  BY DEF HeadPointersCurrent, OutAbort, callerVars, formatVars
<1>6. LastPulled'
  BY DEF LastPulled, Formatting, Transferring, OutAbort, formatVars
<1>7. SeenFull'
  BY DEF SeenFull, OutAbort, callerVars, formatVars, history
<1>8. ReportsAreReal'
  BY DEF ReportsAreReal, OutAbort, history
<1> QED
  BY <1>1, <1>2, <1>3, <1>4, <1>5, <1>6, <1>7, <1>8

LEMMA OutFinishKeeps ==
  ASSUME IInv, OutFinish
  PROVE  IInv'
<1> USE DEF IInv
<1>1. TypeOK'
  BY DEF TypeOK, OutFinish, callerVars, formatVars, history
<1>2. Room'
  BY DEF Room, AtLock, OutFinish, callerVars
<1>3. MutexHeld'
  BY DEF MutexHeld, OutFinish, callerVars
<1>4. RingsOwn'
  BY DEF RingsOwn, OutFinish
<1>5. HeadPointersCurrent'
  BY DEF HeadPointersCurrent, OutFinish, callerVars, formatVars
<1>6. LastPulled'
  BY DEF LastPulled, Formatting, Transferring, OutFinish, formatVars
<1>7. SeenFull'
  BY DEF SeenFull, OutFinish, callerVars, formatVars, history
<1>8. ReportsAreReal'
  BY DEF ReportsAreReal, OutFinish, history
<1> QED
  BY <1>1, <1>2, <1>3, <1>4, <1>5, <1>6, <1>7, <1>8

-----------------------------------------------------------------------------
LEMMA InitInv == Init => IInv
<1> SUFFICES ASSUME Init PROVE IInv
  OBVIOUS
<1> USE SizesAssumption DEF Init
<1>1. InP!Own(inRQue)
  BY DEF Drained, InP!Own, InP!Ring, InP!Slot
<1>2. OutP!Own(outRQue)
  BY DEF Drained, OutP!Own, OutP!Ring, OutP!Slot
<1>3. TypeOK
  <2>1. inRQue \in In!Ring(0 .. InLen - 1) /\ outRQue \in Out!Ring(0 .. OutLen - 1)
    BY <1>1, <1>2, InOwnRing, OutOwnRing
  <2>2. inMem \in [0 .. InLen - 1 -> Cell]
    BY DEF Cell
  <2>3. outMem \in [0 .. OutLen - 1 -> [0 .. FrameNodes - 1 -> Cell]]
    BY DEF Cell
  <2>4. group \in Cell /\ sent \in Seq([0 .. FrameNodes - 1 -> Cell])
    BY DEF Cell
  <2>5. /\ nodeIn \in 0 .. InLen - 1 /\ nodeInbuf \in 0 .. InLen - 1
        /\ nodeOut \in 0 .. OutLen - 1 /\ nodeOutbuf \in 0 .. OutLen - 1
        /\ submitted \in 0 .. MaxSamples /\ index \in 0 .. FrameWords /\ dropped \in Nat
    BY SMT
  <2>6. /\ dataInMutex \in Caller \cup {"free"} /\ fpc = "poll" /\ opc = "poll" /\ xfer = "none"
        /\ cpc = [c \in Caller |-> "idle"]
        /\ overwrite = FALSE /\ overrun = FALSE /\ reported = FALSE
    OBVIOUS
  <2> HIDE DEF Init
  <2> QED
    BY <2>1, <2>2, <2>3, <2>4, <2>5, <2>6 DEF TypeOK
<1>4. Room
  <2>1. AtLock = {}
    BY DEF AtLock
  <2> QED
    BY <2>1, FS_EmptySet DEF Room
<1>5. MutexHeld
  BY CallerAssumption DEF MutexHeld, Holding
<1>6. RingsOwn
  BY <1>1, <1>2 DEF RingsOwn
<1>7. HeadPointersCurrent
  BY DEF HeadPointersCurrent
<1>8. LastPulled /\ SeenFull /\ ReportsAreReal
  BY DEF LastPulled, SeenFull, ReportsAreReal, Formatting, Transferring
<1> QED
  BY <1>3, <1>4, <1>5, <1>6, <1>7, <1>8 DEF IInv

LEMMA StutterKeeps == ASSUME IInv, UNCHANGED vars PROVE IInv'
BY DEF vars, callerVars, formatVars, outVars, history, IInv, TypeOK, Room, AtLock, MutexHeld,
       RingsOwn, HeadPointersCurrent, LastPulled, Formatting, Transferring, SeenFull, ReportsAreReal

\* IInv is inductive: no step of a caller, the format thread, the out thread or
\* the device leaves it.
THEOREM Inductive == Spec => []IInv
<1>1. ASSUME IInv, [Next]_vars PROVE IInv'
  <2> USE <1>1
  <2>1. ASSUME NEW c \in Caller, Call(c) \/ QueueBufStart(c) PROVE IInv'
    BY <2>1, CallKeeps, EnterKeeps, GetHeadKeeps, CopyBeginKeeps, CopyEndKeeps, AddInKeeps,
       LeaveKeeps DEF QueueBufStart
  <2>2. CASE TestFormat
    BY <2>2, FormatPollKeeps, FormatPullKeeps, FormatSplitKeeps, FormatTransposeKeeps,
       FormatStoreKeeps, FormatIsFullKeeps, FormatAddKeeps DEF TestFormat
  <2>3. CASE TestOut
    BY <2>3, OutPullKeeps, OutBeginKeeps, OutWaitKeeps, OutAbortKeeps, OutFinishKeeps
    DEF TestOut
  <2>4. CASE UsbComplete \/ UsbFail
    BY <2>4, UsbCompleteKeeps, UsbFailKeeps
  <2>5. CASE UNCHANGED vars
    BY <2>5, StutterKeeps
  <2> QED
    BY <2>1, <2>2, <2>3, <2>4, <2>5 DEF Next
<1> QED
  BY <1>1, InitInv, PTL DEF Spec

\* Every variable of the pipeline keeps its type: no index leaves its ring or its
\* frame, the fill level never passes the frame.
THEOREM PipelineTypeCorrect == Spec => []TypeOK
<1>1. IInv => TypeOK
  BY DEF IInv
<1> QED
  BY <1>1, Inductive, PTL

\* No two slots of a ring ever share a buffer, though add copies whole node
\* structs (RingBufCPP.h:42).
THEOREM BuffersNeverShared == Spec => []SlotsOwnBuffers
<1>1. ASSUME IInv PROVE SlotsOwnBuffers
  <2>1. /\ inRQue.buf = [i \in 0 .. InLen - 1 |-> i]
        /\ outRQue.buf = [i \in 0 .. OutLen - 1 |-> i]
    BY <1>1, InOwnRing, OutOwnRing DEF IInv, RingsOwn
  <2> QED
    BY <2>1 DEF SlotsOwnBuffers
<1> QED
  BY <1>1, Inductive, PTL

\* nodeIn and nodeOut name the head slots whenever they are used
\* (hjkUsbXferdll.cpp:210-212, 279-306).
THEOREM HeadPointersStayCurrent == Spec => []HeadPointersCurrent
<1>1. IInv => HeadPointersCurrent
  BY DEF IInv
<1> QED
  BY <1>1, Inductive, PTL

\* "Data in false." and "Data out false." are printed only when a buffer in use
\* has been written.
THEOREM NoFalseAlarm == Spec => []ReportsAreReal
<1>1. IInv => ReportsAreReal
  BY DEF IInv
<1> QED
  BY <1>1, Inductive, PTL

\* A buffer in use is written only when a ring has at most one slot to spare.
THEOREM OverrunOnlyWhenFull == Spec => OverrunNeedsFullRing
<1> DEFINE Full == inRQue.num >= InLen - 1 \/ outRQue.num >= OutLen - 1
           Safe == overrun' /\ ~overrun => Full
<1>1. ASSUME IInv, [Next]_vars PROVE [Safe]_vars
  <2> SUFFICES ASSUME overrun', ~overrun PROVE Full
    OBVIOUS
  <2> USE <1>1 DEF IInv
  \* Only the two copies into a head buffer set overrun.
  <2>1. \/ \E c \in Caller : CopyBegin(c)
        \/ FormatStore
    BY DEF Next, vars, QueueBufStart, TestFormat, TestOut, Call, Enter, GetHead, CopyEnd, AddIn,
           Leave, FormatPoll, FormatPull, FormatSplit, FormatTranspose, FormatIsFull, FormatAdd,
           OutPull, OutBegin, UsbComplete, UsbFail, OutWait, OutAbort, OutFinish, history
  <2>2. ASSUME NEW c \in Caller, CopyBegin(c), ~Full PROVE FALSE
    <3>1. nodeIn = inRQue.head /\ inRQue.buf[nodeIn] \in InBusy
      BY <2>2 DEF HeadPointersCurrent, CopyBegin
    <3>2. inRQue.num < InLen - 1 /\ inRQue.num < InLen
      <4>1. inRQue.num \in 0 .. InLen
        BY InOwnRing DEF RingsOwn
      <4> QED
        BY <4>1, <2>2, SizesAssumption
    <3>3. inRQue.buf[nodeIn] \notin InQueued
      <4>1. inRQue.num \in 0 .. InLen
        BY InOwnRing DEF RingsOwn
      <4>2. ~In!isFull(inRQue)
        BY <3>2, <4>1, SizesAssumption DEF In!isFull
      <4> QED
        BY <3>1, <4>2, InOwnRing DEF RingsOwn, InQueued
    <3>4. Formatting => inRQue.buf[nodeIn] # nodeInbuf
      BY <3>1, <3>2, InOwnBehind, InOwnRing DEF RingsOwn, LastPulled
    <3> QED
      BY <3>1, <3>3, <3>4 DEF InBusy
  <2>3. ASSUME FormatStore, ~Full PROVE FALSE
    <3>1. nodeOut = outRQue.head /\ outRQue.buf[nodeOut] \in OutBusy
      BY <2>3 DEF HeadPointersCurrent, FormatStore
    <3>2. outRQue.num < OutLen - 1 /\ outRQue.num < OutLen
      <4>1. outRQue.num \in 0 .. OutLen
        BY OutOwnRing DEF RingsOwn
      <4> QED
        BY <4>1, <2>3, SizesAssumption
    <3>3. outRQue.buf[nodeOut] \notin OutQueued
      <4>1. outRQue.num \in 0 .. OutLen
        BY OutOwnRing DEF RingsOwn
      <4>2. ~Out!isFull(outRQue)
        BY <3>2, <4>1, SizesAssumption DEF Out!isFull
      <4> QED
        BY <3>1, <4>2, OutOwnRing DEF RingsOwn, OutQueued
    <3>4. Transferring => outRQue.buf[nodeOut] # nodeOutbuf
      BY <3>1, <3>2, OutOwnBehind, OutOwnRing DEF RingsOwn, LastPulled
    <3> QED
      BY <3>1, <3>3, <3>4 DEF OutBusy
  <2> QED
    BY <2>1, <2>2, <2>3
<1>2. Spec => [][Safe]_vars
  BY <1>1, Inductive, PTL DEF Spec
<1> QED
  BY <1>2 DEF OverrunNeedsFullRing

-----------------------------------------------------------------------------
\* What the buffers hold.
InSeq  == In!Contents(inRQue)
OutSeq == Out!Contents(outRQue)

\* Nodes in the frame being filled, until FormatAdd has queued it.
Filled == IF fpc = "add" THEN FrameNodes ELSE index \div chNum

-----------------------------------------------------------------------------
\* The invariants.
\* index counts whole nodes; a frame is queued only when it is full, and without
\* overwriting only into a ring with room.
FillLevel ==
  /\ index = chNum * (index \div chNum)
  /\ fpc = "isFull" => index = FrameWords
  /\ fpc \in {"pull", "split", "transpose", "store"} => index < FrameWords
  /\ fpc = "add" /\ ~overwrite => ~Out!isFull(outRQue)

\* A transfer is under way only while testOut waits for it.
XferPhase ==
  /\ opc \in {"poll", "begin", "dead"} => xfer = "none"
  /\ opc \in {"wait", "abort"} => xfer \in {"pending", "done"}
  /\ opc = "finish" => xfer = "done"

\* Wherever data is read next, somebody has written it.
WrittenIn ==
  /\ \A i \in 1 .. inRQue.num : inMem[InSeq[i]] # Fresh
  /\ \A c \in Caller : cpc[c] \in {"copying", "add"} => inMem[inRQue.head] # Fresh
  /\ Formatting => inMem[nodeInbuf] # Fresh
  /\ fpc = "transpose" => group # Fresh

Written(frame) == \A k \in 0 .. FrameNodes - 1 : frame[k] # Fresh

WrittenOut ==
  /\ \A k \in 0 .. Filled - 1 : outMem[nodeOut][k] # Fresh
  /\ \A i \in 1 .. outRQue.num : Written(outMem[OutSeq[i]])
  /\ Transferring => Written(outMem[nodeOutbuf])
  /\ \A i \in DOMAIN sent : Written(sent[i])

MemInv == FillLevel /\ XferPhase /\ WrittenIn /\ WrittenOut

-----------------------------------------------------------------------------
\* The queues of the two rings: no address twice, that of the head only when the
\* ring is full; an add puts the head at the end, a pull takes the first away.
LEMMA InQueue ==
  ASSUME NEW r, InP!Own(r)
  PROVE  /\ r.head \in 0 .. InLen - 1 /\ r.num \in 0 .. InLen
         /\ \A i \in 1 .. r.num : In!Contents(r)[i] \in 0 .. InLen - 1
         /\ \A i, j \in 1 .. r.num : In!Contents(r)[i] = In!Contents(r)[j] => i = j
         /\ ~In!isFull(r) => \A i \in 1 .. r.num : In!Contents(r)[i] # r.head
<1>1. InP!Contents(r) = In!Contents(r) /\ (InP!isFull(r) <=> In!isFull(r))
  BY DEF InP!Contents, In!Contents, InP!SlotAt, In!SlotAt, InP!getTail, In!getTail,
         InP!isFull, In!isFull
<1>2. InLen \in Nat \ {0}
  BY SizesAssumption
<1>3. /\ \A i \in 1 .. r.num : InP!Contents(r)[i] \in 0 .. InLen - 1
      /\ \A i, j \in 1 .. r.num : InP!Contents(r)[i] = InP!Contents(r)[j] => i = j
      /\ ~InP!isFull(r) => \A i \in 1 .. r.num : InP!Contents(r)[i] # r.head
  BY <1>2, InP!OwnContents DEF InP!MaxElementsAssumption, InP!Slot
<1>4. r.head \in 0 .. InLen - 1 /\ r.num \in 0 .. InLen
  BY InOwnRing
<1> QED
  BY <1>1, <1>3, <1>4

LEMMA InQueueAdd ==
  ASSUME NEW r, InP!Own(r), NEW overwr \in BOOLEAN,
         NEW a, a = In!add(r, r.buf[r.head], overwr)
  PROVE  /\ InP!Own(a)
         /\ ~In!isFull(r) => /\ a.num = r.num + 1 /\ In!Contents(a)[a.num] = r.head
                             /\ \A i \in 1 .. r.num : In!Contents(a)[i] = In!Contents(r)[i]
         /\ In!isFull(r) /\ ~overwr => a = r
<1>1. InP!Contents(a) = In!Contents(a) /\ InP!Contents(r) = In!Contents(r)
  BY DEF InP!Contents, In!Contents, InP!SlotAt, In!SlotAt, InP!getTail, In!getTail
<1>2. InP!isFull(r) <=> In!isFull(r)
  BY DEF InP!isFull, In!isFull
<1>3. a = InP!add(r, r.buf[r.head], overwr)
  BY DEF InP!add, In!add, InP!Admits, In!Admits, InP!Added, In!Added, InP!isFull, In!isFull
<1>4. InLen \in Nat \ {0}
  BY SizesAssumption
<1>5. /\ ~InP!isFull(r) => /\ a.num = r.num + 1 /\ InP!Contents(a)[a.num] = r.head
                           /\ \A i \in 1 .. r.num : InP!Contents(a)[i] = InP!Contents(r)[i]
      /\ InP!isFull(r) /\ ~overwr => a = r
  BY <1>3, <1>4, InP!OwnAddContents DEF InP!MaxElementsAssumption
<1>6. InP!Own(a)
  BY InOwnAddHead
<1> QED
  BY <1>1, <1>2, <1>5, <1>6

LEMMA InQueuePull ==
  ASSUME NEW r, InP!Own(r), ~In!isEmpty(r), NEW p, p = In!pull(r)
  PROVE  /\ InP!Own(p) /\ p.num = r.num - 1 /\ p.head = r.head
         /\ r.num \in 1 .. InLen /\ In!pulled(r) = In!Contents(r)[1]
         /\ \A i \in 1 .. p.num : In!Contents(p)[i] = In!Contents(r)[i + 1]
<1>1. InP!Contents(p) = In!Contents(p) /\ InP!Contents(r) = In!Contents(r)
  BY DEF InP!Contents, In!Contents, InP!SlotAt, In!SlotAt, InP!getTail, In!getTail
<1>2. p = InP!pull(r) /\ In!pulled(r) = InP!pulled(r) /\ ~InP!isEmpty(r)
  BY DEF InP!pull, In!pull, InP!pulled, In!pulled, InP!isEmpty, In!isEmpty,
         InP!getTail, In!getTail
<1>3. InLen \in Nat \ {0}
  BY SizesAssumption
<1>4. /\ InP!pulled(r) = InP!Contents(r)[1]
      /\ \A i \in 1 .. r.num - 1 : InP!Contents(p)[i] = InP!Contents(r)[i + 1]
  BY <1>2, <1>3, InP!OwnPullContents DEF InP!MaxElementsAssumption
<1>5. InP!Own(p) /\ p.num = r.num - 1 /\ p.head = r.head
  BY InOwnPull
<1>6. r.num \in 1 .. InLen
  <2>1. r.num \in 0 .. InLen
    BY InOwnRing
  <2> QED
    BY <1>3, <2>1 DEF In!isEmpty
<1> QED
  BY <1>1, <1>2, <1>4, <1>5, <1>6

LEMMA OutQueue ==
  ASSUME NEW r, OutP!Own(r)
  PROVE  /\ r.head \in 0 .. OutLen - 1 /\ r.num \in 0 .. OutLen
         /\ \A i \in 1 .. r.num : Out!Contents(r)[i] \in 0 .. OutLen - 1
         /\ \A i, j \in 1 .. r.num : Out!Contents(r)[i] = Out!Contents(r)[j] => i = j
         /\ ~Out!isFull(r) => \A i \in 1 .. r.num : Out!Contents(r)[i] # r.head
<1>1. OutP!Contents(r) = Out!Contents(r) /\ (OutP!isFull(r) <=> Out!isFull(r))
  BY DEF OutP!Contents, Out!Contents, OutP!SlotAt, Out!SlotAt, OutP!getTail, Out!getTail,
         OutP!isFull, Out!isFull
<1>2. OutLen \in Nat \ {0}
  BY SizesAssumption
<1>3. /\ \A i \in 1 .. r.num : OutP!Contents(r)[i] \in 0 .. OutLen - 1
      /\ \A i, j \in 1 .. r.num : OutP!Contents(r)[i] = OutP!Contents(r)[j] => i = j
      /\ ~OutP!isFull(r) => \A i \in 1 .. r.num : OutP!Contents(r)[i] # r.head
  BY <1>2, OutP!OwnContents DEF OutP!MaxElementsAssumption, OutP!Slot
<1>4. r.head \in 0 .. OutLen - 1 /\ r.num \in 0 .. OutLen
  BY OutOwnRing
<1> QED
  BY <1>1, <1>3, <1>4

LEMMA OutQueueAdd ==
  ASSUME NEW r, OutP!Own(r), NEW overwr \in BOOLEAN,
         NEW a, a = Out!add(r, r.buf[r.head], overwr)
  PROVE  /\ OutP!Own(a)
         /\ ~Out!isFull(r) =>
              /\ a.num = r.num + 1 /\ Out!Contents(a)[a.num] = r.head
              /\ \A i \in 1 .. r.num : Out!Contents(a)[i] = Out!Contents(r)[i]
         /\ Out!isFull(r) /\ overwr =>
              /\ a.num = r.num /\ Out!Contents(a)[a.num] = r.head
              /\ \A i \in 1 .. r.num - 1 : Out!Contents(a)[i] = Out!Contents(r)[i + 1]
         /\ Out!isFull(r) /\ ~overwr => a = r
<1>1. OutP!Contents(a) = Out!Contents(a) /\ OutP!Contents(r) = Out!Contents(r)
  BY DEF OutP!Contents, Out!Contents, OutP!SlotAt, Out!SlotAt, OutP!getTail, Out!getTail
<1>2. OutP!isFull(r) <=> Out!isFull(r)
  BY DEF OutP!isFull, Out!isFull
<1>3. a = OutP!add(r, r.buf[r.head], overwr)
  BY DEF OutP!add, Out!add, OutP!Admits, Out!Admits, OutP!Added, Out!Added, OutP!isFull, Out!isFull
<1>4. OutLen \in Nat \ {0}
  BY SizesAssumption
<1>5. /\ ~OutP!isFull(r) => /\ a.num = r.num + 1 /\ OutP!Contents(a)[a.num] = r.head
                            /\ \A i \in 1 .. r.num : OutP!Contents(a)[i] = OutP!Contents(r)[i]
      /\ OutP!isFull(r) /\ overwr =>
           /\ a.num = r.num /\ OutP!Contents(a)[a.num] = r.head
           /\ \A i \in 1 .. r.num - 1 : OutP!Contents(a)[i] = OutP!Contents(r)[i + 1]
      /\ OutP!isFull(r) /\ ~overwr => a = r
  BY <1>3, <1>4, OutP!OwnAddContents DEF OutP!MaxElementsAssumption
<1>6. OutP!Own(a)
  BY OutOwnAddHead
<1> QED
  BY <1>1, <1>2, <1>5, <1>6

LEMMA OutQueuePull ==
  ASSUME NEW r, OutP!Own(r), ~Out!isEmpty(r), NEW p, p = Out!pull(r)
  PROVE  /\ OutP!Own(p) /\ p.num = r.num - 1 /\ p.head = r.head
         /\ r.num \in 1 .. OutLen /\ Out!pulled(r) = Out!Contents(r)[1]
         /\ \A i \in 1 .. p.num : Out!Contents(p)[i] = Out!Contents(r)[i + 1]
<1>1. OutP!Contents(p) = Out!Contents(p) /\ OutP!Contents(r) = Out!Contents(r)
  BY DEF OutP!Contents, Out!Contents, OutP!SlotAt, Out!SlotAt, OutP!getTail, Out!getTail
<1>2. p = OutP!pull(r) /\ Out!pulled(r) = OutP!pulled(r) /\ ~OutP!isEmpty(r)
  BY DEF OutP!pull, Out!pull, OutP!pulled, Out!pulled, OutP!isEmpty, Out!isEmpty,
         OutP!getTail, Out!getTail
<1>3. OutLen \in Nat \ {0}
  BY SizesAssumption
<1>4. /\ OutP!pulled(r) = OutP!Contents(r)[1]
      /\ \A i \in 1 .. r.num - 1 : OutP!Contents(p)[i] = OutP!Contents(r)[i + 1]
  BY <1>2, <1>3, OutP!OwnPullContents DEF OutP!MaxElementsAssumption
<1>5. OutP!Own(p) /\ p.num = r.num - 1 /\ p.head = r.head
  BY OutOwnPull
<1>6. r.num \in 1 .. OutLen
  <2>1. r.num \in 0 .. OutLen
    BY OutOwnRing
  <2> QED
    BY <1>3, <2>1 DEF Out!isEmpty
<1> QED
  BY <1>1, <1>2, <1>4, <1>5, <1>6

-----------------------------------------------------------------------------
\* Cells and frames.
LEMMA CellsDiffer ==
  /\ Torn # Fresh
  /\ \A s : Raw(s) # Fresh /\ Bits(s) # Fresh /\ Garbled(s) # Fresh /\ Raw(s) # Torn
BY DEF Torn, Fresh, Raw, Bits, Garbled

\* Transposing never makes written memory of memory nobody wrote, or the reverse,
\* and turns a raw sample into its bits.
LEMMA TransposedWritten ==
  /\ \A cell \in Cell : cell # Fresh => Transposed(cell) # Fresh
  /\ \A s : Transposed(Raw(s)) = Bits(s)
BY CellsDiffer DEF Transposed, Cell, Raw

LEMMA SameFrame ==
  ASSUME NEW S, NEW T, NEW f \in [S -> T], NEW g \in [S -> T], \A k \in S : f[k] = g[k]
  PROVE  f = g
OBVIOUS

\* Frames hold a whole number of nodes.
LEMMA FrameSize ==
  /\ FrameNodes \in Nat /\ chNum \in Nat \ {0} /\ FrameWords \in Nat \ {0}
  /\ \A q \in Nat : chNum * q <= FrameWords <=> q <= FrameNodes
  /\ \A q \in Nat : (chNum * q) \div chNum = q
BY SizesAssumption DEF FrameNodes

-----------------------------------------------------------------------------
\* What the steps of each thread leave alone.
LEMMA CallerFrame ==
  ASSUME NEW c \in Caller, Call(c) \/ QueueBufStart(c)
  PROVE  UNCHANGED <<outRQue, outMem, formatVars, outVars>>
BY DEF Call, QueueBufStart, Enter, GetHead, CopyBegin, CopyEnd, AddIn, Leave

LEMMA FormatFrame == TestFormat => UNCHANGED <<callerVars, outVars>>
BY DEF TestFormat, FormatPoll, FormatPull, FormatSplit, FormatTranspose, FormatStore,
       FormatIsFull, FormatAdd

LEMMA OutFrame ==
  TestOut \/ UsbComplete \/ UsbFail => UNCHANGED <<inRQue, inMem, outMem, callerVars, formatVars, history>>
BY DEF TestOut, OutPull, OutBegin, OutWait, OutAbort, OutFinish, UsbComplete, UsbFail

\* The rings move only by an add or a pull of their own.
LEMMA OutPullRing ==
  ASSUME IInv, OutPull
  PROVE  /\ OutP!Own(outRQue) /\ OutP!Own(outRQue') /\ ~Out!isFull(outRQue')
         /\ outRQue'.num = outRQue.num - 1 /\ outRQue'.head = outRQue.head
         /\ outRQue.num \in 1 .. OutLen /\ nodeOutbuf' = OutSeq[1]
         /\ \A i \in 1 .. outRQue'.num : OutSeq'[i] = OutSeq[i + 1]
<1>1. OutP!Own(outRQue) /\ ~Out!isEmpty(outRQue) /\ outRQue' = Out!pull(outRQue)
  BY DEF IInv, RingsOwn, OutPull
<1>2. /\ OutP!Own(outRQue') /\ outRQue'.num = outRQue.num - 1 /\ outRQue'.head = outRQue.head
      /\ outRQue.num \in 1 .. OutLen /\ Out!pulled(outRQue) = Out!Contents(outRQue)[1]
      /\ \A i \in 1 .. outRQue'.num : Out!Contents(outRQue')[i] = Out!Contents(outRQue)[i + 1]
  BY <1>1, OutQueuePull
<1>3. ~Out!isFull(outRQue')
  BY <1>2, SizesAssumption DEF Out!isFull
<1> QED
  BY <1>1, <1>2, <1>3 DEF OutPull, NextFrame, OutSeq

LEMMA FormatPullRing ==
  ASSUME IInv, FormatPull
  PROVE  /\ InP!Own(inRQue) /\ InP!Own(inRQue')
         /\ inRQue'.num = inRQue.num - 1 /\ inRQue'.head = inRQue.head
         /\ inRQue.num \in 1 .. InLen /\ nodeInbuf' = InSeq[1]
         /\ \A i \in 1 .. inRQue'.num : InSeq'[i] = InSeq[i + 1]
<1>1. InP!Own(inRQue) /\ ~In!isEmpty(inRQue) /\ inRQue' = In!pull(inRQue)
  BY DEF IInv, RingsOwn, LastPulled, FormatPull, In!isEmpty
<1>2. /\ InP!Own(inRQue') /\ inRQue'.num = inRQue.num - 1 /\ inRQue'.head = inRQue.head
      /\ inRQue.num \in 1 .. InLen /\ In!pulled(inRQue) = In!Contents(inRQue)[1]
      /\ \A i \in 1 .. inRQue'.num : In!Contents(inRQue')[i] = In!Contents(inRQue)[i + 1]
  BY <1>1, InQueuePull
<1> QED
  BY <1>1, <1>2 DEF FormatPull, NextNode, InSeq

LEMMA FillLevelKept == ASSUME IInv, FillLevel, [Next]_vars PROVE FillLevel'
<1> USE DEF FillLevel
<1>0. index \in 0 .. FrameWords
  BY DEF IInv, TypeOK
<1>1. ASSUME NEW c \in Caller, Call(c) \/ QueueBufStart(c) PROVE FillLevel'
  BY <1>1, CallerFrame DEF formatVars
<1>2. CASE FormatPoll
  BY <1>0, <1>2, FrameSize DEF FormatPoll, FrameFull
<1>3. CASE FormatPull \/ FormatSplit \/ FormatTranspose
  BY <1>3 DEF FormatPull, FormatSplit, FormatTranspose
<1>4. CASE FormatStore
  <2>1. index' = index \/ index' = index + chNum
    BY <1>4 DEF FormatStore
  <2>2. index' = chNum * (index' \div chNum)
    <3> DEFINE q == index \div chNum
    <3>1. q \in Nat /\ index = chNum * q
      BY <1>0, FrameSize
    <3> HIDE DEF q
    <3>2. index + chNum = chNum * (q + 1) /\ q + 1 \in Nat
      BY <3>1, FrameSize
    <3> QED
      BY <2>1, <3>1, <3>2, FrameSize
  <2> QED
    BY <1>4, <2>2 DEF FormatStore
<1>5. CASE FormatIsFull
  <2>1. index' = 0 /\ chNum * (0 \div chNum) = 0
    BY <1>5, FrameSize DEF FormatIsFull
  <2> QED
    BY <1>5, <2>1 DEF FormatIsFull
<1>6. CASE FormatAdd
  BY <1>6 DEF FormatAdd
<1>7. CASE OutPull
  BY <1>7, OutPullRing DEF OutPull, formatVars
<1>8. CASE OutBegin \/ OutWait \/ OutAbort \/ OutFinish \/ UsbComplete \/ UsbFail \/ UNCHANGED vars
  BY <1>8 DEF OutBegin, OutWait, OutAbort, OutFinish, UsbComplete, UsbFail, vars, formatVars
<1> QED
  BY <1>1, <1>2, <1>3, <1>4, <1>5, <1>6, <1>7, <1>8 DEF Next, TestFormat, TestOut

LEMMA XferPhaseKept == ASSUME XferPhase, [Next]_vars PROVE XferPhase'
<1> USE DEF XferPhase
<1>1. ASSUME NEW c \in Caller, Call(c) \/ QueueBufStart(c) PROVE XferPhase'
  BY <1>1, CallerFrame DEF outVars
<1>2. CASE TestFormat \/ UNCHANGED vars
  BY <1>2, FormatFrame DEF vars, outVars
<1>3. CASE TestOut \/ UsbComplete \/ UsbFail
  BY <1>3 DEF TestOut, OutPull, OutBegin, OutWait, OutAbort, OutFinish, UsbComplete, UsbFail, TimesOut
<1> QED
  BY <1>1, <1>2, <1>3 DEF Next

-----------------------------------------------------------------------------
\* Written memory, from the caller to the format thread.  A caller between its copy
\* and its add holds the mutex, so nodeIn is the head and nobody else is there.
LEMMA CopyPlace ==
  ASSUME IInv, NEW c \in Caller, cpc[c] \in {"memcpy", "copying", "add"}
  PROVE  /\ InP!Own(inRQue) /\ nodeIn = inRQue.head /\ inRQue.buf[nodeIn] = inRQue.head
         /\ inRQue.head \in 0 .. InLen - 1
         /\ \A d \in Caller : cpc[d] \in Holding => d = c
<1>1. InP!Own(inRQue) /\ nodeIn = inRQue.head
  BY DEF IInv, RingsOwn, HeadPointersCurrent
<1>2. \A d \in Caller : cpc[d] \in Holding => d = c
  BY DEF IInv, MutexHeld, Holding
<1> QED
  BY <1>1, <1>2, InOwnRing

LEMMA AddInRing ==
  ASSUME IInv, NEW c \in Caller, AddIn(c)
  PROVE  /\ InP!Own(inRQue) /\ InP!Own(inRQue')
         /\ ~In!isFull(inRQue) =>
              /\ inRQue'.num = inRQue.num + 1 /\ InSeq'[inRQue'.num] = inRQue.head
              /\ \A i \in 1 .. inRQue.num : InSeq'[i] = InSeq[i]
         /\ In!isFull(inRQue) => inRQue' = inRQue
<1>1. InP!Own(inRQue) /\ nodeIn = inRQue.head /\ inRQue' = In!add(inRQue, inRQue.buf[inRQue.head], FALSE)
  BY CopyPlace DEF AddIn
<1> QED
  BY <1>1, InQueueAdd DEF InSeq

\* No step unwrites memory.
LEMMA InMemWritten ==
  ASSUME IInv, WrittenIn, [Next]_vars, NEW b \in 0 .. InLen - 1, inMem[b] # Fresh
  PROVE  inMem'[b] # Fresh
<1> inMem \in [0 .. InLen - 1 -> Cell] /\ group \in Cell
  BY DEF IInv, TypeOK
<1>1. ASSUME NEW c \in Caller, Call(c) \/ QueueBufStart(c) PROVE inMem'[b] # Fresh
  <2>1. CASE CopyBegin(c)
    BY <2>1, CellsDiffer DEF CopyBegin
  <2>2. CASE CopyEnd(c)
    <3>1. PICK cell \in {Raw(submitted), Torn} : inMem' = [inMem EXCEPT ![inRQue.buf[nodeIn]] = cell]
      BY <2>2 DEF CopyEnd
    <3> QED
      BY <3>1, CellsDiffer
  <2> QED
    BY <1>1, <2>1, <2>2 DEF Call, QueueBufStart, Enter, GetHead, AddIn, Leave
<1>2. CASE FormatTranspose
  BY <1>2, TransposedWritten DEF FormatTranspose, WrittenIn
<1>3. CASE TestFormat /\ ~FormatTranspose
  BY <1>3 DEF TestFormat, FormatPoll, FormatPull, FormatSplit, FormatStore, FormatIsFull, FormatAdd
<1>4. CASE TestOut \/ UsbComplete \/ UsbFail \/ UNCHANGED vars
  BY <1>4, OutFrame DEF vars
<1> QED
  BY <1>1, <1>2, <1>3, <1>4 DEF Next

LEMMA WrittenInKept == ASSUME IInv, WrittenIn, [Next]_vars PROVE WrittenIn'
<1> USE DEF WrittenIn
<1>0. /\ InP!Own(inRQue) /\ nodeInbuf \in 0 .. InLen - 1 /\ inRQue.head \in 0 .. InLen - 1
      /\ inRQue.num \in 0 .. InLen /\ \A i \in 1 .. inRQue.num : InSeq[i] \in 0 .. InLen - 1
      /\ cpc \in [Caller -> {"idle", "lock", "getHead", "memcpy", "copying", "add", "release"}]
      /\ inMem \in [0 .. InLen - 1 -> Cell] /\ group \in Cell
  <2>1. InP!Own(inRQue)
    BY DEF IInv, RingsOwn
  <2> QED
    BY <2>1, InQueue DEF IInv, TypeOK, InSeq
<1>1. \A b \in 0 .. InLen - 1 : inMem[b] # Fresh => inMem'[b] # Fresh
  BY InMemWritten
<1>2. ASSUME NEW c \in Caller, Call(c) \/ QueueBufStart(c) PROVE WrittenIn'
  <2>1. UNCHANGED formatVars
    BY <1>2, CallerFrame
  <2>2. CASE Call(c) \/ Enter(c) \/ GetHead(c) \/ Leave(c)
    BY <1>0, <2>1, <2>2 DEF Call, Enter, GetHead, Leave, formatVars, Formatting, InSeq
  <2>3. CASE CopyBegin(c)
    <3>1. inMem'[inRQue.head] # Fresh
      BY <1>0, <2>3, CopyPlace, CellsDiffer DEF CopyBegin
    <3> QED
      BY <1>0, <1>1, <2>1, <2>3, <3>1 DEF CopyBegin, formatVars, Formatting, InSeq
  <2>4. CASE CopyEnd(c)
    <3>1. inMem'[inRQue.head] # Fresh
      BY <1>0, <1>1, <2>4 DEF CopyEnd
    <3> QED
      BY <1>0, <1>1, <2>1, <2>4, <3>1 DEF CopyEnd, formatVars, Formatting, InSeq
  <2>5. CASE AddIn(c)
    <3>1. \A d \in Caller : cpc'[d] \notin {"copying", "add"}
      BY <1>0, <2>5, CopyPlace DEF AddIn, Holding
    <3>2. \A i \in 1 .. inRQue'.num : inMem[InSeq'[i]] # Fresh
      <4>1. CASE In!isFull(inRQue)
        BY <2>5, <4>1, AddInRing DEF InSeq
      <4>2. CASE ~In!isFull(inRQue)
        <5>1. inRQue'.num = inRQue.num + 1 /\ InSeq'[inRQue'.num] = inRQue.head
          BY <2>5, <4>2, AddInRing
        <5>2. \A i \in 1 .. inRQue.num : InSeq'[i] = InSeq[i]
          BY <2>5, <4>2, AddInRing
        <5>3. inMem[inRQue.head] # Fresh
          BY <2>5 DEF AddIn
        <5>4. \A i \in 1 .. inRQue'.num : i \in 1 .. inRQue.num \/ i = inRQue'.num
          BY <1>0, <5>1
        <5> QED
          BY <5>1, <5>2, <5>3, <5>4
      <4> QED
        BY <4>1, <4>2
    <3> QED
      BY <2>1, <2>5, <3>1, <3>2 DEF AddIn, formatVars, Formatting
  <2> QED
    BY <1>2, <2>2, <2>3, <2>4, <2>5 DEF QueueBufStart
<1>3. CASE TestFormat
  <2>1. UNCHANGED callerVars
    BY <1>3, FormatFrame
  <2>2. CASE FormatPull
    <3>1. /\ inRQue'.num = inRQue.num - 1 /\ inRQue'.head = inRQue.head
          /\ inRQue.num \in 1 .. InLen /\ nodeInbuf' = InSeq[1]
          /\ \A i \in 1 .. inRQue'.num : InSeq'[i] = InSeq[i + 1]
      BY <2>2, FormatPullRing
    <3>2. \A i \in 1 .. inRQue'.num : inMem[InSeq'[i]] # Fresh
      BY <3>1
    <3> QED
      BY <2>1, <2>2, <3>1, <3>2 DEF FormatPull, callerVars, Formatting
  <2>3. CASE FormatTranspose
    BY <1>0, <1>1, <2>1, <2>3 DEF FormatTranspose, callerVars, Formatting, InSeq
  <2>4. CASE FormatPoll \/ FormatSplit \/ FormatStore \/ FormatIsFull \/ FormatAdd
    BY <2>1, <2>4 DEF FormatPoll, FormatSplit, FormatStore, FormatIsFull, FormatAdd, callerVars,
                      Formatting, InSeq
  <2> QED
    BY <1>3, <2>2, <2>3, <2>4 DEF TestFormat
<1>4. CASE TestOut \/ UsbComplete \/ UsbFail \/ UNCHANGED vars
  <2>1. UNCHANGED <<inRQue, inMem, callerVars, formatVars>>
    BY <1>4, OutFrame DEF vars
  <2> QED
    BY <2>1 DEF callerVars, formatVars, Formatting, InSeq
<1> QED
  BY <1>2, <1>3, <1>4 DEF Next

-----------------------------------------------------------------------------
\* Written memory, from the format thread to the device.
LEMMA FillPlace ==
  ASSUME IInv, fpc \in {"pull", "split", "transpose", "store", "isFull", "add"} \/ index > 0
  PROVE  /\ OutP!Own(outRQue) /\ nodeOut = outRQue.head /\ outRQue.buf[nodeOut] = nodeOut
         /\ nodeOut \in 0 .. OutLen - 1
<1>1. OutP!Own(outRQue) /\ nodeOut = outRQue.head
  BY DEF IInv, RingsOwn, HeadPointersCurrent
<1> QED
  BY <1>1, OutOwnRing

\* While a node is being formatted there is room for it, if nodes fill the frame.
LEMMA OneMoreNode ==
  ASSUME IInv, FillLevel, Fits
  PROVE  /\ index \div chNum \in Nat /\ index \div chNum < FrameNodes
         /\ (index + chNum) \div chNum = index \div chNum + 1
<1> DEFINE q == index \div chNum
<1>0. index \in 0 .. FrameWords
  BY DEF IInv, TypeOK
<1>1. q \in Nat /\ index = chNum * q
  BY <1>0, FrameSize DEF FillLevel
<1> HIDE DEF q
<1>2. index + chNum = chNum * (q + 1) /\ q + 1 \in Nat
  BY <1>1, FrameSize
<1>3. q + 1 <= FrameNodes /\ (index + chNum) \div chNum = q + 1
  BY <1>2, FrameSize DEF Fits
<1>4. q < FrameNodes
  BY <1>1, <1>3, FrameSize
<1> QED
  BY <1>1, <1>3, <1>4 DEF q

\* What FormatStore does to the output buffers.
LEMMA StoreCell ==
  ASSUME IInv, FillLevel, FormatStore, Fits
  PROVE  /\ nodeOut = outRQue.head /\ nodeOut \in 0 .. OutLen - 1
         /\ index' \div chNum = index \div chNum + 1
         /\ index \div chNum \in 0 .. FrameNodes - 1
         /\ outMem'[nodeOut][index \div chNum] = inMem[nodeInbuf]
         /\ \A b \in 0 .. OutLen - 1 : \A k \in 0 .. FrameNodes - 1 :
              b # nodeOut \/ k # index \div chNum => outMem'[b][k] = outMem[b][k]
         /\ overrun' = (overrun \/ nodeOut \in OutBusy)
<1> DEFINE q == index \div chNum
<1>1. /\ fpc = "store" /\ index' = index + chNum
      /\ outMem' = [outMem EXCEPT ![outRQue.buf[nodeOut]][q] = inMem[nodeInbuf]]
      /\ overrun' = (overrun \/ outRQue.buf[nodeOut] \in OutBusy)
  BY DEF FormatStore
<1>2. q \in 0 .. FrameNodes - 1 /\ index' \div chNum = q + 1
  BY <1>1, OneMoreNode, FrameSize
<1>3. nodeOut = outRQue.head /\ outRQue.buf[nodeOut] = nodeOut /\ nodeOut \in 0 .. OutLen - 1
  BY <1>1, FillPlace
<1>4. outMem \in [0 .. OutLen - 1 -> [0 .. FrameNodes - 1 -> Cell]]
  BY DEF IInv, TypeOK
<1> HIDE DEF q
<1>5. outMem' = [outMem EXCEPT ![nodeOut] = [outMem[nodeOut] EXCEPT ![q] = inMem[nodeInbuf]]]
  BY <1>1, <1>3
<1>6. outMem'[nodeOut] = [outMem[nodeOut] EXCEPT ![q] = inMem[nodeInbuf]]
  BY <1>3, <1>4, <1>5
<1>7. outMem[nodeOut] \in [0 .. FrameNodes - 1 -> Cell]
  BY <1>3, <1>4
<1>8. outMem'[nodeOut][q] = inMem[nodeInbuf]
  BY <1>2, <1>6, <1>7
<1>9. ASSUME NEW b \in 0 .. OutLen - 1, NEW k \in 0 .. FrameNodes - 1, b # nodeOut \/ k # q
      PROVE  outMem'[b][k] = outMem[b][k]
  <2>1. CASE b # nodeOut
    BY <1>4, <1>5, <2>1
  <2>2. CASE b = nodeOut /\ k # q
    BY <1>6, <1>7, <2>2
  <2> QED
    BY <1>9, <2>1, <2>2
<1> QED
  BY <1>1, <1>2, <1>3, <1>8, <1>9 DEF q

LEMMA OutMemWritten ==
  ASSUME IInv, FillLevel, WrittenIn, [Next]_vars,
         NEW b \in 0 .. OutLen - 1, NEW k \in 0 .. FrameNodes - 1, outMem[b][k] # Fresh
  PROVE  outMem'[b][k] # Fresh
<1>1. CASE FormatStore /\ Fits
  <2>1. inMem[nodeInbuf] # Fresh
    BY <1>1 DEF FormatStore, WrittenIn, Formatting
  <2> QED
    BY <1>1, <2>1, StoreCell
<1>2. CASE FormatStore /\ ~Fits
  BY <1>2 DEF FormatStore
<1>3. CASE ~FormatStore
  <2>1. outMem' = outMem
    <3>1. ASSUME NEW c \in Caller, Call(c) \/ QueueBufStart(c) PROVE outMem' = outMem
      BY <3>1, CallerFrame
    <3>2. CASE TestFormat
      BY <1>3, <3>2 DEF TestFormat, FormatPoll, FormatPull, FormatSplit, FormatTranspose,
                        FormatIsFull, FormatAdd
    <3>3. CASE TestOut \/ UsbComplete \/ UsbFail \/ UNCHANGED vars
      BY <3>3, OutFrame DEF vars
    <3> QED
      BY <3>1, <3>2, <3>3 DEF Next
  <2> QED
    BY <2>1
<1> QED
  BY <1>1, <1>2, <1>3

LEMMA FormatAddRing ==
  ASSUME IInv, FormatAdd
  PROVE  /\ OutP!Own(outRQue) /\ OutP!Own(outRQue') /\ nodeOut = outRQue.head
         /\ ~Out!isFull(outRQue) =>
              /\ outRQue'.num = outRQue.num + 1 /\ OutSeq'[outRQue'.num] = outRQue.head
              /\ \A i \in 1 .. outRQue.num : OutSeq'[i] = OutSeq[i]
         /\ Out!isFull(outRQue) /\ overwrite =>
              /\ outRQue'.num = outRQue.num /\ OutSeq'[outRQue'.num] = outRQue.head
              /\ \A i \in 1 .. outRQue.num - 1 : OutSeq'[i] = OutSeq[i + 1]
         /\ Out!isFull(outRQue) /\ ~overwrite => outRQue' = outRQue
<1>1. /\ OutP!Own(outRQue) /\ nodeOut = outRQue.head /\ overwrite \in BOOLEAN
      /\ outRQue' = Out!add(outRQue, outRQue.buf[outRQue.head], overwrite)
  BY FillPlace DEF FormatAdd, IInv, TypeOK
<1> QED
  BY <1>1, OutQueueAdd DEF OutSeq

LEMMA WrittenOutKept ==
  ASSUME IInv, FillLevel, XferPhase, WrittenIn, WrittenOut, [Next]_vars
  PROVE  WrittenOut'
<1> USE DEF WrittenOut
<1>0. /\ OutP!Own(outRQue) /\ nodeOut \in 0 .. OutLen - 1 /\ nodeOutbuf \in 0 .. OutLen - 1
      /\ outRQue.num \in 0 .. OutLen /\ \A i \in 1 .. outRQue.num : OutSeq[i] \in 0 .. OutLen - 1
      /\ index \in 0 .. FrameWords /\ sent \in Seq([0 .. FrameNodes - 1 -> Cell])
  <2>1. OutP!Own(outRQue)
    BY DEF IInv, RingsOwn
  <2> QED
    BY <2>1, OutQueue DEF IInv, TypeOK, OutSeq
<1>1. \A b \in 0 .. OutLen - 1 : Written(outMem[b]) => Written(outMem'[b])
  BY OutMemWritten DEF Written
<1>2. ASSUME NEW c \in Caller, Call(c) \/ QueueBufStart(c) PROVE WrittenOut'
  BY <1>2, CallerFrame DEF formatVars, outVars, OutSeq, Filled, Transferring, Written
<1>3. CASE TestFormat
  <2>1. UNCHANGED outVars
    BY <1>3, FormatFrame
  <2>2. CASE FormatPoll
    <3>1. index = 0 => index \div chNum = 0
      BY FrameSize
    <3>2. \A k \in 0 .. Filled' - 1 : outMem[nodeOut'][k] # Fresh
      BY <2>2, <3>1 DEF FormatPoll, FillSlot, Filled
    <3> QED
      BY <2>1, <2>2, <3>2 DEF FormatPoll, outVars, OutSeq, Transferring, Written
  <2>3. CASE FormatPull \/ FormatSplit \/ FormatTranspose
    BY <2>1, <2>3 DEF FormatPull, FormatSplit, FormatTranspose, outVars, OutSeq, Filled,
                      Transferring, Written
  <2>4. CASE FormatStore
    <3>1. ASSUME NEW k \in 0 .. Filled' - 1 PROVE outMem'[nodeOut][k] # Fresh
      <4>1. CASE Fits
        <5>1. Filled' = index \div chNum + 1 /\ Filled = index \div chNum
          BY <2>4, <4>1, StoreCell DEF FormatStore, Filled
        <5>2. CASE k = index \div chNum
          <6>1. inMem[nodeInbuf] # Fresh
            BY <2>4 DEF FormatStore, WrittenIn, Formatting
          <6> QED
            BY <2>4, <4>1, <5>2, <6>1, StoreCell
        <5>3. CASE k # index \div chNum
          <6>1. index \div chNum \in 0 .. FrameNodes - 1
            BY <2>4, <4>1, StoreCell
          <6>2. k \in 0 .. Filled - 1 /\ k \in 0 .. FrameNodes - 1
            BY <5>1, <5>3, <6>1, FrameSize
          <6>3. outMem[nodeOut][k] # Fresh
            BY <6>2
          <6> QED
            BY <1>0, <6>2, <6>3, OutMemWritten
        <5> QED
          BY <5>2, <5>3
      <4>2. CASE ~Fits
        <5>1. Filled' = Filled /\ outMem' = outMem
          BY <2>4, <4>2 DEF FormatStore, Filled
        <5> QED
          BY <5>1
      <4> QED
        BY <4>1, <4>2
    <3> QED
      BY <1>0, <1>1, <2>1, <2>4, <3>1 DEF FormatStore, outVars, OutSeq, Transferring
  <2>5. CASE FormatIsFull
    <3>1. Filled' = Filled
      BY <2>5 DEF FormatIsFull, FillLevel, Filled, FrameNodes
    <3> QED
      BY <2>1, <2>5, <3>1 DEF FormatIsFull, outVars, OutSeq, Transferring, Written
  <2>6. CASE FormatAdd
    <3>1. Written(outMem[nodeOut]) /\ nodeOut = outRQue.head
      BY <2>6, FillPlace DEF FormatAdd, Filled, Written
    <3>2. ASSUME NEW i \in 1 .. outRQue'.num PROVE Written(outMem[OutSeq'[i]])
      <4>1. CASE ~Out!isFull(outRQue)
        <5>1. outRQue'.num = outRQue.num + 1 /\ OutSeq'[outRQue'.num] = outRQue.head
          BY <2>6, <4>1, FormatAddRing
        <5>2. i \in 1 .. outRQue.num => OutSeq'[i] = OutSeq[i]
          BY <2>6, <4>1, FormatAddRing
        <5>3. i \in 1 .. outRQue.num \/ i = outRQue'.num
          BY <1>0, <5>1
        <5> QED
          BY <3>1, <5>1, <5>2, <5>3
      <4>2. CASE Out!isFull(outRQue) /\ overwrite
        <5>1. outRQue'.num = outRQue.num /\ OutSeq'[outRQue'.num] = outRQue.head
          BY <2>6, <4>2, FormatAddRing
        <5>2. i \in 1 .. outRQue.num - 1 => OutSeq'[i] = OutSeq[i + 1]
          BY <2>6, <4>2, FormatAddRing
        <5>3. (i \in 1 .. outRQue.num - 1 /\ i + 1 \in 1 .. outRQue.num) \/ i = outRQue'.num
          BY <1>0, <5>1
        <5> QED
          BY <3>1, <5>1, <5>2, <5>3
      <4>3. CASE Out!isFull(outRQue) /\ ~overwrite
        BY <2>6, <4>3, FormatAddRing DEF OutSeq
      <4> QED
        BY <4>1, <4>2, <4>3
    <3>3. Filled' = 0
      BY <2>6, FrameSize DEF FormatAdd, Filled, IInv, SeenFull
    <3> QED
      BY <2>1, <2>6, <3>2, <3>3 DEF FormatAdd, outVars, Transferring, Written
  <2> QED
    BY <1>3, <2>2, <2>3, <2>4, <2>5, <2>6 DEF TestFormat
<1>4. CASE OutPull
  <2>1. /\ outRQue'.num = outRQue.num - 1 /\ outRQue.num \in 1 .. OutLen /\ nodeOutbuf' = OutSeq[1]
        /\ \A i \in 1 .. outRQue'.num : OutSeq'[i] = OutSeq[i + 1]
    BY <1>4, OutPullRing
  <2>2. /\ \A i \in 1 .. outRQue'.num : Written(outMem[OutSeq'[i]])
        /\ Written(outMem[nodeOutbuf'])
    BY <2>1
  <2> QED
    BY <1>4, <2>2 DEF OutPull, formatVars, Filled, Transferring, Written
<1>5. CASE OutBegin \/ OutWait \/ OutAbort \/ OutFinish \/ UsbFail \/ UNCHANGED vars
  BY <1>5 DEF OutBegin, OutWait, OutAbort, OutFinish, UsbFail, vars, formatVars, outVars, OutSeq,
              Filled, Transferring, Written
<1>6. CASE UsbComplete
  <2>1. Written(outMem[nodeOutbuf])
    <3>1. opc \in {"poll", "begin", "wait", "abort", "finish", "dead"} /\ xfer = "pending"
      BY <1>6 DEF IInv, TypeOK, UsbComplete
    <3> QED
      BY <3>1 DEF XferPhase, Transferring
  <2>2. sent' = Append(sent, outMem[nodeOutbuf]) /\ outMem' = outMem
    BY <1>6 DEF UsbComplete
  <2>3. \A i \in DOMAIN sent' : Written(sent'[i])
    BY <1>0, <2>1, <2>2
  <2> QED
    BY <1>6, <2>2, <2>3 DEF UsbComplete, formatVars, OutSeq, Filled, Transferring, Written
<1> QED
  BY <1>2, <1>3, <1>4, <1>5, <1>6 DEF Next, TestOut

-----------------------------------------------------------------------------
LEMMA InitMem == Init => MemInv
<1> SUFFICES ASSUME Init PROVE MemInv
  OBVIOUS
<1>1. index \div chNum = 0 /\ chNum * 0 = 0 /\ index = 0
  BY FrameSize DEF Init
<1>2. FillLevel /\ XferPhase
  BY <1>1 DEF Init, FillLevel, XferPhase
<1>3. WrittenIn
  BY DEF Init, WrittenIn, Drained, Formatting
<1>4. WrittenOut
  BY <1>1 DEF Init, WrittenOut, Drained, Filled, Transferring
<1> QED
  BY <1>2, <1>3, <1>4 DEF MemInv

\* MemInv is inductive once IInv is known.
THEOREM MemInductive == Spec => []MemInv
<1>1. ASSUME IInv, MemInv, [Next]_vars PROVE MemInv'
  BY <1>1, FillLevelKept, XferPhaseKept, WrittenInKept, WrittenOutKept DEF MemInv
<1> QED
  BY <1>1, InitMem, Inductive, PTL DEF Spec

\* A frame never carries memory that no sample was copied to (hjkUsbXferdll.cpp:284):
\* whatever is overrun, refused or timed out, and whatever the sizes.
THEOREM OnlyWrittenDataSent == Spec => []OnlySubmittedData
<1>1. ASSUME IInv, MemInv PROVE OnlySubmittedData
  <2>1. sent \in Seq([0 .. FrameNodes - 1 -> Cell])
    BY <1>1 DEF IInv, TypeOK
  <2>2. \A i \in DOMAIN sent : Written(sent[i]) /\ DOMAIN sent[i] = 0 .. FrameNodes - 1
    BY <1>1, <2>1 DEF MemInv, WrittenOut
  <2> QED
    BY <2>2 DEF OnlySubmittedData, Written
<1> QED
  BY <1>1, Inductive, MemInductive, PTL

-----------------------------------------------------------------------------
(***************************************************************************)
(* The stream.  Samples are numbered from 1 in the order of their adds, and *)
(* frames from 1 in the order testFormat queues them: frame j must hold the *)
(* FrameNodes samples after the first FrameNodes * (j - 1).                 *)
(***************************************************************************)
One(b) == IF b THEN 1 ELSE 0

\* initHjkUSBXfer makes the frame a whole number of nodes (NodesAlwaysFit of
\* WaveDataFormat_proofs); otherwise no frame is ever filled.
Divides == FrameWords = chNum * FrameNodes

FramesFit ==
  fpc \in {"isFull", "add"} \/ outRQue.num > 0 \/ opc # "poll" \/ sent # <<>> => Divides

\* The buffer testFormat works on is nobody else's.
Apart ==
  Formatting =>
    /\ \A i \in 1 .. inRQue.num : InSeq[i] # nodeInbuf
    /\ \A c \in Caller : cpc[c] \in {"copying", "add"} => inRQue.head # nodeInbuf

Taken  == Enqueued - inRQue.num                    \* nodes testFormat has pulled
Flying == One(opc = "begin" \/ xfer = "pending")   \* frames on their way out of testOut
Pulled == Len(sent) + dropped + Flying             \* frames testOut has pulled
Added  == Pulled + outRQue.num                     \* frames testFormat has queued

FrameOf(j) == [k \in 0 .. FrameNodes - 1 |-> Bits(FrameNodes * (j - 1) + 1 + k)]

InputInOrder ==
  /\ \A i \in 1 .. inRQue.num : inMem[InSeq[i]] = Raw(Taken + i)
  /\ fpc = "split" => inMem[nodeInbuf] = Raw(Taken)
  /\ fpc = "transpose" => group = Raw(Taken)
  /\ fpc = "store" => inMem[nodeInbuf] = Bits(Taken)
  /\ \A c \in Caller : /\ cpc[c] = "copying" => inMem[inRQue.head] = Torn
                       /\ cpc[c] = "add" => inMem[inRQue.head] = Raw(submitted)

OutputInOrder ==
  /\ Flying = 1 => outMem[nodeOutbuf] = FrameOf(Pulled)
  /\ \A i \in 1 .. outRQue.num : outMem[OutSeq[i]] = FrameOf(Pulled + i)
  /\ \A k \in 0 .. Filled - 1 : outMem[nodeOut][k] = Bits(FrameNodes * Added + 1 + k)

Counted == Taken = FrameNodes * Added + Filled + One(Formatting)

SentSoFar ==
  /\ Intact(sent)
  /\ sent # <<>> =>
       sent[Len(sent)][0].sample + FrameNodes <= FrameNodes * (Len(sent) + dropped) + 1

StreamInv ==
  /\ FramesFit
  /\ ~overrun => /\ Apart /\ InputInOrder
                 /\ Divides => OutputInOrder /\ Counted /\ SentSoFar

-----------------------------------------------------------------------------
LEMMA FramesFitKept ==
  ASSUME IInv, FillLevel, XferPhase, FramesFit, [Next]_vars
  PROVE  FramesFit'
<1> USE DEF FramesFit
<1>0. index \in 0 .. FrameWords /\ outRQue.num \in 0 .. OutLen
  BY OutOwnRing DEF IInv, TypeOK, RingsOwn
<1>1. ASSUME NEW c \in Caller, Call(c) \/ QueueBufStart(c) PROVE FramesFit'
  BY <1>1, CallerFrame DEF formatVars, outVars, Divides, FrameNodes
<1>2. CASE FormatPoll
  <2>1. ASSUME FrameFull PROVE Divides
    <3> DEFINE q == index \div chNum
    <3>1. q \in Nat /\ index = chNum * q
      BY <1>0, FrameSize DEF FillLevel
    <3> HIDE DEF q
    <3>2. FrameWords = chNum * q
      BY <1>0, <2>1, <3>1, FrameSize DEF FrameFull
    <3>3. q = FrameNodes
      BY <3>1, <3>2, FrameSize DEF FrameNodes
    <3> QED
      BY <3>2, <3>3 DEF Divides
  <2> QED
    BY <1>2, <2>1 DEF FormatPoll, outVars, Divides, FrameNodes
<1>3. CASE FormatPull \/ FormatSplit \/ FormatTranspose \/ FormatStore \/ FormatIsFull
  BY <1>3 DEF FormatPull, FormatSplit, FormatTranspose, FormatStore, FormatIsFull, outVars,
              Divides, FrameNodes
<1>4. CASE FormatAdd
  BY <1>4 DEF FormatAdd, Divides, FrameNodes
<1>5. CASE OutPull
  <2>1. outRQue.num > 0
    BY <1>0, <1>5 DEF OutPull, Out!isEmpty
  <2> QED
    BY <2>1 DEF Divides, FrameNodes
<1>6. CASE OutBegin \/ OutWait \/ OutAbort \/ OutFinish \/ UsbFail \/ UNCHANGED vars
  BY <1>6 DEF OutBegin, OutWait, OutAbort, OutFinish, UsbFail, XferPhase, vars, formatVars, outVars,
              Divides, FrameNodes
<1>7. CASE UsbComplete
  BY <1>7 DEF UsbComplete, XferPhase, formatVars, Divides, FrameNodes
<1> QED
  BY <1>1, <1>2, <1>3, <1>4, <1>5, <1>6, <1>7 DEF Next, TestFormat, TestOut

\* overrun is never reset, and a step that leaves it FALSE has written no buffer
\* in use.
LEMMA OverrunStays == [Next]_vars /\ ~overrun' => ~overrun
BY DEF Next, vars, QueueBufStart, TestFormat, TestOut, Call, Enter, GetHead, CopyBegin, CopyEnd,
       AddIn, Leave, FormatPoll, FormatPull, FormatSplit, FormatTranspose, FormatStore,
       FormatIsFull, FormatAdd, OutPull, OutBegin, UsbComplete, UsbFail, OutWait,
       OutAbort, OutFinish, history

LEMMA QueuedSeq ==
  /\ InQueued = {InSeq[i] : i \in 1 .. inRQue.num}
  /\ OutQueued = {OutSeq[i] : i \in 1 .. outRQue.num}
BY DEF InQueued, In!Queued, InSeq, In!Contents, OutQueued, Out!Queued, OutSeq, Out!Contents

\* Without an overrun the ring has room for the node a caller is copying.
LEMMA RoomForCopy ==
  ASSUME IInv, ~overrun, NEW c \in Caller, cpc[c] \in {"copying", "add"}
  PROVE  ~In!isFull(inRQue)
BY DEF IInv, SeenFull

LEMMA ApartKept ==
  ASSUME IInv, ~overrun => Apart, [Next]_vars, ~overrun'
  PROVE  Apart'
<1> USE DEF Apart
<1>0. Apart /\ ~overrun
  BY OverrunStays
<1>1. /\ InP!Own(inRQue) /\ inRQue.num \in 0 .. InLen
      /\ cpc \in [Caller -> {"idle", "lock", "getHead", "memcpy", "copying", "add", "release"}]
  BY InOwnRing DEF IInv, TypeOK, RingsOwn
<1>2. ASSUME NEW c \in Caller, Call(c) \/ QueueBufStart(c) PROVE Apart'
  <2>1. UNCHANGED formatVars
    BY <1>2, CallerFrame
  <2>2. CASE Call(c) \/ Enter(c) \/ GetHead(c) \/ CopyEnd(c) \/ Leave(c)
    BY <1>0, <1>1, <2>1, <2>2 DEF Call, Enter, GetHead, CopyEnd, Leave, formatVars, Formatting, InSeq
  <2>3. CASE CopyBegin(c)
    <3>1. Formatting => inRQue.head # nodeInbuf
      BY <2>3, CopyPlace DEF CopyBegin, InBusy
    <3> QED
      BY <1>0, <1>1, <2>1, <2>3, <3>1 DEF CopyBegin, formatVars, Formatting, InSeq
  <2>4. CASE AddIn(c)
    <3>1. ~In!isFull(inRQue) /\ (Formatting => inRQue.head # nodeInbuf)
      BY <1>0, <2>4, RoomForCopy DEF AddIn
    <3>2. inRQue'.num = inRQue.num + 1 /\ InSeq'[inRQue'.num] = inRQue.head
      BY <2>4, <3>1, AddInRing
    <3>3. \A i \in 1 .. inRQue.num : InSeq'[i] = InSeq[i]
      BY <2>4, <3>1, AddInRing
    <3>4. \A i \in 1 .. inRQue'.num : i \in 1 .. inRQue.num \/ i = inRQue'.num
      BY <1>1, <3>2
    <3>5. \A d \in Caller : cpc'[d] \notin {"copying", "add"}
      BY <1>1, <2>4, CopyPlace DEF AddIn, Holding
    <3> QED
      BY <1>0, <2>1, <3>1, <3>2, <3>3, <3>4, <3>5 DEF formatVars, Formatting
  <2> QED
    BY <1>2, <2>2, <2>3, <2>4 DEF QueueBufStart
<1>3. CASE FormatPull
  <2>1. /\ inRQue'.num = inRQue.num - 1 /\ inRQue'.head = inRQue.head
        /\ inRQue.num \in 1 .. InLen /\ nodeInbuf' = InSeq[1]
        /\ \A i \in 1 .. inRQue'.num : InSeq'[i] = InSeq[i + 1]
    BY <1>3, FormatPullRing
  <2>2. \A i, j \in 1 .. inRQue.num : InSeq[i] = InSeq[j] => i = j
    BY <1>1, InQueue DEF InSeq
  <2>3. \A i \in 1 .. inRQue'.num : InSeq'[i] # nodeInbuf'
    <3>1. \A i \in 1 .. inRQue'.num : i + 1 \in 1 .. inRQue.num /\ i + 1 # 1
      BY <2>1
    <3>2. 1 \in 1 .. inRQue.num
      BY <2>1
    <3> QED
      BY <2>1, <2>2, <3>1, <3>2
  <2>4. ASSUME NEW c \in Caller, cpc[c] \in {"copying", "add"} PROVE inRQue'.head # nodeInbuf'
    <3>1. \A i \in 1 .. inRQue.num : InSeq[i] # inRQue.head
      BY <1>0, <1>1, <2>4, RoomForCopy, InQueue DEF InSeq
    <3> QED
      BY <2>1, <3>1
  <2> QED
    BY <1>3, <2>3, <2>4 DEF FormatPull, callerVars
<1>4. CASE FormatPoll \/ FormatSplit \/ FormatTranspose \/ FormatStore \/ FormatIsFull \/ FormatAdd
  BY <1>0, <1>4 DEF FormatPoll, FormatSplit, FormatTranspose, FormatStore, FormatIsFull, FormatAdd,
                    callerVars, Formatting, InSeq
<1>5. CASE TestOut \/ UsbComplete \/ UsbFail \/ UNCHANGED vars
  <2>1. UNCHANGED <<inRQue, callerVars, formatVars>>
    BY <1>5, OutFrame DEF vars
  <2> QED
    BY <1>0, <2>1 DEF callerVars, formatVars, Formatting, InSeq
<1> QED
  BY <1>2, <1>3, <1>4, <1>5 DEF Next, TestFormat

-----------------------------------------------------------------------------
\* Enqueued counts the adds: it moves when one is made and at no other step.
PreAdd == {c \in Caller : cpc[c] \in {"getHead", "memcpy", "copying", "add"}}

LEMMA PreAddFinite == IsFiniteSet(PreAdd) /\ Cardinality(PreAdd) \in Nat
<1>1. PreAdd \subseteq Caller
  BY DEF PreAdd
<1>2. IsFiniteSet(PreAdd)
  BY <1>1, CallerAssumption, FS_Subset
<1> QED
  BY <1>2, FS_CardinalityType

LEMMA EnqueuedNumber == ASSUME IInv PROVE Enqueued \in Int
BY PreAddFinite, SizesAssumption DEF Enqueued, PreAdd, IInv, TypeOK

LEMMA EnqueuedStep ==
  ASSUME IInv, [Next]_vars
  PROVE  /\ Enqueued \in Int
         /\ (\E c \in Caller : AddIn(c)) => Enqueued' = Enqueued + 1
         /\ ~(\E c \in Caller : AddIn(c)) => Enqueued' = Enqueued
<1>0. /\ Enqueued = submitted - Cardinality(PreAdd) /\ Enqueued' = submitted' - Cardinality(PreAdd')
      /\ submitted \in Int /\ Cardinality(PreAdd) \in Nat /\ IsFiniteSet(PreAdd)
      /\ cpc \in [Caller -> {"idle", "lock", "getHead", "memcpy", "copying", "add", "release"}]
  BY PreAddFinite, SizesAssumption DEF Enqueued, PreAdd, IInv, TypeOK
<1>1. ASSUME NEW c \in Caller, AddIn(c) PROVE Enqueued' = Enqueued + 1
  <2>1. PreAdd' = PreAdd \ {c} /\ c \in PreAdd /\ submitted' = submitted
    BY <1>0, <1>1 DEF AddIn, PreAdd
  <2>2. Cardinality(PreAdd') = Cardinality(PreAdd) - 1
    BY <1>0, <2>1, FS_RemoveElement
  <2> QED
    BY <1>0, <2>1, <2>2
<1>2. ASSUME NEW c \in Caller, Enter(c) PROVE Enqueued' = Enqueued
  <2>1. PreAdd' = PreAdd \cup {c} /\ c \notin PreAdd /\ submitted' = submitted + 1
    BY <1>0, <1>2 DEF Enter, PreAdd
  <2>2. Cardinality(PreAdd') = Cardinality(PreAdd) + 1
    BY <1>0, <2>1, FS_AddElement
  <2> QED
    BY <1>0, <2>1, <2>2
<1>3. ASSUME NEW c \in Caller,
             Call(c) \/ GetHead(c) \/ CopyBegin(c) \/ CopyEnd(c) \/ Leave(c)
      PROVE  Enqueued' = Enqueued
  <2>1. PreAdd' = PreAdd /\ submitted' = submitted
    BY <1>0, <1>3 DEF Call, GetHead, CopyBegin, CopyEnd, Leave, PreAdd
  <2> QED
    BY <1>0, <2>1
<1>4. ASSUME TestFormat \/ TestOut \/ UsbComplete \/ UsbFail \/ UNCHANGED vars PROVE Enqueued' = Enqueued
  <2>1. UNCHANGED callerVars
    BY <1>4, FormatFrame, OutFrame DEF vars
  <2> QED
    BY <2>1 DEF callerVars, Enqueued
<1>5. Enqueued \in Int
  BY <1>0
<1>6. ASSUME ~(\E c \in Caller : AddIn(c)) PROVE Enqueued' = Enqueued
  BY <1>2, <1>3, <1>4, <1>6 DEF Next, QueueBufStart
<1> QED
  BY <1>1, <1>5, <1>6

\* The sample a caller is about to add is the next one.
LEMMA EnqueuedAtAdd ==
  ASSUME IInv, NEW c \in Caller, cpc[c] = "add"
  PROVE  submitted = Enqueued + 1
<1>1. PreAdd = {c}
  BY CopyPlace DEF PreAdd, Holding
<1>2. Cardinality(PreAdd) = 1
  BY <1>1, FS_Singleton
<1>3. Enqueued = submitted - Cardinality(PreAdd) /\ submitted \in Int
  BY SizesAssumption DEF Enqueued, PreAdd, IInv, TypeOK
<1> QED
  BY <1>2, <1>3

LEMMA TakenStep ==
  ASSUME IInv, [Next]_vars, ~overrun'
  PROVE  /\ Taken \in Int
         /\ FormatPull => Taken' = Taken + 1
         /\ ~FormatPull => Taken' = Taken
<1>0. Enqueued \in Int /\ inRQue.num \in 0 .. InLen /\ ~overrun
  BY EnqueuedStep, OverrunStays, InOwnRing DEF IInv, RingsOwn
<1>1. ASSUME NEW c \in Caller, AddIn(c) PROVE Taken' = Taken /\ ~FormatPull
  <2>1. ~In!isFull(inRQue)
    BY <1>0, <1>1, RoomForCopy DEF AddIn
  <2>2. inRQue'.num = inRQue.num + 1
    BY <1>1, <2>1, AddInRing
  <2>3. Enqueued' = Enqueued + 1
    BY <1>1, EnqueuedStep
  <2>4. ~FormatPull
    BY <1>1 DEF AddIn, FormatPull, formatVars
  <2> QED
    BY <1>0, <2>2, <2>3, <2>4 DEF Taken
<1>2. ASSUME FormatPull PROVE Taken' = Taken + 1
  <2>1. inRQue'.num = inRQue.num - 1
    BY <1>2, FormatPullRing
  <2>2. Enqueued' = Enqueued
    BY <1>1, <1>2, EnqueuedStep
  <2> QED
    BY <1>0, <2>1, <2>2 DEF Taken
<1>3. ASSUME ~FormatPull, ~(\E c \in Caller : AddIn(c)) PROVE Taken' = Taken
  <2>1. inRQue' = inRQue
    BY <1>3 DEF Next, vars, QueueBufStart, TestFormat, TestOut, Call, Enter, GetHead, CopyBegin,
       CopyEnd, Leave, FormatPoll, FormatSplit, FormatTranspose, FormatStore, FormatIsFull,
       FormatAdd, OutPull, OutBegin, UsbComplete, UsbFail, OutWait, OutAbort, OutFinish
  <2>2. Enqueued' = Enqueued
    BY <1>3, EnqueuedStep
  <2> QED
    BY <2>1, <2>2 DEF Taken
<1>4. Taken \in Int
  BY <1>0 DEF Taken
<1> QED
  BY <1>1, <1>2, <1>3, <1>4

-----------------------------------------------------------------------------
\* The input side: the queue holds the samples after those taken, in order, and so
\* does the buffer testFormat works on.  What is written is apart from what is queued.
LEMMA InputKept ==
  ASSUME IInv, ~overrun => Apart /\ InputInOrder, [Next]_vars, ~overrun'
  PROVE  InputInOrder'
<1>0. /\ InP!Own(inRQue) /\ nodeInbuf \in 0 .. InLen - 1 /\ inRQue.head \in 0 .. InLen - 1
      /\ inRQue.num \in 0 .. InLen /\ \A i \in 1 .. inRQue.num : InSeq[i] \in 0 .. InLen - 1
      /\ cpc \in [Caller -> {"idle", "lock", "getHead", "memcpy", "copying", "add", "release"}]
      /\ inMem \in [0 .. InLen - 1 -> Cell] /\ ~overrun /\ Taken \in Int
  <2>1. InP!Own(inRQue)
    BY DEF IInv, RingsOwn
  <2> QED
    BY <2>1, InQueue, OverrunStays, TakenStep DEF IInv, TypeOK, InSeq
<1>1. Apart /\ InputInOrder
  BY <1>0
<1> USE DEF InputInOrder
<1>2. ASSUME NEW c \in Caller, Call(c) \/ QueueBufStart(c) PROVE InputInOrder'
  <2>1. UNCHANGED formatVars /\ Taken' = Taken
    <3>1. UNCHANGED formatVars /\ ~FormatPull
      BY <1>2, CallerFrame DEF FormatPull, formatVars
    <3> QED
      BY <3>1, TakenStep
  <2>2. CASE Call(c) \/ Enter(c) \/ GetHead(c) \/ Leave(c)
    <3>1. inRQue' = inRQue /\ inMem' = inMem
      BY <2>2 DEF Call, Enter, GetHead, Leave
    <3>2. \A d \in Caller : cpc'[d] \in {"copying", "add"} => cpc'[d] = cpc[d]
      BY <1>0, <2>2 DEF Call, Enter, GetHead, Leave
    <3>3. \A d \in Caller : cpc'[d] = "add" => submitted' = submitted
      <4>1. CASE Enter(c)
        <5>1. \A d \in Caller : cpc[d] \notin Holding
          BY <4>1, CallerAssumption DEF Enter, MutexFree, IInv, MutexHeld
        <5> QED
          BY <3>2, <5>1 DEF Holding
      <4> QED
        BY <2>2, <4>1 DEF Call, GetHead, Leave
    <3> QED
      BY <1>1, <2>1, <3>1, <3>2, <3>3 DEF InSeq, formatVars
  <2>3. CASE CopyBegin(c)
    <3> DEFINE h == inRQue.head
    <3>1. inMem' = [inMem EXCEPT ![h] = Torn] /\ inRQue' = inRQue /\ h \notin InBusy
      BY <2>3, CopyPlace DEF CopyBegin
    <3>2. \A i \in 1 .. inRQue.num : InSeq[i] # h
      BY <3>1, QueuedSeq DEF InBusy
    <3>3. Formatting => nodeInbuf # h
      BY <3>1 DEF InBusy
    <3>4. \A b \in 0 .. InLen - 1 : b # h => inMem'[b] = inMem[b]
      BY <1>0, <3>1
    <3>5. inMem'[h] = Torn
      BY <1>0, <3>1
    <3>6. \A d \in Caller : cpc'[d] # "add"
      BY <1>0, <2>3, CopyPlace DEF CopyBegin, Holding
    <3> HIDE DEF h
    <3>7. \A i \in 1 .. inRQue.num : inMem'[InSeq[i]] = Raw(Taken + i)
      BY <1>0, <1>1, <3>2, <3>4
    <3>8. \A d \in Caller : cpc'[d] = "copying" => inMem'[h] = Torn
      BY <3>5
    <3>9. Formatting => inMem'[nodeInbuf] = inMem[nodeInbuf]
      BY <1>0, <3>3, <3>4
    <3> QED
      BY <1>1, <2>1, <3>1, <3>6, <3>7, <3>8, <3>9 DEF h, InSeq, formatVars, Formatting
  <2>4. CASE CopyEnd(c)
    <3> DEFINE h == inRQue.head
    <3>1. inRQue' = inRQue /\ inRQue.buf[nodeIn] = h /\ submitted' = submitted
      BY <2>4, CopyPlace DEF CopyEnd
    <3>2. inMem' = [inMem EXCEPT ![h] = Raw(submitted)]
      <4>1. inMem[h] = Torn
        BY <1>1, <2>4 DEF CopyEnd
      <4> QED
        BY <2>4, <3>1, <4>1 DEF CopyEnd
    <3>3. \A i \in 1 .. inRQue.num : InSeq[i] # h
      BY <1>0, <2>4, RoomForCopy, InQueue DEF CopyEnd, InSeq
    <3>4. Formatting => nodeInbuf # h
      BY <1>1, <2>4 DEF CopyEnd, Apart
    <3>5. \A b \in 0 .. InLen - 1 : b # h => inMem'[b] = inMem[b]
      BY <1>0, <3>2
    <3>6. inMem'[h] = Raw(submitted)
      BY <1>0, <3>2
    <3>7. \A d \in Caller : cpc'[d] # "copying"
      BY <1>0, <2>4, CopyPlace DEF CopyEnd, Holding
    <3> HIDE DEF h
    <3>8. \A i \in 1 .. inRQue.num : inMem'[InSeq[i]] = Raw(Taken + i)
      BY <1>0, <1>1, <3>3, <3>5
    <3>9. Formatting => inMem'[nodeInbuf] = inMem[nodeInbuf]
      BY <1>0, <3>4, <3>5
    <3> QED
      BY <1>1, <2>1, <3>1, <3>6, <3>7, <3>8, <3>9 DEF h, InSeq, formatVars, Formatting
  <2>5. CASE AddIn(c)
    <3>1. ~In!isFull(inRQue) /\ inMem[inRQue.head] = Raw(submitted) /\ inMem' = inMem
      BY <1>0, <1>1, <2>5, RoomForCopy DEF AddIn
    <3>2. inRQue'.num = inRQue.num + 1 /\ InSeq'[inRQue'.num] = inRQue.head
      BY <2>5, <3>1, AddInRing
    <3>3. \A i \in 1 .. inRQue.num : InSeq'[i] = InSeq[i]
      BY <2>5, <3>1, AddInRing
    <3>4. Taken + inRQue'.num = submitted
      <4>1. submitted = Enqueued + 1 /\ Enqueued \in Int
        BY <2>5, EnqueuedAtAdd, EnqueuedStep DEF AddIn
      <4> QED
        BY <1>0, <3>2, <4>1 DEF Taken
    <3>5. \A i \in 1 .. inRQue'.num : i \in 1 .. inRQue.num \/ i = inRQue'.num
      BY <1>0, <3>2
    <3>6. \A d \in Caller : cpc'[d] \notin {"copying", "add"}
      BY <1>0, <2>5, CopyPlace DEF AddIn, Holding
    <3>7. \A i \in 1 .. inRQue'.num : inMem[InSeq'[i]] = Raw(Taken + i)
      BY <1>1, <3>1, <3>2, <3>3, <3>4, <3>5
    <3> QED
      BY <1>1, <2>1, <3>1, <3>6, <3>7 DEF formatVars
  <2> QED
    BY <1>2, <2>2, <2>3, <2>4, <2>5 DEF QueueBufStart
<1>3. CASE TestFormat
  <2>1. UNCHANGED callerVars
    BY <1>3, FormatFrame
  <2>2. CASE FormatPull
    <3>1. /\ inRQue'.num = inRQue.num - 1 /\ inRQue'.head = inRQue.head
          /\ inRQue.num \in 1 .. InLen /\ nodeInbuf' = InSeq[1]
          /\ \A i \in 1 .. inRQue'.num : InSeq'[i] = InSeq[i + 1]
      BY <2>2, FormatPullRing
    <3>2. Taken' = Taken + 1 /\ inMem' = inMem /\ fpc' = "split"
      BY <2>2, TakenStep DEF FormatPull
    <3>3. ASSUME NEW i \in 1 .. inRQue'.num PROVE inMem[InSeq'[i]] = Raw(Taken' + i)
      <4>1. i + 1 \in 1 .. inRQue.num /\ Taken' + i = Taken + (i + 1)
        BY <1>0, <3>1, <3>2
      <4> QED
        BY <1>1, <3>1, <4>1
    <3>4. inMem[nodeInbuf'] = Raw(Taken')
      BY <1>1, <3>1, <3>2
    <3> QED
      BY <1>1, <2>1, <3>1, <3>2, <3>3, <3>4 DEF callerVars
  <2>3. CASE FormatTranspose
    <3>1. /\ inMem' = [inMem EXCEPT ![nodeInbuf] = Transposed(group)] /\ inRQue' = inRQue
          /\ nodeInbuf' = nodeInbuf /\ fpc' = "store" /\ Formatting
      BY <2>3 DEF FormatTranspose, Formatting
    <3>2. Taken' = Taken
      BY <2>3, TakenStep DEF FormatTranspose, FormatPull
    <3>3. Transposed(group) = Bits(Taken)
      BY <1>1, <2>3, TransposedWritten DEF FormatTranspose
    <3>4. inMem'[nodeInbuf] = Bits(Taken)
      BY <1>0, <3>1, <3>3
    <3>5. \A b \in 0 .. InLen - 1 : b # nodeInbuf => inMem'[b] = inMem[b]
      BY <1>0, <3>1
    <3>6. \A i \in 1 .. inRQue.num : inMem'[InSeq[i]] = Raw(Taken + i)
      BY <1>0, <1>1, <3>1, <3>5 DEF Apart
    <3>7. \A c \in Caller : cpc[c] \in {"copying", "add"} => inMem'[inRQue.head] = inMem[inRQue.head]
      BY <1>0, <1>1, <3>1, <3>5 DEF Apart
    <3> QED
      BY <1>1, <2>1, <3>1, <3>2, <3>4, <3>6, <3>7 DEF callerVars, InSeq
  <2>4. CASE FormatPoll \/ FormatSplit \/ FormatStore \/ FormatIsFull \/ FormatAdd
    <3>1. Taken' = Taken
      BY <2>4, TakenStep DEF FormatPoll, FormatSplit, FormatStore, FormatIsFull, FormatAdd, FormatPull
    <3> QED
      BY <1>1, <2>1, <2>4, <3>1 DEF FormatPoll, FormatSplit, FormatStore, FormatIsFull, FormatAdd,
                                    callerVars, InSeq
  <2> QED
    BY <1>3, <2>2, <2>3, <2>4 DEF TestFormat
<1>4. CASE TestOut \/ UsbComplete \/ UsbFail \/ UNCHANGED vars
  <2>1. UNCHANGED <<inRQue, inMem, callerVars, formatVars>>
    BY <1>4, OutFrame DEF vars
  <2>2. Taken' = Taken
    BY <2>1 DEF callerVars, Taken, Enqueued
  <2> QED
    BY <1>1, <2>1, <2>2 DEF callerVars, formatVars, InSeq
<1> QED
  BY <1>2, <1>3, <1>4 DEF Next

-----------------------------------------------------------------------------
\* The output side.  A frame changes hands by a pull, and is gone when the device has
\* it or the transfer is given up for; only FormatAdd makes a new one.
LEMMA FrameNumbers ==
  ASSUME IInv, XferPhase
  PROVE  /\ Flying \in {0, 1} /\ Len(sent) \in Nat /\ dropped \in Nat /\ outRQue.num \in Nat
         /\ Pulled \in Nat /\ Added \in Nat
         /\ Flying = 1 => Transferring
         /\ opc = "poll" => Flying = 0
<1>1. /\ sent \in Seq([0 .. FrameNodes - 1 -> Cell]) /\ dropped \in Nat
      /\ opc \in {"poll", "begin", "wait", "abort", "finish", "dead"}
  BY DEF IInv, TypeOK
<1>2. outRQue.num \in Nat
  <2>1. outRQue.num \in 0 .. OutLen
    BY OutOwnRing DEF IInv, RingsOwn
  <2> QED
    BY <2>1
<1>3. Flying \in {0, 1} /\ (Flying = 1 => Transferring) /\ (opc = "poll" => Flying = 0)
  BY <1>1 DEF Flying, One, Transferring, XferPhase
<1>4. Len(sent) \in Nat
  BY <1>1
<1> QED
  BY <1>1, <1>2, <1>3, <1>4 DEF Pulled, Added

LEMMA PulledStep ==
  ASSUME IInv, XferPhase, [Next]_vars
  PROVE  /\ OutPull => Pulled' = Pulled + 1
         /\ ~OutPull => /\ Pulled' = Pulled
                        /\ Flying' = 1 => Flying = 1 /\ nodeOutbuf' = nodeOutbuf
<1>0. /\ sent \in Seq([0 .. FrameNodes - 1 -> Cell]) /\ dropped \in Nat /\ Len(sent) \in Nat
      /\ opc \in {"poll", "begin", "wait", "abort", "finish", "dead"}
  BY FrameNumbers DEF IInv, TypeOK
<1>1. ASSUME OutPull PROVE Pulled' = Pulled + 1
  <2>1. Flying = 0 /\ Flying' = 1 /\ sent' = sent /\ dropped' = dropped
    BY <1>1 DEF OutPull, Flying, One, XferPhase
  <2> QED
    BY <1>0, <2>1 DEF Pulled
<1>2. ASSUME NEW c \in Caller, Call(c) \/ QueueBufStart(c)
      PROVE  Pulled' = Pulled /\ Flying' = Flying /\ nodeOutbuf' = nodeOutbuf
  BY <1>2, CallerFrame DEF outVars, Pulled, Flying
<1>3. ASSUME TestFormat \/ UNCHANGED vars
      PROVE  Pulled' = Pulled /\ Flying' = Flying /\ nodeOutbuf' = nodeOutbuf
  BY <1>3, FormatFrame DEF vars, outVars, Pulled, Flying
<1>4. CASE OutBegin
  <2>1. Flying = 1 /\ nodeOutbuf' = nodeOutbuf /\ sent' = sent
    BY <1>4 DEF OutBegin, Flying, One
  <2>2. \/ Flying' = 1 /\ dropped' = dropped
        \/ Flying' = 0 /\ dropped' = dropped + 1
    BY <1>4 DEF OutBegin, Flying, One, XferPhase
  <2>3. Pulled' = Pulled
    BY <1>0, <2>1, <2>2 DEF Pulled
  <2> QED
    BY <1>4, <2>1, <2>3 DEF OutBegin, OutPull
<1>5. CASE UsbComplete
  <2>1. Flying = 1 /\ Flying' = 0 /\ dropped' = dropped /\ nodeOutbuf' = nodeOutbuf
    BY <1>0, <1>5 DEF UsbComplete, Flying, One, XferPhase
  <2>2. Len(sent') = Len(sent) + 1
    BY <1>0, <1>5 DEF UsbComplete
  <2>3. Pulled' = Pulled
    BY <1>0, <2>1, <2>2 DEF Pulled
  <2> QED
    BY <1>0, <1>5, <2>1, <2>3 DEF UsbComplete, OutPull, XferPhase
<1>6. CASE OutWait
  <2>1. Flying' = Flying /\ sent' = sent /\ dropped' = dropped /\ nodeOutbuf' = nodeOutbuf
    BY <1>6 DEF OutWait, Flying, One
  <2> QED
    BY <1>6, <2>1 DEF OutWait, OutPull, Pulled
<1>7. CASE UsbFail \/ OutAbort
  <2>1. sent' = sent /\ nodeOutbuf' = nodeOutbuf /\ Flying' = 0
    BY <1>0, <1>7 DEF UsbFail, OutAbort, Flying, One, XferPhase
  <2>2. \/ Flying = 0 /\ dropped' = dropped
        \/ Flying = 1 /\ dropped' = dropped + 1
    BY <1>7 DEF UsbFail, OutAbort, Flying, One
  <2>3. Pulled' = Pulled
    BY <1>0, <2>1, <2>2 DEF Pulled
  <2>4. ~OutPull
    BY <1>0, <1>7 DEF UsbFail, OutAbort, OutPull, XferPhase
  <2> QED
    BY <2>1, <2>3, <2>4
<1>8. CASE OutFinish
  <2>1. Flying = 0 /\ Flying' = 0 /\ sent' = sent /\ dropped' = dropped /\ nodeOutbuf' = nodeOutbuf
    BY <1>8 DEF OutFinish, Flying, One, XferPhase
  <2> QED
    BY <1>8, <2>1 DEF OutFinish, OutPull, Pulled
<1> QED
  BY <1>1, <1>2, <1>3, <1>4, <1>5, <1>6, <1>7, <1>8 DEF Next, TestOut

LEMMA AddedStep ==
  ASSUME IInv, MemInv, [Next]_vars, ~overrun'
  PROVE  /\ FormatAdd => Added' = Added + 1
         /\ ~FormatAdd => Added' = Added
<1>0. Pulled \in Nat /\ outRQue.num \in Nat /\ ~overrun
  BY FrameNumbers, OverrunStays DEF MemInv
<1>1. ASSUME FormatAdd PROVE Added' = Added + 1
  <2>1. ~Out!isFull(outRQue)
    BY <1>0, <1>1 DEF FormatAdd, IInv, SeenFull, MemInv, FillLevel
  <2>2. outRQue'.num = outRQue.num + 1
    BY <1>1, <2>1, FormatAddRing
  <2>3. Pulled' = Pulled
    BY <1>1 DEF FormatAdd, outVars, Pulled, Flying
  <2> QED
    BY <1>0, <2>2, <2>3 DEF Added
<1>2. ASSUME OutPull PROVE Added' = Added /\ ~FormatAdd
  <2>1. outRQue'.num = outRQue.num - 1 /\ Pulled' = Pulled + 1
    BY <1>2, OutPullRing, PulledStep DEF MemInv
  <2>2. ~FormatAdd
    BY <1>2 DEF OutPull, FormatAdd, outVars
  <2> QED
    BY <1>0, <2>1, <2>2 DEF Added
<1>3. ASSUME ~FormatAdd, ~OutPull PROVE Added' = Added
  <2>1. outRQue' = outRQue
    BY <1>3 DEF Next, vars, QueueBufStart, TestFormat, TestOut, Call, Enter, GetHead, CopyBegin,
       CopyEnd, AddIn, Leave, FormatPoll, FormatPull, FormatSplit, FormatTranspose, FormatStore,
       FormatIsFull, OutBegin, UsbComplete, UsbFail, OutWait, OutAbort, OutFinish
  <2>2. Pulled' = Pulled
    BY <1>3, PulledStep DEF MemInv
  <2> QED
    BY <2>1, <2>2 DEF Added
<1> QED
  BY <1>1, <1>2, <1>3

\* When nodes fill the frame, none of them is dropped.
LEMMA NodeFits ==
  ASSUME IInv, FillLevel, Divides, fpc = "store"
  PROVE  Fits
<1> DEFINE q == index \div chNum
<1>1. index \in 0 .. FrameWords /\ index < FrameWords
  BY DEF IInv, TypeOK, FillLevel
<1>2. q \in Nat /\ index = chNum * q
  BY <1>1, FrameSize DEF FillLevel
<1> HIDE DEF q
<1>3. q < FrameNodes
  <2>1. ~(FrameNodes <= q)
    <3> SUFFICES ASSUME FrameNodes <= q PROVE FALSE
      OBVIOUS
    <3>1. chNum * FrameNodes <= chNum * q
      BY <1>2, FrameSize
    <3> QED
      BY <1>1, <1>2, <3>1, FrameSize DEF Divides
  <2> QED
    BY <1>2, <2>1, FrameSize
<1>4. chNum * (q + 1) <= FrameWords /\ chNum * (q + 1) = index + chNum
  <2>1. q + 1 \in Nat /\ q + 1 <= FrameNodes
    BY <1>2, <1>3, FrameSize
  <2> QED
    BY <1>2, <2>1, FrameSize
<1> QED
  BY <1>4 DEF Fits

\* Filled moves with the stores and starts again with the add.
LEMMA FilledStep ==
  ASSUME IInv, MemInv, Divides, [Next]_vars
  PROVE  /\ Filled \in 0 .. FrameNodes
         /\ FormatStore => Filled' = Filled + 1
         /\ FormatAdd => Filled = FrameNodes /\ Filled' = 0
         /\ ~FormatStore /\ ~FormatAdd => Filled' = Filled
<1>0. index \in 0 .. FrameWords /\ FillLevel
  BY DEF IInv, TypeOK, MemInv
<1>1. Filled \in 0 .. FrameNodes
  <2> DEFINE q == index \div chNum
  <2>1. q \in Nat /\ chNum * q <= FrameWords
    BY <1>0, FrameSize DEF FillLevel
  <2> HIDE DEF q
  <2>2. q \in 0 .. FrameNodes
    BY <2>1, FrameSize
  <2> QED
    BY <2>2, FrameSize DEF q, Filled
<1>2. ASSUME FormatStore PROVE Filled' = Filled + 1
  BY <1>0, <1>2, NodeFits, StoreCell DEF FormatStore, Filled
<1>3. ASSUME FormatAdd PROVE Filled = FrameNodes /\ Filled' = 0
  BY <1>3, FrameSize DEF FormatAdd, Filled, IInv, SeenFull
<1>4. ASSUME FormatIsFull PROVE Filled' = Filled
  BY <1>0, <1>4 DEF FormatIsFull, FillLevel, Filled, FrameNodes
<1>5. ASSUME ~FormatStore, ~FormatAdd, ~FormatIsFull PROVE Filled' = Filled
  <2>1. index' = index /\ (fpc' = fpc \/ (fpc # "add" /\ fpc' # "add"))
    BY <1>5 DEF Next, vars, QueueBufStart, TestFormat, TestOut, Call, Enter, GetHead, CopyBegin,
       CopyEnd, AddIn, Leave, FormatPoll, FormatPull, FormatSplit, FormatTranspose, OutPull,
       OutBegin, UsbComplete, UsbFail, OutWait, OutAbort, OutFinish, formatVars
  <2> QED
    BY <2>1 DEF Filled
<1> QED
  BY <1>1, <1>2, <1>3, <1>4, <1>5

\* Every node taken is in a frame queued, in the frame being filled, or in the hands
\* of testFormat.
LEMMA CountedKept ==
  ASSUME IInv, MemInv, Divides, Counted, [Next]_vars, ~overrun'
  PROVE  Counted'
<1>0. /\ Taken = FrameNodes * Added + Filled + One(Formatting)
      /\ Taken \in Int /\ Added \in Nat /\ Filled \in Nat /\ FrameNodes \in Nat
  BY TakenStep, FrameNumbers, FilledStep, FrameSize DEF Counted, MemInv
<1> SUFFICES Taken' = FrameNodes * Added' + Filled' + One(Formatting')
  BY DEF Counted, FrameNodes
<1>1. CASE FormatPull
  <2>1. One(Formatting) = 0 /\ One(Formatting') = 1
    BY <1>1 DEF FormatPull, Formatting, One
  <2>2. Taken' = Taken + 1 /\ Added' = Added /\ Filled' = Filled
    BY <1>1, TakenStep, AddedStep, FilledStep DEF FormatPull, FormatAdd, FormatStore
  <2> QED
    BY <1>0, <2>1, <2>2
<1>2. CASE FormatStore
  <2>1. One(Formatting) = 1 /\ One(Formatting') = 0
    BY <1>2 DEF FormatStore, Formatting, One
  <2>2. Taken' = Taken /\ Added' = Added /\ Filled' = Filled + 1
    BY <1>2, TakenStep, AddedStep, FilledStep DEF FormatPull, FormatAdd, FormatStore
  <2> QED
    BY <1>0, <2>1, <2>2
<1>3. CASE FormatAdd
  <2>1. One(Formatting) = 0 /\ One(Formatting') = 0
    BY <1>3 DEF FormatAdd, Formatting, One
  <2>2. Taken' = Taken /\ Added' = Added + 1 /\ Filled = FrameNodes /\ Filled' = 0
    BY <1>3, TakenStep, AddedStep, FilledStep DEF FormatPull, FormatAdd
  <2>3. FrameNodes * (Added + 1) = FrameNodes * Added + FrameNodes
    BY <1>0
  <2> QED
    BY <1>0, <2>1, <2>2, <2>3
<1>4. CASE ~FormatPull /\ ~FormatStore /\ ~FormatAdd
  <2>1. Formatting' <=> Formatting
    BY <1>4 DEF Next, vars, QueueBufStart, TestFormat, TestOut, Call, Enter, GetHead, CopyBegin,
       CopyEnd, AddIn, Leave, FormatPoll, FormatSplit, FormatTranspose, FormatIsFull, OutPull,
       OutBegin, UsbComplete, UsbFail, OutWait, OutAbort, OutFinish, formatVars, Formatting
  <2>3. One(Formatting') = One(Formatting)
    BY <2>1 DEF One
  <2>2. Taken' = Taken /\ Added' = Added /\ Filled' = Filled
    BY <1>4, TakenStep, AddedStep, FilledStep
  <2> QED
    BY <1>0, <2>2, <2>3
<1> QED
  BY <1>1, <1>2, <1>3, <1>4

\* The buffers of the transfer and of outRQue hold the frames that are due, in order,
\* and the frame being filled holds the samples so far: testFormat stores into the head
\* slot's buffer, which without an overrun is neither queued nor being transferred.
LEMMA OutputKept ==
  ASSUME IInv, MemInv, Divides, ~overrun => InputInOrder, OutputInOrder, Counted,
         [Next]_vars, ~overrun'
  PROVE  OutputInOrder'
<1> USE DEF OutputInOrder
<1>0. /\ OutP!Own(outRQue) /\ nodeOut \in 0 .. OutLen - 1 /\ nodeOutbuf \in 0 .. OutLen - 1
      /\ outRQue.num \in 0 .. OutLen /\ \A i \in 1 .. outRQue.num : OutSeq[i] \in 0 .. OutLen - 1
      /\ outMem \in [0 .. OutLen - 1 -> [0 .. FrameNodes - 1 -> Cell]] /\ ~overrun
  <2>1. OutP!Own(outRQue)
    BY DEF IInv, RingsOwn
  <2> QED
    BY <2>1, OutQueue, OverrunStays DEF IInv, TypeOK, OutSeq
<1>1. /\ Flying \in {0, 1} /\ Pulled \in Nat /\ Added \in Nat /\ Filled \in 0 .. FrameNodes
      /\ Added = Pulled + outRQue.num /\ FrameNodes \in Nat /\ FillLevel /\ XferPhase
      /\ Flying = 1 => Transferring
  BY FrameNumbers, FilledStep, FrameSize DEF MemInv, Added
<1>2. ASSUME outRQue' = outRQue, outMem' = outMem, ~OutPull, ~FormatStore, ~FormatAdd,
             nodeOut' = nodeOut \/ Filled = 0
      PROVE  OutputInOrder'
  <2>1. /\ Pulled' = Pulled /\ Added' = Added /\ Filled' = Filled
        /\ Flying' = 1 => Flying = 1 /\ nodeOutbuf' = nodeOutbuf
    BY <1>1, <1>2, PulledStep, AddedStep, FilledStep
  <2>2. OutSeq' = OutSeq /\ FrameOf(Pulled)' = FrameOf(Pulled)
    BY <1>2, <2>1 DEF OutSeq, FrameOf, FrameNodes
  <2>3. \A i \in 1 .. outRQue.num : FrameOf(Pulled + i)' = FrameOf(Pulled + i)
    BY <2>1 DEF FrameOf, FrameNodes
  <2>4. Flying' = 1 => outMem'[nodeOutbuf'] = FrameOf(Pulled)
    BY <1>2, <2>1
  <2>5. \A k \in 0 .. Filled - 1 : outMem[nodeOut'][k] = Bits(FrameNodes * Added + 1 + k)
    BY <1>1, <1>2
  <2> QED
    BY <1>2, <2>1, <2>2, <2>4, <2>5 DEF FrameOf, FrameNodes
<1>3. ASSUME NEW c \in Caller, Call(c) \/ QueueBufStart(c) PROVE OutputInOrder'
  <2>1. UNCHANGED <<outRQue, outMem, formatVars, outVars>>
    BY <1>3, CallerFrame
  <2>2. ~OutPull /\ ~FormatStore /\ ~FormatAdd
    BY <2>1 DEF OutPull, FormatStore, FormatAdd, formatVars, outVars
  <2> QED
    BY <1>2, <2>1, <2>2 DEF formatVars
<1>4. CASE FormatPoll
  <2>1. index = 0 => Filled = 0
    BY <1>4, FrameSize DEF FormatPoll, Filled
  <2> QED
    BY <1>2, <1>4, <2>1 DEF FormatPoll, FillSlot, FormatStore, FormatAdd, OutPull, outVars
<1>5. CASE FormatPull \/ FormatSplit \/ FormatTranspose \/ FormatIsFull
  BY <1>2, <1>5 DEF FormatPull, FormatSplit, FormatTranspose, FormatIsFull, FormatStore, FormatAdd,
                    OutPull, outVars
<1>6. CASE OutBegin \/ OutWait \/ OutAbort \/ OutFinish \/ UsbComplete \/ UsbFail \/ UNCHANGED vars
  <2>1. UNCHANGED <<outRQue, outMem, fpc, nodeOut>>
    BY <1>6 DEF OutBegin, OutWait, OutAbort, OutFinish, UsbComplete, UsbFail, vars, formatVars
  <2>2. ~FormatStore /\ ~FormatAdd
    BY <2>1 DEF FormatStore, FormatAdd
  <2>3. ~OutPull
    BY <1>1, <1>6 DEF OutBegin, OutWait, OutAbort, OutFinish, UsbComplete, UsbFail, vars, OutPull,
                     outVars, XferPhase
  <2> QED
    BY <1>2, <2>1, <2>2, <2>3
<1>7. CASE FormatStore
  <2> DEFINE q == index \div chNum
  <2>1. Fits
    BY <1>1, <1>7, NodeFits DEF FormatStore
  <2>2. /\ nodeOut' = nodeOut /\ nodeOutbuf' = nodeOutbuf /\ outRQue' = outRQue
        /\ fpc = "store" /\ ~FormatAdd /\ ~OutPull /\ ~FormatPull
    BY <1>7 DEF FormatStore, FormatAdd, OutPull, FormatPull, outVars
  <2>3. Pulled' = Pulled /\ Added' = Added /\ Filled' = Filled + 1 /\ (Flying' = 1 => Flying = 1)
    BY <1>1, <1>7, <2>2, PulledStep, AddedStep, FilledStep
  <2>4. /\ nodeOut = outRQue.head /\ q \in 0 .. FrameNodes - 1 /\ q = Filled
        /\ outMem'[nodeOut][q] = inMem[nodeInbuf] /\ nodeOut \notin OutBusy
        /\ \A b \in 0 .. OutLen - 1 : \A k \in 0 .. FrameNodes - 1 :
             b # nodeOut \/ k # q => outMem'[b][k] = outMem[b][k]
    BY <1>1, <1>7, <2>1, <2>2, StoreCell DEF Filled
  <2> HIDE DEF q
  <2>5. inMem[nodeInbuf] = Bits(FrameNodes * Added + 1 + q)
    <3>1. inMem[nodeInbuf] = Bits(Taken)
      BY <1>0, <2>2 DEF InputInOrder
    <3>2. One(Formatting) = 1
      BY <2>2 DEF One, Formatting
    <3>3. Taken = FrameNodes * Added + Filled + 1
      BY <3>2 DEF Counted
    <3>4. FrameNodes * Added + Filled + 1 = FrameNodes * Added + 1 + q
      BY <1>1, <2>4
    <3> QED
      BY <3>1, <3>3, <3>4
  <2>6. outMem' \in [0 .. OutLen - 1 -> [0 .. FrameNodes - 1 -> Cell]]
    BY <1>7, FormatStoreKeeps DEF IInv, TypeOK, FrameNodes
  <2>7. ASSUME NEW b \in 0 .. OutLen - 1, b # nodeOut PROVE outMem'[b] = outMem[b]
    <3>1. outMem[b] \in [0 .. FrameNodes - 1 -> Cell] /\ outMem'[b] \in [0 .. FrameNodes - 1 -> Cell]
      BY <1>0, <2>6
    <3>2. \A k \in 0 .. FrameNodes - 1 : outMem'[b][k] = outMem[b][k]
      BY <2>4, <2>7
    <3> DEFINE D == 0 .. FrameNodes - 1
               f == outMem'[b]
               g == outMem[b]
    <3>3. f \in [D -> Cell] /\ g \in [D -> Cell] /\ \A k \in D : f[k] = g[k]
      BY <3>1, <3>2
    <3> HIDE DEF D, f, g
    <3>4. f = g
      BY <3>3, SameFrame
    <3> QED
      BY <3>4 DEF f, g
  <2>8. Flying = 1 => nodeOutbuf # nodeOut
    BY <1>1, <2>4 DEF OutBusy
  <2>9. \A i \in 1 .. outRQue.num : OutSeq[i] # nodeOut
    BY <2>4, QueuedSeq DEF OutBusy
  <2>10. ASSUME NEW k \in 0 .. Filled' - 1
         PROVE  outMem'[nodeOut][k] = Bits(FrameNodes * Added + 1 + k)
    <3>1. CASE k = q
      BY <2>4, <2>5, <3>1
    <3>2. CASE k # q
      <4>1. k \in 0 .. Filled - 1 /\ k \in 0 .. FrameNodes - 1
        BY <1>1, <2>3, <2>4, <3>2
      <4> QED
        BY <1>0, <2>4, <3>2, <4>1
    <3> QED
      BY <3>1, <3>2
  <2>11. Flying' = 1 => outMem'[nodeOutbuf'] = FrameOf(Pulled)
    BY <1>0, <2>2, <2>3, <2>7, <2>8
  <2>12. \A i \in 1 .. outRQue.num : outMem'[OutSeq[i]] = FrameOf(Pulled + i)
    BY <1>0, <2>7, <2>9
  <2> QED
    BY <2>2, <2>3, <2>10, <2>11, <2>12 DEF OutSeq, FrameOf, FrameNodes
<1>8. CASE FormatAdd
  <2>1. ~Out!isFull(outRQue) /\ nodeOut = outRQue.head
    BY <1>0, <1>1, <1>8, FormatAddRing DEF FormatAdd, IInv, SeenFull, FillLevel
  <2>2. outRQue'.num = outRQue.num + 1 /\ OutSeq'[outRQue'.num] = nodeOut
    BY <1>8, <2>1, FormatAddRing
  <2>3. \A i \in 1 .. outRQue.num : OutSeq'[i] = OutSeq[i]
    BY <1>8, <2>1, FormatAddRing
  <2>4. outMem' = outMem /\ nodeOutbuf' = nodeOutbuf /\ ~OutPull
    BY <1>8 DEF FormatAdd, outVars, OutPull
  <2>5. Pulled' = Pulled /\ (Flying' = 1 => Flying = 1) /\ Filled = FrameNodes /\ Filled' = 0
    BY <1>1, <1>8, <2>4, PulledStep, FilledStep
  <2>6. outMem[nodeOut] = FrameOf(Pulled + outRQue'.num)
    <3>1. FrameNodes * Added = FrameNodes * ((Pulled + outRQue'.num) - 1)
      BY <1>0, <1>1, <2>2
    <3>2. outMem[nodeOut] \in [0 .. FrameNodes - 1 -> Cell]
      BY <1>0
    <3>3. \A k \in 0 .. FrameNodes - 1 :
            outMem[nodeOut][k] = Bits(FrameNodes * ((Pulled + outRQue'.num) - 1) + 1 + k)
      BY <2>5, <3>1
    <3> QED
      BY <3>2, <3>3 DEF FrameOf
  <2>7. \A i \in 1 .. outRQue'.num : i \in 1 .. outRQue.num \/ i = outRQue'.num
    BY <1>0, <2>2
  <2>8. \A i \in 1 .. outRQue'.num : outMem[OutSeq'[i]] = FrameOf(Pulled + i)
    BY <2>2, <2>3, <2>6, <2>7
  <2>9. \A k \in 0 .. Filled' - 1 : FALSE
    BY <2>5
  <2> QED
    BY <2>4, <2>5, <2>8, <2>9 DEF FrameOf, FrameNodes
<1>9. CASE OutPull
  <2>1. /\ outRQue'.num = outRQue.num - 1 /\ outRQue.num \in 1 .. OutLen /\ nodeOutbuf' = OutSeq[1]
        /\ \A i \in 1 .. outRQue'.num : OutSeq'[i] = OutSeq[i + 1]
    BY <1>9, OutPullRing
  <2>2. UNCHANGED <<outMem, fpc, index, nodeOut>> /\ ~FormatAdd /\ ~FormatStore
    BY <1>9 DEF OutPull, formatVars, FormatAdd, FormatStore, outVars
  <2>3. Pulled' = Pulled + 1 /\ Added' = Added /\ Filled' = Filled
    BY <1>1, <1>9, <2>2, PulledStep, AddedStep, FilledStep
  <2>4. outMem[nodeOutbuf'] = FrameOf(Pulled')
    BY <2>1, <2>3
  <2>5. ASSUME NEW i \in 1 .. outRQue'.num PROVE outMem[OutSeq'[i]] = FrameOf(Pulled' + i)
    <3>1. i + 1 \in 1 .. outRQue.num /\ Pulled' + i = Pulled + (i + 1)
      BY <1>0, <1>1, <2>1, <2>3
    <3> QED
      BY <2>1, <3>1
  <2> QED
    BY <2>2, <2>3, <2>4, <2>5 DEF FrameOf, FrameNodes
<1> QED
  BY <1>3, <1>4, <1>5, <1>6, <1>7, <1>8, <1>9 DEF Next, TestFormat, TestOut

\* The device got the frames it got in order: a frame leaves as the frame after all
\* those sent and given up before it.
LEMMA SentKept ==
  ASSUME IInv, XferPhase, Divides, OutputInOrder, SentSoFar, [Next]_vars
  PROVE  SentSoFar'
<1>0. /\ sent \in Seq([0 .. FrameNodes - 1 -> Cell]) /\ Len(sent) \in Nat /\ dropped \in Nat
      /\ FrameNodes \in Nat \ {0} /\ Pulled \in Nat
  BY FrameNumbers, FrameSize DEF IInv, TypeOK, Divides
<1>1. ASSUME sent' = sent, dropped' = dropped \/ dropped' = dropped + 1
      PROVE  SentSoFar'
  <2>1. Intact(sent)'
    BY <1>1 DEF SentSoFar, Intact, FrameNodes
  <2> DEFINE n == Len(sent)
             s0 == sent[n][0].sample
  <2>2. ASSUME sent # <<>> PROVE s0 + FrameNodes <= FrameNodes * (n + dropped') + 1
    <3>1. s0 + FrameNodes <= FrameNodes * (n + dropped) + 1
      BY <2>2 DEF SentSoFar
    <3>2. s0 \in Int
      <4>1. n \in 1 .. Len(sent) /\ 0 \in 0 .. FrameNodes - 1
        BY <1>0, <2>2
      <4>2. sent[n][0] \in Cell
        BY <1>0, <4>1
      <4> QED
        BY <4>2, SizesAssumption DEF Cell, Fresh, Torn, Raw, Bits, Garbled
    <3>3. FrameNodes * (n + dropped) <= FrameNodes * (n + dropped')
      BY <1>0, <1>1
    <3>4. FrameNodes * (n + dropped) \in Int /\ FrameNodes * (n + dropped') \in Int
      BY <1>0, <1>1
    <3> HIDE DEF n, s0
    <3> QED
      BY <1>0, <3>1, <3>2, <3>3, <3>4
  <2> QED
    BY <1>1, <2>1, <2>2 DEF SentSoFar, FrameNodes
<1>2. ASSUME ~UsbComplete PROVE SentSoFar'
  <2>1. sent' = sent /\ (dropped' = dropped \/ dropped' = dropped + 1)
    <3>1. ASSUME NEW c \in Caller, Call(c) \/ QueueBufStart(c)
          PROVE  sent' = sent /\ dropped' = dropped
      BY <3>1, CallerFrame DEF outVars
    <3>2. CASE TestFormat \/ UNCHANGED vars
      BY <3>2, FormatFrame DEF vars, outVars
    <3>3. CASE TestOut \/ UsbFail
      BY <3>3 DEF UsbFail, TestOut, OutPull, OutBegin, OutWait, OutAbort, OutFinish
    <3> QED
      BY <1>2, <3>1, <3>2, <3>3 DEF Next
  <2> QED
    BY <1>1, <2>1
<1>3. CASE UsbComplete
  <2> DEFINE p == Len(sent) + dropped + 1
             n == Len(sent)
  <2>1. Flying = 1 /\ Pulled = p /\ sent' = Append(sent, outMem[nodeOutbuf]) /\ dropped' = dropped
    BY <1>0, <1>3 DEF UsbComplete, Flying, One, Pulled
  <2>2. sent' = Append(sent, FrameOf(p))
    BY <2>1 DEF OutputInOrder
  <2>3. Len(sent') = n + 1 /\ sent'[n + 1] = FrameOf(p)
    BY <1>0, <2>2
  <2>4. \A i \in 1 .. n : sent'[i] = sent[i]
    BY <1>0, <2>2
  <2>5. 1 .. n + 1 = DOMAIN sent' /\ 1 .. n = DOMAIN sent
    BY <1>0, <2>2
  <2> DEFINE base == FrameNodes * (p - 1) + 1
  <2>6. /\ FrameOf(p)[0] = Bits(base) /\ DOMAIN FrameOf(p) = 0 .. FrameNodes - 1
        /\ \A k \in 0 .. FrameNodes - 1 : FrameOf(p)[k] = Bits(base + k)
    BY <1>0 DEF FrameOf
  <2>7. base \in Int /\ base + FrameNodes = FrameNodes * p + 1
    BY <1>0
  <2>8. sent # <<>> => base >= sent[n][0].sample + FrameNodes
    BY <1>0, <2>7 DEF SentSoFar
  <2>9. Intact(sent)'
    <3>1. ASSUME NEW i \in 1 .. n + 1
          PROVE  /\ sent'[i][0].form = "bits"
                 /\ \A k \in DOMAIN sent'[i] : sent'[i][k] = Bits(sent'[i][0].sample + k)
      <4>1. CASE i \in 1 .. n
        BY <2>4, <2>5, <4>1 DEF SentSoFar, Intact
      <4>2. CASE i = n + 1
        <5>1. FrameOf(p)[0].form = "bits" /\ FrameOf(p)[0].sample = base
          BY <2>6 DEF Bits
        <5> QED
          BY <2>3, <2>6, <4>2, <5>1
      <4> QED
        BY <1>0, <4>1, <4>2
    <3>2. ASSUME NEW i \in 1 .. n + 1, i > 1
          PROVE  sent'[i][0].sample >= sent'[i - 1][0].sample + FrameNodes
      <4>1. CASE i \in 1 .. n
        <5>1. i - 1 \in 1 .. n
          BY <1>0, <3>2
        <5> QED
          BY <2>4, <2>5, <3>2, <4>1, <5>1 DEF SentSoFar, Intact
      <4>2. CASE i = n + 1
        <5>1. n \in 1 .. n /\ sent # <<>> /\ i - 1 = n
          BY <1>0, <3>2, <4>2
        <5>2. sent'[n] = sent[n] /\ sent'[i][0] = Bits(base)
          BY <2>3, <2>4, <2>6, <4>2, <5>1
        <5> QED
          BY <2>8, <5>1, <5>2 DEF Bits
      <4>3. i \in 1 .. n \/ i = n + 1
        <5>1. n \in Nat
          BY <1>0
        <5> HIDE DEF n
        <5> QED
          BY <5>1
      <4> QED
        BY <4>1, <4>2, <4>3
    <3> QED
      BY <2>5, <3>1, <3>2 DEF Intact, FrameNodes
  <2>10. sent'[Len(sent')][0].sample + FrameNodes = FrameNodes * (Len(sent') + dropped') + 1
    <3>1. sent'[Len(sent')][0].sample = base
      BY <2>3, <2>6 DEF Bits
    <3>2. Len(sent') + dropped' = p
      BY <1>0, <2>1, <2>3
    <3> QED
      BY <2>7, <3>1, <3>2
  <2> QED
    BY <1>0, <2>1, <2>3, <2>9, <2>10 DEF SentSoFar, FrameNodes
<1> QED
  BY <1>2, <1>3

-----------------------------------------------------------------------------
LEMMA InitStream == Init => StreamInv
<1> SUFFICES ASSUME Init PROVE StreamInv
  OBVIOUS
<1>0. /\ inRQue.num = 0 /\ outRQue.num = 0 /\ sent = <<>> /\ dropped = 0 /\ submitted = 0
      /\ fpc = "poll" /\ opc = "poll" /\ xfer = "none" /\ cpc = [c \in Caller |-> "idle"]
  BY DEF Init, Drained
<1>1. Filled = 0 /\ Flying = 0 /\ Added = 0 /\ Taken = 0 /\ One(Formatting) = 0
  <2>1. index = 0 /\ index \div chNum = 0
    BY FrameSize DEF Init
  <2>2. Enqueued = 0
    <3>1. PreAdd = {}
      BY <1>0 DEF PreAdd
    <3> QED
      BY <1>0, <3>1, FS_EmptySet DEF Enqueued, PreAdd
  <2> QED
    BY <1>0, <2>1, <2>2 DEF Filled, Flying, Added, Pulled, Taken, One, Formatting
<1>2. FramesFit
  BY <1>0 DEF FramesFit
<1>3. Apart /\ InputInOrder
  BY <1>0 DEF Apart, InputInOrder, Formatting
<1>4. OutputInOrder
  BY <1>0, <1>1 DEF OutputInOrder
<1>5. Counted
  BY <1>1, FrameSize DEF Counted
<1>6. SentSoFar
  BY <1>0 DEF SentSoFar, Intact
<1> QED
  BY <1>2, <1>3, <1>4, <1>5, <1>6 DEF StreamInv

\* StreamInv is inductive once IInv and MemInv are known.
THEOREM StreamInductive == Spec => []StreamInv
<1>1. ASSUME IInv, MemInv, StreamInv, [Next]_vars PROVE StreamInv'
  <2>1. FramesFit'
    BY <1>1, FramesFitKept DEF StreamInv, MemInv
  <2>2. ASSUME ~overrun' PROVE Apart' /\ InputInOrder'
    BY <1>1, <2>2, ApartKept, InputKept DEF StreamInv
  <2>3. ASSUME ~overrun', Divides' PROVE OutputInOrder' /\ Counted' /\ SentSoFar'
    <3>1. Divides /\ ~overrun
      BY <1>1, <2>3, OverrunStays DEF Divides, FrameNodes
    <3> QED
      BY <1>1, <2>3, <3>1, OutputKept, CountedKept, SentKept DEF StreamInv, MemInv
  <2> QED
    BY <2>1, <2>2, <2>3 DEF StreamInv
<1> QED
  BY <1>1, InitStream, Inductive, MemInductive, PTL DEF Spec

\* As long as no buffer in use is written, the device sees an intact stream: every
\* frame the consecutive samples of its numbers, each transposed once (testFormat and
\* testOut, hjkUsbXferdll.cpp:258 and 317), whatever times out, for all sizes.
THEOREM StreamStaysIntact == Spec => []StreamIntact
<1>1. ASSUME IInv, StreamInv PROVE StreamIntact
  <2>1. CASE Divides
    BY <1>1, <2>1 DEF StreamInv, SentSoFar, StreamIntact
  <2>2. CASE ~Divides
    <3>1. sent = <<>>
      BY <1>1, <2>2 DEF StreamInv, FramesFit
    <3> QED
      BY <3>1 DEF StreamIntact, Intact
  <2> QED
    BY <2>1, <2>2
<1> QED
  BY <1>1, Inductive, StreamInductive, PTL

-----------------------------------------------------------------------------
\* Nothing is lost: the samples in transit, piece by piece, are runs of consecutive
\* samples, and one run starts where the other ends.
Run(a, n) == [i \in 1 .. n |-> Bits(a + i)]

LEMMA RunConcat ==
  ASSUME NEW a \in Int, NEW m \in Nat, NEW n \in Nat
  PROVE  Run(a, m) \o Run(a + m, n) = Run(a, m + n)
<1> DEFINE S == {Bits(j) : j \in Int}
<1>1. Run(a, m) \in Seq(S) /\ Run(a + m, n) \in Seq(S) /\ Run(a, m + n) \in Seq(S)
  BY DEF Run
<1>2. Len(Run(a, m)) = m /\ Len(Run(a + m, n)) = n /\ Len(Run(a, m + n)) = m + n
  BY DEF Run
<1> HIDE DEF S
<1>3. /\ Run(a, m) \o Run(a + m, n) \in Seq(S) /\ Len(Run(a, m) \o Run(a + m, n)) = m + n
      /\ \A i \in 1 .. m + n : (Run(a, m) \o Run(a + m, n))[i] =
                                IF i <= m THEN Run(a, m)[i] ELSE Run(a + m, n)[i - m]
  <2> DEFINE u == Run(a, m)
             v == Run(a + m, n)
  <2>1. u \in Seq(S) /\ v \in Seq(S) /\ Len(u) = m /\ Len(v) = n
    BY <1>1, <1>2
  <2> HIDE DEF u, v
  <2>2. /\ u \o v \in Seq(S) /\ Len(u \o v) = Len(u) + Len(v)
        /\ \A i \in 1 .. Len(u) + Len(v) : (u \o v)[i] = IF i <= Len(u) THEN u[i] ELSE v[i - Len(u)]
    BY <2>1, ConcatProperties
  <2> QED
    BY <2>1, <2>2, Zenon DEF u, v
<1>4. ASSUME NEW i \in 1 .. m + n
      PROVE  (Run(a, m) \o Run(a + m, n))[i] = Run(a, m + n)[i]
  <2>1. CASE i <= m
    BY <1>3, <2>1 DEF Run
  <2>2. CASE ~(i <= m)
    <3>1. i - m \in 1 .. n /\ a + m + (i - m) = a + i
      BY <2>2
    <3> QED
      BY <1>3, <2>2, <3>1 DEF Run
  <2> QED
    BY <2>1, <2>2
<1> QED
  BY <1>1, <1>2, <1>3, <1>4, SeqEqual

\* The same, of an operator the solver leaves alone.
Then(s, t) == s \o t

LEMMA RunThen ==
  ASSUME NEW a \in Int, NEW m \in Nat, NEW n \in Nat, NEW b, b = a + m, NEW k, k = m + n
  PROVE  Then(Run(a, m), Run(b, n)) = Run(a, k)
<1>1. Run(a, m) \o Run(a + m, n) = Run(a, m + n)
  BY RunConcat
<1> QED
  BY <1>1, Zenon DEF Then

LEMMA MadeSeq ==
  ASSUME NEW S, NEW n \in Nat, NEW f \in [1 .. n -> S]
  PROVE  f \in Seq(S) /\ Len(f) = n
OBVIOUS

LEMMA RunLength == ASSUME NEW a, NEW n \in Nat PROVE Len(Run(a, n)) = n
BY DEF Run

\* Cell p of a row of frames is cell p % FrameNodes of frame p \div FrameNodes.
LEMMA CellPlace ==
  ASSUME NEW n \in Nat \ {0}, NEW l \in Nat, NEW p \in 0 .. n * l - 1
  PROVE  /\ p \div n \in 0 .. l - 1 /\ p % n \in 0 .. n - 1
         /\ p = n * (p \div n) + (p % n)
<1> DEFINE q == p \div n
           r == p % n
<1>1. q \in Nat /\ r \in 0 .. n - 1 /\ p = n * q + r
  OBVIOUS
<1> HIDE DEF q, r
<1>2. ~(l <= q)
  <2> SUFFICES ASSUME l <= q PROVE FALSE
    OBVIOUS
  <2>1. n * l <= n * q
    BY <1>1
  <2> QED
    BY <1>1, <2>1
<1>3. q \in 0 .. l - 1 /\ r \in 0 .. n - 1 /\ p = n * q + r
  BY <1>1, <1>2
<1> QED
  BY <1>3 DEF q, r

LEMMA FramesRun ==
  ASSUME IInv, MemInv, Divides, OutputInOrder,
         NEW gone, gone = Len(sent) + dropped
  PROVE  /\ FrameNodes * gone \in Nat /\ Len(FramesInTransit) \in Nat
         /\ Len(FramesInTransit) = Flying + outRQue.num
         /\ CellsIn(FramesInTransit) = Run(FrameNodes * gone, FrameNodes * Len(FramesInTransit))
<1> DEFINE F == FramesInTransit
<1>0. /\ Flying \in {0, 1} /\ gone \in Nat /\ outRQue.num \in Nat /\ Pulled = gone + Flying
      /\ FrameNodes \in Nat \ {0} /\ nodeOutbuf \in 0 .. OutLen - 1
  BY FrameNumbers, FrameSize DEF MemInv, Pulled, Divides, IInv, TypeOK
<1>1. OutSeq \in Seq(0 .. OutLen - 1) /\ Len(OutSeq) = outRQue.num
  <2>1. \A i \in 1 .. outRQue.num : OutSeq[i] \in 0 .. OutLen - 1
    BY OutQueue DEF IInv, RingsOwn, OutSeq
  <2>2. OutSeq = [i \in 1 .. outRQue.num |-> OutSeq[i]]
    BY DEF OutSeq, Out!Contents
  <2>3. OutSeq \in [1 .. outRQue.num -> 0 .. OutLen - 1]
    BY <2>1, <2>2
  <2> QED
    BY <1>0, <2>3, MadeSeq
<1>2. /\ Len(F) = Flying + outRQue.num
      /\ \A i \in 1 .. Len(F) : outMem[F[i]] = FrameOf(gone + i)
  <2>1. CASE Flying = 1
    <3>1. F = <<nodeOutbuf>> \o OutSeq
      BY <2>1 DEF Flying, One, FramesInTransit, OutSeq
    <3>2. <<nodeOutbuf>> \in Seq(0 .. OutLen - 1) /\ Len(<<nodeOutbuf>>) = 1
      BY <1>0
    <3>3. /\ Len(F) = 1 + outRQue.num
          /\ \A i \in 1 .. 1 + outRQue.num : F[i] = IF i <= 1 THEN <<nodeOutbuf>>[i] ELSE OutSeq[i - 1]
      BY <1>1, <3>1, <3>2, ConcatProperties
    <3>4. ASSUME NEW i \in 1 .. Len(F) PROVE outMem[F[i]] = FrameOf(gone + i)
      <4>1. CASE i = 1
        BY <1>0, <2>1, <3>3, <4>1 DEF OutputInOrder
      <4>2. CASE i # 1
        <5>1. i \in 1 .. 1 + outRQue.num
          BY <3>3
        <5>2. i - 1 \in 1 .. outRQue.num /\ ~(i <= 1) /\ Pulled + (i - 1) = gone + i
          BY <1>0, <2>1, <4>2, <5>1
        <5>3. F[i] = OutSeq[i - 1]
          BY <3>3, <5>1, <5>2
        <5> QED
          BY <5>2, <5>3 DEF OutputInOrder
      <4> QED
        BY <4>1, <4>2
    <3> QED
      BY <2>1, <3>3, <3>4
  <2>2. CASE Flying = 0
    <3>1. F = OutSeq
      BY <1>1, <2>2, ConcatEmptySeq DEF Flying, One, FramesInTransit, OutSeq
    <3> QED
      BY <1>0, <1>1, <2>2, <3>1 DEF OutputInOrder
  <2> QED
    BY <1>0, <2>1, <2>2
<1>3. Len(F) \in Nat /\ FrameNodes * gone \in Nat /\ FrameNodes * Len(F) \in Nat
  BY <1>0, <1>2
<1> HIDE DEF F
<1>4. ASSUME NEW i \in 1 .. FrameNodes * Len(F)
      PROVE  outMem[F[(i - 1) \div FrameNodes + 1]][(i - 1) % FrameNodes]
               = Bits(FrameNodes * gone + i)
  <2> DEFINE q == (i - 1) \div FrameNodes
             r == (i - 1) % FrameNodes
  <2>1. q \in 0 .. Len(F) - 1 /\ r \in 0 .. FrameNodes - 1 /\ i - 1 = FrameNodes * q + r
    <3>1. i - 1 \in 0 .. FrameNodes * Len(F) - 1
      BY <1>3
    <3> QED
      BY <1>0, <1>3, <3>1, CellPlace
  <2> HIDE DEF q, r
  <2>2. q + 1 \in 1 .. Len(F)
    BY <1>3, <2>1
  <2>3. outMem[F[q + 1]][r] = Bits(FrameNodes * ((gone + (q + 1)) - 1) + 1 + r)
    BY <1>2, <2>1, <2>2 DEF FrameOf
  <2> DEFINE x == FrameNodes * ((gone + (q + 1)) - 1)
             y == FrameNodes * gone
             z == FrameNodes * q
  <2>4. x = y + z /\ y \in Int /\ z \in Int
    <3>1. (gone + (q + 1)) - 1 = gone + q /\ gone \in Int /\ q \in Int /\ FrameNodes \in Int
      BY <1>0, <2>1
    <3>2. FrameNodes * (gone + q) = FrameNodes * gone + FrameNodes * q
      BY <3>1
    <3> QED
      BY <3>1, <3>2
  <2>5. x + 1 + r = y + i
    <3>1. i - 1 = z + r /\ i \in Int /\ r \in Int
      BY <1>3, <2>1
    <3> HIDE DEF x, y, z
    <3> QED
      BY <2>4, <3>1
  <2> QED
    BY <2>3, <2>5 DEF q, r
<1> QED
  BY <1>2, <1>3, <1>4 DEF F, CellsIn, Run

\* Between the caller and the device no sample is lost, duplicated or reordered
\* (add and pull of the rings, testFormat's counting at hjkUsbXferdll.cpp:292), as long
\* as no buffer in use is written and a frame holds a whole number of nodes.
THEOREM NoSampleLost ==
  ASSUME Divides
  PROVE  Spec => []NothingLost
<1>1. ASSUME IInv, MemInv, StreamInv PROVE NothingLost
  <2> SUFFICES ASSUME ~overrun
               PROVE  /\ InTransit = [i \in 1 .. Len(InTransit) |->
                                        Bits(Enqueued - Len(InTransit) + i)]
                      /\ Enqueued = FrameNodes * (Len(sent) + dropped) + Len(InTransit)
    BY DEF NothingLost
  <2> DEFINE gone == Len(sent) + dropped
             a == FrameNodes * gone
             l == FrameNodes * Len(FramesInTransit)
             f == One(Formatting)
  <2>1. InputInOrder /\ OutputInOrder /\ Counted
    BY <1>1 DEF StreamInv
  <2>2. /\ a \in Nat /\ Len(FramesInTransit) = Flying + outRQue.num
        /\ CellsIn(FramesInTransit) = Run(a, l)
    BY <1>1, <2>1, FramesRun
  <2>3. /\ Flying \in {0, 1} /\ gone \in Nat /\ outRQue.num \in Nat /\ Pulled = gone + Flying
        /\ Added = Pulled + outRQue.num /\ FrameNodes \in Nat /\ index \in 0 .. FrameWords
        /\ f \in {0, 1}
    BY <1>1, FrameNumbers, FrameSize DEF MemInv, Pulled, Added, IInv, TypeOK, One
  <2>4. l \in Nat /\ FrameNodes * Added = a + l
    <3>1. FrameNodes * (gone + (Flying + outRQue.num))
            = FrameNodes * gone + FrameNodes * (Flying + outRQue.num)
      BY <2>3
    <3>2. Added = gone + (Flying + outRQue.num) /\ Flying + outRQue.num \in Nat
      BY <2>3
    <3>3. l = FrameNodes * (Flying + outRQue.num)
      BY <2>2
    <3> QED
      BY <2>3, <3>1, <3>2, <3>3
  <2>5. Filled \in Nat /\ inRQue.num \in Nat
    <3>1. index \div chNum \in Nat
      BY <2>3, FrameSize
    <3>2. inRQue.num \in 0 .. InLen
      BY <1>1, InOwnRing DEF IInv, RingsOwn
    <3> QED
      BY <2>3, <3>1, <3>2 DEF Filled
  <2>6. Taken = a + l + Filled + f
    BY <2>1, <2>4 DEF Counted
  <2> HIDE DEF gone, a, l
  <2>7. BeingFilled = Run(a + l, Filled)
    <3>1. CASE Filled = 0
      BY <3>1 DEF BeingFilled, Run, Filled
    <3>2. CASE Filled # 0
      <4>1. fpc = "add" \/ index > 0
        BY <2>3, <3>2, FrameSize DEF Filled
      <4>2. outRQue.buf[nodeOut] = nodeOut
        BY <1>1, <4>1, FillPlace
      <4>3. ASSUME NEW k \in 1 .. Filled
            PROVE  outMem[nodeOut][k - 1] = Bits(a + l + k)
        <5>1. k - 1 \in 0 .. Filled - 1 /\ FrameNodes * Added + 1 + (k - 1) = a + l + k
          BY <2>2, <2>4, <2>5
        <5> QED
          BY <2>1, <5>1 DEF OutputInOrder
      <4> QED
        BY <4>2, <4>3 DEF BeingFilled, Run, Filled
    <3> QED
      BY <3>1, <3>2
  <2>8. BeingFormatted = Run(a + l + Filled, f)
    <3>1. CASE Formatting
      <4>1. f = 1 /\ a + l + Filled + 1 = Taken
        BY <2>6, <3>1 DEF One
      <4>2. BeingFormatted = <<Bits(Taken)>>
        BY <2>1, <3>1, TransposedWritten DEF Formatting, BeingFormatted, InputInOrder
      <4>3. Run(a + l + Filled, 1) = <<Bits(a + l + Filled + 1)>>
        BY DEF Run
      <4> QED
        BY <4>1, <4>2, <4>3
    <3>2. CASE ~Formatting
      <4>1. f = 0 /\ BeingFormatted = <<>>
        BY <1>1, <3>2 DEF One, Formatting, BeingFormatted
      <4> QED
        BY <4>1 DEF Run
    <3> QED
      BY <3>1, <3>2
  <2> HIDE DEF f
  <2>9. Waiting = Run(a + l + Filled + f, inRQue.num)
    BY <2>1, <2>6, TransposedWritten DEF InputInOrder, Waiting, Run, InSeq
  <2> DEFINE n == l + Filled + f + inRQue.num
  <2>10. InTransit = Run(a, n) /\ n \in Nat
    <3>0. a \in Nat /\ l \in Nat /\ Filled \in Nat /\ f \in Nat /\ inRQue.num \in Nat
      BY <2>2, <2>3, <2>4, <2>5
    <3> DEFINE w == Filled
               v == inRQue.num
               b == a + l
               c == a + l + w
               d == a + l + w + f
               lw == l + w
               lwf == l + w + f
    <3>1. InTransit = Then(Then(Then(Run(a, l), Run(b, w)), Run(c, f)), Run(d, v))
      BY <2>2, <2>7, <2>8, <2>9, Zenon DEF InTransit, Then
    <3>2. /\ a \in Int /\ l \in Nat /\ w \in Nat /\ f \in Nat /\ v \in Nat
          /\ lw \in Nat /\ lwf \in Nat /\ n \in Nat /\ b \in Int /\ c \in Int /\ d \in Int
          /\ b = a + l /\ c = a + lw /\ d = a + lwf
          /\ lw = l + w /\ lwf = lw + f /\ n = lwf + v
      BY <3>0
    <3> HIDE DEF w, v, b, c, d, lw, lwf, n
    <3>3. Then(Run(a, l), Run(b, w)) = Run(a, lw)
      BY <3>2, RunThen
    <3>4. Then(Run(a, lw), Run(c, f)) = Run(a, lwf)
      BY <3>2, RunThen
    <3>5. Then(Run(a, lwf), Run(d, v)) = Run(a, n)
      BY <3>2, RunThen
    <3> QED
      BY <3>1, <3>2, <3>3, <3>4, <3>5
  <2>11. Len(InTransit) = n
    BY <2>10, RunLength
  <2>12. Enqueued = a + n
    <3>1. Enqueued \in Int /\ Taken = Enqueued - inRQue.num
      BY <1>1, EnqueuedNumber DEF Taken
    <3>2. a \in Nat /\ l \in Nat /\ Filled \in Nat /\ f \in Nat /\ inRQue.num \in Nat
      BY <2>2, <2>3, <2>4, <2>5
    <3> QED
      BY <2>6, <3>1, <3>2
  <2>13. Enqueued - n = a
    BY <2>2, <2>10, <2>12
  <2> QED
    BY <2>10, <2>11, <2>12, <2>13 DEF Run, a, gone
<1> QED
  BY <1>1, Inductive, MemInductive, StreamInductive, PTL
=============================================================================
