--------------------------- MODULE UsbDacSim_proofs -------------------------
(***************************************************************************)
(* The simulator, with either method, for every ring length, frame size    *)
(* and number of nodes and requests.  Five invariants, each resting on     *)
(* the ones before it:                                                     *)
(*                                                                         *)
(* Types     the type invariant, and that slot i of a ring holds buffer i; *)
(* Pulled    where the buffer pulled last lies behind the queue, which     *)
(*           says when a full ring overruns it;                            *)
(* Room      without an overrun no add is refused and none overwrites;     *)
(* DeviceInv what the driver and the device have;                          *)
(* StreamInv which node of testIn's stream every buffer holds.             *)
(***************************************************************************)
EXTENDS UsbDacSim, FiniteSetTheorems, TLAPS

\* Slot i of a ring holds buffer i, for ever.
Own(r, max) == r \in RingOf(max, 0 .. max - 1) /\ r.buf = [s \in 0 .. max - 1 |-> s]

\* How far slot s lies behind the head h: 1 for the node added last, max for the
\* head slot itself.
Dist(h, s, max) == IF s < h THEN h - s ELSE h - s + max

LEMMA OwnFields ==
  ASSUME NEW max \in Nat \ {0}, NEW r, Own(r, max)
  PROVE  /\ r.max = max /\ r.head \in 0 .. max - 1 /\ r.num \in 0 .. max
         /\ r.buf = [s \in 0 .. max - 1 |-> s] /\ r.buf[r.head] = r.head
         /\ r = [max |-> max, head |-> r.head, num |-> r.num, buf |-> r.buf]
BY DEF Own, RingOf

LEMMA Turn ==
  ASSUME NEW max \in Nat \ {0}, NEW a \in 0 .. 2 * max - 1
  PROVE  a % max = IF a < max THEN a ELSE a - max
<1>1. CASE a < max
  BY <1>1
<1>2. CASE a >= max
  <2> DEFINE b == a - max
  <2>1. b \in Nat /\ b < max /\ a = b + max
    BY <1>2
  <2>2. (b + max) % max = b % max
    BY <2>1
  <2>3. b % max = b
    BY <2>1
  <2> QED
    BY <1>2, <2>1, <2>2, <2>3
<1> QED
  BY <1>1, <1>2

\* The oldest node is num slots behind the head, and pull copies it.
LEMMA TailAt ==
  ASSUME NEW max \in Nat \ {0}, NEW r, Own(r, max), r.num > 0
  PROVE  /\ getTail(r) \in 0 .. max - 1 /\ pulled(r) = getTail(r)
         /\ Dist(r.head, getTail(r), max) = r.num
<1>1. r.max = max /\ r.head \in 0 .. max - 1 /\ r.num \in 0 .. max
      /\ r.buf = [s \in 0 .. max - 1 |-> s]
  BY OwnFields
<1> DEFINE h == r.head
           n == r.num
           a == h + (max - n)
<1>2. h \in 0 .. max - 1 /\ n \in 1 .. max /\ a \in 0 .. 2 * max - 1 /\ getTail(r) = a % max
  BY <1>1 DEF getTail
<1> HIDE DEF h, n
<1>3. a % max = IF a < max THEN a ELSE a - max
  <2> HIDE DEF a
  <2> QED
    BY <1>2, Turn
<1>4. getTail(r) \in 0 .. max - 1 /\ Dist(h, getTail(r), max) = n
  BY <1>2, <1>3 DEF Dist
<1>5. pulled(r) = getTail(r)
  BY <1>1, <1>4 DEF pulled
<1> QED
  BY <1>4, <1>5 DEF h, n

\* The buffers queued are those of the num slots behind the head.
LEMMA QueuedAt ==
  ASSUME NEW max \in Nat \ {0}, NEW r, Own(r, max)
  PROVE  QueuedIn(r) = {s \in 0 .. max - 1 : Dist(r.head, s, max) <= r.num}
<1>1. r.max = max /\ r.head \in 0 .. max - 1 /\ r.num \in 0 .. max
      /\ r.buf = [s \in 0 .. max - 1 |-> s]
  BY OwnFields
<1> DEFINE h == r.head
           n == r.num
           t == getTail(r)
           Slot(i) == (t + i) % max
<1>2. QueuedIn(r) = {r.buf[Slot(i)] : i \in 0 .. n - 1}
  BY <1>1 DEF QueuedIn
<1>3. n > 0 => t \in 0 .. max - 1 /\ Dist(h, t, max) = n
  BY TailAt
<1>4. h \in 0 .. max - 1 /\ n \in 0 .. max
  BY <1>1
<1> HIDE DEF h, n, t
<1>5. ASSUME NEW i \in 0 .. n - 1
      PROVE  Slot(i) \in 0 .. max - 1 /\ Dist(h, Slot(i), max) = n - i
  <2> DEFINE a == t + i
  <2>1. a \in 0 .. 2 * max - 1 /\ n > 0
    BY <1>3, <1>4, <1>5
  <2>2. a % max = IF a < max THEN a ELSE a - max
    <3> HIDE DEF a
    <3> QED
      BY <2>1, Turn
  <2> QED
    BY <1>3, <1>4, <1>5, <2>1, <2>2 DEF Dist
<1>6. ASSUME NEW s \in 0 .. max - 1, Dist(h, s, max) <= n
      PROVE  \E i \in 0 .. n - 1 : s = Slot(i)
  <2> DEFINE i == n - Dist(h, s, max)
  <2>1. i \in 0 .. n - 1
    BY <1>4, <1>6 DEF Dist
  <2>2. Slot(i) \in 0 .. max - 1 /\ Dist(h, Slot(i), max) = n - i
    <3> HIDE DEF i, Slot
    <3> QED
      BY <1>5, <2>1
  <2>3. n - i = Dist(h, s, max)
    BY <1>4 DEF Dist
  <2>4. s = Slot(i)
    <3> HIDE DEF i, Slot
    <3> QED
      BY <1>4, <2>2, <2>3 DEF Dist
  <2> QED
    BY <2>1, <2>4
<1> HIDE DEF Slot
<1>7. \A i \in 0 .. n - 1 : r.buf[Slot(i)] = Slot(i) /\ Slot(i) \in 0 .. max - 1 /\ Dist(h, Slot(i), max) <= n
  <2> TAKE i \in 0 .. n - 1
  <2>1. Slot(i) \in 0 .. max - 1 /\ Dist(h, Slot(i), max) = n - i
    BY <1>5
  <2> QED
    BY <1>1, <1>4, <2>1
<1>8. QueuedIn(r) = {s \in 0 .. max - 1 : Dist(h, s, max) <= n}
  BY <1>2, <1>6, <1>7
<1> QED
  BY <1>8 DEF h, n

\* add of the head slot onto itself: unless it is refused, the head moves on, and with
\* room every slot falls one further behind.
LEMMA AddMoves ==
  ASSUME NEW max \in Nat \ {0}, NEW r, Own(r, max), NEW ow \in BOOLEAN
  PROVE  LET q == add(r, r.buf[r.head], ow) IN
         /\ Own(q, max)
         /\ r.num < max =>
              /\ q.num = r.num + 1
              /\ \A s \in 0 .. max - 1 :
                   Dist(q.head, s, max) = IF s = r.head THEN 1 ELSE Dist(r.head, s, max) + 1
         /\ r.num = max => q.num = max
<1> DEFINE q == add(r, r.buf[r.head], ow)
           next == (r.head + 1) % max
<1>1. /\ r.max = max /\ r.head \in 0 .. max - 1 /\ r.num \in 0 .. max
      /\ r.buf = [s \in 0 .. max - 1 |-> s] /\ r.buf[r.head] = r.head
      /\ r = [max |-> max, head |-> r.head, num |-> r.num, buf |-> r.buf]
  BY OwnFields
<1>2. next = (IF r.head + 1 < max THEN r.head + 1 ELSE 0) /\ next \in 0 .. max - 1
  <2> DEFINE a == r.head + 1
  <2>1. a \in 0 .. 2 * max - 1 /\ a <= max /\ a > 0
    BY <1>1
  <2> HIDE DEF a
  <2>2. a % max = IF a < max THEN a ELSE a - max
    BY <2>1, Turn
  <2> QED
    BY <2>1, <2>2 DEF a
<1>3. [r.buf EXCEPT ![r.head] = r.buf[r.head]] = r.buf
  BY <1>1
<1>4. CASE r.num = max /\ ~ow
  <2>1. q = r
    BY <1>1, <1>4 DEF add, isFull
  <2> QED
    BY <1>4, <2>1
<1>5. CASE r.num < max \/ ow
  <2> DEFINE m == IF r.num >= max THEN r.num ELSE r.num + 1
  <2>1. q = [max |-> max, head |-> next, num |-> m, buf |-> r.buf]
    <3> HIDE DEF next
    <3>1. ~(isFull(r) /\ ~ow) /\ (isFull(r) <=> r.num >= max)
      BY <1>1, <1>5 DEF isFull
    <3>2. q = [r EXCEPT !.buf[r.head] = r.buf[r.head], !.head = (@ + 1) % r.max,
                        !.num = IF isFull(r) THEN @ ELSE @ + 1]
      BY <3>1 DEF add
    <3> QED
      BY <1>1, <1>3, <3>1, <3>2 DEF next
  <2> HIDE DEF next, q
  <2>2. m \in 0 .. max
    BY <1>1
  <2>3. q.max = max /\ q.head = next /\ q.num = m /\ q.buf = r.buf
    BY <2>1
  <2>4. Own(q, max)
    <3> HIDE DEF m
    <3> QED
      BY <1>1, <1>2, <2>1, <2>2, <2>3 DEF Own, RingOf
  <2>5. r.num < max => \A s \in 0 .. max - 1 :
          Dist(next, s, max) = IF s = r.head THEN 1 ELSE Dist(r.head, s, max) + 1
    BY <1>1, <1>2 DEF Dist
  <2>6. (r.num < max => q.num = r.num + 1) /\ (r.num = max => q.num = max)
    BY <1>1, <2>3
  <2> QED
    BY <2>3, <2>4, <2>5, <2>6 DEF q
<1> QED
  BY <1>1, <1>4, <1>5

LEMMA PullMoves ==
  ASSUME NEW max \in Nat \ {0}, NEW r, Own(r, max)
  PROVE  /\ Own(pull(r), max) /\ pull(r).head = r.head
         /\ pull(r).num = IF r.num = 0 THEN 0 ELSE r.num - 1
<1>1. /\ r.max = max /\ r.head \in 0 .. max - 1 /\ r.num \in 0 .. max
      /\ r.buf = [s \in 0 .. max - 1 |-> s]
      /\ r = [max |-> max, head |-> r.head, num |-> r.num, buf |-> r.buf]
  BY OwnFields
<1>2. CASE r.num = 0
  BY <1>1, <1>2 DEF pull, isEmpty
<1>3. CASE r.num # 0
  <2>1. pull(r) = [max |-> max, head |-> r.head, num |-> r.num - 1, buf |-> r.buf]
    BY <1>1, <1>3 DEF pull, isEmpty
  <2> QED
    BY <1>1, <1>3, <2>1 DEF Own, RingOf
<1> QED
  BY <1>2, <1>3

-----------------------------------------------------------------------------
\* TypeOK in five parts, each with what it lacks to be inductive: slot i holds buffer i
\* for ever, since the head slot is copied onto itself as long as nodeIn and nodeOut
\* are current.
InTypes ==
  /\ method \in {"pointer", "value"} /\ Own(inRQue, InLen) /\ inMem \in [0 .. InLen -> Cell]
  /\ tpc \in {"fill", "add"} /\ nodes \in 0 .. MaxNodes[method] /\ nodeIn \in 0 .. InLen - 1
  /\ tpc = "add" => nodeIn = inRQue.head

FormatTypes ==
  /\ Own(outRQue, OutLen)
  /\ fpc \in {"poll", "pull", "store", "isFull", "add"} /\ index \in 0 .. FrameNodes
  /\ (fpc \in {"pull", "store"} => index < FrameNodes)
  /\ nodeOut \in 0 .. OutLen - 1 /\ nodeInbuf \in 0 .. InLen /\ overwrite \in BOOLEAN
  /\ fpc # "poll" => nodeOut = outRQue.head
  /\ fpc = "pull" => inRQue.num > 0

OutTypes ==
  /\ USBDevice \in {"NULL", "none", "attached"}
  /\ method = "value" => opc \in {"poll", "print"}
  /\ Calling \/ opc \in {"poll", "print", "index", "crashed"}
  /\ nodeOutbuf \in 0 .. OutLen /\ ov \in 0 .. OutLen
  /\ signalled \subseteq 0 .. OutLen - 1

Request == [frame : Nat, buf : 0 .. OutLen, event : 0 .. OutLen]

DataTypes ==
  /\ outMem \in [0 .. OutLen -> Frame] /\ requests \subseteq Request
  /\ printed \in Seq(Frame) /\ sent \in Seq([frame : Nat, data : Frame])
  /\ overrun \in BOOLEAN /\ timedOut \in BOOLEAN

Types == InTypes /\ FormatTypes /\ OutTypes /\ DataTypes

LEMMA TypesImply == Types => TypeOK
<1> SUFFICES ASSUME Types PROVE TypeOK
  OBVIOUS
<1>0. InTypes /\ FormatTypes /\ OutTypes /\ DataTypes
  BY DEF Types
<1>1. /\ method \in {"pointer", "value"} /\ inRQue \in RingOf(InLen, 0 .. InLen - 1)
      /\ inMem \in [0 .. InLen -> Cell] /\ tpc \in {"fill", "add"}
      /\ nodes \in 0 .. MaxNodes[method] /\ nodeIn \in 0 .. InLen - 1
  BY <1>0 DEF InTypes, Own
<1>2. /\ outRQue \in RingOf(OutLen, 0 .. OutLen - 1)
      /\ fpc \in {"poll", "pull", "store", "isFull", "add"} /\ index \in 0 .. FrameNodes
      /\ (fpc \in {"pull", "store"} => index < FrameNodes)
      /\ nodeOut \in 0 .. OutLen - 1 /\ nodeInbuf \in 0 .. InLen /\ overwrite \in BOOLEAN
  BY <1>0 DEF FormatTypes, Own
<1>3. /\ USBDevice \in {"NULL", "none", "attached"}
      /\ (Calling \/ opc \in {"poll", "print", "index", "crashed"})
      /\ nodeOutbuf \in 0 .. OutLen /\ ov \in 0 .. OutLen /\ signalled \subseteq 0 .. OutLen - 1
  BY <1>0 DEF OutTypes
<1> QED
  BY <1>0, <1>1, <1>2, <1>3 DEF TypeOK, DataTypes, Request

LEMMA Sizes ==
  ASSUME Types
  PROVE  /\ InLen \in Nat \ {0} /\ OutLen \in Nat \ {0} /\ FrameNodes \in Nat \ {0}
         /\ MaxNodes[method] \in Nat /\ Fresh \in Cell /\ Fresh = 0
BY SimAssumption DEF Types, InTypes, Fresh, Cell

LEMMA InitRings ==
  ASSUME NEW max \in Nat \ {0}
  PROVE  /\ Own(Ring(max), max) /\ Ring(max).head = 0
         /\ Ring(max).num = IF method = "pointer" THEN max ELSE 0
<1> DEFINE id == [s \in 0 .. max - 1 |-> s]
           new == [max |-> max, head |-> 0, num |-> 0, buf |-> id]
           full == [max |-> max, head |-> 0, num |-> max, buf |-> id]
<1>1. NewRing(max, id) = new
  BY DEF NewRing
<1>2. [new EXCEPT !.num = max] = full
  <2> HIDE DEF id
  <2> QED
    OBVIOUS
<1>3. Filled(max) = full
  BY <1>1, <1>2 DEF Filled
<1>4. id \in [0 .. max - 1 -> 0 .. max - 1] /\ 0 \in 0 .. max - 1 /\ 0 \in 0 .. max /\ max \in 0 .. max
  OBVIOUS
<1> HIDE DEF id
<1>5. new \in RingOf(max, 0 .. max - 1) /\ new.buf = id /\ new.head = 0 /\ new.num = 0
  BY <1>4 DEF RingOf
<1>6. full \in RingOf(max, 0 .. max - 1) /\ full.buf = id /\ full.head = 0 /\ full.num = max
  BY <1>4 DEF RingOf
<1>7. Ring(max) = IF method = "pointer" THEN full ELSE new
  BY <1>1, <1>3 DEF Ring, id
<1> QED
  BY <1>5, <1>6, <1>7 DEF Own, id

LEMMA InitTypes == Init => Types
<1> SUFFICES ASSUME Init PROVE Types
  OBVIOUS
<1>0. /\ InLen \in Nat \ {0} /\ OutLen \in Nat \ {0} /\ FrameNodes \in Nat \ {0}
      /\ MaxNodes[method] \in Nat /\ Fresh \in Cell
  BY SimAssumption DEF Init, Fresh, Cell
<1>1. Own(inRQue, InLen) /\ Own(outRQue, OutLen)
  BY <1>0, InitRings DEF Init
<1>2. InTypes
  BY <1>0, <1>1 DEF Init, InTypes
<1>3. FormatTypes
  <2>1. fpc = "poll" /\ index = 0 /\ nodeOut = 0 /\ nodeInbuf = InLen /\ overwrite \in BOOLEAN
    BY DEF Init
  <2> QED
    BY <1>0, <1>1, <2>1 DEF FormatTypes
<1>4. OutTypes
  BY <1>0 DEF Init, OutTypes, Calling
<1>5. DataTypes
  <2>1. [k \in 0 .. FrameNodes - 1 |-> Fresh] \in Frame
    BY <1>0 DEF Frame
  <2>2. outMem \in [0 .. OutLen -> Frame]
    BY <2>1 DEF Init
  <2>3. requests = {} /\ printed = <<>> /\ sent = <<>> /\ overrun \in BOOLEAN /\ timedOut \in BOOLEAN
    BY DEF Init
  <2> QED
    BY <2>2, <2>3 DEF DataTypes
<1> QED
  BY <1>2, <1>3, <1>4, <1>5 DEF Types

-----------------------------------------------------------------------------
\* testIn.
LEMMA FillTypes == ASSUME Types, InFill PROVE Types'
<1>0. InTypes /\ FormatTypes /\ OutTypes /\ DataTypes
  BY DEF Types
<1>1. InLen \in Nat \ {0} /\ MaxNodes[method] \in Nat
  BY Sizes
<1>2. inRQue.head \in 0 .. InLen - 1 /\ inRQue.buf[inRQue.head] = inRQue.head
  BY <1>0, <1>1, OwnFields DEF InTypes
<1>3. nodes' = nodes + 1 /\ nodes' \in 0 .. MaxNodes[method] /\ nodes + 1 \in Cell
  BY <1>0, <1>1 DEF InFill, InTypes, Cell
<1>4. inMem' \in [0 .. InLen -> Cell]
  BY <1>0, <1>3 DEF InFill, InTypes
<1>5. method' = method /\ inRQue' = inRQue /\ nodeIn' = inRQue.head /\ tpc' = "add"
  BY DEF InFill, chosen, getHead
<1>6. Cell' = Cell
  BY <1>5 DEF Cell
<1>7. InTypes'
  BY <1>0, <1>2, <1>3, <1>4, <1>5, <1>6 DEF InTypes
<1>8. FormatTypes'
  BY <1>0, <1>5 DEF InFill, formatVars, FormatTypes
<1>9. OutTypes'
  BY <1>0 DEF InFill, chosen, outVars, driver, OutTypes, Calling
<1>10. DataTypes'
  BY <1>0, <1>6 DEF InFill, outVars, driver, DataTypes, Frame, InBusy
<1> QED
  BY <1>7, <1>8, <1>9, <1>10 DEF Types

LEMMA InAddTypes == ASSUME Types, InAdd PROVE Types'
<1>0. InTypes /\ FormatTypes /\ OutTypes /\ DataTypes
  BY DEF Types
<1>1. InLen \in Nat \ {0} /\ Own(inRQue, InLen)
  BY <1>0, Sizes DEF InTypes
<1>2. inRQue' = add(inRQue, inRQue.buf[inRQue.head], FALSE)
  BY <1>0 DEF InAdd, InTypes, RingWithNode
<1>3. Own(inRQue', InLen) /\ (inRQue.num > 0 => inRQue'.num > 0)
  <2>1. inRQue.num \in 0 .. InLen
    BY <1>1, OwnFields
  <2> DEFINE ow == FALSE
  <2>2. ow \in BOOLEAN /\ inRQue' = add(inRQue, inRQue.buf[inRQue.head], ow)
    BY <1>2
  <2> HIDE DEF ow
  <2>3. /\ Own(inRQue', InLen)
        /\ inRQue.num < InLen => inRQue'.num = inRQue.num + 1
        /\ inRQue.num = InLen => inRQue'.num = InLen
    BY <1>1, <2>2, AddMoves
  <2> QED
    BY <1>1, <2>1, <2>3
<1>4. method' = method /\ Cell' = Cell
  BY DEF InAdd, chosen, Cell
<1>5. InTypes'
  BY <1>0, <1>3, <1>4 DEF InAdd, InTypes, memory
<1>6. FormatTypes'
  BY <1>0, <1>3 DEF InAdd, formatVars, FormatTypes
<1>7. OutTypes'
  BY <1>0 DEF InAdd, chosen, outVars, driver, OutTypes, Calling
<1>8. DataTypes'
  BY <1>0, <1>4 DEF InAdd, memory, outVars, driver, DataTypes, Frame
<1> QED
  BY <1>5, <1>6, <1>7, <1>8 DEF Types

-----------------------------------------------------------------------------
\* testFormat.
LEMMA FormatKeepsTypes ==
  ASSUME Types, FormatPoll \/ FormatPull \/ FormatPullValue \/ FormatStore \/ FormatIsFull \/ FormatAdd
  PROVE  Types'
<1>0. InTypes /\ FormatTypes /\ OutTypes /\ DataTypes
  BY DEF Types
<1>1. /\ InLen \in Nat \ {0} /\ OutLen \in Nat \ {0} /\ FrameNodes \in Nat \ {0}
      /\ Own(inRQue, InLen) /\ Own(outRQue, OutLen)
  BY <1>0, Sizes DEF InTypes, FormatTypes
<1>2. /\ inRQue.num \in 0 .. InLen /\ inRQue.head \in 0 .. InLen - 1
      /\ outRQue.num \in 0 .. OutLen /\ outRQue.head \in 0 .. OutLen - 1
      /\ outRQue.buf[outRQue.head] = outRQue.head
  BY <1>1, OwnFields
<1>3. method' = method /\ Cell' = Cell
  BY DEF FormatPoll, FormatPull, FormatPullValue, FormatStore, FormatIsFull, FormatAdd, chosen, Cell
<1>4. OutTypes'
  BY <1>0 DEF FormatPoll, FormatPull, FormatPullValue, FormatStore, FormatIsFull, FormatAdd,
              chosen, outVars, driver, OutTypes, Calling
<1>5. CASE FormatPoll
  <2>1. InTypes'
    BY <1>0, <1>3, <1>5 DEF FormatPoll, memory, inVars, InTypes
  <2>2. FormatTypes'
    BY <1>0, <1>1, <1>2, <1>5 DEF FormatPoll, FormatTypes, FrameFull, isEmpty, getHead
  <2>3. DataTypes'
    BY <1>0, <1>3, <1>5 DEF FormatPoll, memory, outVars, driver, DataTypes, Frame
  <2> QED
    BY <1>4, <2>1, <2>2, <2>3 DEF Types
<1>6. CASE FormatPull
  <2>1. Own(inRQue', InLen) /\ inRQue'.head = inRQue.head
    BY <1>1, <1>6, PullMoves DEF FormatPull
  <2>2. InTypes'
    BY <1>0, <1>3, <1>6, <2>1 DEF FormatPull, memory, inVars, InTypes
  <2>3. nodeInbuf' \in 0 .. InLen
    <3>1. inRQue.num > 0 => pulled(inRQue) \in 0 .. InLen - 1
      BY <1>1, TailAt
    <3> QED
      BY <1>0, <1>1, <1>2, <1>6, <3>1 DEF FormatPull, isEmpty, FormatTypes
  <2>4. FormatTypes'
    BY <1>0, <1>6, <2>3 DEF FormatPull, FormatTypes
  <2>5. DataTypes'
    BY <1>0, <1>3, <1>6 DEF FormatPull, memory, outVars, driver, DataTypes, Frame
  <2> QED
    BY <1>4, <2>2, <2>4, <2>5 DEF Types
<1>7. CASE FormatPullValue
  <2>1. Own(inRQue', InLen) /\ inRQue'.head = inRQue.head
    BY <1>1, <1>7, PullMoves DEF FormatPullValue
  <2>2. inMem' \in [0 .. InLen -> Cell]
    <3>1. inRQue.num > 0 => pulled(inRQue) \in 0 .. InLen - 1
      BY <1>1, TailAt
    <3>2. inMem' = inMem \/ (inRQue.num > 0 /\ inMem' = [inMem EXCEPT ![InLen] = inMem[pulled(inRQue)]])
      BY <1>2, <1>7 DEF FormatPullValue, CopyTo, isEmpty
    <3>3. inMem \in [0 .. InLen -> Cell]
      BY <1>0 DEF InTypes
    <3> QED
      BY <1>1, <3>1, <3>2, <3>3
  <2>3. InTypes'
    BY <1>0, <1>3, <1>7, <2>1, <2>2 DEF FormatPullValue, inVars, InTypes
  <2>4. FormatTypes'
    BY <1>0, <1>1, <1>7 DEF FormatPullValue, FormatTypes, CopyTo
  <2>5. DataTypes'
    BY <1>0, <1>3, <1>7 DEF FormatPullValue, outVars, driver, DataTypes, Frame
  <2> QED
    BY <1>4, <2>3, <2>4, <2>5 DEF Types
<1>8. CASE FormatStore
  <2>1. InTypes'
    BY <1>0, <1>3, <1>8 DEF FormatStore, inVars, InTypes
  <2>2. FormatTypes'
    BY <1>0, <1>1, <1>8 DEF FormatStore, FormatTypes
  <2>3. outMem' \in [0 .. OutLen -> Frame]
    <3>1. inMem[nodeInbuf] \in Cell /\ outMem \in [0 .. OutLen -> Frame] /\ nodeOut \in 0 .. OutLen - 1
      BY <1>0 DEF InTypes, FormatTypes, DataTypes
    <3>2. index \in 0 .. FrameNodes - 1
      BY <1>0, <1>1, <1>8 DEF FormatTypes, FormatStore
    <3>3. outMem' = [outMem EXCEPT ![outRQue.buf[nodeOut]][index] = inMem[nodeInbuf]]
      BY <1>8 DEF FormatStore
    <3>4. ASSUME NEW b \in 0 .. OutLen PROVE [outMem[b] EXCEPT ![index] = inMem[nodeInbuf]] \in Frame
      BY <3>1, <3>2 DEF Frame
    <3>5. outMem' = [outMem EXCEPT ![outRQue.buf[nodeOut]] =
                       [outMem[outRQue.buf[nodeOut]] EXCEPT ![index] = inMem[nodeInbuf]]]
      BY <3>3
    <3> DEFINE b == outRQue.buf[nodeOut]
               new == [outMem[b] EXCEPT ![index] = inMem[nodeInbuf]]
    <3>6. b \in 0 .. OutLen => new \in Frame
      BY <3>4
    <3>7. outMem' = [outMem EXCEPT ![b] = new]
      BY <3>5
    <3> HIDE DEF b, new
    <3> QED
      BY <3>1, <3>6, <3>7
  <2>4. Frame' = Frame
    BY <1>3 DEF Frame
  <2>5. overrun' \in BOOLEAN
    BY <1>8 DEF FormatStore
  <2>6. DataTypes'
    BY <1>0, <1>8, <2>3, <2>4, <2>5 DEF FormatStore, outVars, driver, DataTypes
  <2> QED
    BY <1>4, <2>1, <2>2, <2>6 DEF Types
<1>9. CASE FormatIsFull
  <2>1. InTypes'
    BY <1>0, <1>3, <1>9 DEF FormatIsFull, memory, inVars, InTypes
  <2>2. FormatTypes'
    BY <1>0, <1>1, <1>9 DEF FormatIsFull, FormatTypes, isFull
  <2>3. DataTypes'
    BY <1>0, <1>3, <1>9 DEF FormatIsFull, memory, outVars, driver, DataTypes, Frame
  <2> QED
    BY <1>4, <2>1, <2>2, <2>3 DEF Types
<1>10. CASE FormatAdd
  <2>1. outRQue' = add(outRQue, outRQue.buf[outRQue.head], overwrite) /\ overwrite \in BOOLEAN
    BY <1>0, <1>10 DEF FormatAdd, FormatTypes
  <2>2. Own(outRQue', OutLen)
    BY <1>1, <2>1, AddMoves
  <2>3. InTypes'
    BY <1>0, <1>3, <1>10 DEF FormatAdd, memory, inVars, InTypes
  <2>4. FormatTypes'
    BY <1>0, <1>10, <2>2 DEF FormatAdd, FormatTypes
  <2>5. DataTypes'
    BY <1>0, <1>3, <1>10 DEF FormatAdd, memory, outVars, driver, DataTypes, Frame
  <2> QED
    BY <1>4, <2>3, <2>4, <2>5 DEF Types
<1> QED
  BY <1>5, <1>6, <1>7, <1>8, <1>9, <1>10

-----------------------------------------------------------------------------
\* testOut and xferDataToUSBEp.
LEMMA OutKeepsTypes ==
  ASSUME Types, OutPull \/ OutPullValue \/ OutPrint \/ OutIndex \/ XferDataToUSBEp,
         OutPrint => opc = "print"
  PROVE  Types'
<1>0. InTypes /\ FormatTypes /\ OutTypes /\ DataTypes
  BY DEF Types
<1>1. OutLen \in Nat \ {0} /\ Own(outRQue, OutLen) /\ FrameNodes \in Nat \ {0}
  BY <1>0, Sizes DEF FormatTypes
<1>2. outRQue.num \in 0 .. OutLen
  BY <1>1, OwnFields
<1>3. method' = method /\ Cell' = Cell
  BY DEF OutPull, OutPullValue, OutPrint, OutIndex, XferDataToUSBEp, XferBegin, XferWait,
         XferAbort, XferAbortWait, chosen, Cell
<1>4. InTypes'
  BY <1>0, <1>3 DEF OutPull, OutPullValue, OutPrint, OutIndex, XferDataToUSBEp, XferBegin, XferWait,
         XferAbort, XferAbortWait, memory, inVars, InTypes
<1>5. CASE OutPull
  <2>1. Own(outRQue', OutLen) /\ outRQue'.head = outRQue.head
    BY <1>1, <1>5, PullMoves DEF OutPull
  <2>2. FormatTypes'
    BY <1>0, <1>5, <2>1 DEF OutPull, formatVars, FormatTypes
  <2>3. nodeOutbuf' \in 0 .. OutLen
    BY <1>1, <1>2, <1>5, TailAt DEF OutPull, isEmpty
  <2>4. OutTypes'
    BY <1>0, <1>5, <2>3 DEF OutPull, driver, chosen, OutTypes, Calling
  <2>5. DataTypes'
    BY <1>0, <1>3, <1>5 DEF OutPull, memory, driver, DataTypes, Frame, Request
  <2> QED
    BY <1>4, <2>2, <2>4, <2>5 DEF Types
<1>6. CASE OutPullValue
  <2>1. Own(outRQue', OutLen) /\ outRQue'.head = outRQue.head
    BY <1>1, <1>6, PullMoves DEF OutPullValue
  <2>2. FormatTypes'
    BY <1>0, <1>6, <2>1 DEF OutPullValue, formatVars, FormatTypes
  <2>3. OutTypes'
    BY <1>0, <1>1, <1>6 DEF OutPullValue, driver, chosen, OutTypes, Calling, CopyTo
  <2>4. outMem' \in [0 .. OutLen -> Frame]
    <3>1. pulled(outRQue) \in 0 .. OutLen - 1
      BY <1>1, <1>2, <1>6, TailAt DEF OutPullValue, isEmpty
    <3>2. outMem' = [outMem EXCEPT ![OutLen] = outMem[pulled(outRQue)]]
      BY <1>6 DEF OutPullValue, CopyTo
    <3>3. outMem \in [0 .. OutLen -> Frame]
      BY <1>0 DEF DataTypes
    <3> QED
      BY <1>1, <3>1, <3>2, <3>3
  <2>5. Frame' = Frame
    BY <1>3 DEF Frame
  <2>6. DataTypes'
    BY <1>0, <1>6, <2>4, <2>5 DEF OutPullValue, driver, DataTypes, Request
  <2> QED
    BY <1>4, <2>2, <2>3, <2>6 DEF Types
<1>7. CASE OutPrint
  <2>1. FormatTypes'
    BY <1>0, <1>7 DEF OutPrint, formatVars, FormatTypes
  <2>2. OutTypes'
    <3>1. opc' \in {"poll", "crashed", "index"} /\ (method = "value" => opc' = "poll")
      <4>1. AfterPrint \in {"poll", "crashed", "index"} /\ (method = "value" => AfterPrint = "poll")
        BY DEF AfterPrint
      <4> QED
        BY <1>7, <4>1 DEF OutPrint
    <3> QED
      BY <1>0, <1>7, <3>1 DEF OutPrint, driver, chosen, OutTypes, Calling
  <2>3. printed' \in Seq(Frame)
    <3>1. outMem[nodeOutbuf] \in Frame /\ printed \in Seq(Frame)
      BY <1>0 DEF DataTypes, OutTypes
    <3>2. printed' = printed \/ printed' = Append(printed, outMem[nodeOutbuf])
      BY <1>7 DEF OutPrint, Record
    <3> QED
      BY <3>1, <3>2
  <2>4. Frame' = Frame
    BY <1>3 DEF Frame
  <2>5. DataTypes'
    BY <1>0, <1>7, <2>3, <2>4 DEF OutPrint, memory, driver, DataTypes, Request
  <2> QED
    BY <1>4, <2>1, <2>2, <2>5 DEF Types
<1>8. CASE OutIndex
  <2>1. FormatTypes'
    BY <1>0, <1>8 DEF OutIndex, formatVars, FormatTypes
  <2>2. OutTypes'
    BY <1>0, <1>2, <1>8 DEF OutIndex, driver, chosen, OutTypes, Calling, OvLapIndex, numElements
  <2>3. DataTypes'
    BY <1>0, <1>3, <1>8 DEF OutIndex, memory, driver, DataTypes, Frame, Request
  <2> QED
    BY <1>4, <2>1, <2>2, <2>3 DEF Types
<1>9. CASE XferDataToUSBEp
  <2>1. FormatTypes'
    BY <1>0, <1>9 DEF XferDataToUSBEp, XferBegin, XferWait, XferAbort, XferAbortWait, formatVars,
                      FormatTypes
  <2>2. Frame' = Frame
    BY <1>3 DEF Frame
  <2>3. CASE XferBegin
    <3>1. OutTypes'
      BY <1>0, <2>3 DEF XferBegin, chosen, OutTypes, Calling
    <3>2. requests' \subseteq Request
      <4>1. [frame |-> Len(printed), buf |-> XferBuffer, event |-> ov] \in Request
        BY <1>0 DEF OutTypes, DataTypes, Request, XferBuffer
      <4> QED
        BY <1>0, <2>3, <4>1 DEF XferBegin, DataTypes
    <3>3. DataTypes'
      BY <1>0, <2>2, <2>3, <3>2 DEF XferBegin, memory, DataTypes, Request
    <3> QED
      BY <1>4, <2>1, <3>1, <3>3 DEF Types
  <2>4. CASE XferWait
    <3>1. OutTypes'
      BY <1>0, <2>4 DEF XferWait, chosen, OutTypes, Calling
    <3>2. timedOut' \in BOOLEAN
      BY <1>0, <2>4 DEF XferWait, DataTypes
    <3>3. DataTypes'
      BY <1>0, <2>2, <2>4, <3>2 DEF XferWait, memory, DataTypes, Request
    <3> QED
      BY <1>4, <2>1, <3>1, <3>3 DEF Types
  <2>5. CASE XferAbort
    <3>1. OutTypes'
      BY <1>0, <2>5 DEF XferAbort, chosen, OutTypes, Calling
    <3>2. DataTypes'
      BY <1>0, <2>2, <2>5 DEF XferAbort, memory, DataTypes, Request
    <3> QED
      BY <1>4, <2>1, <3>1, <3>2 DEF Types
  <2>6. CASE XferAbortWait
    <3>1. OutTypes'
      BY <1>0, <2>6 DEF XferAbortWait, chosen, OutTypes, Calling
    <3>2. DataTypes'
      BY <1>0, <2>2, <2>6 DEF XferAbortWait, memory, DataTypes, Request
    <3> QED
      BY <1>4, <2>1, <3>1, <3>2 DEF Types
  <2> QED
    BY <1>9, <2>3, <2>4, <2>5, <2>6 DEF XferDataToUSBEp
<1> QED
  BY <1>5, <1>6, <1>7, <1>8, <1>9

LEMMA UsbKeepsTypes == ASSUME Types, Usb PROVE Types'
<1>0. InTypes /\ FormatTypes /\ OutTypes /\ DataTypes
  BY DEF Types
<1>1. PICK r \in requests : UsbComplete(r) \/ UsbFail(r)
  BY DEF Usb
<1>2. method' = method /\ Cell' = Cell
  BY <1>1 DEF UsbComplete, UsbFail, chosen, Cell
<1>3. Frame' = Frame /\ InTypes' /\ FormatTypes'
  BY <1>0, <1>1, <1>2 DEF UsbComplete, UsbFail, memory, inVars, formatVars, InTypes, FormatTypes, Frame
<1>4. r \in Request /\ outMem[r.buf] \in Frame /\ r.frame \in Nat /\ r.event \in 0 .. OutLen
  BY <1>0 DEF DataTypes, Request
<1>5. OutTypes'
  <2>1. signalled' = signalled \cup ({r.event} \ {OutLen}) /\ opc' = opc /\ nodeOutbuf' = nodeOutbuf
        /\ ov' = ov /\ USBDevice' = USBDevice
    BY <1>1 DEF UsbComplete, UsbFail, chosen
  <2>2. OutLen \in Nat
    BY Sizes
  <2>3. signalled' \subseteq 0 .. OutLen - 1
    <3>1. signalled \subseteq 0 .. OutLen - 1
      BY <1>0 DEF OutTypes
    <3>2. ASSUME NEW e \in signalled' PROVE e \in 0 .. OutLen - 1
      <4>1. e \in signalled \/ (e = r.event /\ e # OutLen)
        BY <2>1, <3>2
      <4>2. r.event \in 0 .. OutLen
        BY <1>4
      <4>3. CASE e \in signalled
        BY <3>1, <4>3
      <4>4. CASE e = r.event /\ e # OutLen
        <5>1. e \in 0 .. OutLen /\ e # OutLen
          BY <4>2, <4>4
        <5> QED
          BY <2>2, <5>1
      <4> QED
        BY <4>1, <4>3, <4>4
    <3> QED
      BY <3>2
  <2> QED
    BY <1>0, <1>2, <2>1, <2>3 DEF OutTypes, Calling
<1>6. sent' \in Seq([frame : Nat, data : Frame])
  <2> DEFINE e == [frame |-> r.frame, data |-> outMem[r.buf]]
             S == [frame : Nat, data : Frame]
  <2>1. e \in S
    BY <1>4
  <2>2. sent' = sent \/ sent' = Append(sent, e)
    BY <1>1 DEF UsbComplete, UsbFail, Record
  <2>3. sent \in Seq(S)
    BY <1>0 DEF DataTypes
  <2>4. sent' \in Seq(S)
    <3> HIDE DEF e, S
    <3> QED
      BY <2>1, <2>2, <2>3
  <2> QED
    BY <2>4
<1>7. DataTypes'
  BY <1>0, <1>1, <1>3, <1>6 DEF UsbComplete, UsbFail, memory, DataTypes, Request
<1> QED
  BY <1>3, <1>5, <1>7 DEF Types

LEMMA StepKeepsTypes == ASSUME Types, [Next]_vars PROVE Types'
<1>1. CASE TestIn
  BY <1>1, FillTypes, InAddTypes DEF TestIn
<1>2. CASE TestFormat \/ TestFormatValue
  BY <1>2, FormatKeepsTypes DEF TestFormat, TestFormatValue
<1>3. CASE TestOut \/ TestOutValue \/ XferDataToUSBEp
  BY <1>3, OutKeepsTypes DEF TestOut, TestOutValue, OutPrint
<1>4. CASE Usb
  BY <1>4, UsbKeepsTypes
<1>5. CASE UNCHANGED vars
  BY <1>5 DEF vars, chosen, memory, inVars, formatVars, outVars, driver, Types, InTypes, FormatTypes,
              OutTypes, DataTypes, Request, Calling, Cell, Frame
<1> QED
  BY <1>1, <1>2, <1>3, <1>4, <1>5 DEF Next

\* Every variable of the simulator keeps its type, with either method and whatever the
\* driver does: no index leaves its ring or its frame, and ov stays within OutLen.
THEOREM SimTypeCorrect == Spec => []TypeOK
<1>1. Spec => []Types
  BY InitTypes, StepKeepsTypes, PTL DEF Spec
<1> QED
  BY <1>1, TypesImply, PTL

-----------------------------------------------------------------------------
\* What each thread leaves alone.
LEMMA InFrame ==
  ASSUME TestIn
  PROVE  /\ method' = method /\ outRQue' = outRQue /\ outMem' = outMem /\ fpc' = fpc
         /\ index' = index /\ nodeInbuf' = nodeInbuf /\ opc' = opc /\ nodeOutbuf' = nodeOutbuf
         /\ ov' = ov /\ requests' = requests /\ signalled' = signalled /\ printed' = printed
         /\ sent' = sent /\ timedOut' = timedOut
BY DEF TestIn, InFill, InAdd, chosen, memory, formatVars, outVars, driver

LEMMA FormatFrame ==
  ASSUME TestFormat \/ TestFormatValue
  PROVE  /\ method' = method /\ tpc' = tpc /\ nodes' = nodes /\ opc' = opc
         /\ nodeOutbuf' = nodeOutbuf /\ ov' = ov /\ requests' = requests
         /\ signalled' = signalled /\ printed' = printed /\ sent' = sent /\ timedOut' = timedOut
BY DEF TestFormat, TestFormatValue, FormatPoll, FormatPull, FormatPullValue, FormatStore, FormatIsFull,
       FormatAdd, chosen, inVars, outVars, driver

LEMMA OutFrame ==
  ASSUME TestOut \/ TestOutValue \/ XferDataToUSBEp \/ Usb
  PROVE  /\ method' = method /\ inRQue' = inRQue /\ inMem' = inMem /\ tpc' = tpc
         /\ nodes' = nodes /\ fpc' = fpc /\ index' = index /\ nodeInbuf' = nodeInbuf
         /\ overrun' = overrun
BY DEF TestOut, TestOutValue, OutPull, OutPullValue, OutPrint, OutIndex, XferDataToUSBEp, XferBegin,
       XferWait, XferAbort, XferAbortWait, Usb, UsbComplete, UsbFail, chosen, inVars, formatVars,
       memory

LEMMA XferFrame ==
  ASSUME OutIndex \/ XferDataToUSBEp \/ Usb
  PROVE  /\ outRQue' = outRQue /\ outMem' = outMem /\ nodeOutbuf' = nodeOutbuf
         /\ printed' = printed /\ (opc = "poll" => opc' = "poll")
         /\ (opc = "print" <=> opc' = "print")
BY DEF OutIndex, XferDataToUSBEp, XferBegin, XferWait, XferAbort, XferAbortWait, Usb, UsbComplete,
       UsbFail, memory

\* pull, with either method: the private node, or the address of the oldest slot, has
\* the oldest slot's data.
LEMMA FormatPulls ==
  ASSUME Types, FormatPull \/ FormatPullValue
  PROVE  /\ fpc = "pull" /\ fpc' = "store" /\ method' = method /\ inRQue' = pull(inRQue)
         /\ inRQue.num > 0 /\ outRQue' = outRQue /\ outMem' = outMem /\ index' = index
         /\ overrun' = overrun
         /\ nodeInbuf' = IF method = "value" THEN InLen ELSE pulled(inRQue)
         /\ inMem'[nodeInbuf'] = inMem[pulled(inRQue)]
         /\ \A s \in 0 .. InLen - 1 : inMem'[s] = inMem[s]
<1>0. InTypes /\ FormatTypes
  BY DEF Types
<1>1. InLen \in Nat \ {0}
  BY Sizes
<1>2. inMem \in [0 .. InLen -> Cell] /\ Own(inRQue, InLen)
  BY <1>0 DEF InTypes
<1>3. fpc = "pull" /\ inRQue.num > 0
  BY <1>0 DEF FormatTypes, FormatPull, FormatPullValue
<1>4. pulled(inRQue) \in 0 .. InLen - 1
  BY <1>1, <1>2, <1>3, TailAt
<1>5. ~isEmpty(inRQue)
  BY <1>3 DEF isEmpty
<1>6. CASE FormatPull
  BY <1>3, <1>5, <1>6 DEF FormatPull, chosen, memory
<1>7. CASE FormatPullValue
  <2>1. /\ method = "value" /\ nodeInbuf' = InLen
        /\ inMem' = [inMem EXCEPT ![InLen] = inMem[pulled(inRQue)]]
    BY <1>5, <1>7 DEF FormatPullValue, CopyTo
  <2>2. inMem'[InLen] = inMem[pulled(inRQue)] /\ \A s \in 0 .. InLen - 1 : inMem'[s] = inMem[s]
    BY <1>1, <1>2, <2>1
  <2> QED
    BY <1>3, <1>7, <2>1, <2>2 DEF FormatPullValue, chosen
<1> QED
  BY <1>6, <1>7

LEMMA OutPulls ==
  ASSUME Types, OutPull \/ OutPullValue
  PROVE  /\ opc = "poll" /\ opc' = "print" /\ outRQue' = pull(outRQue)
         /\ outRQue.num > 0 /\ printed' = printed /\ ov' = ov /\ requests' = requests
         /\ signalled' = signalled /\ sent' = sent /\ timedOut' = timedOut
         /\ nodeOutbuf' = IF method = "value" THEN OutLen ELSE pulled(outRQue)
         /\ outMem'[nodeOutbuf'] = outMem[pulled(outRQue)]
         /\ \A s \in 0 .. OutLen - 1 : outMem'[s] = outMem[s]
<1>0. FormatTypes /\ DataTypes
  BY DEF Types
<1>1. OutLen \in Nat \ {0}
  BY Sizes
<1>2. outMem \in [0 .. OutLen -> Frame] /\ Own(outRQue, OutLen)
  BY <1>0 DEF FormatTypes, DataTypes
<1>3. outRQue.num # 0 /\ outRQue.num \in 0 .. OutLen
  BY <1>1, <1>2, OwnFields DEF OutPull, OutPullValue, isEmpty
<1>4. pulled(outRQue) \in 0 .. OutLen - 1
  BY <1>1, <1>2, <1>3, TailAt
<1>5. CASE OutPull
  BY <1>3, <1>5 DEF OutPull, memory, driver
<1>6. CASE OutPullValue
  <2>1. /\ method = "value" /\ nodeOutbuf' = OutLen
        /\ outMem' = [outMem EXCEPT ![OutLen] = outMem[pulled(outRQue)]]
    BY <1>6 DEF OutPullValue, CopyTo
  <2>2. outMem'[OutLen] = outMem[pulled(outRQue)] /\ \A s \in 0 .. OutLen - 1 : outMem'[s] = outMem[s]
    BY <1>1, <1>2, <2>1
  <2> QED
    BY <1>3, <1>6, <2>1, <2>2 DEF OutPullValue, driver
<1> QED
  BY <1>5, <1>6

-----------------------------------------------------------------------------
\* The buffer method 2 pulled last lies just behind those still queued, until the ring
\* is full again; method 1 has its own.
Behind(r, max, b) == b \in 0 .. max - 1 /\ (r.num < max => Dist(r.head, b, max) = r.num + 1)

Pulled ==
  /\ fpc = "store" => IF method = "value" THEN nodeInbuf = InLen ELSE Behind(inRQue, InLen, nodeInbuf)
  /\ opc # "poll" => IF method = "value" THEN nodeOutbuf = OutLen
                     ELSE Behind(outRQue, OutLen, nodeOutbuf)

LEMMA AddBehind ==
  ASSUME NEW max \in Nat \ {0}, NEW r, Own(r, max), NEW ow \in BOOLEAN, NEW b, Behind(r, max, b)
  PROVE  Behind(add(r, r.buf[r.head], ow), max, b)
<1> DEFINE q == add(r, r.buf[r.head], ow)
<1>1. r.num \in 0 .. max /\ r.head \in 0 .. max - 1
  BY OwnFields
<1>2. /\ r.num < max =>
            /\ q.num = r.num + 1
            /\ \A s \in 0 .. max - 1 :
                 Dist(q.head, s, max) = IF s = r.head THEN 1 ELSE Dist(r.head, s, max) + 1
      /\ r.num = max => q.num = max
  BY AddMoves
<1> HIDE DEF q
<1>3. ASSUME r.num = max PROVE Behind(q, max, b)
  <2>1. q.num = max /\ b \in 0 .. max - 1 /\ ~(max < max)
    BY <1>2, <1>3 DEF Behind
  <2> QED
    BY <2>1 DEF Behind
<1>4. ASSUME r.num < max PROVE Behind(q, max, b)
  <2>1. b \in 0 .. max - 1 /\ Dist(r.head, b, max) = r.num + 1
    BY <1>4 DEF Behind
  <2>2. q.num < max => b # r.head
    BY <1>1, <1>2, <1>4, <2>1 DEF Dist
  <2>3. q.num < max => Dist(q.head, b, max) = Dist(r.head, b, max) + 1
    BY <1>2, <1>4, <2>1, <2>2
  <2>4. q.num < max => Dist(q.head, b, max) = q.num + 1
    BY <1>2, <1>4, <2>1, <2>3
  <2> QED
    BY <2>1, <2>4 DEF Behind
<1> QED
  BY <1>1, <1>3, <1>4 DEF q

LEMMA PullBehind ==
  ASSUME NEW max \in Nat \ {0}, NEW r, Own(r, max), r.num > 0
  PROVE  Behind(pull(r), max, pulled(r))
<1>1. r.num \in 0 .. max
  BY OwnFields
<1>2. pulled(r) \in 0 .. max - 1 /\ Dist(r.head, pulled(r), max) = r.num
  BY TailAt
<1>3. pull(r).head = r.head /\ pull(r).num = r.num - 1
  BY <1>1, PullMoves
<1> QED
  BY <1>1, <1>2, <1>3 DEF Behind

LEMMA InitPulled == Init => Pulled
BY DEF Init, Pulled

LEMMA StepKeepsPulled == ASSUME Types, Pulled, [Next]_vars PROVE Pulled'
<1>0. /\ InLen \in Nat \ {0} /\ OutLen \in Nat \ {0}
      /\ Own(inRQue, InLen) /\ Own(outRQue, OutLen)
  BY Sizes DEF Types, InTypes, FormatTypes
<1>1. CASE TestIn
  <2>1. inRQue' = inRQue \/ inRQue' = add(inRQue, inRQue.buf[inRQue.head], FALSE)
    BY <1>1 DEF TestIn, InFill, InAdd, RingWithNode, Types, InTypes
  <2>2. Behind(inRQue, InLen, nodeInbuf) => Behind(inRQue', InLen, nodeInbuf)
    <3> DEFINE ow == FALSE
    <3>1. ow \in BOOLEAN /\ (inRQue' = inRQue \/ inRQue' = add(inRQue, inRQue.buf[inRQue.head], ow))
      BY <2>1
    <3> HIDE DEF ow
    <3> QED
      BY <1>0, <3>1, AddBehind
  <2> QED
    BY <1>1, <2>2, InFrame DEF Pulled
<1>2. CASE TestFormat \/ TestFormatValue
  <2>1. method' = method /\ opc' = opc /\ nodeOutbuf' = nodeOutbuf
    BY <1>2, FormatFrame
  <2>2. CASE FormatPull \/ FormatPullValue
    <3>1. /\ method' = method /\ inRQue' = pull(inRQue) /\ inRQue.num > 0 /\ outRQue' = outRQue
          /\ nodeInbuf' = IF method = "value" THEN InLen ELSE pulled(inRQue)
      BY <2>2, FormatPulls
    <3>2. Behind(inRQue', InLen, pulled(inRQue))
      BY <1>0, <3>1, PullBehind
    <3> QED
      BY <2>1, <3>1, <3>2 DEF Pulled
  <2>3. CASE FormatPoll \/ FormatStore \/ FormatIsFull
    <3>1. outRQue' = outRQue /\ fpc' # "store"
      BY <2>3 DEF FormatPoll, FormatStore, FormatIsFull
    <3> QED
      BY <2>1, <3>1 DEF Pulled
  <2>4. CASE FormatAdd
    <3>1. outRQue' = add(outRQue, outRQue.buf[outRQue.head], overwrite) /\ overwrite \in BOOLEAN
      BY <2>4 DEF FormatAdd, Types, FormatTypes
    <3>2. Behind(outRQue, OutLen, nodeOutbuf) => Behind(outRQue', OutLen, nodeOutbuf)
      BY <1>0, <3>1, AddBehind
    <3>3. fpc' # "store"
      BY <2>4 DEF FormatAdd
    <3> QED
      BY <2>1, <3>2, <3>3 DEF Pulled
  <2> QED
    BY <1>2, <2>2, <2>3, <2>4 DEF TestFormat, TestFormatValue
<1>3. CASE OutPull \/ OutPullValue
  <2>1. /\ outRQue' = pull(outRQue) /\ outRQue.num > 0
        /\ nodeOutbuf' = IF method = "value" THEN OutLen ELSE pulled(outRQue)
    BY <1>3, OutPulls
  <2>2. Behind(outRQue', OutLen, pulled(outRQue))
    BY <1>0, <2>1, PullBehind
  <2>3. method' = method /\ inRQue' = inRQue /\ fpc' = fpc /\ nodeInbuf' = nodeInbuf
    BY <1>3, OutFrame DEF TestOut, TestOutValue
  <2> QED
    BY <2>1, <2>2, <2>3 DEF Pulled
<1>4. CASE OutPrint
  BY <1>4 DEF OutPrint, Pulled, chosen, inVars, formatVars
<1>5. CASE OutIndex \/ XferDataToUSBEp \/ Usb
  <2>1. method' = method /\ inRQue' = inRQue /\ fpc' = fpc /\ nodeInbuf' = nodeInbuf
    BY <1>5, OutFrame DEF TestOut
  <2> QED
    BY <1>5, <2>1, XferFrame DEF Pulled
<1>6. CASE UNCHANGED vars
  BY <1>6 DEF vars, chosen, formatVars, outVars, Pulled
<1> QED
  BY <1>1, <1>2, <1>3, <1>4, <1>5, <1>6 DEF Next, TestOut, TestOutValue

\* A head slot that is in use: the ring is full, or, with method 2, one short of it.
LEMMA HeadInUse ==
  ASSUME NEW max \in Nat \ {0}, NEW r, Own(r, max), r.head \in QueuedIn(r)
  PROVE  r.num >= max
<1>1. r.head \in 0 .. max - 1 /\ Dist(r.head, r.head, max) <= r.num
  BY QueuedAt
<1> QED
  BY <1>1 DEF Dist

LEMMA HeadInHand ==
  ASSUME NEW max \in Nat \ {0}, NEW r, Own(r, max), Behind(r, max, r.head)
  PROVE  r.num + 1 >= max
<1>1. r.num \in 0 .. max /\ r.head \in 0 .. max - 1
  BY OwnFields
<1> QED
  BY <1>1 DEF Dist, Behind

Crowded ==
  LET spare == IF method = "pointer" THEN 1 ELSE 0
  IN  inRQue.num + spare >= InLen \/ outRQue.num + spare >= OutLen

LEMMA OverrunOnlyCrowded ==
  ASSUME Types, Pulled, [Next]_vars, overrun', ~overrun
  PROVE  Crowded
<1>0. /\ InLen \in Nat \ {0} /\ OutLen \in Nat \ {0} /\ method \in {"pointer", "value"}
      /\ Own(inRQue, InLen) /\ Own(outRQue, OutLen)
  BY Sizes DEF Types, InTypes, FormatTypes
<1>1. /\ inRQue.head \in 0 .. InLen - 1 /\ inRQue.num \in 0 .. InLen
      /\ outRQue.head \in 0 .. OutLen - 1 /\ outRQue.num \in 0 .. OutLen
      /\ inRQue.buf[inRQue.head] = inRQue.head /\ outRQue.buf[outRQue.head] = outRQue.head
  BY <1>0, OwnFields
<1>2. InFill \/ (FormatStore /\ (TestFormat \/ TestFormatValue))
  <2>1. ~(TestOut \/ TestOutValue \/ XferDataToUSBEp \/ Usb)
    BY OutFrame
  <2>2. ~UNCHANGED vars
    BY DEF vars
  <2>3. ~InAdd /\ ~FormatPoll /\ ~FormatPull /\ ~FormatPullValue /\ ~FormatIsFull /\ ~FormatAdd
    BY DEF InAdd, FormatPoll, FormatPull, FormatPullValue, FormatIsFull, FormatAdd
  <2> QED
    BY <2>1, <2>2, <2>3 DEF Next, TestIn, TestFormat, TestFormatValue
<1>3. CASE InFill
  <2>1. inRQue.head \in InBusy
    BY <1>1, <1>3 DEF InFill, getHead
  <2>2. CASE inRQue.head \in QueuedIn(inRQue)
    <3>1. inRQue.num >= InLen
      BY <1>0, <2>2, HeadInUse
    <3>2. inRQue.num + 0 >= InLen /\ inRQue.num + 1 >= InLen
      BY <1>0, <1>1, <3>1
    <3> QED
      BY <3>2 DEF Crowded
  <2>3. CASE fpc = "store" /\ nodeInbuf = inRQue.head
    <3>1. method = "pointer" /\ Behind(inRQue, InLen, inRQue.head)
      BY <1>0, <1>1, <2>3 DEF Pulled
    <3>2. inRQue.num + 1 >= InLen
      BY <1>0, <3>1, HeadInHand
    <3> QED
      BY <3>1, <3>2 DEF Crowded
  <2> QED
    BY <2>1, <2>2, <2>3 DEF InBusy
<1>4. CASE FormatStore
  <2>1. outRQue.head \in OutBusy
    BY <1>1, <1>4 DEF FormatStore, Types, FormatTypes
  <2>2. CASE outRQue.head \in QueuedIn(outRQue)
    <3>1. outRQue.num >= OutLen
      BY <1>0, <2>2, HeadInUse
    <3>2. outRQue.num + 0 >= OutLen /\ outRQue.num + 1 >= OutLen
      BY <1>0, <1>1, <3>1
    <3> QED
      BY <3>2 DEF Crowded
  <2>3. CASE opc # "poll" /\ nodeOutbuf = outRQue.head
    <3>1. method = "pointer" /\ Behind(outRQue, OutLen, outRQue.head)
      BY <1>0, <1>1, <2>3 DEF Pulled
    <3>2. outRQue.num + 1 >= OutLen
      BY <1>0, <3>1, HeadInHand
    <3> QED
      BY <3>1, <3>2 DEF Crowded
  <2> QED
    BY <2>1, <2>2, <2>3 DEF OutBusy
<1> QED
  BY <1>2, <1>3, <1>4

\* A step that writes a buffer in use finds a ring full with method 1, at most one slot
\* short of full with method 2.
THEOREM OnlyFullRingsAreOverrun == Spec => OverrunNeedsFullRing
<1>1. Spec => [](Types /\ Pulled)
  <2>1. Init => Types /\ Pulled
    BY InitTypes, InitPulled
  <2>2. Types /\ Pulled /\ [Next]_vars => (Types /\ Pulled)'
    BY StepKeepsTypes, StepKeepsPulled
  <2> QED
    BY <2>1, <2>2, PTL DEF Spec
<1>2. Types /\ Pulled /\ [Next]_vars => [overrun' /\ ~overrun => Crowded]_vars
  BY OverrunOnlyCrowded
<1>3. Spec => [][overrun' /\ ~overrun => Crowded]_vars
  BY <1>1, <1>2, PTL DEF Spec
<1> QED
  BY <1>3 DEF Crowded, OverrunNeedsFullRing

-----------------------------------------------------------------------------
\* Slots that hold data somebody still needs, the one in hand included.
InUsed  == inRQue.num + (IF method = "pointer" /\ fpc = "store" THEN 1 ELSE 0)
OutUsed == outRQue.num + (IF method = "pointer" /\ opc # "poll" THEN 1 ELSE 0)

\* Without an overrun the node filled and the frame being built have a slot of their
\* own, so that no add is refused and none overwrites.
Room ==
  /\ fpc = "isFull" => index = FrameNodes
  /\ fpc = "add" => index = 0
  /\ ~overrun => /\ tpc = "add" => InUsed < InLen
                 /\ OutUsed <= OutLen
                 /\ (index > 0 \/ fpc = "add") => OutUsed < OutLen

LEMMA FreeHead ==
  ASSUME NEW max \in Nat \ {0}, NEW r, Own(r, max), r.head \notin QueuedIn(r)
  PROVE  r.num < max
<1>1. r.num \in 0 .. max /\ r.head \in 0 .. max - 1
  BY OwnFields
<1>2. Dist(r.head, r.head, max) > r.num
  BY <1>1, QueuedAt DEF Dist
<1> QED
  BY <1>1, <1>2 DEF Dist

LEMMA FreeBehind ==
  ASSUME NEW max \in Nat \ {0}, NEW r, Own(r, max), r.num < max,
         NEW b, Behind(r, max, b), b # r.head
  PROVE  r.num + 1 < max
<1>1. r.num \in 0 .. max /\ r.head \in 0 .. max - 1
  BY OwnFields
<1>2. b \in 0 .. max - 1 /\ Dist(r.head, b, max) = r.num + 1
  BY DEF Behind
<1> QED
  BY <1>1, <1>2 DEF Dist

LEMMA InitRoom == Init => Room
<1> SUFFICES ASSUME Init PROVE Room
  OBVIOUS
<1>1. OutLen \in Nat \ {0}
  BY SimAssumption
<1>2. outRQue.num = IF method = "pointer" THEN OutLen ELSE 0
  BY <1>1, InitRings DEF Init
<1>3. fpc = "poll" /\ tpc = "fill" /\ index = 0 /\ opc = "poll"
  BY DEF Init
<1>4. OutUsed <= OutLen
  BY <1>1, <1>2, <1>3 DEF OutUsed
<1> QED
  BY <1>3, <1>4 DEF Room

\* What testIn finds when it fills a slot nobody uses, and testFormat when it stores.
LEMMA FillsFree ==
  ASSUME Types, Pulled, InFill, ~overrun'
  PROVE  InUsed < InLen /\ inRQue.num < InLen /\ (fpc = "store" => nodeInbuf # inRQue.head)
<1>0. InLen \in Nat \ {0} /\ Own(inRQue, InLen)
  BY Sizes DEF Types, InTypes
<1>1. /\ inRQue.head \in 0 .. InLen - 1 /\ inRQue.num \in 0 .. InLen
      /\ inRQue.buf[inRQue.head] = inRQue.head
  BY <1>0, OwnFields
<1>2. inRQue.head \notin InBusy
  BY <1>1 DEF InFill, getHead
<1>3. inRQue.num < InLen
  BY <1>0, <1>2, FreeHead DEF InBusy
<1>4. fpc = "store" => nodeInbuf # inRQue.head
  BY <1>2 DEF InBusy
<1>5. ASSUME method = "pointer", fpc = "store" PROVE inRQue.num + 1 < InLen
  <2>1. Behind(inRQue, InLen, nodeInbuf)
    BY <1>5 DEF Pulled
  <2> QED
    BY <1>0, <1>3, <1>4, <1>5, <2>1, FreeBehind
<1>6. CASE method = "pointer" /\ fpc = "store"
  BY <1>3, <1>4, <1>5, <1>6 DEF InUsed
<1>7. CASE ~(method = "pointer" /\ fpc = "store")
  <2>1. InUsed = inRQue.num + 0
    BY <1>7 DEF InUsed
  <2> QED
    BY <1>1, <1>3, <1>4, <2>1
<1> QED
  BY <1>6, <1>7

LEMMA StoresFree ==
  ASSUME Types, Pulled, FormatStore, ~overrun'
  PROVE  OutUsed < OutLen /\ outRQue.num < OutLen /\ (opc # "poll" => nodeOutbuf # outRQue.head)
<1>0. OutLen \in Nat \ {0} /\ Own(outRQue, OutLen)
  BY Sizes DEF Types, FormatTypes
<1>1. /\ outRQue.head \in 0 .. OutLen - 1 /\ outRQue.num \in 0 .. OutLen
      /\ outRQue.buf[outRQue.head] = outRQue.head
  BY <1>0, OwnFields
<1>2. outRQue.head \notin OutBusy
  BY <1>1 DEF FormatStore, Types, FormatTypes
<1>3. outRQue.num < OutLen
  BY <1>0, <1>2, FreeHead DEF OutBusy
<1>4. opc # "poll" => nodeOutbuf # outRQue.head
  BY <1>2 DEF OutBusy
<1>5. ASSUME method = "pointer", opc # "poll" PROVE outRQue.num + 1 < OutLen
  <2>1. Behind(outRQue, OutLen, nodeOutbuf)
    BY <1>5 DEF Pulled
  <2> QED
    BY <1>0, <1>3, <1>4, <1>5, <2>1, FreeBehind
<1>6. CASE method = "pointer" /\ opc # "poll"
  BY <1>3, <1>4, <1>5, <1>6 DEF OutUsed
<1>7. CASE ~(method = "pointer" /\ opc # "poll")
  <2>1. OutUsed = outRQue.num + 0
    BY <1>7 DEF OutUsed
  <2> QED
    BY <1>1, <1>3, <1>4, <2>1
<1> QED
  BY <1>6, <1>7

LEMMA OverrunStays == ASSUME [Next]_vars, overrun PROVE overrun'
<1>1. CASE TestIn
  BY <1>1 DEF TestIn, InFill, InAdd
<1>2. CASE TestFormat \/ TestFormatValue
  BY <1>2 DEF TestFormat, TestFormatValue, FormatPoll, FormatPull, FormatPullValue, FormatStore,
              FormatIsFull, FormatAdd
<1>3. CASE TestOut \/ TestOutValue \/ XferDataToUSBEp \/ Usb
  BY <1>3, OutFrame
<1>4. CASE UNCHANGED vars
  BY <1>4 DEF vars
<1> QED
  BY <1>1, <1>2, <1>3, <1>4 DEF Next

LEMMA StepKeepsRoom == ASSUME Types, Pulled, Room, [Next]_vars PROVE Room'
<1>0. /\ InLen \in Nat \ {0} /\ OutLen \in Nat \ {0} /\ FrameNodes \in Nat \ {0}
      /\ Own(inRQue, InLen) /\ Own(outRQue, OutLen) /\ index \in 0 .. FrameNodes
  BY Sizes DEF Types, InTypes, FormatTypes
<1>1. inRQue.num \in 0 .. InLen /\ outRQue.num \in 0 .. OutLen
  BY <1>0, OwnFields
<1>2. ~overrun' => ~overrun
  BY OverrunStays
<1>3. InUsed \in Nat /\ OutUsed \in Nat
  BY <1>1 DEF InUsed, OutUsed
<1>4. CASE TestIn
  <2>1. OutUsed' = OutUsed /\ fpc' = fpc /\ index' = index
    BY <1>4, InFrame DEF OutUsed
  <2>2. ~overrun' /\ tpc' = "add" => (InUsed < InLen)'
    <3>1. CASE InFill
      BY <3>1, FillsFree, InFrame, <1>4 DEF InFill, InUsed
    <3>2. CASE InAdd
      BY <3>2 DEF InAdd
    <3> QED
      BY <1>4, <3>1, <3>2 DEF TestIn
  <2> QED
    BY <1>2, <2>1, <2>2 DEF Room
<1>5. CASE TestFormat \/ TestFormatValue
  <2>0. method' = method /\ tpc' = tpc /\ opc' = opc
    BY <1>5, FormatFrame
  <2>1. CASE FormatPoll
    <3>1. /\ fpc' \in {"isFull", "pull"} /\ (fpc' = "isFull" => index >= FrameNodes) /\ index' = index
          /\ fpc = "poll" /\ inRQue' = inRQue /\ outRQue' = outRQue /\ overrun' = overrun
      BY <2>1 DEF FormatPoll, FrameFull
    <3>2. InUsed' = InUsed /\ OutUsed' = OutUsed
      BY <2>0, <3>1 DEF InUsed, OutUsed
    <3>3. fpc' = "isFull" => index' = FrameNodes
      BY <1>0, <3>1
    <3> QED
      BY <2>0, <3>1, <3>2, <3>3 DEF Room
  <2>2. CASE FormatPull \/ FormatPullValue
    <3>1. /\ fpc = "pull" /\ fpc' = "store" /\ index' = index /\ inRQue' = pull(inRQue)
          /\ inRQue.num > 0 /\ outRQue' = outRQue /\ overrun' = overrun
      BY <2>2, FormatPulls
    <3>2. pull(inRQue).num = inRQue.num - 1
      BY <1>0, <1>1, <3>1, PullMoves
    <3>3. OutUsed' = OutUsed
      BY <2>0, <3>1 DEF OutUsed
    <3>4. InUsed' <= InUsed
      <4>1. InUsed = inRQue.num + 0
        BY <3>1 DEF InUsed
      <4>2. InUsed' = inRQue.num - 1 + (IF method = "pointer" THEN 1 ELSE 0)
        BY <2>0, <3>1, <3>2 DEF InUsed
      <4> QED
        BY <1>1, <4>1, <4>2
    <3>5. InUsed' \in Int
      BY <1>1, <2>0, <3>1, <3>2 DEF InUsed
    <3>6. InUsed < InLen => InUsed' < InLen
      BY <1>0, <1>3, <3>4, <3>5
    <3> QED
      BY <2>0, <3>1, <3>3, <3>6 DEF Room
  <2>3. CASE FormatStore
    <3>1. /\ fpc = "store" /\ fpc' = "poll" /\ inRQue' = inRQue /\ outRQue' = outRQue
      BY <2>3 DEF FormatStore
    <3>2. ~overrun' => OutUsed < OutLen
      BY <2>3, StoresFree
    <3>3. OutUsed' = OutUsed
      BY <2>0, <3>1 DEF OutUsed
    <3>4. InUsed' = inRQue.num + 0
      BY <3>1 DEF InUsed
    <3>5. InUsed < InLen => InUsed' < InLen
      <4>1. InUsed = inRQue.num \/ InUsed = inRQue.num + 1
        BY <1>1 DEF InUsed
      <4> QED
        BY <1>0, <1>1, <3>4, <4>1
    <3>6. ~overrun' => OutUsed' <= OutLen /\ OutUsed' < OutLen
      BY <1>0, <1>3, <3>2, <3>3
    <3> QED
      BY <1>2, <2>0, <3>1, <3>5, <3>6 DEF Room
  <2>4. CASE FormatIsFull
    <3>1. /\ fpc = "isFull" /\ fpc' = "add" /\ index' = 0 /\ inRQue' = inRQue /\ outRQue' = outRQue
          /\ overrun' = overrun
      BY <2>4 DEF FormatIsFull
    <3>2. InUsed' = InUsed /\ OutUsed' = OutUsed
      BY <2>0, <3>1 DEF InUsed, OutUsed
    <3>3. index > 0
      BY <1>0, <3>1 DEF Room
    <3> QED
      BY <2>0, <3>1, <3>2, <3>3 DEF Room
  <2>5. CASE FormatAdd
    <3>1. /\ fpc = "add" /\ fpc' = "poll" /\ index' = index /\ inRQue' = inRQue /\ overrun' = overrun
          /\ outRQue' = add(outRQue, outRQue.buf[outRQue.head], overwrite) /\ overwrite \in BOOLEAN
      BY <2>5 DEF FormatAdd, Types, FormatTypes
    <3>2. InUsed' = InUsed /\ index = 0
      BY <2>0, <3>1 DEF InUsed, Room
    <3>3. ~overrun => OutUsed' <= OutLen
      <4> SUFFICES ASSUME ~overrun PROVE OutUsed' <= OutLen
        OBVIOUS
      <4>1. OutUsed < OutLen
        BY <3>1 DEF Room
      <4>2. outRQue.num < OutLen
        BY <1>0, <1>1, <4>1 DEF OutUsed
      <4>3. outRQue'.num = outRQue.num + 1
        BY <1>0, <3>1, <4>2, AddMoves
      <4>4. OutUsed' = OutUsed + 1
        BY <1>1, <2>0, <4>3 DEF OutUsed
      <4> QED
        BY <1>0, <1>3, <4>1, <4>4
    <3>4. ~(index' > 0)
      BY <3>1, <3>2
    <3> QED
      BY <2>0, <3>1, <3>2, <3>3, <3>4 DEF Room
  <2> QED
    BY <1>5, <2>1, <2>2, <2>3, <2>4, <2>5 DEF TestFormat, TestFormatValue
<1>6. CASE TestOut \/ TestOutValue \/ XferDataToUSBEp \/ Usb
  <2>0. /\ method' = method /\ inRQue' = inRQue /\ tpc' = tpc /\ fpc' = fpc /\ index' = index
        /\ overrun' = overrun
    BY <1>6, OutFrame
  <2>1. InUsed' = InUsed
    BY <2>0 DEF InUsed
  <2>2. OutUsed' <= OutUsed /\ OutUsed' \in Int
    <3>1. CASE OutPull \/ OutPullValue
      <4>1. opc = "poll" /\ opc' = "print" /\ outRQue' = pull(outRQue) /\ outRQue.num > 0
        BY <3>1, OutPulls
      <4>2. pull(outRQue).num = outRQue.num - 1
        BY <1>0, <1>1, <4>1, PullMoves
      <4>3. OutUsed = outRQue.num + 0
        BY <4>1 DEF OutUsed
      <4>4. OutUsed' = outRQue.num - 1 + (IF method = "pointer" THEN 1 ELSE 0)
        BY <2>0, <4>1, <4>2 DEF OutUsed
      <4> QED
        BY <1>1, <4>3, <4>4
    <3>2. ASSUME outRQue' = outRQue, opc # "poll" \/ opc' = "poll"
          PROVE  OutUsed' <= OutUsed /\ OutUsed' \in Int
      BY <1>1, <2>0, <3>2 DEF OutUsed
    <3>3. CASE OutPrint
      <4>1. outRQue' = outRQue /\ opc = "print"
        BY <3>3 DEF OutPrint
      <4> QED
        BY <3>2, <4>1
    <3>4. CASE OutIndex \/ XferDataToUSBEp \/ Usb
      BY <3>2, <3>4, XferFrame
    <3> QED
      BY <1>6, <3>1, <3>3, <3>4 DEF TestOut, TestOutValue
  <2>3. (OutUsed <= OutLen => OutUsed' <= OutLen) /\ (OutUsed < OutLen => OutUsed' < OutLen)
    BY <1>0, <1>3, <2>2
  <2> QED
    BY <2>0, <2>1, <2>3 DEF Room
<1>7. CASE UNCHANGED vars
  BY <1>7 DEF vars, chosen, inVars, formatVars, outVars, Room, InUsed, OutUsed
<1> QED
  BY <1>4, <1>5, <1>6, <1>7 DEF Next

-----------------------------------------------------------------------------
\* As long as no buffer in use was written and no wait timed out, a request exists only
\* during its own call, or has ended and left its event set for it.
ThisRequest == [frame |-> Len(printed), buf |-> nodeOutbuf, event |-> ov]

CallInv ==
  /\ opc \notin {"abort", "abortWait"}
  /\ opc # "wait" => requests = {} /\ signalled = {}
  /\ opc = "wait" => \/ requests = {} /\ signalled = {ov}
                     \/ requests = {ThisRequest} /\ signalled = {}
  /\ ov < OutLen
  /\ opc \in {"index", "begin", "wait"} =>
       Len(printed) > 0 /\ outMem[nodeOutbuf] = printed[Len(printed)]

SentInv ==
  /\ \A i \in DOMAIN sent :
       sent[i].frame \in 1 .. Len(printed) /\ sent[i].data = printed[sent[i].frame]
  /\ \A i, j \in DOMAIN sent : i < j => sent[i].frame < sent[j].frame
  /\ opc \in {"index", "begin"} \/ requests # {} =>
       \A i \in DOMAIN sent : sent[i].frame < Len(printed)

DeviceInv == ~overrun /\ ~timedOut => CallInv /\ SentInv

LEMMA InitDevice == Init => DeviceInv
<1> SUFFICES ASSUME Init PROVE DeviceInv
  OBVIOUS
<1>1. /\ opc = "poll" /\ requests = {} /\ signalled = {} /\ ov = 0 /\ sent = <<>>
      /\ OutLen \in Nat \ {0}
  BY SimAssumption DEF Init
<1>2. CallInv
  BY <1>1 DEF CallInv
<1>3. SentInv
  BY <1>1 DEF SentInv
<1> QED
  BY <1>2, <1>3 DEF DeviceInv

\* The frame being printed or sent is left as it is.
LEMMA FormatSparesFrame ==
  ASSUME Types, Pulled, TestFormat \/ TestFormatValue, ~overrun', opc # "poll"
  PROVE  outMem'[nodeOutbuf] = outMem[nodeOutbuf]
<1>1. CASE FormatStore
  <2>1. nodeOutbuf # outRQue.head
    BY <1>1, StoresFree
  <2>2. Own(outRQue, OutLen) /\ OutLen \in Nat \ {0} /\ nodeOut = outRQue.head
    BY <1>1, Sizes DEF FormatStore, Types, FormatTypes
  <2>3. outRQue.buf[nodeOut] = outRQue.head
    BY <2>2, OwnFields
  <2>4. outMem \in [0 .. OutLen -> Frame] /\ nodeOutbuf \in 0 .. OutLen
    BY DEF Types, OutTypes, DataTypes
  <2>5. outMem' = [outMem EXCEPT ![outRQue.head] = [@ EXCEPT ![index] = inMem[nodeInbuf]]]
    BY <1>1, <2>3 DEF FormatStore
  <2> QED
    BY <2>1, <2>4, <2>5
<1>2. CASE FormatPoll \/ FormatPull \/ FormatPullValue \/ FormatIsFull \/ FormatAdd
  BY <1>2 DEF FormatPoll, FormatPull, FormatPullValue, FormatIsFull, FormatAdd, memory
<1> QED
  BY <1>1, <1>2 DEF TestFormat, TestFormatValue

LEMMA PrintKeepsDevice ==
  ASSUME Types, OutPrint, ~overrun, ~timedOut, CallInv, SentInv
  PROVE  (CallInv /\ SentInv)'
<1> DEFINE n == Len(printed)
           f == outMem[nodeOutbuf]
<1>1. printed \in Seq(Frame) /\ f \in Frame /\ sent \in Seq([frame : Nat, data : Frame])
  BY DEF Types, OutTypes, DataTypes
<1>2. /\ opc = "print" /\ opc' = AfterPrint /\ printed' = Append(printed, f) /\ ov' = ov
      /\ requests' = requests /\ signalled' = signalled /\ sent' = sent /\ outMem' = outMem
      /\ nodeOutbuf' = nodeOutbuf
  BY DEF OutPrint, Record, memory, driver
<1>3. AfterPrint \in {"poll", "crashed", "index"}
  BY DEF AfterPrint
<1>4. /\ Len(printed') = n + 1 /\ n \in Nat /\ printed'[n + 1] = f
      /\ \A i \in 1 .. n : printed'[i] = printed[i]
  BY <1>1, <1>2
<1>5. requests = {} /\ signalled = {}
  BY <1>2 DEF CallInv
<1>6. CallInv'
  <2>1. outMem'[nodeOutbuf'] = printed'[Len(printed')] /\ Len(printed') > 0
    BY <1>2, <1>4
  <2>2. ov' < OutLen
    BY <1>2 DEF CallInv
  <2> QED
    BY <1>2, <1>3, <1>5, <2>1, <2>2 DEF CallInv
<1>7. SentInv'
  <2>1. ASSUME NEW i \in DOMAIN sent
        PROVE  /\ sent[i].frame \in 1 .. Len(printed') /\ sent[i].data = printed'[sent[i].frame]
               /\ sent[i].frame < Len(printed')
    <3>1. sent[i].frame \in 1 .. n /\ sent[i].data = printed[sent[i].frame]
      BY <2>1 DEF SentInv
    <3> QED
      BY <1>4, <3>1
  <2>2. \A i, j \in DOMAIN sent' : i < j => sent'[i].frame < sent'[j].frame
    BY <1>2 DEF SentInv
  <2> QED
    BY <1>2, <2>1, <2>2 DEF SentInv
<1> QED
  BY <1>6, <1>7

LEMMA UsbKeepsDevice ==
  ASSUME Types, Usb, ~overrun, ~timedOut, CallInv, SentInv
  PROVE  (CallInv /\ SentInv)'
<1>1. PICK r \in requests : UsbComplete(r) \/ UsbFail(r)
  BY DEF Usb
<1>2. opc = "wait" /\ requests = {ThisRequest} /\ signalled = {} /\ ov < OutLen
  BY <1>1 DEF CallInv
<1>3. r = ThisRequest
  BY <1>1, <1>2
<1>4. /\ r.frame = Len(printed) /\ r.buf = nodeOutbuf /\ r.event = ov
  BY <1>3 DEF ThisRequest
<1>5. ov # OutLen
  BY <1>2, Sizes DEF Types, OutTypes
<1>6. /\ requests' = {} /\ signalled' = {ov} /\ outMem' = outMem /\ opc' = opc
      /\ nodeOutbuf' = nodeOutbuf /\ ov' = ov /\ printed' = printed
  BY <1>1, <1>2, <1>3, <1>4, <1>5 DEF UsbComplete, UsbFail, memory
<1>7. CallInv'
  <2>1. opc' = "wait" /\ requests' = {} /\ signalled' = {ov'} /\ ov' < OutLen
    BY <1>2, <1>6
  <2>2. Len(printed') > 0 /\ outMem'[nodeOutbuf'] = printed'[Len(printed')]
    BY <1>2, <1>6 DEF CallInv
  <2> QED
    BY <2>1, <2>2 DEF CallInv
<1>8. ~(opc' \in {"index", "begin"} \/ requests' # {})
  BY <1>2, <1>6
<1>9. CASE UsbFail(r)
  <2>1. sent' = sent
    BY <1>9 DEF UsbFail
  <2>2. SentInv'
    BY <1>6, <1>8, <2>1 DEF SentInv
  <2> QED
    BY <1>7, <2>2
<1>10. CASE UsbComplete(r)
  <2> DEFINE e == [frame |-> Len(printed), data |-> outMem[nodeOutbuf]]
             n == Len(sent)
  <2>7. sent' = Append(sent, e)
    BY <1>4, <1>10 DEF UsbComplete, Record
  <2>0. sent \in Seq([frame : Nat, data : Frame]) /\ printed \in Seq(Frame) /\ n \in Nat
    BY DEF Types, DataTypes
  <2>1. Len(printed) \in 1 .. Len(printed) /\ e.frame = Len(printed) /\ e.data = printed[Len(printed)]
    BY <1>2, <2>0 DEF CallInv
  <2>2. /\ DOMAIN sent' = 1 .. n + 1 /\ DOMAIN sent = 1 .. n /\ sent'[n + 1] = e
        /\ \A i \in 1 .. n : sent'[i] = sent[i]
    BY <2>0, <2>7
  <2>3. \A i \in 1 .. n : /\ sent[i].frame \in 1 .. Len(printed) /\ sent[i].data = printed[sent[i].frame]
                          /\ sent[i].frame < Len(printed)
    BY <1>2, <2>2 DEF SentInv
  <2> HIDE DEF e, n
  <2>4. ASSUME NEW i \in 1 .. n + 1
        PROVE  sent'[i].frame \in 1 .. Len(printed) /\ sent'[i].data = printed[sent'[i].frame]
    <3>1. CASE i \in 1 .. n
      BY <2>2, <2>3, <3>1
    <3>2. CASE i = n + 1
      BY <2>1, <2>2, <3>2
    <3> QED
      BY <2>0, <3>1, <3>2
  <2>5. ASSUME NEW i \in 1 .. n + 1, NEW j \in 1 .. n + 1, i < j
        PROVE  sent'[i].frame < sent'[j].frame
    <3>1. i \in 1 .. n /\ (j \in 1 .. n \/ j = n + 1)
      BY <2>0, <2>5
    <3>2. CASE j \in 1 .. n
      <4>1. sent'[i] = sent[i] /\ sent'[j] = sent[j]
        BY <2>2, <3>1, <3>2
      <4>2. sent[i].frame < sent[j].frame
        BY <2>2, <2>5, <3>1, <3>2 DEF SentInv
      <4> QED
        BY <4>1, <4>2
    <3>3. CASE j = n + 1
      <4>1. sent'[i] = sent[i] /\ sent'[j] = e
        BY <2>2, <3>1, <3>3
      <4> QED
        BY <2>1, <2>3, <3>1, <4>1
    <3> QED
      BY <3>1, <3>2, <3>3
  <2>6. SentInv'
    BY <1>6, <1>8, <2>2, <2>4, <2>5 DEF SentInv
  <2> QED
    BY <1>7, <2>6
<1> QED
  BY <1>1, <1>9, <1>10

LEMMA StepKeepsDevice == ASSUME Types, Pulled, Room, DeviceInv, [Next]_vars PROVE DeviceInv'
<1> SUFFICES ASSUME ~overrun', ~timedOut' PROVE (CallInv /\ SentInv)'
  BY DEF DeviceInv
<1>0. ~overrun
  BY OverrunStays
<1>1. CASE TestIn
  <2>1. ~timedOut
    BY <1>1, InFrame
  <2>2. CallInv /\ SentInv
    BY <1>0, <2>1 DEF DeviceInv
  <2> QED
    BY <1>1, <2>2, InFrame DEF CallInv, SentInv, ThisRequest
<1>2. CASE TestFormat \/ TestFormatValue
  <2>1. /\ opc' = opc /\ nodeOutbuf' = nodeOutbuf /\ ov' = ov /\ requests' = requests
        /\ signalled' = signalled /\ printed' = printed /\ sent' = sent /\ timedOut' = timedOut
    BY <1>2, FormatFrame
  <2>2. CallInv /\ SentInv
    BY <1>0, <2>1 DEF DeviceInv
  <2>3. opc # "poll" => outMem'[nodeOutbuf] = outMem[nodeOutbuf]
    BY <1>2, FormatSparesFrame
  <2>4. SentInv'
    BY <2>1, <2>2 DEF SentInv
  <2>5. CallInv'
    BY <2>1, <2>2, <2>3 DEF CallInv, ThisRequest
  <2> QED
    BY <2>4, <2>5
<1>3. CASE OutPull \/ OutPullValue
  <2>1. /\ opc = "poll" /\ opc' = "print" /\ printed' = printed /\ ov' = ov /\ requests' = requests
        /\ signalled' = signalled /\ sent' = sent /\ timedOut' = timedOut
    BY <1>3, OutPulls
  <2>2. CallInv /\ SentInv
    BY <1>0, <2>1 DEF DeviceInv
  <2>3. requests = {} /\ signalled = {} /\ ov < OutLen
    BY <2>1, <2>2 DEF CallInv
  <2>4. CallInv'
    BY <2>1, <2>3 DEF CallInv
  <2>5. SentInv'
    BY <2>1, <2>2, <2>3 DEF SentInv
  <2> QED
    BY <2>4, <2>5
<1>4. CASE OutPrint
  <2>1. timedOut' = timedOut
    BY <1>4 DEF OutPrint
  <2> QED
    BY <1>0, <1>4, <2>1, PrintKeepsDevice DEF DeviceInv
<1>5. CASE OutIndex
  <2>1. /\ opc = "index" /\ opc' = "begin" /\ ov' = outRQue.num /\ requests' = requests
        /\ signalled' = signalled /\ sent' = sent /\ printed' = printed /\ outMem' = outMem
        /\ nodeOutbuf' = nodeOutbuf /\ timedOut' = timedOut
    BY <1>5 DEF OutIndex, OvLapIndex, numElements, memory, driver
  <2>2. CallInv /\ SentInv
    BY <1>0, <2>1 DEF DeviceInv
  <2>3. outRQue.num < OutLen
    <3>1. method = "pointer"
      BY <2>1 DEF Types, InTypes, OutTypes
    <3>2. OutUsed = outRQue.num + 1 /\ OutUsed <= OutLen
      BY <1>0, <2>1, <3>1 DEF OutUsed, Room
    <3>3. outRQue.num \in 0 .. OutLen /\ OutLen \in Nat
      BY Sizes, OwnFields DEF Types, FormatTypes
    <3> QED
      BY <3>2, <3>3
  <2>4. requests = {} /\ signalled = {}
    BY <2>1, <2>2 DEF CallInv
  <2>5. CallInv'
    BY <2>1, <2>2, <2>3, <2>4 DEF CallInv
  <2>6. SentInv'
    BY <2>1, <2>2 DEF SentInv
  <2> QED
    BY <2>5, <2>6
<1>6. CASE XferBegin
  <2>1. /\ opc = "begin" /\ sent' = sent /\ printed' = printed /\ outMem' = outMem /\ ov' = ov
        /\ nodeOutbuf' = nodeOutbuf /\ timedOut' = timedOut /\ signalled' = signalled
        /\ \/ opc' = "wait" /\ requests' = requests \cup {ThisRequest}
           \/ opc' = "poll" /\ requests' = requests
    BY <1>6 DEF XferBegin, XferBuffer, ThisRequest, memory
  <2>2. CallInv /\ SentInv
    BY <1>0, <2>1 DEF DeviceInv
  <2>3. ThisRequest' = ThisRequest
    BY <2>1 DEF ThisRequest
  <2>4. requests = {} /\ signalled = {}
    BY <2>1, <2>2 DEF CallInv
  <2>5. CallInv'
    BY <2>1, <2>2, <2>3, <2>4 DEF CallInv
  <2>6. SentInv'
    BY <2>1, <2>2 DEF SentInv
  <2> QED
    BY <2>5, <2>6
<1>7. CASE XferWait
  <2>1. /\ opc = "wait" /\ sent' = sent /\ printed' = printed /\ outMem' = outMem /\ ov' = ov
        /\ nodeOutbuf' = nodeOutbuf /\ requests' = requests /\ signalled' = signalled \ {ov}
        /\ ov \in signalled \cup {OutLen} /\ opc' = "poll" /\ timedOut' = timedOut
    BY <1>7 DEF XferWait, memory
  <2>2. CallInv /\ SentInv
    BY <1>0, <2>1 DEF DeviceInv
  <2>3. ov # OutLen
    <3>1. ov < OutLen /\ ov \in 0 .. OutLen /\ OutLen \in Nat
      BY <2>2, Sizes DEF CallInv, Types, OutTypes
    <3> QED
      BY <3>1
  <2>4. requests = {} /\ signalled = {ov}
    BY <2>1, <2>2, <2>3 DEF CallInv
  <2>5. CallInv'
    BY <2>1, <2>2, <2>4 DEF CallInv
  <2>6. SentInv'
    BY <2>1, <2>2, <2>4 DEF SentInv
  <2> QED
    BY <2>5, <2>6
<1>8. CASE XferAbort \/ XferAbortWait
  <2>1. opc \in {"abort", "abortWait"} /\ timedOut' = timedOut
    BY <1>8 DEF XferAbort, XferAbortWait
  <2> QED
    BY <1>0, <2>1 DEF DeviceInv, CallInv
<1>9. CASE Usb
  <2>1. timedOut' = timedOut
    BY <1>9 DEF Usb, UsbComplete, UsbFail
  <2> QED
    BY <1>0, <1>9, <2>1, UsbKeepsDevice DEF DeviceInv
<1>10. CASE UNCHANGED vars
  BY <1>0, <1>10 DEF vars, memory, outVars, driver, DeviceInv, CallInv, SentInv, ThisRequest
<1> QED
  BY <1>1, <1>2, <1>3, <1>4, <1>5, <1>6, <1>7, <1>8, <1>9, <1>10
     DEF Next, TestOut, TestOutValue, XferDataToUSBEp

\* Until a buffer in use is written or a wait times out, what the device has are frames
\* as they were printed, in order, and no request outlives its call.
THEOREM DeviceInductive == Spec => [](Types /\ Pulled /\ Room /\ DeviceInv)
<1>1. Init => Types /\ Pulled /\ Room /\ DeviceInv
  BY InitTypes, InitPulled, InitRoom, InitDevice
<1>2. Types /\ Pulled /\ Room /\ DeviceInv /\ [Next]_vars => (Types /\ Pulled /\ Room /\ DeviceInv)'
  BY StepKeepsTypes, StepKeepsPulled, StepKeepsRoom, StepKeepsDevice
<1> QED
  BY <1>1, <1>2, PTL DEF Spec

LEMMA DeviceImplies == DeviceInv => SentAsPrinted
<1> SUFFICES ASSUME CallInv, SentInv
             PROVE  /\ ov < OutLen /\ \A r \in requests : OfThisCall(r)
                    /\ \A i \in DOMAIN sent : sent[i].data = printed[sent[i].frame]
                    /\ \A i, j \in DOMAIN sent : i < j => sent[i].frame < sent[j].frame
  BY DEF DeviceInv, SentAsPrinted
<1>1. ASSUME NEW r \in requests PROVE OfThisCall(r)
  <2>1. opc = "wait" /\ r = ThisRequest
    BY <1>1 DEF CallInv
  <2> QED
    BY <2>1 DEF OfThisCall, Calling, ThisRequest
<1> QED
  BY <1>1 DEF CallInv, SentInv

\* Until a buffer in use is written or a wait times out, the frames at the device are
\* printed ones, in order, each at most once, and every transfer is over when
\* xferDataToUSBEp returns (HJKUSBXfer.cpp:22-51).
THEOREM DeviceGetsWhatIsPrinted == Spec => []SentAsPrinted
BY DeviceInductive, DeviceImplies, PTL

-----------------------------------------------------------------------------
\* The stream of nodes, from 0: Lead(method) of unwritten memory, then testIn's 1, 2, ...;
\* and the same stream cut into frames.
Lead(m) == IF m = "pointer" THEN OutLen * FrameNodes + InLen ELSE 0
NodeAt(m) == [i \in Int |-> IF i < Lead(m) THEN Fresh ELSE i + 1 - Lead(m)]
FrameAt(m) == [i \in Int |-> [k \in 0 .. FrameNodes - 1 |-> NodeAt(m)[i * FrameNodes + k]]]

\* A ring that was given items 0 .. e - 1 holds the last num of them.
Holds(r, max, mem, item, e) ==
  \A s \in 0 .. max - 1 :
    Dist(r.head, s, max) <= r.num => mem[s] = item[e - Dist(r.head, s, max)]

LEMMA AddHolds ==
  ASSUME NEW max \in Nat \ {0}, NEW r, Own(r, max), r.num < max, NEW ow \in BOOLEAN,
         NEW mem, NEW item, NEW e \in Int, Holds(r, max, mem, item, e), mem[r.head] = item[e]
  PROVE  Holds(add(r, r.buf[r.head], ow), max, mem, item, e + 1)
<1> DEFINE q == add(r, r.buf[r.head], ow)
<1>1. r.num \in 0 .. max /\ r.head \in 0 .. max - 1
  BY OwnFields
<1>2. /\ q.num = r.num + 1
      /\ \A s \in 0 .. max - 1 :
           Dist(q.head, s, max) = IF s = r.head THEN 1 ELSE Dist(r.head, s, max) + 1
  BY AddMoves
<1> HIDE DEF q
<1> DEFINE e1 == e + 1
<1>3. ASSUME NEW s \in 0 .. max - 1, Dist(q.head, s, max) <= q.num
      PROVE  mem[s] = item[e1 - Dist(q.head, s, max)]
  <2>1. CASE s = r.head
    <3>1. e1 - Dist(q.head, s, max) = e
      BY <1>2, <2>1
    <3> HIDE DEF e1
    <3> QED
      BY <2>1, <3>1
  <2>2. CASE s # r.head
    <3> DEFINE d == Dist(r.head, s, max)
    <3>1. Dist(q.head, s, max) = d + 1 /\ d \in Int
      BY <1>1, <1>2, <2>2 DEF Dist
    <3> HIDE DEF d
    <3>2. d <= r.num /\ e1 - Dist(q.head, s, max) = e - d
      BY <1>1, <1>2, <1>3, <3>1
    <3>3. mem[s] = item[e - d]
      BY <3>2 DEF Holds, d
    <3> HIDE DEF e1
    <3> QED
      BY <3>2, <3>3
  <2> QED
    BY <2>1, <2>2
<1> HIDE DEF e1
<1>4. Holds(q, max, mem, item, e1)
  BY <1>3 DEF Holds
<1> QED
  BY <1>4 DEF q, e1

LEMMA PullHolds ==
  ASSUME NEW max \in Nat \ {0}, NEW r, Own(r, max), r.num > 0,
         NEW mem, NEW item, NEW e \in Int, Holds(r, max, mem, item, e)
  PROVE  Holds(pull(r), max, mem, item, e) /\ mem[pulled(r)] = item[e - r.num]
<1> DEFINE q == pull(r)
<1>1. r.num \in 0 .. max /\ r.head \in 0 .. max - 1
  BY OwnFields
<1>2. q.head = r.head /\ q.num = r.num - 1
  BY <1>1, PullMoves
<1>3. pulled(r) \in 0 .. max - 1 /\ Dist(r.head, pulled(r), max) = r.num
  BY TailAt
<1> HIDE DEF q
<1>4. \A s \in 0 .. max - 1 : Dist(r.head, s, max) \in Int
  BY <1>1 DEF Dist
<1>5. Holds(q, max, mem, item, e)
  BY <1>1, <1>2, <1>4 DEF Holds
<1>6. mem[pulled(r)] = item[e - r.num]
  BY <1>1, <1>3 DEF Holds
<1> QED
  BY <1>5, <1>6 DEF q

LEMMA SameHolds ==
  ASSUME NEW max, NEW r, NEW mem, NEW item, NEW e, Holds(r, max, mem, item, e), NEW mem2,
         \A s \in 0 .. max - 1 : Dist(r.head, s, max) <= r.num => mem2[s] = mem[s]
  PROVE  Holds(r, max, mem2, item, e)
BY DEF Holds

\* A write to the head slot of a ring with room touches no queued slot.
LEMMA HeadUnqueued ==
  ASSUME NEW max \in Nat \ {0}, NEW r, Own(r, max), r.num < max, NEW s \in 0 .. max - 1,
         Dist(r.head, s, max) <= r.num
  PROVE  s # r.head
<1>1. r.num \in 0 .. max /\ r.head \in 0 .. max - 1
  BY OwnFields
<1> QED
  BY <1>1 DEF Dist

-----------------------------------------------------------------------------
\* Nodes added to the input ring, frames added to the output ring, nodes of the frame
\* being built, and nodes testFormat has in hand.
Entered == nodes + Lead(method) - (IF tpc = "add" THEN 1 ELSE 0)
Frames  == Len(printed) + (IF opc = "print" THEN 1 ELSE 0) + outRQue.num
Stored  == IF fpc = "add" THEN FrameNodes ELSE index
InHand  == IF fpc = "store" THEN 1 ELSE 0

InputNodes ==
  /\ Holds(inRQue, InLen, inMem, NodeAt(method), Entered)
  /\ fpc = "store" => inMem[nodeInbuf] = NodeAt(method)[Entered - inRQue.num - 1]
  /\ tpc = "add" => inMem[inRQue.head] = NodeAt(method)[Entered]

Balance == Entered - inRQue.num - InHand = Frames * FrameNodes + Stored

OutputFrames ==
  /\ Holds(outRQue, OutLen, outMem, FrameAt(method), Frames)
  /\ \A k \in 0 .. Stored - 1 :
       outMem[outRQue.head][k] = NodeAt(method)[Frames * FrameNodes + k]
  /\ opc = "print" => outMem[nodeOutbuf] = FrameAt(method)[Len(printed)]
  /\ \A i \in 1 .. Len(printed) : printed[i] = FrameAt(method)[i - 1]

\* Nothing is lost, duplicated or out of order on the way from testIn to the console.
StreamInv == ~overrun => InputNodes /\ Balance /\ OutputFrames

LEMMA Counters ==
  ASSUME Types
  PROVE  /\ Lead(method) \in Nat /\ Entered \in Int /\ Frames \in Nat /\ Stored \in Nat
         /\ InHand \in {0, 1} /\ Frames * FrameNodes \in Nat
         /\ (Frames + 1) * FrameNodes = Frames * FrameNodes + FrameNodes
         /\ inRQue.num \in 0 .. InLen /\ outRQue.num \in 0 .. OutLen
         /\ inRQue.head \in 0 .. InLen - 1 /\ outRQue.head \in 0 .. OutLen - 1
<1>1. /\ InLen \in Nat \ {0} /\ OutLen \in Nat \ {0} /\ FrameNodes \in Nat \ {0}
      /\ Own(inRQue, InLen) /\ Own(outRQue, OutLen) /\ index \in Nat /\ nodes \in Nat
      /\ Len(printed) \in Nat
  BY Sizes DEF Types, InTypes, FormatTypes, DataTypes
<1>2. /\ inRQue.num \in 0 .. InLen /\ outRQue.num \in 0 .. OutLen
      /\ inRQue.head \in 0 .. InLen - 1 /\ outRQue.head \in 0 .. OutLen - 1
  BY <1>1, OwnFields
<1>3. Lead(method) \in Nat
  <2>1. OutLen * FrameNodes \in Nat
    BY <1>1
  <2> QED
    BY <1>1, <2>1 DEF Lead
<1>4. Entered \in Int
  <2> DEFINE l == Lead(method)
  <2>1. l \in Nat
    BY <1>3
  <2> HIDE DEF l
  <2>2. nodes + l - (IF tpc = "add" THEN 1 ELSE 0) \in Int
    BY <1>1, <2>1
  <2> QED
    BY <2>2 DEF Entered, l
<1>5. Frames \in Nat /\ Stored \in Nat /\ InHand \in {0, 1}
  BY <1>1, <1>2 DEF Frames, Stored, InHand
<1>6. \A f \in Nat : f * FrameNodes \in Nat /\ (f + 1) * FrameNodes = f * FrameNodes + FrameNodes
  BY <1>1
<1> QED
  BY <1>2, <1>3, <1>4, <1>5, <1>6

LEMMA FrameOfNodes ==
  ASSUME NEW m, NEW i \in Int
  PROVE  /\ FrameAt(m)[i] = [k \in 0 .. FrameNodes - 1 |-> NodeAt(m)[i * FrameNodes + k]]
BY DEF FrameAt

LEMMA InitStream == Init => StreamInv
<1> SUFFICES ASSUME Init PROVE InputNodes /\ Balance /\ OutputFrames
  BY DEF StreamInv
<1> DEFINE l == Lead(method)
           N == NodeAt(method)
           F == FrameAt(method)
<1>0. InLen \in Nat \ {0} /\ OutLen \in Nat \ {0} /\ FrameNodes \in Nat \ {0}
  BY SimAssumption
<1>1. /\ tpc = "fill" /\ fpc = "poll" /\ opc = "poll" /\ nodes = 0 /\ index = 0 /\ printed = <<>>
      /\ \A s \in 0 .. InLen : inMem[s] = Fresh
      /\ \A s \in 0 .. OutLen : outMem[s] = [k \in 0 .. FrameNodes - 1 |-> Fresh]
      /\ method \in {"pointer", "value"}
  BY DEF Init
<1>2. /\ inRQue.head = 0 /\ inRQue.num = IF method = "pointer" THEN InLen ELSE 0
      /\ outRQue.head = 0 /\ outRQue.num = IF method = "pointer" THEN OutLen ELSE 0
  BY <1>0, InitRings DEF Init
<1>3. OutLen * FrameNodes \in Nat /\ l \in Nat
      /\ l = IF method = "pointer" THEN OutLen * FrameNodes + InLen ELSE 0
  <2>1. OutLen * FrameNodes \in Nat
    BY <1>0
  <2> QED
    BY <1>0, <2>1 DEF Lead
<1>4. \A i \in Int : i < l => N[i] = Fresh
  BY <1>3 DEF NodeAt
<1>5. Entered = l /\ Frames = outRQue.num /\ Stored = 0 /\ InHand = 0
  <2>1. Entered = 0 + l - 0
    BY <1>1 DEF Entered
  <2>2. Entered = l
    <3> HIDE DEF l
    <3> QED
      BY <1>3, <2>1
  <2>3. Frames = 0 + 0 + outRQue.num
    BY <1>1 DEF Frames
  <2>4. outRQue.num \in Nat
    BY <1>0, <1>2
  <2> QED
    BY <1>1, <2>2, <2>3, <2>4 DEF Stored, InHand
<1> HIDE DEF l, N, F
<1>6. Holds(inRQue, InLen, inMem, N, l)
  <2> SUFFICES ASSUME NEW s \in 0 .. InLen - 1, Dist(inRQue.head, s, InLen) <= inRQue.num
               PROVE  inMem[s] = N[l - Dist(inRQue.head, s, InLen)]
    BY DEF Holds
  <2> DEFINE d == Dist(inRQue.head, s, InLen)
  <2>1. d \in Int /\ d > 0
    BY <1>0, <1>2 DEF Dist
  <2> HIDE DEF d
  <2>2. N[l - d] = Fresh
    BY <1>3, <1>4, <2>1
  <2>3. inMem[s] = Fresh
    BY <1>0, <1>1
  <2> QED
    BY <2>2, <2>3 DEF d
<1>7. Holds(outRQue, OutLen, outMem, F, Frames)
  <2> SUFFICES ASSUME NEW s \in 0 .. OutLen - 1, Dist(outRQue.head, s, OutLen) <= outRQue.num
               PROVE  outMem[s] = F[Frames - Dist(outRQue.head, s, OutLen)]
    BY DEF Holds
  <2> DEFINE d == Dist(outRQue.head, s, OutLen)
             i == Frames - d
  <2>1. d \in Int /\ d > 0 /\ d <= outRQue.num
    BY <1>0, <1>2 DEF Dist
  <2>2. method = "pointer" /\ Frames = OutLen
    <3> HIDE DEF d
    <3> QED
      BY <1>2, <1>5, <2>1
  <2> HIDE DEF d
  <2>3. i \in Nat /\ i + 1 <= OutLen
    BY <1>0, <1>2, <2>1, <2>2
  <2> HIDE DEF i
  <2>4. \A k \in 0 .. FrameNodes - 1 : i * FrameNodes + k \in Int /\ i * FrameNodes + k < l
    <3>1. i * FrameNodes \in Nat /\ (i + 1) * FrameNodes <= OutLen * FrameNodes
          /\ (i + 1) * FrameNodes = i * FrameNodes + FrameNodes
      BY <1>0, <2>3
    <3> DEFINE a == i * FrameNodes
               b == OutLen * FrameNodes
    <3>2. a \in Nat /\ a + FrameNodes <= b /\ b \in Nat /\ l = b + InLen
      BY <1>3, <2>2, <3>1
    <3> HIDE DEF a, b
    <3>3. \A k \in 0 .. FrameNodes - 1 : a + k \in Int /\ a + k < l
      BY <1>0, <3>2
    <3> QED
      BY <3>3 DEF a
  <2>5. F[i] = [k \in 0 .. FrameNodes - 1 |-> N[i * FrameNodes + k]]
    <3>1. i \in Int
      BY <2>3
    <3> QED
      BY <3>1, FrameOfNodes DEF F, N
  <2>6. \A k \in 0 .. FrameNodes - 1 : N[i * FrameNodes + k] = Fresh
    BY <1>4, <2>4
  <2>7. F[i] = [k \in 0 .. FrameNodes - 1 |-> Fresh]
    BY <2>5, <2>6
  <2>8. outMem[s] = [k \in 0 .. FrameNodes - 1 |-> Fresh]
    BY <1>0, <1>1
  <2> QED
    BY <2>7, <2>8 DEF d, i
<1>8. InputNodes
  BY <1>1, <1>5, <1>6 DEF InputNodes, N
<1>9. Balance
  <2>1. CASE method = "pointer"
    <3> DEFINE b == OutLen * FrameNodes
    <3>1. b \in Nat /\ l = b + InLen /\ Frames * FrameNodes = b
      BY <1>2, <1>3, <1>5, <2>1
    <3>2. Entered = l /\ inRQue.num = InLen /\ InHand = 0 /\ Stored = 0
      BY <1>2, <1>5, <2>1
    <3> HIDE DEF b
    <3>3. l - InLen - 0 = b + 0
      BY <1>0, <3>1
    <3> QED
      BY <3>1, <3>2, <3>3 DEF Balance
  <2>2. CASE method = "value"
    <3>1. Entered = 0 /\ inRQue.num = 0 /\ InHand = 0 /\ Stored = 0 /\ Frames = 0
      BY <1>2, <1>3, <1>5, <2>2
    <3>2. Frames * FrameNodes = 0
      BY <1>0, <3>1
    <3> QED
      BY <3>1, <3>2 DEF Balance
  <2> QED
    BY <1>1, <2>1, <2>2
<1>10. OutputFrames
  BY <1>1, <1>5, <1>7 DEF OutputFrames, F
<1> QED
  BY <1>8, <1>9, <1>10

\* testIn.
LEMMA FillStream ==
  ASSUME Types, Pulled, Room, InFill, ~overrun', InputNodes, Balance, OutputFrames
  PROVE  (InputNodes /\ Balance /\ OutputFrames)'
<1>0. /\ InLen \in Nat \ {0} /\ Own(inRQue, InLen) /\ nodes \in Nat
      /\ inMem \in [0 .. InLen -> Cell] /\ nodeInbuf \in 0 .. InLen
  BY Sizes DEF Types, InTypes, FormatTypes
<1>1. /\ inRQue.head \in 0 .. InLen - 1 /\ inRQue.num \in 0 .. InLen
      /\ inRQue.buf[inRQue.head] = inRQue.head
  BY <1>0, OwnFields
<1>2. /\ tpc = "fill" /\ tpc' = "add" /\ nodes' = nodes + 1 /\ inRQue' = inRQue
      /\ inMem' = [inMem EXCEPT ![inRQue.head] = nodes + 1]
  BY <1>1 DEF InFill, getHead
<1>3. /\ method' = method /\ outRQue' = outRQue /\ outMem' = outMem /\ fpc' = fpc
      /\ index' = index /\ nodeInbuf' = nodeInbuf /\ opc' = opc /\ nodeOutbuf' = nodeOutbuf
      /\ printed' = printed
  BY InFrame DEF TestIn
<1> DEFINE l == Lead(method)
           N == NodeAt(method)
<1>4. Entered' = Entered /\ Entered = nodes + l /\ l \in Nat
  <2>1. Entered' = nodes + 1 + l - 1 /\ Entered = nodes + l - 0 /\ l \in Nat
    BY <1>2, <1>3, Counters DEF Entered
  <2> HIDE DEF l
  <2> QED
    BY <1>0, <2>1
<1>5. Frames' = Frames /\ Stored' = Stored /\ InHand' = InHand
  BY <1>3 DEF Frames, Stored, InHand
<1>6. inRQue.num < InLen /\ (fpc = "store" => nodeInbuf # inRQue.head)
  BY FillsFree
<1>7. InputNodes'
  <2>1. \A s \in 0 .. InLen : s # inRQue.head => inMem'[s] = inMem[s]
    BY <1>0, <1>2
  <2>2. inMem'[inRQue.head] = N[Entered]
    <3>1. inMem'[inRQue.head] = nodes + 1
      BY <1>0, <1>1, <1>2
    <3>2. N[nodes + l] = nodes + l + 1 - l
      <4> HIDE DEF l
      <4>1. nodes + l \in Int /\ ~(nodes + l < l)
        BY <1>0, <1>4
      <4> QED
        BY <4>1 DEF NodeAt, l
    <3>3. nodes + l + 1 - l = nodes + 1
      <4> HIDE DEF l
      <4> QED
        BY <1>0, <1>4
    <3> QED
      BY <1>4, <3>1, <3>2, <3>3
  <2>3. Holds(inRQue, InLen, inMem', N, Entered)
    <3>1. \A s \in 0 .. InLen - 1 : Dist(inRQue.head, s, InLen) <= inRQue.num => inMem'[s] = inMem[s]
      <4> TAKE s \in 0 .. InLen - 1
      <4> HAVE Dist(inRQue.head, s, InLen) <= inRQue.num
      <4>1. s # inRQue.head
        BY <1>0, <1>6, HeadUnqueued
      <4> QED
        BY <1>0, <2>1, <4>1
    <3>2. Holds(inRQue, InLen, inMem, N, Entered)
      BY DEF InputNodes
    <3> HIDE DEF N
    <3> QED
      BY <3>1, <3>2, SameHolds
  <2>4. fpc = "store" => inMem'[nodeInbuf] = inMem[nodeInbuf]
    BY <1>0, <1>6, <2>1
  <2>5. N' = N
    BY <1>3 DEF NodeAt, Lead
  <2> QED
    BY <1>2, <1>3, <1>4, <2>2, <2>3, <2>4 DEF InputNodes
<1>8. Balance'
  BY <1>2, <1>4, <1>5 DEF Balance
<1>9. OutputFrames'
  BY <1>3, <1>5 DEF OutputFrames
<1> QED
  BY <1>7, <1>8, <1>9

LEMMA InAddStream ==
  ASSUME Types, Room, InAdd, ~overrun', InputNodes, Balance, OutputFrames
  PROVE  (InputNodes /\ Balance /\ OutputFrames)'
<1>0. /\ InLen \in Nat \ {0} /\ Own(inRQue, InLen) /\ nodes \in Nat
      /\ inRQue.num \in 0 .. InLen /\ Entered \in Int /\ Lead(method) \in Nat
  BY Sizes, Counters DEF Types, InTypes
<1>1. /\ tpc = "add" /\ tpc' = "fill" /\ nodes' = nodes /\ inMem' = inMem /\ overrun' = overrun
      /\ inRQue' = add(inRQue, inRQue.buf[inRQue.head], FALSE)
  BY DEF InAdd, RingWithNode, memory, Types, InTypes
<1>2. /\ method' = method /\ outRQue' = outRQue /\ outMem' = outMem /\ fpc' = fpc
      /\ index' = index /\ nodeInbuf' = nodeInbuf /\ opc' = opc /\ nodeOutbuf' = nodeOutbuf
      /\ printed' = printed
  BY InFrame DEF TestIn
<1>3. Frames' = Frames /\ Stored' = Stored /\ InHand' = InHand
  BY <1>2 DEF Frames, Stored, InHand
<1>4. Entered' = Entered + 1
  <2> DEFINE l == Lead(method)
  <2>1. Entered' = nodes + l - 0 /\ Entered = nodes + l - 1 /\ l \in Nat
    BY <1>0, <1>1, <1>2 DEF Entered
  <2> HIDE DEF l
  <2> QED
    BY <1>0, <2>1
<1>5. inRQue.num < InLen
  <2>1. InUsed < InLen /\ (InUsed = inRQue.num + 0 \/ InUsed = inRQue.num + 1)
    BY <1>1 DEF Room, InUsed
  <2> QED
    BY <1>0, <2>1
<1> DEFINE N == NodeAt(method)
           ow == FALSE
           e == Entered
<1>6. Holds(inRQue, InLen, inMem, N, e) /\ inMem[inRQue.head] = N[e] /\ ow \in BOOLEAN
      /\ inRQue' = add(inRQue, inRQue.buf[inRQue.head], ow) /\ e \in Int
  BY <1>0, <1>1 DEF InputNodes
<1>7. N' = N
  BY <1>2
<1> HIDE DEF N, ow, e
<1>8. Holds(inRQue', InLen, inMem, N, e + 1) /\ inRQue'.num = inRQue.num + 1
  BY <1>0, <1>5, <1>6, AddHolds, AddMoves
<1>9. e + 1 - inRQue'.num = e - inRQue.num
  BY <1>0, <1>6, <1>8
<1>10. InputNodes'
  <2>1. fpc = "store" => inMem[nodeInbuf] = N[e - inRQue.num - 1]
    BY DEF InputNodes, N, e
  <2>2. Entered' = e + 1
    BY <1>4 DEF e
  <2>3. Entered' - inRQue'.num - 1 = e - inRQue.num - 1
    <3>1. inRQue'.num = inRQue.num + 1 /\ inRQue.num \in Int /\ e \in Int
      BY <1>0, <1>6, <1>8
    <3> QED
      BY <2>2, <3>1
  <2>4. Holds(inRQue', InLen, inMem', N', Entered')
    BY <1>1, <1>7, <1>8, <2>2
  <2>5. fpc' = "store" => inMem'[nodeInbuf'] = N'[Entered' - inRQue'.num - 1]
    BY <1>1, <1>2, <1>7, <2>1, <2>3
  <2> QED
    BY <1>1, <2>4, <2>5 DEF InputNodes, N
<1>11. Balance'
  <2> DEFINE h == InHand
  <2>1. Entered' - inRQue'.num - h = Entered - inRQue.num - h
    <3>1. h \in Int /\ inRQue'.num = inRQue.num + 1 /\ inRQue.num \in Int /\ Entered \in Int
      BY <1>0, <1>8, Counters
    <3> HIDE DEF h
    <3> QED
      BY <1>4, <3>1
  <2> QED
    BY <1>3, <2>1 DEF Balance
<1>12. OutputFrames'
  BY <1>2, <1>3 DEF OutputFrames
<1> QED
  BY <1>10, <1>11, <1>12

\* testFormat.
LEMMA PullStream ==
  ASSUME Types, FormatPull \/ FormatPullValue, TestFormat \/ TestFormatValue,
         InputNodes, Balance, OutputFrames
  PROVE  (InputNodes /\ Balance /\ OutputFrames)'
<1>0. /\ InLen \in Nat \ {0} /\ Own(inRQue, InLen) /\ inRQue.num \in 0 .. InLen /\ Entered \in Int
      /\ inRQue.head \in 0 .. InLen - 1
  BY Sizes, Counters DEF Types, InTypes
<1>1. /\ fpc = "pull" /\ fpc' = "store" /\ method' = method /\ inRQue' = pull(inRQue)
      /\ inRQue.num > 0 /\ outRQue' = outRQue /\ outMem' = outMem /\ index' = index
      /\ inMem'[nodeInbuf'] = inMem[pulled(inRQue)]
      /\ \A s \in 0 .. InLen - 1 : inMem'[s] = inMem[s]
  BY FormatPulls
<1>2. /\ tpc' = tpc /\ nodes' = nodes /\ opc' = opc /\ nodeOutbuf' = nodeOutbuf /\ printed' = printed
  BY FormatFrame
<1>3. /\ Entered' = Entered /\ Frames' = Frames /\ Stored' = Stored /\ InHand = 0 /\ InHand' = 1
  BY <1>1, <1>2 DEF Entered, Frames, Stored, InHand
<1> DEFINE N == NodeAt(method)
           e == Entered
           q == pull(inRQue)
<1>4. q.head = inRQue.head /\ q.num = inRQue.num - 1
  BY <1>0, <1>1, PullMoves
<1>5. Holds(inRQue, InLen, inMem, N, e) /\ e \in Int /\ (tpc = "add" => inMem[inRQue.head] = N[e])
  BY <1>0 DEF InputNodes
<1> HIDE DEF N, e
<1>6. Holds(q, InLen, inMem, N, e) /\ inMem[pulled(inRQue)] = N[e - inRQue.num]
  BY <1>0, <1>1, <1>5, PullHolds
<1> HIDE DEF q
<1>7. Holds(q, InLen, inMem', N, e)
  <2>1. \A s \in 0 .. InLen - 1 : Dist(q.head, s, InLen) <= q.num => inMem'[s] = inMem[s]
    BY <1>1
  <2> QED
    BY <1>6, <2>1, SameHolds
<1>8. N' = N /\ e' = e /\ inRQue' = q
  BY <1>1, <1>3 DEF N, e, q
<1>9. e - q.num - 1 = e - inRQue.num /\ e - q.num - 1 = e - inRQue.num - 0
  BY <1>0, <1>4, <1>5
<1>10. InputNodes'
  <2>1. Holds(inRQue', InLen, inMem', N', e')
    BY <1>7, <1>8
  <2>2. inMem'[nodeInbuf'] = N'[e' - inRQue'.num - 1]
    BY <1>1, <1>6, <1>8, <1>9
  <2>3. tpc' = "add" => inMem'[inRQue'.head] = N'[e']
    BY <1>0, <1>1, <1>2, <1>4, <1>5, <1>8
  <2> QED
    BY <2>1, <2>2, <2>3 DEF InputNodes, N, e
<1>11. Balance'
  BY <1>3, <1>8, <1>9 DEF Balance, e
<1>12. OutputFrames'
  BY <1>1, <1>2, <1>3 DEF OutputFrames
<1> QED
  BY <1>10, <1>11, <1>12

LEMMA StoreStream ==
  ASSUME Types, Pulled, FormatStore, TestFormat \/ TestFormatValue, ~overrun',
         InputNodes, Balance, OutputFrames
  PROVE  (InputNodes /\ Balance /\ OutputFrames)'
<1>0. /\ OutLen \in Nat \ {0} /\ FrameNodes \in Nat \ {0} /\ Own(outRQue, OutLen)
      /\ outMem \in [0 .. OutLen -> Frame] /\ nodeOutbuf \in 0 .. OutLen /\ index \in Nat
      /\ nodeOut = outRQue.head /\ index < FrameNodes
  BY Sizes DEF FormatStore, Types, FormatTypes, OutTypes, DataTypes
<1>1. /\ outRQue.head \in 0 .. OutLen - 1 /\ outRQue.num \in 0 .. OutLen
      /\ outRQue.buf[nodeOut] = outRQue.head
  BY <1>0, OwnFields
<1> DEFINE h == outRQue.head
           N == NodeAt(method)
           F == FrameAt(method)
           b == Frames * FrameNodes
<1>2. /\ fpc = "store" /\ fpc' = "poll" /\ index' = index + 1 /\ inRQue' = inRQue /\ outRQue' = outRQue
      /\ inMem' = inMem /\ nodeInbuf' = nodeInbuf
      /\ outMem' = [outMem EXCEPT ![h] = [@ EXCEPT ![index] = inMem[nodeInbuf]]]
  BY <1>1 DEF FormatStore
<1>3. /\ method' = method /\ tpc' = tpc /\ nodes' = nodes /\ opc' = opc /\ nodeOutbuf' = nodeOutbuf
      /\ printed' = printed
  BY FormatFrame
<1>4. /\ Entered' = Entered /\ Frames' = Frames /\ Stored = index /\ Stored' = index + 1
      /\ InHand = 1 /\ InHand' = 0
  BY <1>2, <1>3 DEF Entered, Frames, Stored, InHand
<1>5. outRQue.num < OutLen /\ (opc # "poll" => nodeOutbuf # h)
  BY StoresFree
<1>6. outMem[h] \in [0 .. FrameNodes - 1 -> Cell]
  BY <1>0, <1>1 DEF Frame
<1>7. /\ \A s \in 0 .. OutLen : s # h => outMem'[s] = outMem[s]
      /\ outMem'[h] = [outMem[h] EXCEPT ![index] = inMem[nodeInbuf]]
  BY <1>0, <1>1, <1>2
<1>8. /\ \A k \in 0 .. FrameNodes - 1 : k # index => outMem'[h][k] = outMem[h][k]
      /\ outMem'[h][index] = inMem[nodeInbuf]
  <2> HIDE DEF h
  <2> QED
    BY <1>0, <1>6, <1>7
<1>9. b \in Nat /\ Entered \in Int /\ inRQue.num \in Int
  BY Counters, Sizes DEF Types
<1>10. Entered - inRQue.num - 1 = b + index
  BY <1>4 DEF Balance
<1>11. inMem[nodeInbuf] = N[b + index]
  <2>1. inMem[nodeInbuf] = N[Entered - inRQue.num - 1]
    BY <1>2 DEF InputNodes
  <2> HIDE DEF N, b
  <2> QED
    BY <1>10, <2>1
<1>12. N' = N /\ F' = F /\ b' = b /\ h' = h
  BY <1>2, <1>3, <1>4
<1>13. InputNodes'
  BY <1>2, <1>3, <1>4 DEF InputNodes
<1>14. Balance'
  <2>1. Entered - inRQue.num - 0 = b + (index + 1)
    <3> HIDE DEF b
    <3> QED
      BY <1>0, <1>9, <1>10
  <2>2. (Entered - inRQue.num - InHand)' = Entered - inRQue.num - 0
        /\ (Frames * FrameNodes + Stored)' = b + (index + 1)
    BY <1>2, <1>4
  <2> QED
    BY <2>1, <2>2 DEF Balance
<1>15. OutputFrames'
  <2>1. Holds(outRQue, OutLen, outMem', F, Frames)
    <3>1. \A s \in 0 .. OutLen - 1 : Dist(outRQue.head, s, OutLen) <= outRQue.num => outMem'[s] = outMem[s]
      <4> TAKE s \in 0 .. OutLen - 1
      <4> HAVE Dist(outRQue.head, s, OutLen) <= outRQue.num
      <4>1. s # outRQue.head
        BY <1>0, <1>5, HeadUnqueued
      <4> QED
        BY <1>0, <1>7, <4>1
    <3>2. Holds(outRQue, OutLen, outMem, F, Frames)
      BY DEF OutputFrames
    <3> HIDE DEF F
    <3> QED
      BY <3>1, <3>2, SameHolds
  <2>2. \A k \in 0 .. index : outMem'[h][k] = N[b + k]
    <3> TAKE k \in 0 .. index
    <3>1. CASE k = index
      BY <1>8, <1>11, <3>1
    <3>2. CASE k # index
      <4>1. k \in 0 .. index - 1 /\ k \in 0 .. FrameNodes - 1
        BY <1>0, <3>2
      <4>2. outMem[h][k] = N[b + k]
        BY <1>4, <4>1 DEF OutputFrames
      <4>3. outMem'[h][k] = outMem[h][k]
        BY <1>8, <3>2, <4>1
      <4> QED
        BY <4>2, <4>3
    <3> QED
      BY <3>1, <3>2
  <2>3. opc = "print" => outMem'[nodeOutbuf] = F[Len(printed)]
    BY <1>0, <1>5, <1>7 DEF OutputFrames
  <2>4. \A i \in 1 .. Len(printed) : printed[i] = F[i - 1]
    BY DEF OutputFrames
  <2>5. \A k \in 0 .. Stored' - 1 : outMem'[h'][k] = N'[b' + k]
    <3>1. Stored' - 1 = index
      BY <1>0, <1>4
    <3> QED
      BY <1>12, <2>2, <3>1
  <2>6. Holds(outRQue', OutLen, outMem', F', Frames')
    BY <1>2, <1>4, <1>12, <2>1
  <2>7. opc' = "print" => outMem'[nodeOutbuf'] = F'[Len(printed')]
    BY <1>3, <1>12, <2>3
  <2>8. \A i \in 1 .. Len(printed') : printed'[i] = F'[i - 1]
    BY <1>3, <1>12, <2>4
  <2> QED
    BY <2>5, <2>6, <2>7, <2>8 DEF OutputFrames
<1> QED
  BY <1>13, <1>14, <1>15

LEMMA FormatAddStream ==
  ASSUME Types, Room, FormatAdd, TestFormat \/ TestFormatValue, ~overrun,
         InputNodes, Balance, OutputFrames
  PROVE  (InputNodes /\ Balance /\ OutputFrames)'
<1>0. /\ OutLen \in Nat \ {0} /\ FrameNodes \in Nat \ {0} /\ Own(outRQue, OutLen)
      /\ outMem \in [0 .. OutLen -> Frame] /\ nodeOut = outRQue.head /\ overwrite \in BOOLEAN
  BY Sizes DEF FormatAdd, Types, FormatTypes, DataTypes
<1>1. outRQue.head \in 0 .. OutLen - 1 /\ outRQue.num \in 0 .. OutLen
  BY <1>0, OwnFields
<1> DEFINE h == outRQue.head
           N == NodeAt(method)
           F == FrameAt(method)
           f == Frames
<1>2. /\ fpc = "add" /\ fpc' = "poll" /\ index' = index /\ inRQue' = inRQue
      /\ inMem' = inMem /\ outMem' = outMem /\ nodeInbuf' = nodeInbuf /\ index = 0
      /\ outRQue' = add(outRQue, outRQue.buf[h], overwrite)
  BY <1>0 DEF FormatAdd, memory, Room
<1>3. /\ method' = method /\ tpc' = tpc /\ nodes' = nodes /\ opc' = opc /\ nodeOutbuf' = nodeOutbuf
      /\ printed' = printed
  BY FormatFrame
<1>4. outRQue.num < OutLen
  <2>1. OutUsed < OutLen /\ (OutUsed = outRQue.num + 0 \/ OutUsed = outRQue.num + 1)
    BY <1>2 DEF Room, OutUsed
  <2> QED
    BY <1>0, <1>1, <2>1
<1>5. f \in Nat /\ f * FrameNodes \in Nat /\ (f + 1) * FrameNodes = f * FrameNodes + FrameNodes
      /\ Entered \in Int /\ inRQue.num \in Int
  BY Counters, Sizes
<1>6. outRQue'.num = outRQue.num + 1
  BY <1>0, <1>2, <1>4, AddMoves
<1>7. /\ Entered' = Entered /\ Stored = FrameNodes /\ Stored' = 0 /\ InHand = 0 /\ InHand' = 0
  BY <1>2, <1>3 DEF Entered, Stored, InHand
<1>8. Frames' = f + 1
  <2> DEFINE n == Len(printed) + (IF opc = "print" THEN 1 ELSE 0)
  <2>1. n \in Nat
    BY DEF Types, DataTypes
  <2>2. Frames = n + outRQue.num /\ Frames' = n + outRQue'.num
    BY <1>3 DEF Frames
  <2> HIDE DEF n
  <2> QED
    BY <1>1, <1>6, <2>1, <2>2
<1>9. outMem[h] = F[f]
  <2>1. outMem[h] \in [0 .. FrameNodes - 1 -> Cell]
    BY <1>0, <1>1 DEF Frame
  <2>2. \A k \in 0 .. FrameNodes - 1 : outMem[h][k] = N[f * FrameNodes + k]
    BY <1>7 DEF OutputFrames
  <2>3. F[f] = [k \in 0 .. FrameNodes - 1 |-> N[f * FrameNodes + k]]
    <3>1. f \in Int
      BY <1>5
    <3> HIDE DEF f
    <3> QED
      BY <3>1, FrameOfNodes
  <2> HIDE DEF h, N, F, f
  <2> QED
    BY <2>1, <2>2, <2>3
<1>10. N' = N /\ F' = F
  BY <1>3
<1>11. InputNodes'
  BY <1>2, <1>3, <1>7 DEF InputNodes
<1>12. Balance'
  <2>1. (Frames * FrameNodes + Stored)' = (f + 1) * FrameNodes + 0
    BY <1>7, <1>8
  <2> DEFINE b == f * FrameNodes
             c == (f + 1) * FrameNodes
  <2>2. b \in Nat /\ c = b + FrameNodes
    BY <1>5
  <2>3. Entered - inRQue.num - 0 = b + FrameNodes
    BY <1>7 DEF Balance
  <2>4. (Entered - inRQue.num - InHand)' = Entered - inRQue.num - 0
    BY <1>2, <1>7
  <2> HIDE DEF b, c
  <2>5. Entered - inRQue.num - 0 = c + 0
    BY <1>0, <2>2, <2>3
  <2> QED
    BY <2>1, <2>4, <2>5 DEF Balance, c
<1>13. OutputFrames'
  <2>1. Holds(outRQue', OutLen, outMem, F, f + 1)
    <3>1. Holds(outRQue, OutLen, outMem, F, f)
      BY DEF OutputFrames
    <3>2. f \in Int
      BY <1>5
    <3> HIDE DEF F, f
    <3> QED
      BY <1>0, <1>2, <1>4, <1>9, <3>1, <3>2, AddHolds
  <2>2. Holds(outRQue', OutLen, outMem', F', Frames')
    BY <1>2, <1>8, <1>10, <2>1
  <2>3. \A k \in 0 .. Stored' - 1 : outMem'[outRQue'.head][k] = N'[Frames' * FrameNodes + k]
    BY <1>7
  <2>4. opc' = "print" => outMem'[nodeOutbuf'] = F'[Len(printed')]
    BY <1>2, <1>3, <1>10 DEF OutputFrames
  <2>5. \A i \in 1 .. Len(printed') : printed'[i] = F'[i - 1]
    BY <1>3, <1>10 DEF OutputFrames
  <2> QED
    BY <2>2, <2>3, <2>4, <2>5 DEF OutputFrames
<1> QED
  BY <1>11, <1>12, <1>13

LEMMA FormatStream ==
  ASSUME Types, Pulled, Room, TestFormat \/ TestFormatValue, ~overrun, ~overrun',
         InputNodes, Balance, OutputFrames
  PROVE  (InputNodes /\ Balance /\ OutputFrames)'
<1>1. CASE FormatPoll \/ FormatIsFull
  <2>1. /\ method' = method /\ tpc' = tpc /\ nodes' = nodes /\ opc' = opc /\ nodeOutbuf' = nodeOutbuf
        /\ printed' = printed
    BY FormatFrame
  <2>2. /\ inRQue' = inRQue /\ outRQue' = outRQue /\ inMem' = inMem /\ outMem' = outMem
        /\ nodeInbuf' = nodeInbuf /\ fpc # "store" /\ fpc' # "store"
    BY <1>1 DEF FormatPoll, FormatIsFull, memory
  <2>3. Stored' = Stored
    <3>1. CASE FormatPoll
      BY <3>1 DEF FormatPoll, Stored
    <3>2. CASE FormatIsFull
      BY <3>2 DEF FormatIsFull, Stored, Room
    <3> QED
      BY <1>1, <3>1, <3>2
  <2>4. Entered' = Entered /\ Frames' = Frames /\ InHand' = InHand
    BY <2>1, <2>2 DEF Entered, Frames, InHand
  <2> QED
    BY <2>1, <2>2, <2>3, <2>4 DEF InputNodes, Balance, OutputFrames
<1>2. CASE FormatPull \/ FormatPullValue
  BY <1>2, PullStream
<1>3. CASE FormatStore
  BY <1>3, StoreStream
<1>4. CASE FormatAdd
  BY <1>4, FormatAddStream
<1> QED
  BY <1>1, <1>2, <1>3, <1>4 DEF TestFormat, TestFormatValue

\* testOut, the transfer and the device.
LEMMA OutPullStream ==
  ASSUME Types, OutPull \/ OutPullValue, InputNodes, Balance, OutputFrames
  PROVE  (InputNodes /\ Balance /\ OutputFrames)'
<1>0. /\ OutLen \in Nat \ {0} /\ Own(outRQue, OutLen) /\ outRQue.num \in 0 .. OutLen
      /\ outRQue.head \in 0 .. OutLen - 1 /\ Len(printed) \in Nat
  BY Sizes, Counters DEF Types, FormatTypes, DataTypes
<1>1. /\ opc = "poll" /\ opc' = "print" /\ outRQue' = pull(outRQue)
      /\ outRQue.num > 0 /\ printed' = printed
      /\ outMem'[nodeOutbuf'] = outMem[pulled(outRQue)]
      /\ \A s \in 0 .. OutLen - 1 : outMem'[s] = outMem[s]
  BY OutPulls
<1>2. /\ method' = method /\ inRQue' = inRQue /\ inMem' = inMem /\ tpc' = tpc
      /\ nodes' = nodes /\ fpc' = fpc /\ index' = index /\ nodeInbuf' = nodeInbuf
  BY OutFrame DEF TestOut, TestOutValue
<1> DEFINE N == NodeAt(method)
           F == FrameAt(method)
           f == Frames
           n == Len(printed)
           q == pull(outRQue)
<1>3. q.head = outRQue.head /\ q.num = outRQue.num - 1
  BY <1>0, <1>1, PullMoves
<1>4. f = n + 0 + outRQue.num /\ Frames' = n + 1 + q.num
  BY <1>1 DEF Frames
<1>5. Frames' = f /\ f - outRQue.num = n /\ f \in Int
  <2> HIDE DEF n, q, f
  <2>1. n \in Nat
    BY <1>0 DEF n
  <2> QED
    BY <1>0, <1>3, <1>4, <2>1
<1>6. Entered' = Entered /\ Stored' = Stored /\ InHand' = InHand
  BY <1>2 DEF Entered, Stored, InHand
<1>7. N' = N /\ F' = F
  BY <1>2
<1>8. Holds(outRQue, OutLen, outMem, F, f)
  BY DEF OutputFrames
<1> HIDE DEF F, f
<1>9. Holds(q, OutLen, outMem, F, f) /\ outMem[pulled(outRQue)] = F[n]
  BY <1>0, <1>1, <1>5, <1>8, PullHolds
<1> HIDE DEF q, N, n
<1>10. Holds(q, OutLen, outMem', F, f)
  <2>1. \A s \in 0 .. OutLen - 1 : Dist(q.head, s, OutLen) <= q.num => outMem'[s] = outMem[s]
    BY <1>1
  <2> QED
    BY <1>9, <2>1, SameHolds
<1>11. InputNodes'
  BY <1>2, <1>6 DEF InputNodes
<1>12. Balance'
  BY <1>2, <1>5, <1>6 DEF Balance, f
<1>13. OutputFrames'
  <2>1. Holds(outRQue', OutLen, outMem', F', Frames')
    BY <1>1, <1>5, <1>7, <1>10 DEF q
  <2>2. \A k \in 0 .. Stored' - 1 : outMem'[outRQue'.head][k] = N'[Frames' * FrameNodes + k]
    <3>1. outRQue'.head = outRQue.head /\ outMem'[outRQue.head] = outMem[outRQue.head]
      BY <1>0, <1>1, <1>3 DEF q
    <3>2. \A k \in 0 .. Stored - 1 : outMem[outRQue.head][k] = N[f * FrameNodes + k]
      BY DEF OutputFrames, N, f
    <3> QED
      BY <1>5, <1>6, <1>7, <3>1, <3>2
  <2>3. outMem'[nodeOutbuf'] = F'[Len(printed')]
    BY <1>1, <1>7, <1>9 DEF n
  <2>4. \A i \in 1 .. Len(printed') : printed'[i] = F'[i - 1]
    BY <1>1, <1>7 DEF OutputFrames, F
  <2> QED
    BY <2>1, <2>2, <2>3, <2>4 DEF OutputFrames, F, N
<1> QED
  BY <1>11, <1>12, <1>13

LEMMA PrintStream ==
  ASSUME Types, OutPrint, ~overrun, InputNodes, Balance, OutputFrames
  PROVE  (InputNodes /\ Balance /\ OutputFrames)'
<1> DEFINE n == Len(printed)
           F == FrameAt(method)
<1>1. /\ opc = "print" /\ opc' # "print" /\ outRQue' = outRQue /\ outMem' = outMem
      /\ printed' = Append(printed, outMem[nodeOutbuf])
  <2>1. AfterPrint # "print"
    BY DEF AfterPrint
  <2> QED
    BY <2>1 DEF OutPrint, Record, memory
<1>2. /\ method' = method /\ inRQue' = inRQue /\ inMem' = inMem /\ tpc' = tpc
      /\ nodes' = nodes /\ fpc' = fpc /\ index' = index /\ nodeInbuf' = nodeInbuf
  BY DEF OutPrint, chosen, memory, inVars, formatVars
<1>3. printed \in Seq(Frame) /\ n \in Nat /\ outMem[nodeOutbuf] \in Frame /\ outRQue.num \in Nat
  <2>1. outRQue.num \in Nat
    BY Counters
  <2> QED
    BY <2>1 DEF Types, DataTypes, OutTypes
<1>4. /\ Len(printed') = n + 1 /\ printed'[n + 1] = outMem[nodeOutbuf]
      /\ \A i \in 1 .. n : printed'[i] = printed[i]
  BY <1>1, <1>3
<1>5. Frames' = Frames
  <2>1. Frames' = n + 1 + 0 + outRQue.num /\ Frames = n + 1 + outRQue.num
    BY <1>1, <1>4 DEF Frames
  <2> HIDE DEF n
  <2> QED
    BY <1>3, <2>1
<1>6. Entered' = Entered /\ Stored' = Stored /\ InHand' = InHand
  BY <1>2 DEF Entered, Stored, InHand
<1>7. F' = F
  BY <1>2
<1>8. InputNodes'
  BY <1>2, <1>6 DEF InputNodes
<1>9. Balance'
  BY <1>2, <1>5, <1>6 DEF Balance
<1>10. OutputFrames'
  <2>1. outMem[nodeOutbuf] = F[n] /\ \A i \in 1 .. n : printed[i] = F[i - 1]
    BY <1>1 DEF OutputFrames
  <2>2. \A i \in 1 .. n + 1 : printed'[i] = F[i - 1]
    <3> HIDE DEF n, F
    <3> TAKE i \in 1 .. n + 1
    <3>1. CASE i \in 1 .. n
      BY <1>4, <2>1, <3>1
    <3>2. CASE i = n + 1
      <4>1. i - 1 = n
        BY <1>3, <3>2
      <4> QED
        BY <1>4, <2>1, <3>2, <4>1
    <3> QED
      BY <1>3, <3>1, <3>2
  <2>3. \A i \in 1 .. Len(printed') : printed'[i] = F'[i - 1]
    BY <1>4, <1>7, <2>2
  <2>4. Holds(outRQue', OutLen, outMem', F', Frames')
    BY <1>1, <1>5, <1>7 DEF OutputFrames
  <2>5. \A k \in 0 .. Stored' - 1 : outMem'[outRQue'.head][k] = NodeAt(method')[Frames' * FrameNodes + k]
    BY <1>1, <1>2, <1>5, <1>6 DEF OutputFrames
  <2> QED
    BY <1>1, <2>3, <2>4, <2>5 DEF OutputFrames
<1> QED
  BY <1>8, <1>9, <1>10

LEMMA StepKeepsStream == ASSUME Types, Pulled, Room, StreamInv, [Next]_vars PROVE StreamInv'
<1> SUFFICES ASSUME ~overrun' PROVE (InputNodes /\ Balance /\ OutputFrames)'
  BY DEF StreamInv
<1>0. ~overrun /\ InputNodes /\ Balance /\ OutputFrames
  BY OverrunStays DEF StreamInv
<1>1. CASE TestIn
  BY <1>0, <1>1, FillStream, InAddStream DEF TestIn
<1>2. CASE TestFormat \/ TestFormatValue
  BY <1>0, <1>2, FormatStream
<1>3. CASE OutPull \/ OutPullValue
  BY <1>0, <1>3, OutPullStream
<1>4. CASE OutPrint
  BY <1>0, <1>4, PrintStream
<1>5. CASE OutIndex \/ XferDataToUSBEp \/ Usb
  <2>1. /\ method' = method /\ inRQue' = inRQue /\ inMem' = inMem /\ tpc' = tpc
        /\ nodes' = nodes /\ fpc' = fpc /\ index' = index /\ nodeInbuf' = nodeInbuf
    BY <1>5, OutFrame DEF TestOut
  <2>2. /\ outRQue' = outRQue /\ outMem' = outMem /\ nodeOutbuf' = nodeOutbuf
        /\ printed' = printed /\ (opc = "print" <=> opc' = "print")
    BY <1>5, XferFrame
  <2>3. /\ Entered' = Entered /\ Frames' = Frames /\ Stored' = Stored /\ InHand' = InHand
    BY <2>1, <2>2 DEF Entered, Frames, Stored, InHand
  <2> QED
    BY <1>0, <2>1, <2>2, <2>3 DEF InputNodes, Balance, OutputFrames
<1>6. CASE UNCHANGED vars
  BY <1>0, <1>6 DEF vars, chosen, memory, inVars, formatVars, outVars, InputNodes, Balance, OutputFrames,
                    Entered, Frames, Stored, InHand
<1> QED
  BY <1>1, <1>2, <1>3, <1>4, <1>5, <1>6 DEF Next, TestOut, TestOutValue

\* While no buffer in use is written, every queued, held, half-built and printed node is
\* the next one of testIn's stream: nothing is lost, doubled or out of order.
THEOREM StreamInductive == Spec => [](Types /\ Pulled /\ Room /\ StreamInv)
<1>1. Init => Types /\ Pulled /\ Room /\ StreamInv
  BY InitTypes, InitPulled, InitRoom, InitStream
<1>2. Types /\ Pulled /\ Room /\ StreamInv /\ [Next]_vars => (Types /\ Pulled /\ Room /\ StreamInv)'
  BY StepKeepsTypes, StepKeepsPulled, StepKeepsRoom, StepKeepsStream
<1> QED
  BY <1>1, <1>2, PTL DEF Spec

LEMMA StreamImplies == Types /\ StreamInv => PrintedStream
<1> SUFFICES ASSUME Types, OutputFrames, NEW p \in 1 .. FrameNodes * Len(printed)
             PROVE  PrintedNode(p) = IF p <= StartupNodes THEN Fresh ELSE p - StartupNodes
  BY DEF StreamInv, PrintedStream
<1> DEFINE n == Len(printed)
           a == p - 1
           q == a \div FrameNodes
           r == a % FrameNodes
           l == Lead(method)
<1>1. FrameNodes \in Nat \ {0} /\ n \in Nat /\ l \in Nat /\ l = StartupNodes
  BY Sizes, Counters DEF Types, DataTypes, Lead, StartupNodes
<1>2. a \in Nat /\ a < FrameNodes * n /\ p = a + 1
  <2> DEFINE t == FrameNodes * n
  <2>1. t \in Nat /\ p \in 1 .. t
    BY <1>1
  <2> HIDE DEF t
  <2> QED
    BY <2>1 DEF t
<1>3. q \in 0 .. n - 1 /\ r \in 0 .. FrameNodes - 1 /\ q * FrameNodes + r = a
  <2>1. q \in Nat /\ r \in 0 .. FrameNodes - 1 /\ a = q * FrameNodes + r
    <3> HIDE DEF a
    <3> QED
      BY <1>1, <1>2
  <2> HIDE DEF a, q, r, n
  <2>2. q < n
    <3> SUFFICES ASSUME q >= n PROVE FALSE
      BY <1>1, <2>1
    <3>1. q * FrameNodes >= FrameNodes * n
      BY <1>1, <2>1
    <3> DEFINE x == q * FrameNodes
               y == FrameNodes * n
    <3>2. x \in Nat /\ y \in Nat /\ a = x + r /\ a < y /\ x >= y
      BY <1>1, <1>2, <2>1, <3>1
    <3> HIDE DEF x, y
    <3> QED
      BY <2>1, <3>2
  <2> QED
    BY <1>1, <2>1, <2>2
<1> HIDE DEF n, a, q, r
<1>4. printed[q + 1] = FrameAt(method)[q]
  <2> DEFINE i == q + 1
  <2>1. i \in 1 .. n /\ i - 1 = q
    BY <1>1, <1>3
  <2>2. \A j \in 1 .. n : printed[j] = FrameAt(method)[j - 1]
    BY DEF OutputFrames, n
  <2> HIDE DEF i
  <2>3. printed[i] = FrameAt(method)[q]
    BY <2>1, <2>2
  <2> QED
    BY <2>3 DEF i
<1>5. FrameAt(method)[q][r] = NodeAt(method)[a]
  <2>1. q \in Int
    BY <1>3
  <2>2. FrameAt(method)[q] = [k \in 0 .. FrameNodes - 1 |-> NodeAt(method)[q * FrameNodes + k]]
    BY <2>1, FrameOfNodes
  <2> QED
    BY <1>3, <2>2
<1>6. NodeAt(method)[a] = IF a < l THEN Fresh ELSE a + 1 - l
  BY <1>2 DEF NodeAt
<1>7. PrintedNode(p) = IF a < l THEN Fresh ELSE a + 1 - l
  BY <1>4, <1>5, <1>6 DEF PrintedNode, q, r, a
<1> HIDE DEF l
<1>8. (p <= l <=> a < l) /\ p - l = a + 1 - l
  BY <1>1, <1>2
<1> QED
  BY <1>1, <1>7, <1>8

\* As long as no buffer in use was written, the console shows the memory main queued and
\* then every value of testIn, once, whole and in order.
THEOREM PrintsTheStream == Spec => []PrintedStream
BY StreamInductive, StreamImplies, PTL

=============================================================================
