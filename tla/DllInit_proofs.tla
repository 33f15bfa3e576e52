---------------------------- MODULE DllInit_proofs --------------------------
(***************************************************************************)
(* The initialisation of the DLL for every number of callers, calls and    *)
(* USB devices and every ring length.  The first half of the invariant     *)
(* holds whatever overlaps; the second follows a single initialisation,    *)
(* place by place, from static storage to the state in which HjkUsbXfer    *)
(* starts.                                                                 *)
(***************************************************************************)
EXTENDS DllInit, FiniteSetTheorems, TLAPS

InP  == INSTANCE RingBufOps_proofs WITH MaxElements <- InLen
OutP == INSTANCE RingBufOps_proofs WITH MaxElements <- OutLen

\* Callers at one of these places still owe the process a thing of the kind they name.
Owing(places) == {c \in Caller : cpc[c] \in places}
ToDevice  == {"test", "begin", "usb"}
ToThreads == {"test"} \cup (Initialising \ {"finish"})
ToMutex   == ToThreads \ {"threads"}

\* A call makes at most one device object and one mutex and starts the threads once.
OncePerCall(made, places) ==
  IsFiniteSet(Owing(places)) /\ made + Cardinality(Owing(places)) <= calls

Counts ==
  ~exited => /\ OncePerCall(USBDevice, ToDevice) /\ OncePerCall(mutexes, ToMutex)
             /\ OncePerCall(threads, ToThreads)

\* The walk visits the devices found, and goes on only if there are any.
DevicesFound ==
  \A c \in Caller : /\ cpc[c] = "walk" => loop[c] < n[c]
                    /\ cpc[c] = "select" => loop[c] = 0 /\ MaxDevices > 0

-----------------------------------------------------------------------------
\* What a single initialisation has done to a ring, its node array and its buffers:
\* the first k nodes have theirs, m nodes are still queued.
Named(len, k) == [s \in 0 .. len - 1 |-> IF s < k THEN s ELSE NoBuffer]
Filling(len, k) == [head |-> IF k < len THEN k ELSE 0, num |-> k, buf |-> Named(len, k)]
Draining(len, m) == [head |-> 0, num |-> m, buf |-> Named(len, len)]

InUntouched  == inAllocs = 0 /\ inNode = Named(InLen, 0) /\ inRQue = Filling(InLen, 0)
InFinished   == inNode = Named(InLen, InLen) /\ inRQue = Draining(InLen, 0)
OutUntouched == outAllocs = 0 /\ outNode = Named(OutLen, 0) /\ outRQue = Filling(OutLen, 0)
OutFinished  == outNode = Named(OutLen, OutLen) /\ outRQue = Draining(OutLen, 0)
DeviceReady  == opened = slecd /\ hjkBulkOutEndpt = Endpoint(USBDevice, slecd)

BeforeIn  == {"begin", "usb", "walk", "select"}
WithIn    == {"allocIn", "addIn", "drainIn"}
WithOut   == {"allocOut", "addOut", "drainOut"}
AfterOut  == {"mutex", "threads", "finish"}
Working   == {"wait", "section", "release"}

InProgress(c) ==
  LET k == loop[c] IN
  /\ cpc[c] \in BeforeIn => InUntouched
  /\ cpc[c] = "allocIn" => inAllocs = k /\ inNode = Named(InLen, k) /\ inRQue = Filling(InLen, k)
  /\ cpc[c] = "addIn" =>
       inAllocs = k + 1 /\ inNode = Named(InLen, k + 1) /\ inRQue = Filling(InLen, k)
  /\ cpc[c] = "drainIn" => inNode = Named(InLen, InLen) /\ inRQue = Draining(InLen, InLen - k)
  /\ cpc[c] \in WithOut \cup AfterOut => InFinished

OutProgress(c) ==
  LET k == loop[c] IN
  /\ cpc[c] \in BeforeIn \cup WithIn => OutUntouched
  /\ cpc[c] = "allocOut" =>
       outAllocs = k /\ outNode = Named(OutLen, k) /\ outRQue = Filling(OutLen, k)
  /\ cpc[c] = "addOut" =>
       outAllocs = k + 1 /\ outNode = Named(OutLen, k + 1) /\ outRQue = Filling(OutLen, k)
  /\ cpc[c] = "drainOut" => outNode = Named(OutLen, OutLen) /\ outRQue = Draining(OutLen, OutLen - k)
  /\ cpc[c] \in AfterOut => OutFinished

\* At most one caller initialises, only before haveInit is set; nobody is past the
\* test before it is.
Alone ==
  /\ \A c, d \in Caller : cpc[c] \in Initialising /\ cpc[d] \in Initialising => c = d
  /\ haveInit => \A c \in Caller : cpc[c] \notin Initialising
  /\ ~haveInit => \A c \in Caller : cpc[c] \notin {"lock"} \cup Working

Nobody == \A c \in Caller : cpc[c] \notin Initialising

\* Nothing exists before the one that initialises makes it, and then it stays.
Created ==
  /\ ~haveInit /\ Nobody => /\ InUntouched /\ OutUntouched
                            /\ threads = 0 /\ mutexes = 0 /\ dataInMutex = 0
  /\ \A c \in Caller : cpc[c] \in Initialising =>
       /\ InProgress(c) /\ OutProgress(c)
       /\ cpc[c] \in WithIn \cup WithOut \cup AfterOut => DeviceReady
       /\ threads = IF cpc[c] = "finish" THEN 1 ELSE 0
       /\ mutexes = IF cpc[c] \in {"threads", "finish"} THEN 1 ELSE 0
       /\ dataInMutex = mutexes
  /\ haveInit => threads = 1 /\ mutexes = 1 /\ dataInMutex = 1

\* Whoever is past the wait owns the one mutex there is.
Owned ==
  haveInit => \A c \in Caller : /\ cpc[c] \in Working => handle[c] = 1
                                /\ cpc[c] \in {"section", "release"} => owner[1] = c

IInv ==
  /\ TypeOK /\ Counts /\ DevicesFound
  /\ ~overlapped => Alone /\ Created /\ Owned

-----------------------------------------------------------------------------
\* The two rings.
LEMMA Lengths ==
  /\ InLen \in Nat /\ InLen > 0 /\ OutLen \in Nat /\ OutLen > 0
  /\ MaxDevices \in Nat /\ MaxCalls \in Nat /\ MaxCalls > 0 /\ "free" \notin Caller
BY InitAssumption

LEMMA InAddType ==
  ASSUME NEW r \in In!Ring(Int), NEW obj \in Int
  PROVE  In!add(r, obj, FALSE) \in In!Ring(Int)
<1>1. r \in InP!Ring(Int)
  BY DEF In!Ring, InP!Ring, In!Slot, InP!Slot
<1>2. InP!Added(r, obj) \in InP!Ring(Int)
  BY <1>1, InitAssumption, InP!AddedType DEF InP!MaxElementsAssumption
<1>3. InP!Added(r, obj) = In!Added(r, obj) /\ InP!Ring(Int) = In!Ring(Int)
  BY DEF InP!Added, In!Added, InP!isFull, In!isFull, In!Ring, InP!Ring, In!Slot, InP!Slot
<1> QED
  BY <1>2, <1>3 DEF In!add

LEMMA OutAddType ==
  ASSUME NEW r \in Out!Ring(Int), NEW obj \in Int
  PROVE  Out!add(r, obj, FALSE) \in Out!Ring(Int)
<1>1. r \in OutP!Ring(Int)
  BY DEF Out!Ring, OutP!Ring, Out!Slot, OutP!Slot
<1>2. OutP!Added(r, obj) \in OutP!Ring(Int)
  BY <1>1, InitAssumption, OutP!AddedType DEF OutP!MaxElementsAssumption
<1>3. OutP!Added(r, obj) = Out!Added(r, obj) /\ OutP!Ring(Int) = Out!Ring(Int)
  BY DEF OutP!Added, Out!Added, OutP!isFull, Out!isFull, Out!Ring, OutP!Ring, Out!Slot, OutP!Slot
<1> QED
  BY <1>2, <1>3 DEF Out!add

LEMMA InPullType == ASSUME NEW r \in In!Ring(Int) PROVE In!pull(r) \in In!Ring(Int)
<1>1. r.num # 0 => r.num - 1 \in 0 .. InLen
  BY Lengths DEF In!Ring
<1> QED
  BY <1>1 DEF In!pull, In!isEmpty, In!Ring

LEMMA OutPullType == ASSUME NEW r \in Out!Ring(Int) PROVE Out!pull(r) \in Out!Ring(Int)
<1>1. r.num # 0 => r.num - 1 \in 0 .. OutLen
  BY Lengths DEF Out!Ring
<1> QED
  BY <1>1 DEF Out!pull, Out!isEmpty, Out!Ring

LEMMA NextNamed ==
  ASSUME NEW len \in Nat, NEW k \in 0 .. len - 1
  PROVE  [Named(len, k) EXCEPT ![k] = k] = Named(len, k + 1)
<1> DEFINE f == [Named(len, k) EXCEPT ![k] = k]
           g == Named(len, k + 1)
<1>1. f = [s \in 0 .. len - 1 |-> f[s]] /\ g = [s \in 0 .. len - 1 |-> g[s]]
  BY DEF Named
<1>2. ASSUME NEW s \in 0 .. len - 1 PROVE f[s] = g[s]
  BY DEF Named
<1> HIDE DEF f, g
<1>3. f = g
  BY <1>1, <1>2
<1> QED
  BY <1>3 DEF f, g

\* An add of the next node fills the next slot, and the last one brings the head back;
\* a pull takes one node out and moves nothing.
LEMMA InFills ==
  ASSUME NEW k \in 0 .. InLen - 1
  PROVE  In!add(Filling(InLen, k), Named(InLen, k + 1)[k], FALSE) = Filling(InLen, k + 1)
<1> DEFINE r == Filling(InLen, k)
<1>1. Named(InLen, k + 1)[k] = k
  BY Lengths DEF Named
<1>2. r.head = k /\ r.num = k /\ r.buf = Named(InLen, k) /\ ~In!isFull(r)
  BY Lengths DEF Filling, In!isFull
<1>3. (k + 1) % InLen = IF k + 1 < InLen THEN k + 1 ELSE 0
  BY Lengths
<1>4. [Named(InLen, k) EXCEPT ![k] = k] = Named(InLen, k + 1)
  BY Lengths, NextNamed
<1> HIDE DEF r
<1>5. In!add(r, k, FALSE) = [head |-> (k + 1) % InLen, num |-> k + 1,
                             buf |-> [Named(InLen, k) EXCEPT ![k] = k]]
  BY <1>2 DEF In!add, In!Admits, In!Added
<1> QED
  BY <1>1, <1>3, <1>4, <1>5 DEF r, Filling

LEMMA OutFills ==
  ASSUME NEW k \in 0 .. OutLen - 1
  PROVE  Out!add(Filling(OutLen, k), Named(OutLen, k + 1)[k], FALSE) = Filling(OutLen, k + 1)
<1> DEFINE r == Filling(OutLen, k)
<1>1. Named(OutLen, k + 1)[k] = k
  BY Lengths DEF Named
<1>2. r.head = k /\ r.num = k /\ r.buf = Named(OutLen, k) /\ ~Out!isFull(r)
  BY Lengths DEF Filling, Out!isFull
<1>3. (k + 1) % OutLen = IF k + 1 < OutLen THEN k + 1 ELSE 0
  BY Lengths
<1>4. [Named(OutLen, k) EXCEPT ![k] = k] = Named(OutLen, k + 1)
  BY Lengths, NextNamed
<1> HIDE DEF r
<1>5. Out!add(r, k, FALSE) = [head |-> (k + 1) % OutLen, num |-> k + 1,
                              buf |-> [Named(OutLen, k) EXCEPT ![k] = k]]
  BY <1>2 DEF Out!add, Out!Admits, Out!Added
<1> QED
  BY <1>1, <1>3, <1>4, <1>5 DEF r, Filling

LEMMA InDrains ==
  ASSUME NEW m \in 1 .. InLen PROVE In!pull(Draining(InLen, m)) = Draining(InLen, m - 1)
BY Lengths DEF In!pull, In!isEmpty, Draining

LEMMA OutDrains ==
  ASSUME NEW m \in 1 .. OutLen PROVE Out!pull(Draining(OutLen, m)) = Draining(OutLen, m - 1)
BY Lengths DEF Out!pull, Out!isEmpty, Draining

LEMMA FilledDrains == Filling(InLen, InLen) = Draining(InLen, InLen)
                        /\ Filling(OutLen, OutLen) = Draining(OutLen, OutLen)
BY Lengths DEF Filling, Draining

-----------------------------------------------------------------------------
\* One caller's move from one place to another, and what it owes.
LEMMA OwingMoves ==
  ASSUME NEW c \in Caller, NEW q, NEW R, NEW f, f \in [Caller -> R],
         NEW g, g = [f EXCEPT ![c] = q], NEW P,
         NEW S, S = {d \in Caller : f[d] \in P}, IsFiniteSet(S),
         NEW T, T = {d \in Caller : g[d] \in P}
  PROVE  /\ IsFiniteSet(T) /\ Cardinality(S) \in Nat /\ Cardinality(T) \in Nat
         /\ (q \in P => f[c] \in P) => Cardinality(T) <= Cardinality(S)
         /\ f[c] \in P /\ q \notin P => Cardinality(T) = Cardinality(S) - 1
         /\ Cardinality(T) <= Cardinality(S) + 1
<1>0. Cardinality(S) \in Nat
  BY FS_CardinalityType
<1>1. CASE f[c] \in P <=> q \in P
  <2>1. T = S
    BY <1>1
  <2>2. Cardinality(T) <= Cardinality(S) /\ Cardinality(T) <= Cardinality(S) + 1
    BY <1>0, <2>1
  <2> QED
    BY <1>0, <1>1, <2>1, <2>2
<1>2. CASE f[c] \in P /\ q \notin P
  <2>1. T = S \ {c} /\ c \in S
    BY <1>2
  <2>2. IsFiniteSet(T) /\ Cardinality(T) = Cardinality(S) - 1 /\ Cardinality(T) \in Nat
    <3>1. IsFiniteSet(T) /\ Cardinality(T) = Cardinality(S) - 1
      BY <2>1, FS_RemoveElement
    <3> QED
      BY <3>1, FS_CardinalityType
  <2>3. Cardinality(T) <= Cardinality(S)
    BY <1>0, <2>2
  <2>4. Cardinality(T) <= Cardinality(S) + 1
    BY <1>0, <2>2
  <2> QED
    BY <1>0, <1>2, <2>2, <2>3, <2>4
<1>3. CASE f[c] \notin P /\ q \in P
  <2>1. T = S \cup {c} /\ c \notin S
    BY <1>3
  <2>2. IsFiniteSet(T) /\ Cardinality(T) = Cardinality(S) + 1 /\ Cardinality(T) \in Nat
    <3>1. IsFiniteSet(S \cup {c}) /\ Cardinality(S \cup {c}) = Cardinality(S) + 1
      BY <2>1, FS_AddElement
    <3> QED
      BY <2>1, <3>1, FS_CardinalityType
  <2>3. Cardinality(T) <= Cardinality(S) + 1
    BY <1>0, <2>2
  <2> QED
    BY <1>0, <1>3, <2>2, <2>3
<1> QED
  BY <1>1, <1>2, <1>3

LEMMA OnceKept ==
  ASSUME TypeOK, NEW c \in Caller, NEW q, cpc' = [cpc EXCEPT ![c] = q],
         NEW P, NEW made \in Nat, OncePerCall(made, P), NEW made2,
         \/ made2 = made /\ calls' = calls + 1
         \/ made2 = made /\ calls' = calls /\ (q \in P => cpc[c] \in P)
         \/ made2 = made + 1 /\ calls' = calls /\ cpc[c] \in P /\ q \notin P
  PROVE  IsFiniteSet(Owing(P)') /\ made2 + Cardinality(Owing(P)') <= calls'
<1> DEFINE S == Owing(P)
           T == {d \in Caller : cpc'[d] \in P}
<1>0. T = Owing(P)' /\ calls \in Int /\ IsFiniteSet(S) /\ made + Cardinality(S) <= calls
  BY DEF Owing, OncePerCall, TypeOK
<1> DEFINE R == Initialising \cup {"idle", "test", "lock", "wait", "section", "release"}
           f == cpc
           g == cpc'
<1>1. f \in [Caller -> R] /\ g = [f EXCEPT ![c] = q]
  BY DEF TypeOK
<1>2. S = {d \in Caller : f[d] \in P} /\ T = {d \in Caller : g[d] \in P}
  BY DEF Owing
<1> HIDE DEF S, T, R, f, g
<1>3. /\ IsFiniteSet(T) /\ Cardinality(S) \in Nat /\ Cardinality(T) \in Nat
      /\ (q \in P => f[c] \in P) => Cardinality(T) <= Cardinality(S)
      /\ f[c] \in P /\ q \notin P => Cardinality(T) = Cardinality(S) - 1
      /\ Cardinality(T) <= Cardinality(S) + 1
  BY <1>0, <1>1, <1>2, OwingMoves
<1>4. /\ IsFiniteSet(T) /\ Cardinality(S) \in Nat /\ Cardinality(T) \in Nat
      /\ (q \in P => cpc[c] \in P) => Cardinality(T) <= Cardinality(S)
      /\ cpc[c] \in P /\ q \notin P => Cardinality(T) = Cardinality(S) - 1
      /\ Cardinality(T) <= Cardinality(S) + 1
  BY <1>3 DEF f
<1>5. made2 + Cardinality(T) <= calls'
  <2>1. CASE made2 = made /\ calls' = calls + 1
    BY <1>0, <1>4, <2>1
  <2>2. CASE made2 = made /\ calls' = calls /\ (q \in P => cpc[c] \in P)
    BY <1>0, <1>4, <2>2
  <2>3. CASE made2 = made + 1 /\ calls' = calls /\ cpc[c] \in P /\ q \notin P
    BY <1>0, <1>4, <2>3
  <2> QED
    BY <2>1, <2>2, <2>3
<1> QED
  BY <1>0, <1>4, <1>5

\* Whoever still owes one leaves room for it.
LEMMA OnceRoom ==
  ASSUME TypeOK, NEW c \in Caller, NEW P, cpc[c] \in P, NEW made \in Nat, OncePerCall(made, P)
  PROVE  made + 1 \in Handle
<1>1. /\ IsFiniteSet(Owing(P)) /\ Owing(P) # {} /\ Cardinality(Owing(P)) \in Nat
      /\ made + Cardinality(Owing(P)) <= calls
  BY FS_CardinalityType DEF Owing, OncePerCall
<1>2. Cardinality(Owing(P)) # 0
  BY <1>1, FS_EmptySet
<1>3. calls \in 0 .. MaxCalls
  BY DEF TypeOK
<1> QED
  BY <1>1, <1>2, <1>3, Lengths DEF Handle

-----------------------------------------------------------------------------
\* Types.  The rings, the counters and everything a flag decides, apart.
RingTypes ==
  /\ inRQue \in In!Ring(Int) /\ outRQue \in Out!Ring(Int)
  /\ inNode \in [In!Slot -> Int] /\ outNode \in [Out!Slot -> Int]
  /\ inAllocs \in Nat /\ outAllocs \in Nat

RingStep(c) ==
  AllocIn(c) \/ AddIn(c) \/ DrainIn(c) \/ AllocOut(c) \/ AddOut(c) \/ DrainOut(c) \/ Enqueue(c)

LEMMA RingFrame ==
  ASSUME NEW c \in Caller, Call(c) \/ QueueBufStart(c), ~RingStep(c)
  PROVE  UNCHANGED rings
BY DEF Call, QueueBufStart, InitQueueBuf, RingStep, Test, Begin, GetHjkUSBDevice, WalkDevices,
       InitHjkUSBXfer, MakeMutex, StartThreads, Finish, Lock, Acquire, Release

LEMMA RingTypesKept ==
  ASSUME TypeOK, NEW c \in Caller, Call(c) \/ QueueBufStart(c)
  PROVE  RingTypes'
<1>0. RingTypes /\ loop[c] \in Nat
  BY DEF TypeOK, RingTypes
<1>1. CASE ~RingStep(c)
  BY <1>0, <1>1, RingFrame DEF rings, RingTypes, In!Ring, Out!Ring, In!Slot, Out!Slot
<1>2. CASE AllocIn(c)
  <2>1. inNode' \in [In!Slot -> Int] /\ inAllocs' \in Nat
    <3>1. inNode \in [In!Slot -> Int] /\ inAllocs \in Int /\ inAllocs + 1 \in Nat
      BY <1>0 DEF RingTypes
    <3> QED
      BY <1>2, <3>1 DEF AllocIn
  <2> QED
    BY <1>0, <1>2, <2>1 DEF AllocIn, RingTypes, In!Ring, Out!Ring, In!Slot, Out!Slot
<1>3. CASE AddIn(c)
  <2>1. inNode[loop[c]] \in Int
    <3>1. loop[c] \in In!Slot
      BY <1>0, <1>3, Lengths DEF AddIn, At, TypeOK, In!Slot
    <3> QED
      BY <1>0, <3>1 DEF RingTypes
  <2>2. inRQue' \in In!Ring(Int)
    BY <1>0, <1>3, <2>1, InAddType DEF AddIn, RingTypes
  <2> QED
    BY <1>0, <1>3, <2>2 DEF AddIn, RingTypes, In!Ring, Out!Ring, In!Slot, Out!Slot
<1>4. CASE DrainIn(c)
  <2>1. inRQue' \in In!Ring(Int)
    BY <1>0, <1>4, InPullType DEF DrainIn, RingTypes
  <2> QED
    BY <1>0, <1>4, <2>1 DEF DrainIn, RingTypes, In!Ring, Out!Ring, In!Slot, Out!Slot
<1>5. CASE AllocOut(c)
  <2>1. outNode' \in [Out!Slot -> Int] /\ outAllocs' \in Nat
    <3>1. outNode \in [Out!Slot -> Int] /\ outAllocs \in Int /\ outAllocs + 1 \in Nat
      BY <1>0 DEF RingTypes
    <3> QED
      BY <1>5, <3>1 DEF AllocOut
  <2> QED
    BY <1>0, <1>5, <2>1 DEF AllocOut, RingTypes, In!Ring, Out!Ring, In!Slot, Out!Slot
<1>6. CASE AddOut(c)
  <2>1. outNode[loop[c]] \in Int
    <3>1. loop[c] \in Out!Slot
      BY <1>0, <1>6, Lengths DEF AddOut, At, TypeOK, Out!Slot
    <3> QED
      BY <1>0, <3>1 DEF RingTypes
  <2>2. outRQue' \in Out!Ring(Int)
    BY <1>0, <1>6, <2>1, OutAddType DEF AddOut, RingTypes
  <2> QED
    BY <1>0, <1>6, <2>2 DEF AddOut, RingTypes, In!Ring, Out!Ring, In!Slot, Out!Slot
<1>7. CASE DrainOut(c)
  <2>1. outRQue' \in Out!Ring(Int)
    BY <1>0, <1>7, OutPullType DEF DrainOut, RingTypes
  <2> QED
    BY <1>0, <1>7, <2>1 DEF DrainOut, RingTypes, In!Ring, Out!Ring, In!Slot, Out!Slot
<1>8. CASE Enqueue(c)
  <2>1. inRQue.buf[In!getHead(inRQue)] \in Int
    BY <1>0 DEF RingTypes, In!Ring, In!getHead
  <2>2. inRQue' \in In!Ring(Int)
    BY <1>0, <1>8, <2>1, InAddType DEF Enqueue, RingTypes
  <2> QED
    BY <1>0, <1>8, <2>2 DEF Enqueue, RingTypes, In!Ring, Out!Ring, In!Slot, Out!Slot
<1> QED
  BY <1>1, <1>2, <1>3, <1>4, <1>5, <1>6, <1>7, <1>8 DEF RingStep

\* Places and loop variables.
Place == Initialising \cup {"idle", "test", "lock", "wait", "section", "release"}

PlaceTypes ==
  /\ cpc \in [Caller -> Place] /\ loop \in [Caller -> Nat]
  /\ n \in [Caller -> 0 .. MaxDevices] /\ handle \in [Caller -> Handle]
  /\ \A c \in Caller : /\ cpc[c] \in {"allocIn", "addIn", "drainIn"} => loop[c] < InLen
                       /\ cpc[c] \in {"allocOut", "addOut", "drainOut"} => loop[c] < OutLen

LEMMA PlaceTypesKept ==
  ASSUME TypeOK, DevicesFound, NEW c \in Caller, Call(c) \/ QueueBufStart(c)
  PROVE  PlaceTypes' /\ DevicesFound'
<1>0. PlaceTypes /\ dataInMutex \in Handle
  BY DEF TypeOK, PlaceTypes, Place
<1> USE DEF PlaceTypes, DevicesFound, At, Goes
<1>1. CASE \/ Call(c) \/ Test(c) \/ Begin(c) \/ MakeMutex(c) \/ StartThreads(c) \/ Finish(c)
           \/ Acquire(c) \/ Enqueue(c) \/ Release(c)
  <2>1. UNCHANGED <<loop, n, handle>>
    BY <1>1 DEF Call, Test, Begin, MakeMutex, StartThreads, Finish, Acquire, Enqueue, Release, usb
  <2>2. \E q \in {"idle", "test", "lock", "section", "release", "begin", "usb", "threads", "finish"} :
          cpc' = [cpc EXCEPT ![c] = q]
    BY <1>1 DEF Call, Test, Begin, MakeMutex, StartThreads, Finish, Acquire, Enqueue, Release
  <2> QED
    BY <1>0, <2>1, <2>2 DEF Place, Initialising, Handle
<1>2. CASE Lock(c)
  <2>1. UNCHANGED <<loop, n>> /\ cpc' = [cpc EXCEPT ![c] = "wait"]
    BY <1>2 DEF Lock, usb
  <2>2. handle' \in [Caller -> Handle]
    BY <1>0, <1>2 DEF Lock
  <2> QED
    BY <1>0, <2>1, <2>2 DEF Place, Handle
<1>3. CASE AllocIn(c) \/ AllocOut(c)
  <2>1. UNCHANGED <<loop, n, handle>>
    BY <1>3 DEF AllocIn, AllocOut, usb
  <2>2. \/ cpc' = [cpc EXCEPT ![c] = "addIn"] /\ loop[c] < InLen
        \/ cpc' = [cpc EXCEPT ![c] = "addOut"] /\ loop[c] < OutLen
    BY <1>0, <1>3 DEF AllocIn, AllocOut
  <2> QED
    BY <1>0, <2>1, <2>2 DEF Place, Initialising, Handle
<1>4. CASE GetHjkUSBDevice(c)
  <2>1. PICK found \in 0 .. MaxDevices :
          /\ n' = [n EXCEPT ![c] = found]
          /\ \/ found > 0 /\ cpc' = [cpc EXCEPT ![c] = "walk"]
             \/ cpc' = cpc /\ cpc[c] = "usb"
    BY <1>4 DEF GetHjkUSBDevice
  <2>2. loop' = [loop EXCEPT ![c] = 0] /\ handle' = handle
    BY <1>4 DEF GetHjkUSBDevice
  <2>3. n' \in [Caller -> 0 .. MaxDevices] /\ loop' \in [Caller -> Nat]
    BY <1>0, <2>1, <2>2
  <2>4. cpc' \in [Caller -> Place]
    BY <1>0, <2>1 DEF Place, Initialising
  <2>5. loop'[c] = 0 /\ n'[c] = found /\ cpc'[c] \in {"walk", "usb"}
    BY <1>0, <2>1, <2>2
  <2>6. \A d \in Caller : d # c => loop'[d] = loop[d] /\ n'[d] = n[d] /\ cpc'[d] = cpc[d]
    BY <1>0, <2>1, <2>2
  <2>7. cpc'[c] = "walk" => loop'[c] < n'[c]
    BY <1>0, <2>1, <2>5
  <2> QED
    BY <1>0, <2>2, <2>3, <2>4, <2>5, <2>6, <2>7 DEF Handle
<1>5. CASE WalkDevices(c)
  <2>1. n' = n /\ handle' = handle /\ cpc[c] = "walk" /\ loop[c] < n[c]
    BY <1>5 DEF WalkDevices
  <2>2. \/ /\ cpc' = [cpc EXCEPT ![c] = "select"] /\ loop' = [loop EXCEPT ![c] = 0]
        \/ /\ cpc' = [cpc EXCEPT ![c] = "walk"] /\ loop' = [loop EXCEPT ![c] = @ + 1]
           /\ ~(loop[c] + 1 >= n[c])
    BY <1>5 DEF WalkDevices, Round, LoopEnds
  <2>3. MaxDevices > 0
    BY <1>0, <2>1, Lengths
  <2>4. loop' \in [Caller -> Nat] /\ cpc' \in [Caller -> Place]
    BY <1>0, <2>2 DEF Place, Initialising
  <2>5. \/ cpc'[c] = "select" /\ loop'[c] = 0
        \/ cpc'[c] = "walk" /\ loop'[c] < n[c]
    BY <1>0, <2>2
  <2>6. \A d \in Caller : d # c => loop'[d] = loop[d] /\ cpc'[d] = cpc[d]
    BY <1>0, <2>2
  <2> QED
    BY <1>0, <2>1, <2>3, <2>4, <2>5, <2>6 DEF Handle
<1>6. CASE InitHjkUSBXfer(c)
  <2>1. n' = [n EXCEPT ![c] = 0] /\ loop' = loop /\ handle' = handle /\ loop[c] = 0
    BY <1>6 DEF InitHjkUSBXfer
  <2>2. cpc' = [cpc EXCEPT ![c] = "allocIn"] \/ (cpc' = cpc /\ cpc[c] = "select")
    BY <1>6 DEF InitHjkUSBXfer
  <2>3. n' \in [Caller -> 0 .. MaxDevices] /\ cpc' \in [Caller -> Place]
    BY <1>0, <2>1, <2>2, Lengths DEF Place, Initialising
  <2>4. cpc'[c] = "allocIn" \/ (cpc'[c] = cpc[c] /\ cpc[c] = "select")
    BY <1>0, <2>2
  <2>5. \A d \in Caller : d # c => n'[d] = n[d] /\ cpc'[d] = cpc[d]
    BY <1>0, <2>1, <2>2
  <2> QED
    BY <1>0, <2>1, <2>3, <2>4, <2>5, Lengths DEF Handle
<1>7. CASE AddIn(c) \/ DrainIn(c) \/ AddOut(c) \/ DrainOut(c)
  <2>1. UNCHANGED <<n, handle>>
    BY <1>7 DEF AddIn, DrainIn, AddOut, DrainOut, usb
  <2>2. \/ \E q \in {"drainIn", "allocOut", "drainOut", "mutex"} :
             cpc' = [cpc EXCEPT ![c] = q] /\ loop' = [loop EXCEPT ![c] = 0]
        \/ \E q \in {"allocIn", "drainIn"} :
             /\ cpc' = [cpc EXCEPT ![c] = q] /\ loop' = [loop EXCEPT ![c] = @ + 1]
             /\ ~(loop[c] + 1 >= InLen)
        \/ \E q \in {"allocOut", "drainOut"} :
             /\ cpc' = [cpc EXCEPT ![c] = q] /\ loop' = [loop EXCEPT ![c] = @ + 1]
             /\ ~(loop[c] + 1 >= OutLen)
    BY <1>7 DEF AddIn, DrainIn, AddOut, DrainOut, Round, LoopEnds
  <2>3. loop' \in [Caller -> Nat] /\ cpc' \in [Caller -> Place]
    BY <1>0, <2>2 DEF Place, Initialising
  <2>4. \/ cpc'[c] \in {"drainIn", "allocOut", "drainOut", "mutex"} /\ loop'[c] = 0
        \/ cpc'[c] \in {"allocIn", "drainIn"} /\ loop'[c] < InLen
        \/ cpc'[c] \in {"allocOut", "drainOut"} /\ loop'[c] < OutLen
    BY <1>0, <2>2, Lengths
  <2>5. \A d \in Caller : d # c => loop'[d] = loop[d] /\ cpc'[d] = cpc[d]
    BY <1>0, <2>2
  <2> QED
    BY <1>0, <2>1, <2>3, <2>4, <2>5, Lengths DEF Handle
<1> QED
  BY <1>1, <1>2, <1>3, <1>4, <1>5, <1>6, <1>7 DEF QueueBufStart, InitQueueBuf

\* Counters.
CounterTypes ==
  /\ USBDevice \in Handle /\ mutexes \in Handle /\ threads \in Handle /\ dataInMutex \in Handle
  /\ calls \in 0 .. MaxCalls /\ opened \in NoDevice .. MaxDevices - 1
  /\ hjkBulkOutEndpt \in [object : Handle, device : {NoDevice, slecd}]

LEMMA NotExited == ASSUME NEW c \in Caller, Call(c) \/ QueueBufStart(c) PROVE ~exited
BY DEF Call, QueueBufStart, InitQueueBuf, Test, Begin, GetHjkUSBDevice, WalkDevices,
       InitHjkUSBXfer, AllocIn, AddIn, DrainIn, AllocOut, AddOut, DrainOut, MakeMutex,
       StartThreads, Finish, Lock, Acquire, Enqueue, Release, At

LEMMA CounterTypesKept ==
  ASSUME TypeOK, Counts, DevicesFound, NEW c \in Caller, Call(c) \/ QueueBufStart(c)
  PROVE  CounterTypes'
<1>0. /\ CounterTypes /\ USBDevice \in Nat /\ mutexes \in Nat /\ threads \in Nat
      /\ OncePerCall(USBDevice, ToDevice) /\ OncePerCall(mutexes, ToMutex)
      /\ OncePerCall(threads, ToThreads)
  <2>1. CounterTypes
    BY DEF TypeOK, CounterTypes
  <2> QED
    BY <2>1, NotExited, Lengths DEF CounterTypes, Counts, Handle
<1> USE DEF CounterTypes
<1>1. CASE Call(c)
  <2>1. calls + 1 \in 0 .. MaxCalls
    BY <1>0, <1>1, Lengths DEF Call
  <2> QED
    BY <1>0, <1>1, <2>1 DEF Call, locks, usb, Handle, slecd
<1>2. CASE GetHjkUSBDevice(c)
  <2>1. USBDevice + 1 \in Handle
    BY <1>0, <1>2, OnceRoom DEF GetHjkUSBDevice, At, ToDevice
  <2>2. NoDevice \in NoDevice .. MaxDevices - 1
    BY Lengths DEF NoDevice
  <2> QED
    BY <1>0, <1>2, <2>1, <2>2 DEF GetHjkUSBDevice, locks, Handle, slecd
<1>3. CASE WalkDevices(c)
  <2>1. loop[c] \in NoDevice .. MaxDevices - 1 /\ NoDevice \in NoDevice .. MaxDevices - 1
    <3>1. loop[c] \in Nat /\ n[c] \in 0 .. MaxDevices /\ loop[c] < n[c]
      BY <1>3 DEF WalkDevices, At, DevicesFound, TypeOK
    <3> QED
      BY <3>1, Lengths DEF NoDevice
  <2> QED
    BY <1>0, <1>3, <2>1 DEF WalkDevices, locks, Handle, slecd
<1>4. CASE InitHjkUSBXfer(c)
  <2>1. slecd \in NoDevice .. MaxDevices - 1
    BY <1>4, Lengths DEF InitHjkUSBXfer, At, DevicesFound, NoDevice, slecd
  <2> QED
    BY <1>0, <1>4, <2>1 DEF InitHjkUSBXfer, locks, Handle, slecd, Endpoint
<1>5. CASE MakeMutex(c)
  <2>1. mutexes + 1 \in Handle
    BY <1>0, <1>5, OnceRoom DEF MakeMutex, At, ToMutex, ToThreads, Initialising
  <2> QED
    BY <1>0, <1>5, <2>1 DEF MakeMutex, usb, Handle, slecd
<1>6. CASE StartThreads(c)
  <2>1. threads + 1 \in Handle
    BY <1>0, <1>6, OnceRoom DEF StartThreads, At, ToThreads, Initialising
  <2> QED
    BY <1>0, <1>6, <2>1 DEF StartThreads, locks, usb, Handle, slecd
<1>7. CASE \/ Test(c) \/ Begin(c) \/ RingStep(c) \/ Finish(c) \/ Lock(c) \/ Acquire(c) \/ Release(c)
  BY <1>0, <1>7 DEF Test, Begin, RingStep, AllocIn, AddIn, DrainIn, AllocOut, AddOut, DrainOut,
                    Finish, Lock, Acquire, Enqueue, Release, locks, usb, Handle, slecd
<1> QED
  BY <1>1, <1>2, <1>3, <1>4, <1>5, <1>6, <1>7 DEF QueueBufStart, InitQueueBuf, RingStep

LEMMA CountsKept ==
  ASSUME TypeOK, Counts, NEW c \in Caller, Call(c) \/ QueueBufStart(c)
  PROVE  Counts'
<1>0. /\ USBDevice \in Nat /\ mutexes \in Nat /\ threads \in Nat
      /\ OncePerCall(USBDevice, ToDevice) /\ OncePerCall(mutexes, ToMutex)
      /\ OncePerCall(threads, ToThreads)
  BY NotExited, Lengths DEF TypeOK, Counts, Handle
<1> SUFFICES ASSUME ~exited'
             PROVE  /\ IsFiniteSet(Owing(ToDevice)') /\ USBDevice' + Cardinality(Owing(ToDevice)') <= calls'
                    /\ IsFiniteSet(Owing(ToMutex)') /\ mutexes' + Cardinality(Owing(ToMutex)') <= calls'
                    /\ IsFiniteSet(Owing(ToThreads)') /\ threads' + Cardinality(Owing(ToThreads)') <= calls'
  BY DEF Counts, OncePerCall, Owing, ToDevice, ToMutex, ToThreads, Initialising
<1> DEFINE Moves(made, made2, q, P) ==
             \/ made2 = made /\ calls' = calls + 1
             \/ made2 = made /\ calls' = calls /\ (q \in P => cpc[c] \in P)
             \/ made2 = made + 1 /\ calls' = calls /\ cpc[c] \in P /\ q \notin P
<1>1. \E q \in Place : /\ cpc' = [cpc EXCEPT ![c] = q]
                       /\ Moves(USBDevice, USBDevice', q, ToDevice)
                       /\ Moves(mutexes, mutexes', q, ToMutex)
                       /\ Moves(threads, threads', q, ToThreads)
  <2> USE DEF Place, Initialising, ToDevice, ToMutex, ToThreads, At, Goes
  <2>1. CASE Call(c)
    BY <2>1 DEF Call, locks, usb
  <2>2. CASE Test(c) \/ Begin(c)
    BY <2>2 DEF Test, Begin, locks, usb
  <2>3. CASE GetHjkUSBDevice(c)
    BY <2>3 DEF GetHjkUSBDevice, locks
  <2>4. CASE WalkDevices(c)
    BY <2>4 DEF WalkDevices, Round, locks
  <2>5. CASE InitHjkUSBXfer(c)
    BY <2>5 DEF InitHjkUSBXfer, locks
  <2>6. CASE AllocIn(c) \/ AllocOut(c) \/ Enqueue(c)
    BY <2>6 DEF AllocIn, AllocOut, Enqueue, locks, usb
  <2>7. CASE AddIn(c) \/ DrainIn(c) \/ AddOut(c) \/ DrainOut(c)
    BY <2>7 DEF AddIn, DrainIn, AddOut, DrainOut, Round, locks, usb
  <2>8. CASE MakeMutex(c)
    BY <2>8 DEF MakeMutex, usb
  <2>9. CASE StartThreads(c)
    BY <2>9 DEF StartThreads, locks, usb
  <2>10. CASE Finish(c) \/ Lock(c) \/ Acquire(c) \/ Release(c)
    BY <2>10 DEF Finish, Lock, Acquire, Release, locks, usb
  <2> QED
    BY <2>1, <2>2, <2>3, <2>4, <2>5, <2>6, <2>7, <2>8, <2>9, <2>10 DEF QueueBufStart, InitQueueBuf
<1>2. PICK q \in Place : /\ cpc' = [cpc EXCEPT ![c] = q]
                        /\ Moves(USBDevice, USBDevice', q, ToDevice)
                        /\ Moves(mutexes, mutexes', q, ToMutex)
                        /\ Moves(threads, threads', q, ToThreads)
  BY <1>1
<1>3. IsFiniteSet(Owing(ToDevice)') /\ USBDevice' + Cardinality(Owing(ToDevice)') <= calls'
  BY <1>0, <1>2, OnceKept
<1>4. IsFiniteSet(Owing(ToMutex)') /\ mutexes' + Cardinality(Owing(ToMutex)') <= calls'
  BY <1>0, <1>2, OnceKept
<1>5. IsFiniteSet(Owing(ToThreads)') /\ threads' + Cardinality(Owing(ToThreads)') <= calls'
  BY <1>0, <1>2, OnceKept
<1> QED
  BY <1>3, <1>4, <1>5

\* Flags and owners.
FlagTypes ==
  /\ haveInit \in BOOLEAN /\ exited \in BOOLEAN /\ overlapped \in BOOLEAN
  /\ owner \in [Handle -> Caller \cup {"free"}]

LEMMA FlagTypesKept ==
  ASSUME TypeOK, NEW c \in Caller, Call(c) \/ QueueBufStart(c)
  PROVE  FlagTypes'
<1>0. FlagTypes
  BY DEF TypeOK, FlagTypes
<1>1. haveInit' \in BOOLEAN
  BY <1>0 DEF FlagTypes, Call, QueueBufStart, InitQueueBuf, Test, Begin, GetHjkUSBDevice,
       WalkDevices, InitHjkUSBXfer, AllocIn, AddIn, DrainIn, AllocOut, AddOut, DrainOut,
       MakeMutex, StartThreads, Finish, Lock, Acquire, Enqueue, Release, FlagAtBegin
<1>2. exited' \in BOOLEAN
  BY <1>0 DEF FlagTypes, Call, QueueBufStart, InitQueueBuf, Test, Begin, GetHjkUSBDevice,
       WalkDevices, InitHjkUSBXfer, AllocIn, AddIn, DrainIn, AllocOut, AddOut, DrainOut,
       MakeMutex, StartThreads, Finish, Lock, Acquire, Enqueue, Release
<1>3. overlapped' \in BOOLEAN
  BY <1>0 DEF FlagTypes, Call, QueueBufStart, InitQueueBuf, Test, Begin, GetHjkUSBDevice,
       WalkDevices, InitHjkUSBXfer, AllocIn, AddIn, DrainIn, AllocOut, AddOut, DrainOut,
       MakeMutex, StartThreads, Finish, Lock, Acquire, Enqueue, Release
<1>4. owner' = owner \/ Acquire(c) \/ Release(c)
  BY DEF Call, QueueBufStart, InitQueueBuf, Test, Begin, GetHjkUSBDevice,
       WalkDevices, InitHjkUSBXfer, AllocIn, AddIn, DrainIn, AllocOut, AddOut, DrainOut,
       MakeMutex, StartThreads, Finish, Lock, Enqueue, locks
<1>5. owner' \in [Handle -> Caller \cup {"free"}]
  BY <1>0, <1>4 DEF FlagTypes, Acquire, Release
<1>6. Handle' = Handle
  BY DEF Handle
<1> QED
  BY <1>1, <1>2, <1>3, <1>5, <1>6 DEF FlagTypes

LEMMA TypeKept ==
  ASSUME TypeOK, Counts, DevicesFound, NEW c \in Caller, Call(c) \/ QueueBufStart(c)
  PROVE  TypeOK'
<1>1. RingTypes' /\ PlaceTypes' /\ CounterTypes' /\ FlagTypes'
  BY RingTypesKept, PlaceTypesKept, CounterTypesKept, FlagTypesKept
<1> QED
  BY <1>1 DEF TypeOK, RingTypes, PlaceTypes, CounterTypes, FlagTypes, Place

-----------------------------------------------------------------------------
\* A single initialisation.  Where the step of a caller takes it.
Initiating(c) == cpc[c] \in Initialising

LEMMA Moves ==
  ASSUME TypeOK, NEW c \in Caller, Call(c) \/ QueueBufStart(c)
  PROVE  /\ \A d \in Caller : d # c => cpc'[d] = cpc[d] /\ loop'[d] = loop[d] /\ handle'[d] = handle[d]
         /\ Call(c) => cpc[c] = "idle" /\ cpc'[c] = "test"
         /\ Test(c) => cpc[c] = "test" /\ cpc'[c] = IF haveInit THEN "lock" ELSE "begin"
         /\ InitQueueBuf(c) => Initiating(c) /\ cpc'[c] \in Initialising \cup {"idle"}
         /\ Lock(c) => cpc[c] = "lock" /\ cpc'[c] = "wait" /\ handle'[c] = dataInMutex
         /\ Acquire(c) => cpc[c] = "wait" /\ cpc'[c] = "section"
         /\ Enqueue(c) => cpc[c] = "section" /\ cpc'[c] = "release"
         /\ Release(c) => cpc[c] = "release" /\ cpc'[c] = "idle"
<1>0. cpc \in [Caller -> Place] /\ loop \in [Caller -> Nat] /\ handle \in [Caller -> Handle]
  BY DEF TypeOK, Place
<1>1. CASE Call(c) \/ Test(c) \/ Lock(c) \/ Acquire(c) \/ Enqueue(c) \/ Release(c)
  <2>1. /\ loop' = loop
        /\ Lock(c) => handle' = [handle EXCEPT ![c] = dataInMutex]
        /\ ~Lock(c) => handle' = handle
        /\ \E q \in Place : cpc' = [cpc EXCEPT ![c] = q]
    <3>1. CASE Lock(c)
      BY <3>1 DEF Lock, Goes, Place
    <3>2. CASE ~Lock(c)
      BY <1>1, <3>2 DEF Call, Test, Acquire, Enqueue, Release, Goes, Place, Initialising
    <3> QED
      BY <3>1, <3>2
  <2>2. ~InitQueueBuf(c)
    BY <1>1 DEF Call, Test, Lock, Acquire, Enqueue, Release, At, InitQueueBuf, Begin,
         GetHjkUSBDevice, WalkDevices, InitHjkUSBXfer, AllocIn, AddIn, DrainIn, AllocOut, AddOut,
         DrainOut, MakeMutex, StartThreads, Finish
  <2> QED
    BY <1>0, <1>1, <2>1, <2>2 DEF Call, Test, Lock, Acquire, Enqueue, Release, At, Goes
<1>2. CASE InitQueueBuf(c)
  <2>1. /\ handle' = handle
        /\ loop' = loop \/ \E k \in Nat : loop' = [loop EXCEPT ![c] = k]
    <3>1. loop[c] \in Nat /\ loop[c] + 1 \in Nat
      BY <1>0
    <3> QED
      BY <1>0, <1>2, <3>1 DEF InitQueueBuf, Begin, GetHjkUSBDevice, WalkDevices, InitHjkUSBXfer,
         AllocIn, AddIn, DrainIn, AllocOut, AddOut, DrainOut, MakeMutex, StartThreads, Finish, Round
  <2>2. /\ Initiating(c)
        /\ cpc' = cpc \/ \E q \in Initialising \cup {"idle"} : cpc' = [cpc EXCEPT ![c] = q]
    BY <1>2 DEF InitQueueBuf, Begin, GetHjkUSBDevice, WalkDevices, InitHjkUSBXfer,
         AllocIn, AddIn, DrainIn, AllocOut, AddOut, DrainOut, MakeMutex, StartThreads, Finish, Round,
         At, Goes, Initiating, Initialising
  <2>3. ~(Call(c) \/ Test(c) \/ Lock(c) \/ Acquire(c) \/ Enqueue(c) \/ Release(c))
    BY <2>2 DEF Call, Test, Lock, Acquire, Enqueue, Release, At, Initiating, Initialising
  <2> QED
    BY <1>0, <2>1, <2>2, <2>3 DEF Initiating
<1> QED
  BY <1>1, <1>2 DEF QueueBufStart

LEMMA AloneKept ==
  ASSUME TypeOK, ~overlapped => Alone, NEW c \in Caller, Call(c) \/ QueueBufStart(c), ~overlapped'
  PROVE  ~overlapped /\ Alone /\ Alone'
<1>1. ~overlapped
  BY DEF Call, QueueBufStart, InitQueueBuf, Test, Begin, GetHjkUSBDevice,
       WalkDevices, InitHjkUSBXfer, AllocIn, AddIn, DrainIn, AllocOut, AddOut, DrainOut,
       MakeMutex, StartThreads, Finish, Lock, Acquire, Enqueue, Release
<1> SUFFICES Alone'
  BY <1>1
<1> DEFINE Late == {"lock"} \cup Working
<1>2. /\ \A d \in Caller : d # c => cpc'[d] = cpc[d]
      /\ \A d, e \in Caller : cpc[d] \in Initialising /\ cpc[e] \in Initialising => d = e
      /\ haveInit => \A d \in Caller : cpc[d] \notin Initialising
      /\ ~haveInit => \A d \in Caller : cpc[d] \notin Late
  BY <1>1, Moves DEF Alone
<1>3. /\ \A q \in Late \cup {"idle", "test"} : q \notin Initialising
      /\ \A q \in Initialising \cup {"idle", "test"} : q \notin Late
      /\ "begin" \in Initialising /\ "lock" \in Late
  BY DEF Working, Initialising
<1> HIDE DEF Late
<1>4. ASSUME haveInit' = haveInit, haveInit => cpc'[c] \in Late \cup {"idle", "test"},
             ~haveInit => cpc'[c] \in {"idle", "test"}
      PROVE  Alone'
  <2>1. /\ cpc'[c] \notin Initialising
        /\ haveInit => \A d \in Caller : cpc'[d] \notin Initialising
        /\ \A d, e \in Caller : cpc'[d] \in Initialising /\ cpc'[e] \in Initialising => d = e
    BY <1>2, <1>3, <1>4
  <2>2. ~haveInit => \A d \in Caller : cpc'[d] \notin Late
    BY <1>2, <1>3, <1>4
  <2> QED
    BY <2>1, <2>2, <1>4 DEF Alone, Late, Working
<1>5. ASSUME ~haveInit, ~haveInit', cpc'[c] \in Initialising \cup {"idle"},
             \A d \in Caller : d # c => cpc[d] \notin Initialising
      PROVE  Alone'
  <2>1. \A d, e \in Caller : cpc'[d] \in Initialising /\ cpc'[e] \in Initialising => d = e
    BY <1>2, <1>3, <1>5
  <2>2. \A d \in Caller : cpc'[d] \notin Late
    BY <1>2, <1>3, <1>5
  <2> QED
    BY <2>1, <2>2, <1>5 DEF Alone, Late, Working
<1>6. CASE Call(c)
  BY <1>4, <1>6, Moves DEF Call
<1>7. CASE Test(c)
  <2>1. haveInit' = haveInit /\ (~haveInit => Nobody)
    BY <1>1, <1>7 DEF Test, Nobody
  <2>2. cpc'[c] = IF haveInit THEN "lock" ELSE "begin"
    BY <1>7, Moves
  <2>3. CASE haveInit
    <3>1. cpc'[c] \in Late \cup {"idle", "test"}
      BY <1>3, <2>2, <2>3
    <3> QED
      BY <1>4, <2>1, <2>3, <3>1
  <2>4. CASE ~haveInit
    <3>1. cpc'[c] \in Initialising \cup {"idle"} /\ ~haveInit'
      BY <1>3, <2>1, <2>2, <2>4
    <3>2. \A d \in Caller : d # c => cpc[d] \notin Initialising
      BY <2>1, <2>4 DEF Nobody
    <3> QED
      BY <1>5, <2>4, <3>1, <3>2
  <2> QED
    BY <2>3, <2>4
<1>8. CASE InitQueueBuf(c)
  <2>1. ~haveInit /\ cpc[c] \in Initialising /\ cpc'[c] \in Initialising \cup {"idle"}
    BY <1>2, <1>8, Moves DEF Initiating
  <2>2. \A d \in Caller : d # c => cpc[d] \notin Initialising
    BY <1>2, <2>1
  <2>3. CASE Finish(c)
    <3>1. haveInit' /\ cpc'[c] = "idle"
      BY <2>3 DEF Finish, Goes, TypeOK
    <3>2. \A d \in Caller : cpc'[d] \notin Initialising
      BY <1>2, <1>3, <2>2, <3>1
    <3> QED
      BY <3>1, <3>2 DEF Alone, Late, Working
  <2>4. CASE ~Finish(c)
    <3>1. ~haveInit'
      BY <1>8, <2>1, <2>4 DEF InitQueueBuf, Begin, GetHjkUSBDevice, WalkDevices, InitHjkUSBXfer,
         AllocIn, AddIn, DrainIn, AllocOut, AddOut, DrainOut, MakeMutex, StartThreads, FlagAtBegin
    <3> QED
      BY <1>5, <2>1, <2>2, <3>1
  <2> QED
    BY <2>3, <2>4
<1>9. CASE Lock(c) \/ Acquire(c) \/ Enqueue(c) \/ Release(c)
  <2>1. haveInit' = haveInit
    BY <1>9 DEF Lock, Acquire, Enqueue, Release
  <2>2. cpc[c] \in Late /\ cpc'[c] \in Late \cup {"idle", "test"}
    BY <1>9, Moves DEF Working, Late
  <2>3. haveInit
    BY <1>2, <2>2
  <2> QED
    BY <1>4, <2>1, <2>2, <2>3
<1> QED
  BY <1>1, <1>2, <1>6, <1>7, <1>8, <1>9 DEF QueueBufStart, Alone

\* The loop over the nodes of the in ring, and then of the out ring.
LEMMA Rounds ==
  ASSUME TypeOK, NEW c \in Caller, NEW len \in Nat, len > 0, loop[c] < len, NEW again, NEW after,
         Round(c, len, again, after)
  PROVE  \/ loop[c] + 1 < len /\ cpc'[c] = again /\ loop'[c] = loop[c] + 1
         \/ loop[c] + 1 = len /\ cpc'[c] = after /\ loop'[c] = 0
<1>1. loop[c] \in Nat /\ loop[c] + 1 <= len
  BY DEF TypeOK
<1>2. CASE LoopEnds(c, len)
  BY <1>1, <1>2 DEF Round, Goes, LoopEnds, TypeOK
<1>3. CASE ~LoopEnds(c, len)
  BY <1>1, <1>3 DEF Round, Goes, LoopEnds, TypeOK
<1> QED
  BY <1>2, <1>3

LEMMA InProgressKept ==
  ASSUME TypeOK, DevicesFound, NEW c \in Caller, InitQueueBuf(c), InProgress(c)
  PROVE  InProgress(c)'
<1> DEFINE k == loop[c]
<1>0. k \in Nat
  BY DEF TypeOK
<1> USE DEF InProgress, BeforeIn, WithIn, WithOut, AfterOut, InUntouched, InFinished
<1>1. CASE Begin(c) \/ GetHjkUSBDevice(c) \/ WalkDevices(c)
  <2>1. InUntouched /\ UNCHANGED rings
    BY <1>1 DEF Begin, GetHjkUSBDevice, WalkDevices, At
  <2>2. cpc'[c] \in BeforeIn
    BY <1>1 DEF Begin, GetHjkUSBDevice, WalkDevices, At, Goes, Round, TypeOK
  <2> QED
    BY <2>1, <2>2 DEF rings
<1>2. CASE InitHjkUSBXfer(c)
  <2>1. InUntouched /\ UNCHANGED rings /\ loop' = loop /\ loop[c] = 0
    BY <1>2 DEF InitHjkUSBXfer, At, DevicesFound
  <2>2. cpc'[c] \in {"select", "allocIn"}
    BY <1>2 DEF InitHjkUSBXfer, At, Goes, TypeOK
  <2> QED
    BY <2>1, <2>2 DEF rings
<1>3. CASE AllocIn(c)
  <2>1. k \in 0 .. InLen - 1 /\ inAllocs = k /\ inNode = Named(InLen, k) /\ inRQue = Filling(InLen, k)
    BY <1>0, <1>3, Lengths DEF AllocIn, At, TypeOK
  <2>2. inNode' = Named(InLen, k + 1)
    BY <1>3, <2>1, Lengths, NextNamed DEF AllocIn
  <2>3. inAllocs' = k + 1 /\ inRQue' = inRQue /\ loop' = loop /\ cpc'[c] = "addIn"
    BY <1>3, <2>1 DEF AllocIn, Goes, TypeOK
  <2> QED
    BY <2>1, <2>2, <2>3
<1>4. CASE AddIn(c)
  <2>1. /\ k \in 0 .. InLen - 1 /\ inAllocs = k + 1 /\ inNode = Named(InLen, k + 1)
        /\ inRQue = Filling(InLen, k)
    BY <1>0, <1>4, Lengths DEF AddIn, At, TypeOK
  <2>2. inRQue' = Filling(InLen, k + 1)
    BY <1>4, <2>1, InFills DEF AddIn
  <2>3. inNode' = inNode /\ inAllocs' = inAllocs
    BY <1>4 DEF AddIn
  <2>4. \/ k + 1 < InLen /\ cpc'[c] = "allocIn" /\ loop'[c] = k + 1
        \/ k + 1 = InLen /\ cpc'[c] = "drainIn" /\ loop'[c] = 0
    BY <1>4, <2>1, Lengths, Rounds DEF AddIn
  <2>5. Filling(InLen, InLen) = Draining(InLen, InLen - 0)
    BY Lengths, FilledDrains
  <2> QED
    BY <2>1, <2>2, <2>3, <2>4, <2>5
<1>5. CASE DrainIn(c)
  <2>1. k \in 0 .. InLen - 1 /\ inNode = Named(InLen, InLen) /\ inRQue = Draining(InLen, InLen - k)
    BY <1>0, <1>5, Lengths DEF DrainIn, At, TypeOK
  <2>2. inRQue' = Draining(InLen, InLen - (k + 1))
    <3>1. InLen - k \in 1 .. InLen /\ InLen - k - 1 = InLen - (k + 1)
      BY <2>1, Lengths
    <3> QED
      BY <1>5, <2>1, <3>1, InDrains DEF DrainIn
  <2>3. inNode' = inNode
    BY <1>5 DEF DrainIn
  <2>4. \/ k + 1 < InLen /\ cpc'[c] = "drainIn" /\ loop'[c] = k + 1
        \/ InLen - (k + 1) = 0 /\ cpc'[c] = "allocOut"
    <3>1. \/ k + 1 < InLen /\ cpc'[c] = "drainIn" /\ loop'[c] = k + 1
          \/ k + 1 = InLen /\ cpc'[c] = "allocOut" /\ loop'[c] = 0
      BY <1>5, <2>1, Lengths, Rounds DEF DrainIn
    <3> QED
      BY <2>1, <3>1, Lengths
  <2> QED
    BY <2>1, <2>2, <2>3, <2>4
<1>6. CASE \/ AllocOut(c) \/ AddOut(c) \/ DrainOut(c) \/ MakeMutex(c) \/ StartThreads(c) \/ Finish(c)
  <2>1. InFinished /\ UNCHANGED <<inRQue, inNode>>
    BY <1>6 DEF AllocOut, AddOut, DrainOut, MakeMutex, StartThreads, Finish, At, rings
  <2>2. cpc'[c] \in WithOut \cup AfterOut \cup {"idle"}
    BY <1>6 DEF AllocOut, AddOut, DrainOut, MakeMutex, StartThreads, Finish, Goes, Round, TypeOK
  <2> QED
    BY <2>1, <2>2
<1> QED
  BY <1>1, <1>2, <1>3, <1>4, <1>5, <1>6 DEF InitQueueBuf

LEMMA OutProgressKept ==
  ASSUME TypeOK, DevicesFound, NEW c \in Caller, InitQueueBuf(c), OutProgress(c)
  PROVE  OutProgress(c)'
<1> DEFINE k == loop[c]
<1>0. k \in Nat
  BY DEF TypeOK
<1> USE DEF OutProgress, BeforeIn, WithIn, WithOut, AfterOut, OutUntouched, OutFinished
<1>1. CASE \/ Begin(c) \/ GetHjkUSBDevice(c) \/ WalkDevices(c) \/ InitHjkUSBXfer(c)
           \/ AllocIn(c) \/ AddIn(c)
  <2>1. OutUntouched /\ UNCHANGED <<outRQue, outNode, outAllocs>>
    BY <1>1 DEF Begin, GetHjkUSBDevice, WalkDevices, InitHjkUSBXfer, AllocIn, AddIn, At, rings
  <2>2. cpc'[c] \in BeforeIn \cup WithIn
    BY <1>1 DEF Begin, GetHjkUSBDevice, WalkDevices, InitHjkUSBXfer, AllocIn, AddIn, At, Goes,
         Round, TypeOK
  <2> QED
    BY <2>1, <2>2
<1>2. CASE DrainIn(c)
  <2>1. OutUntouched /\ UNCHANGED <<outRQue, outNode, outAllocs>>
    BY <1>2 DEF DrainIn, At
  <2>2. cpc'[c] = "drainIn" \/ (cpc'[c] = "allocOut" /\ loop'[c] = 0)
    BY <1>2, Lengths, Rounds DEF DrainIn, At, TypeOK
  <2> QED
    BY <2>1, <2>2
<1>3. CASE AllocOut(c)
  <2>1. /\ k \in 0 .. OutLen - 1 /\ outAllocs = k /\ outNode = Named(OutLen, k)
        /\ outRQue = Filling(OutLen, k)
    BY <1>0, <1>3, Lengths DEF AllocOut, At, TypeOK
  <2>2. outNode' = Named(OutLen, k + 1)
    BY <1>3, <2>1, Lengths, NextNamed DEF AllocOut
  <2>3. outAllocs' = k + 1 /\ outRQue' = outRQue /\ loop' = loop /\ cpc'[c] = "addOut"
    BY <1>3, <2>1 DEF AllocOut, Goes, TypeOK
  <2> QED
    BY <2>1, <2>2, <2>3
<1>4. CASE AddOut(c)
  <2>1. /\ k \in 0 .. OutLen - 1 /\ outAllocs = k + 1 /\ outNode = Named(OutLen, k + 1)
        /\ outRQue = Filling(OutLen, k)
    BY <1>0, <1>4, Lengths DEF AddOut, At, TypeOK
  <2>2. outRQue' = Filling(OutLen, k + 1)
    BY <1>4, <2>1, OutFills DEF AddOut
  <2>3. outNode' = outNode /\ outAllocs' = outAllocs
    BY <1>4 DEF AddOut
  <2>4. \/ k + 1 < OutLen /\ cpc'[c] = "allocOut" /\ loop'[c] = k + 1
        \/ k + 1 = OutLen /\ cpc'[c] = "drainOut" /\ loop'[c] = 0
    BY <1>4, <2>1, Lengths, Rounds DEF AddOut
  <2>5. Filling(OutLen, OutLen) = Draining(OutLen, OutLen - 0)
    BY Lengths, FilledDrains
  <2> QED
    BY <2>1, <2>2, <2>3, <2>4, <2>5
<1>5. CASE DrainOut(c)
  <2>1. /\ k \in 0 .. OutLen - 1 /\ outNode = Named(OutLen, OutLen)
        /\ outRQue = Draining(OutLen, OutLen - k)
    BY <1>0, <1>5, Lengths DEF DrainOut, At, TypeOK
  <2>2. outRQue' = Draining(OutLen, OutLen - (k + 1))
    <3>1. OutLen - k \in 1 .. OutLen /\ OutLen - k - 1 = OutLen - (k + 1)
      BY <2>1, Lengths
    <3> QED
      BY <1>5, <2>1, <3>1, OutDrains DEF DrainOut
  <2>3. outNode' = outNode
    BY <1>5 DEF DrainOut
  <2>4. \/ k + 1 < OutLen /\ cpc'[c] = "drainOut" /\ loop'[c] = k + 1
        \/ OutLen - (k + 1) = 0 /\ cpc'[c] = "mutex"
    <3>1. \/ k + 1 < OutLen /\ cpc'[c] = "drainOut" /\ loop'[c] = k + 1
          \/ k + 1 = OutLen /\ cpc'[c] = "mutex" /\ loop'[c] = 0
      BY <1>5, <2>1, Lengths, Rounds DEF DrainOut
    <3> QED
      BY <2>1, <3>1, Lengths
  <2> QED
    BY <2>1, <2>2, <2>3, <2>4
<1>6. CASE MakeMutex(c) \/ StartThreads(c) \/ Finish(c)
  <2>1. OutFinished /\ UNCHANGED <<outRQue, outNode>>
    BY <1>6 DEF MakeMutex, StartThreads, Finish, At, rings
  <2>2. cpc'[c] \in {"threads", "finish", "idle"}
    BY <1>6 DEF MakeMutex, StartThreads, Finish, Goes, TypeOK
  <2> QED
    BY <2>1, <2>2
<1> QED
  BY <1>1, <1>2, <1>3, <1>4, <1>5, <1>6 DEF InitQueueBuf

\* The device and the things counted, as the one that initialises goes on.
DeviceBy(c) == cpc[c] \in WithIn \cup WithOut \cup AfterOut => DeviceReady

CountedBy(c) ==
  /\ threads = IF cpc[c] = "finish" THEN 1 ELSE 0
  /\ mutexes = IF cpc[c] \in {"threads", "finish"} THEN 1 ELSE 0
  /\ dataInMutex = mutexes

AllThere == threads = 1 /\ mutexes = 1 /\ dataInMutex = 1

LEMMA DeviceKept ==
  ASSUME TypeOK, NEW c \in Caller, InitQueueBuf(c), DeviceBy(c)
  PROVE  DeviceBy(c)'
<1> USE DEF DeviceBy, WithIn, WithOut, AfterOut, DeviceReady
<1>1. CASE Begin(c) \/ GetHjkUSBDevice(c) \/ WalkDevices(c)
  <2>1. cpc'[c] \in {"usb", "walk", "select"}
    BY <1>1 DEF Begin, GetHjkUSBDevice, WalkDevices, At, Goes, Round, TypeOK
  <2> QED
    BY <2>1
<1>2. CASE InitHjkUSBXfer(c)
  <2>1. cpc'[c] = "select" \/ (opened' = slecd /\ hjkBulkOutEndpt' = Endpoint(USBDevice, slecd))
    BY <1>2 DEF InitHjkUSBXfer, At
  <2>2. USBDevice' = USBDevice
    BY <1>2 DEF InitHjkUSBXfer
  <2> QED
    BY <2>1, <2>2 DEF Endpoint, slecd
<1>3. CASE \/ AllocIn(c) \/ AddIn(c) \/ DrainIn(c) \/ AllocOut(c) \/ AddOut(c) \/ DrainOut(c)
           \/ MakeMutex(c) \/ StartThreads(c) \/ Finish(c)
  <2>1. DeviceReady
    BY <1>3 DEF AllocIn, AddIn, DrainIn, AllocOut, AddOut, DrainOut, MakeMutex, StartThreads,
         Finish, At
  <2>2. UNCHANGED usb
    BY <1>3 DEF AllocIn, AddIn, DrainIn, AllocOut, AddOut, DrainOut, MakeMutex, StartThreads, Finish
  <2> QED
    BY <2>1, <2>2 DEF usb, Endpoint, slecd
<1> QED
  BY <1>1, <1>2, <1>3 DEF InitQueueBuf

LEMMA CountedKept ==
  ASSUME TypeOK, NEW c \in Caller, InitQueueBuf(c), CountedBy(c)
  PROVE  IF Finish(c) THEN AllThere' ELSE CountedBy(c)'
<1> USE DEF CountedBy
<1>1. CASE /\ ~Finish(c)
           /\ \/ Begin(c) \/ GetHjkUSBDevice(c) \/ WalkDevices(c) \/ InitHjkUSBXfer(c)
              \/ AllocIn(c) \/ AddIn(c) \/ DrainIn(c) \/ AllocOut(c) \/ AddOut(c) \/ DrainOut(c)
  <2>1. UNCHANGED <<threads, locks>> /\ cpc[c] \notin {"threads", "finish"}
    BY <1>1 DEF Begin, GetHjkUSBDevice, WalkDevices, InitHjkUSBXfer, AllocIn, AddIn, DrainIn,
         AllocOut, AddOut, DrainOut, At
  <2>2. cpc'[c] \notin {"threads", "finish"}
    BY <1>1 DEF Begin, GetHjkUSBDevice, WalkDevices, InitHjkUSBXfer, AllocIn, AddIn, DrainIn,
         AllocOut, AddOut, DrainOut, At, Goes, Round, TypeOK
  <2> QED
    BY <1>1, <2>1, <2>2 DEF locks
<1>2. CASE ~Finish(c) /\ MakeMutex(c)
  <2>1. threads' = 0 /\ mutexes' = 1 /\ dataInMutex' = 1 /\ cpc'[c] = "threads"
    BY <1>2 DEF MakeMutex, At, Goes, TypeOK
  <2> QED
    BY <1>2, <2>1
<1>3. CASE ~Finish(c) /\ StartThreads(c)
  <2>1. threads' = 1 /\ mutexes' = 1 /\ dataInMutex' = 1 /\ cpc'[c] = "finish"
    BY <1>3 DEF StartThreads, At, Goes, TypeOK, locks
  <2> QED
    BY <1>3, <2>1
<1>4. CASE Finish(c)
  <2>1. UNCHANGED <<threads, locks>> /\ cpc[c] = "finish"
    BY <1>4 DEF Finish, At
  <2> QED
    BY <1>4, <2>1 DEF AllThere, locks
<1> QED
  BY <1>1, <1>2, <1>3, <1>4 DEF InitQueueBuf

\* What only an initialisation touches.
built == <<inAllocs, inNode, inRQue, outAllocs, outNode, outRQue, threads, mutexes, dataInMutex,
           opened, hjkBulkOutEndpt, USBDevice>>

LEMMA CreatedKept ==
  ASSUME TypeOK, DevicesFound, Alone, Alone', Created, NEW c \in Caller, Call(c) \/ QueueBufStart(c)
  PROVE  Created'
<1> DEFINE Begun(d) == InProgress(d) /\ OutProgress(d) /\ DeviceBy(d) /\ CountedBy(d)
           Nothing == InUntouched /\ OutUntouched /\ threads = 0 /\ mutexes = 0 /\ dataInMutex = 0
<1>0. /\ ~haveInit /\ Nobody => Nothing
      /\ \A d \in Caller : Initiating(d) => Begun(d)
      /\ haveInit => AllThere
  BY DEF Created, DeviceBy, CountedBy, AllThere, Initiating
<1> SUFFICES /\ ~haveInit' /\ Nobody' => Nothing'
             /\ \A d \in Caller : Initiating(d)' => Begun(d)'
             /\ haveInit' => AllThere'
  BY DEF Created, DeviceBy, CountedBy, AllThere, Initiating, Nobody, InUntouched, OutUntouched,
         InProgress, OutProgress, Initialising, WithIn, WithOut, AfterOut
<1>1. CASE Call(c) \/ Lock(c) \/ Acquire(c) \/ Release(c)
  <2>1. UNCHANGED built /\ haveInit' = haveInit
    BY <1>1 DEF Call, Lock, Acquire, Release, rings, locks, usb, built
  <2>2. cpc[c] \notin Initialising /\ cpc'[c] \notin Initialising
    BY <1>1, Moves DEF Initialising
  <2>3. \A d \in Caller : d # c => cpc'[d] = cpc[d] /\ loop'[d] = loop[d]
    BY Moves
  <2>4. ~haveInit' /\ Nobody' => Nothing'
    <3>1. Nothing => Nothing'
      BY <2>1 DEF built, InUntouched, OutUntouched, Named, Filling
    <3>2. Nobody' => Nobody
      BY <2>2, <2>3 DEF Nobody
    <3> QED
      BY <1>0, <2>1, <3>1, <3>2
  <2>5. ASSUME NEW d \in Caller, Initiating(d)' PROVE Begun(d)'
    <3>1. d # c /\ Initiating(d)
      BY <2>2, <2>3, <2>5 DEF Initiating
    <3>2. Begun(d)
      BY <1>0, <3>1
    <3>3. InProgress(d)' /\ OutProgress(d)'
      BY <2>1, <2>3, <3>1, <3>2 DEF built, InProgress, OutProgress, InUntouched, InFinished,
           OutUntouched, OutFinished
    <3>4. DeviceBy(d)' /\ CountedBy(d)'
      BY <2>1, <2>3, <3>1, <3>2 DEF built, DeviceBy, CountedBy, DeviceReady
    <3> QED
      BY <3>3, <3>4
  <2>6. haveInit' => AllThere'
    BY <1>0, <2>1 DEF AllThere, built
  <2> QED
    BY <2>4, <2>5, <2>6
<1>2. CASE Test(c)
  <2>1. UNCHANGED built /\ haveInit' = haveInit
    BY <1>2 DEF Test, rings, locks, usb, built
  <2>2. \A d \in Caller : d # c => cpc'[d] = cpc[d] /\ loop'[d] = loop[d]
    BY Moves
  <2>3. CASE haveInit
    <3>1. haveInit' /\ Nobody'
      BY <2>1, <2>3 DEF Alone, Nobody
    <3> QED
      BY <1>0, <2>1, <2>3, <3>1 DEF Nobody, Initiating, AllThere, built
  <2>4. CASE ~haveInit
    <3>1. cpc[c] = "test" /\ cpc'[c] = "begin" /\ ~haveInit'
      BY <1>2, <2>1, <2>4, Moves
    <3>2. \A d \in Caller : Initiating(d)' => d = c
      BY <3>1 DEF Alone, Initiating, Initialising
    <3>3. ~Nobody'
      BY <3>1 DEF Nobody, Initialising
    <3>4. Nothing
      <4>1. Nobody
        BY <2>2, <3>1, <3>2 DEF Nobody, Initiating, Initialising
      <4> QED
        BY <1>0, <2>4, <4>1
    <3>5. Nothing'
      BY <2>1, <3>4 DEF built, InUntouched, OutUntouched, Named, Filling
    <3>6. Begun(c)'
      <4>1. InProgress(c)' /\ OutProgress(c)'
        BY <3>1, <3>5 DEF InProgress, OutProgress, BeforeIn, WithIn, WithOut, AfterOut
      <4>2. DeviceBy(c)' /\ CountedBy(c)'
        BY <3>1, <3>5 DEF DeviceBy, CountedBy, WithIn, WithOut, AfterOut
      <4> QED
        BY <4>1, <4>2
    <3> QED
      BY <3>1, <3>2, <3>3, <3>6
  <2> QED
    BY <2>3, <2>4
<1>3. CASE InitQueueBuf(c)
  <2>1. Initiating(c) /\ ~haveInit
    BY <1>3, Moves DEF Alone, Initiating
  <2>2. Begun(c)
    BY <1>0, <2>1
  <2>3. InProgress(c)' /\ OutProgress(c)' /\ DeviceBy(c)'
    BY <1>3, <2>2, InProgressKept, OutProgressKept, DeviceKept
  <2>4. IF Finish(c) THEN AllThere' ELSE CountedBy(c)'
    BY <1>3, <2>2, CountedKept
  <2>5. \A d \in Caller : d # c => ~Initiating(d)'
    BY <2>1, Moves DEF Alone, Initiating
  <2>6. CASE Finish(c)
    <3>1. haveInit'
      BY <2>6 DEF Finish
    <3>2. \A d \in Caller : ~Initiating(d)'
      BY <3>1 DEF Alone, Initiating
    <3> QED
      BY <2>4, <2>6, <3>1, <3>2
  <2>7. CASE ~Finish(c)
    <3>1. ~haveInit'
      BY <1>3, <2>1, <2>7 DEF InitQueueBuf, Begin, GetHjkUSBDevice, WalkDevices, InitHjkUSBXfer,
         AllocIn, AddIn, DrainIn, AllocOut, AddOut, DrainOut, MakeMutex, StartThreads, FlagAtBegin
    <3>2. cpc'[c] \in Initialising
      BY <1>3, <2>7 DEF InitQueueBuf, Begin, GetHjkUSBDevice, WalkDevices, InitHjkUSBXfer,
         AllocIn, AddIn, DrainIn, AllocOut, AddOut, DrainOut, MakeMutex, StartThreads,
         Initialising, At, Goes, Round, TypeOK
    <3> QED
      BY <2>3, <2>4, <2>5, <2>7, <3>1, <3>2 DEF Nobody
  <2> QED
    BY <2>6, <2>7
<1>4. CASE Enqueue(c)
  <2>1. haveInit /\ haveInit' = haveInit
    BY <1>4, Moves DEF Alone, Working, Enqueue
  <2>2. \A d \in Caller : ~Initiating(d)'
    BY <2>1 DEF Alone, Initiating
  <2>3. AllThere'
    BY <1>0, <1>4, <2>1 DEF AllThere, Enqueue, locks
  <2> QED
    BY <2>1, <2>2, <2>3
<1> QED
  BY <1>1, <1>2, <1>3, <1>4 DEF QueueBufStart

LEMMA OwnedKept ==
  ASSUME TypeOK, Alone, Alone', Created, Owned, NEW c \in Caller, Call(c) \/ QueueBufStart(c)
  PROVE  Owned'
<1>0. /\ owner \in [Handle -> Caller \cup {"free"}] /\ 1 \in Handle
      /\ \A d \in Caller : d # c => cpc'[d] = cpc[d] /\ handle'[d] = handle[d]
  BY Moves, Lengths DEF TypeOK, Handle
<1> SUFFICES ASSUME haveInit'
             PROVE  \A d \in Caller : /\ cpc'[d] \in Working => handle'[d] = 1
                                      /\ cpc'[d] \in {"section", "release"} => owner'[1] = d
  BY DEF Owned, Working
<1>1. CASE InitQueueBuf(c)
  <2>1. ~haveInit /\ cpc'[c] \in Initialising \cup {"idle"}
    BY <1>1, Moves DEF Alone, Initiating
  <2>2. \A d \in Caller : cpc'[d] \notin Working
    BY <1>0, <2>1 DEF Alone, Working, Initialising
  <2> QED
    BY <2>2 DEF Working
<1>2. CASE ~InitQueueBuf(c)
  <2>1. haveInit
    BY <1>2 DEF Call, QueueBufStart, Test, Lock, Acquire, Enqueue, Release
  <2>2. /\ dataInMutex = 1
        /\ \A d \in Caller : /\ cpc[d] \in Working => handle[d] = 1
                             /\ cpc[d] \in {"section", "release"} => owner[1] = d
    BY <2>1 DEF Created, Owned
  <2>3. CASE Call(c) \/ Test(c)
    <3>1. UNCHANGED owner /\ cpc'[c] \notin Working
      BY <2>3, Moves DEF Call, Test, locks, Working
    <3> QED
      BY <1>0, <2>2, <3>1 DEF Working
  <2>4. CASE Lock(c)
    <3>1. owner' = owner /\ cpc'[c] = "wait" /\ handle'[c] = 1
      BY <2>2, <2>4, Moves DEF Lock, locks
    <3> QED
      BY <1>0, <2>2, <3>1
  <2>5. CASE Acquire(c)
    <3>1. handle' = handle /\ cpc[c] = "wait" /\ handle[c] = 1 /\ cpc'[c] = "section"
      BY <2>2, <2>5, Moves DEF Acquire, Working
    <3>2. owner[1] = "free" /\ owner'[1] = c
      BY <1>0, <2>5, <3>1 DEF Acquire, Granted
    <3>3. \A d \in Caller : cpc[d] \notin {"section", "release"}
      BY <2>2, <3>2, Lengths
    <3> QED
      BY <1>0, <2>2, <3>1, <3>2, <3>3
  <2>6. CASE Enqueue(c)
    <3>1. owner' = owner /\ handle' = handle /\ cpc[c] = "section" /\ cpc'[c] = "release"
      BY <2>6, Moves DEF Enqueue, locks
    <3> QED
      BY <1>0, <2>2, <3>1 DEF Working
  <2>7. CASE Release(c)
    <3>1. handle' = handle /\ cpc[c] = "release" /\ cpc'[c] = "idle"
      BY <2>7, Moves DEF Release
    <3>2. \A d \in Caller : cpc[d] \in {"section", "release"} => d = c
      BY <2>2, <3>1
    <3> QED
      BY <1>0, <2>2, <3>1, <3>2 DEF Working
  <2> QED
    BY <1>2, <2>3, <2>4, <2>5, <2>6, <2>7 DEF QueueBufStart
<1> QED
  BY <1>1, <1>2

-----------------------------------------------------------------------------
\* The invariant is inductive.
LEMMA InitTypes == Init => TypeOK /\ DevicesFound
<1> SUFFICES ASSUME Init PROVE TypeOK /\ DevicesFound
  OBVIOUS
<1> USE DEF Init
<1>1. NoBuffer \in Int /\ \A h \in Handle : h \in Nat
  BY DEF NoBuffer, Handle
<1>2. 0 \in Handle /\ 0 \in 0 .. MaxDevices /\ 0 \in 0 .. MaxCalls /\ NoDevice \in NoDevice .. MaxDevices - 1
  BY Lengths DEF Handle, NoDevice
<1>3. inRQue \in In!Ring(Int) /\ outRQue \in Out!Ring(Int)
  <2>1. 0 \in In!Slot /\ 0 \in 0 .. InLen /\ 0 \in Out!Slot /\ 0 \in 0 .. OutLen
    BY Lengths DEF In!Slot, Out!Slot
  <2> QED
    BY <1>1, <2>1 DEF In!NewRing, In!Ring, Out!NewRing, Out!Ring
<1>4. RingTypes
  BY <1>1, <1>3 DEF RingTypes
<1>5. PlaceTypes /\ DevicesFound
  BY <1>2 DEF PlaceTypes, DevicesFound, Place
<1>6. CounterTypes
  BY <1>2 DEF CounterTypes, NoEndpoint, Endpoint
<1>7. FlagTypes
  BY DEF FlagTypes
<1> QED
  BY <1>4, <1>5, <1>6, <1>7 DEF TypeOK, RingTypes, PlaceTypes, CounterTypes, FlagTypes, Place

LEMMA InitCounts == Init => Counts
<1> SUFFICES ASSUME Init PROVE Counts
  OBVIOUS
<1>1. Owing(ToDevice) = {} /\ Owing(ToMutex) = {} /\ Owing(ToThreads) = {}
  BY DEF Init, Owing, ToDevice, ToMutex, ToThreads, Initialising
<1>2. USBDevice = 0 /\ mutexes = 0 /\ threads = 0 /\ calls = 0
  BY DEF Init
<1>3. IsFiniteSet({}) /\ 0 + Cardinality({}) <= 0
  BY FS_EmptySet
<1> QED
  BY <1>1, <1>2, <1>3 DEF Counts, OncePerCall

LEMMA InitAlone == Init => Alone /\ Created /\ Owned
<1> SUFFICES ASSUME Init PROVE Alone /\ Created /\ Owned
  OBVIOUS
<1>1. ~haveInit /\ \A c \in Caller : cpc[c] = "idle"
  BY DEF Init
<1>2. Alone /\ Owned
  BY <1>1 DEF Alone, Owned, Working, Initialising
<1>3. InUntouched /\ OutUntouched
  <2>1. Filling(InLen, 0) = [head |-> 0, num |-> 0, buf |-> Named(InLen, 0)]
          /\ Filling(OutLen, 0) = [head |-> 0, num |-> 0, buf |-> Named(OutLen, 0)]
    BY DEF Filling
  <2>2. Named(InLen, 0) = [s \in In!Slot |-> NoBuffer] /\ Named(OutLen, 0) = [s \in Out!Slot |-> NoBuffer]
    BY Lengths DEF Named, In!Slot, Out!Slot
  <2> QED
    BY <2>1, <2>2 DEF Init, InUntouched, OutUntouched, In!NewRing, Out!NewRing
<1>4. Created
  BY <1>1, <1>3 DEF Created, Init, Initialising
<1> QED
  BY <1>2, <1>4

LEMMA Stutters == IInv /\ UNCHANGED vars => IInv'
<1> SUFFICES ASSUME IInv, UNCHANGED vars PROVE IInv'
  OBVIOUS
<1> USE DEF vars, rings, locks, usb
<1>1. TypeOK'
  <2>1. RingTypes /\ PlaceTypes /\ CounterTypes /\ FlagTypes
    BY DEF IInv, TypeOK, RingTypes, PlaceTypes, CounterTypes, FlagTypes, Place
  <2>2. RingTypes'
    BY <2>1 DEF RingTypes, In!Ring, Out!Ring, In!Slot, Out!Slot
  <2>3. PlaceTypes' /\ CounterTypes' /\ FlagTypes'
    BY <2>1 DEF PlaceTypes, CounterTypes, FlagTypes, Place, Handle
  <2> QED
    BY <2>2, <2>3 DEF TypeOK, RingTypes, PlaceTypes, CounterTypes, FlagTypes, Place
<1>2. Counts' /\ DevicesFound'
  <2>1. Counts /\ DevicesFound
    BY DEF IInv
  <2>2. Counts'
    BY <2>1 DEF Counts, OncePerCall, Owing
  <2> QED
    BY <2>1, <2>2 DEF DevicesFound
<1>3. ~overlapped' => Alone' /\ Created' /\ Owned'
  <2> SUFFICES ASSUME ~overlapped' PROVE Alone' /\ Created' /\ Owned'
    OBVIOUS
  <2>1. Alone /\ Created /\ Owned
    BY DEF IInv
  <2>2. Alone' /\ Owned'
    BY <2>1 DEF Alone, Owned
  <2>3. Created'
    BY <2>1 DEF Created, Nobody, InUntouched, OutUntouched, InProgress, OutProgress, InFinished,
         OutFinished, DeviceReady
  <2> QED
    BY <2>2, <2>3
<1> QED
  BY <1>1, <1>2, <1>3 DEF IInv

\* IInv holds in every state: the counters have room for what each call may still
\* make, and while first calls do not overlap the one initialisation has got exactly
\* as far as its caller's place says (queueBufStart and initQueueBuf,
\* hjkUsbXferdll.cpp).
THEOREM InitialisationInductive == Spec => []IInv
<1>1. Init => IInv
  BY InitTypes, InitCounts, InitAlone DEF IInv
<1>2. IInv /\ [Next]_vars => IInv'
  <2> SUFFICES ASSUME IInv, [Next]_vars PROVE IInv'
    OBVIOUS
  <2>1. CASE UNCHANGED vars
    BY <2>1, Stutters
  <2>2. ASSUME NEW c \in Caller, Call(c) \/ QueueBufStart(c) PROVE IInv'
    <3>1. TypeOK /\ Counts /\ DevicesFound
      BY DEF IInv
    <3>2. TypeOK' /\ Counts' /\ DevicesFound'
      BY <2>2, <3>1, TypeKept, CountsKept, PlaceTypesKept
    <3>3. ASSUME ~overlapped' PROVE Alone' /\ Created' /\ Owned'
      <4>1. ~overlapped /\ Alone /\ Alone'
        BY <2>2, <3>1, <3>3, AloneKept DEF IInv
      <4>2. Created /\ Owned
        BY <4>1 DEF IInv
      <4> QED
        BY <2>2, <3>1, <4>1, <4>2, CreatedKept, OwnedKept
    <3> QED
      BY <3>2, <3>3 DEF IInv
  <2> QED
    BY <2>1, <2>2 DEF Next
<1> QED
  BY <1>1, <1>2, PTL DEF Spec

\* Every variable keeps its type whatever first calls overlap: a loop never leaves its
\* array, and what a call makes never outgrows the calls (initQueueBuf).
THEOREM InitialisationTypes == Spec => []TypeOK
<1>1. IInv => TypeOK
  BY DEF IInv
<1> QED
  BY <1>1, InitialisationInductive, PTL

\* Unless first calls overlap the threads are started at most once and one mutex is
\* made at most (the unlocked test of haveInit in queueBufStart).
THEOREM StartsOnce == Spec => []StartedOnce
<1>1. IInv => StartedOnce
  <2> SUFFICES ASSUME IInv, ~overlapped PROVE threads <= 1 /\ mutexes <= 1
    BY DEF StartedOnce
  <2>1. Alone /\ Created
    BY DEF IInv
  <2>2. CASE haveInit
    BY <2>1, <2>2 DEF Created
  <2>3. CASE ~haveInit /\ Nobody
    BY <2>1, <2>3 DEF Created
  <2>4. CASE ~Nobody
    <3>1. PICK c \in Caller : cpc[c] \in Initialising
      BY <2>4 DEF Nobody
    <3>2. threads \in {0, 1} /\ mutexes \in {0, 1}
      BY <2>1, <3>1 DEF Created
    <3> QED
      BY <3>2
  <2> QED
    BY <2>2, <2>3, <2>4
<1> QED
  BY <1>1, InitialisationInductive, PTL

\* Unless first calls overlap no two callers are between the wait for dataInMutex and
\* its release (queueBufStart), and none got there past a mutex not yet made.
THEOREM CallersExclude == Spec => []Exclusion
<1>1. IInv => Exclusion
  <2> SUFFICES ASSUME IInv, ~overlapped PROVE Cardinality(InSection) <= 1
    BY DEF Exclusion
  <2>1. Alone /\ Owned
    BY DEF IInv
  <2>2. \A c \in InSection : haveInit /\ owner[1] = c
    BY <2>1 DEF Alone, Owned, InSection, Working
  <2>3. InSection = {} \/ InSection = {owner[1]}
    BY <2>2
  <2>4. Cardinality({}) = 0 /\ Cardinality({owner[1]}) = 1
    BY FS_EmptySet, FS_Singleton
  <2> QED
    BY <2>3, <2>4
<1> QED
  BY <1>1, InitialisationInductive, PTL

\* The step that sets haveInit finds the state in which the pipeline starts, unless
\* first calls overlap: rings drained, every node with a buffer of its own, one mutex,
\* the threads started once and the endpoint of the device that is open (initQueueBuf).
THEOREM InitLeavesReady == Spec => ReadyWhenInit
<1>1. IInv /\ [Next]_vars => [~haveInit /\ haveInit' /\ ~overlapped => Ready]_vars
  <2> SUFFICES ASSUME IInv, Next, ~haveInit, haveInit', ~overlapped PROVE Ready
    BY DEF vars
  <2>1. PICK c \in Caller : Call(c) \/ QueueBufStart(c)
    BY DEF Next
  <2>2. cpc[c] = "finish"
    BY <2>1 DEF Call, QueueBufStart, InitQueueBuf, Test, Begin, FlagAtBegin, GetHjkUSBDevice,
         WalkDevices, InitHjkUSBXfer, AllocIn, AddIn, DrainIn, AllocOut, AddOut, DrainOut,
         MakeMutex, StartThreads, Finish, Lock, Acquire, Enqueue, Release, At
  <2>3. InFinished /\ OutFinished /\ DeviceReady /\ threads = 1 /\ dataInMutex = 1
    BY <2>2 DEF IInv, Created, Initialising, InProgress, OutProgress, AfterOut
  <2>4. \A len \in Nat : Named(len, len) = [s \in 0 .. len - 1 |-> s]
    BY DEF Named
  <2>5. Draining(InLen, 0) = Drained(InLen) /\ Draining(OutLen, 0) = Drained(OutLen)
    BY <2>4, Lengths DEF Draining, Drained
  <2>6. Draining(InLen, 0).buf = Named(InLen, InLen) /\ Draining(OutLen, 0).buf = Named(OutLen, OutLen)
    BY DEF Draining
  <2> QED
    BY <2>3, <2>5, <2>6 DEF InFinished, OutFinished, DeviceReady, Ready
<1> QED
  BY <1>1, InitialisationInductive, PTL DEF Spec, ReadyWhenInit

=============================================================================
