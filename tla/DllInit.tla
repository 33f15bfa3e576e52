------------------------------- MODULE DllInit ------------------------------
(***************************************************************************)
(* queueBufStart and initQueueBuf of hjkUsbXferDll/hjkUsbXferdll.cpp from  *)
(* the moment the DLL is loaded.  LabVIEW threads call queueBufStart; the  *)
(* first finds haveInit false and initialises.  Nothing locks haveInit, so *)
(* two first calls may both initialise; overlapped records that.           *)
(*                                                                         *)
(* HjkUsbXfer starts where this ends: the threads started here, and what   *)
(* happens to the nodes enqueued, are its matter.  The frame size          *)
(* initHjkUSBXfer computes is FrameWords of WaveDataFormat.                *)
(***************************************************************************)
EXTENDS Integers, FiniteSets

CONSTANTS
  Caller,     \* the threads of LabVIEW
  InLen,      \* IN_RQUEUE_LEN
  OutLen,     \* OUT_RQUEUE_LEN
  MaxDevices, \* bound on the USB devices found
  MaxCalls    \* bound on the calls of queueBufStart in one behaviour

ASSUME InitAssumption ==
  /\ InLen \in Nat \ {0} /\ OutLen \in Nat \ {0} /\ MaxDevices \in Nat
  /\ MaxCalls \in Nat \ {0} /\ "free" \notin Caller

VARIABLES
  haveInit, inRQue, outRQue,
  inNode, outNode,       \* the buffer of each node in the static arrays
  inAllocs, outAllocs,   \* buffers allocated so far; the next one's number
  dataInMutex,           \* a mutex's handle; 0 is NULL
  owner,                 \* of each mutex that may be created
  mutexes, threads,      \* mutexes created; times the two threads were started
  cpc, loop, handle,     \* of each caller: place, loop variable i, handle waited for
  USBDevice, opened,     \* CCyUSBDevice objects made, the last being current; what it has open
  hjkBulkOutEndpt,       \* the endpoint: whose object's, of which device
  n,                     \* of each caller: the devices it was told there are
  calls, exited,
  overlapped             \* history: a caller began to initialise while another was at it

rings   == <<inRQue, outRQue, inNode, outNode, inAllocs, outAllocs>>
locks   == <<dataInMutex, owner, mutexes>>
usb     == <<USBDevice, opened, hjkBulkOutEndpt, n>>
vars == <<haveInit, rings, locks, usb, threads, cpc, loop, handle, calls, exited, overlapped>>

In  == INSTANCE RingBufOps WITH MaxElements <- InLen
Out == INSTANCE RingBufOps WITH MaxElements <- OutLen

NoBuffer == -1
NoDevice == -1
Endpoint(object, device) == [object |-> object, device |-> device]
NoEndpoint == Endpoint(0, NoDevice)
Handle == 0 .. MaxCalls

\* Static storage is zeroed; the ring's constructor sets its two indices.
Init ==
  /\ haveInit = FALSE
  /\ inRQue = In!NewRing([s \in In!Slot |-> NoBuffer])
  /\ outRQue = Out!NewRing([s \in Out!Slot |-> NoBuffer])
  /\ inNode = [s \in In!Slot |-> NoBuffer] /\ outNode = [s \in Out!Slot |-> NoBuffer]
  /\ inAllocs = 0 /\ outAllocs = 0
  /\ dataInMutex = 0 /\ owner = [h \in Handle |-> "free"] /\ mutexes = 0 /\ threads = 0
  /\ cpc = [c \in Caller |-> "idle"] /\ loop = [c \in Caller |-> 0]
  /\ handle = [c \in Caller |-> 0]
  /\ USBDevice = 0 /\ opened = NoDevice /\ hjkBulkOutEndpt = NoEndpoint
  /\ n = [c \in Caller |-> 0]
  /\ calls = 0 /\ exited = FALSE /\ overlapped = FALSE

Initialising == {"begin", "usb", "walk", "select", "allocIn", "addIn", "drainIn", "allocOut", "addOut", "drainOut",
                 "mutex", "threads", "finish"}

At(c, place) == cpc[c] = place /\ ~exited
Goes(c, place) == cpc' = [cpc EXCEPT ![c] = place]

-----------------------------------------------------------------------------
\* Deliberate errors, each a variant of a definition below that the properties
\* have to notice.
FlagFirst == TRUE
AlreadyOwned(h) == TRUE
FillsOneLess(c, len) == loop[c] + 2 >= len
LoopsOnceMore(c, len) == loop[c] >= len

ForgetsFlag(c) ==
  /\ At(c, "finish") /\ Goes(c, "idle")
  /\ UNCHANGED <<haveInit, rings, locks, usb, threads, loop, handle, calls, exited, overlapped>>

LeavesLocked(c) ==
  /\ At(c, "release") /\ Goes(c, "idle")
  /\ UNCHANGED <<haveInit, rings, locks, usb, threads, loop, handle, calls, exited, overlapped>>

-----------------------------------------------------------------------------
\* queueBufStart up to the test of haveInit.
Call(c) ==
  /\ At(c, "idle") /\ calls < MaxCalls
  /\ Goes(c, "test") /\ calls' = calls + 1
  /\ UNCHANGED <<haveInit, rings, locks, usb, threads, loop, handle, exited, overlapped>>

Test(c) ==
  /\ At(c, "test")
  /\ Goes(c, IF haveInit THEN "lock" ELSE "begin")
  /\ overlapped' = (overlapped \/ (~haveInit /\ \E d \in Caller : cpc[d] \in Initialising))
  /\ UNCHANGED <<haveInit, rings, locks, usb, threads, loop, handle, calls, exited>>

-----------------------------------------------------------------------------
\* initQueueBuf.
FlagAtBegin == FALSE

Begin(c) ==
  /\ At(c, "begin") /\ Goes(c, "usb")
  /\ haveInit' = FlagAtBegin
  /\ UNCHANGED <<rings, locks, usb, threads, loop, handle, calls, exited, overlapped>>

\* HjkUSBDevice::getHjkUSBDevice: a new library object, which replaces the one before,
\* and then each device it finds is opened in turn, for its name, whether or not that
\* works.
GetHjkUSBDevice(c) ==
  /\ At(c, "usb")
  /\ USBDevice' = USBDevice + 1 /\ opened' = NoDevice
  /\ \E found \in 0 .. MaxDevices :
       /\ n' = [n EXCEPT ![c] = found]
       /\ IF found > 0 THEN Goes(c, "walk") /\ UNCHANGED exited
                        ELSE exited' = TRUE /\ UNCHANGED cpc
  /\ loop' = [loop EXCEPT ![c] = 0]
  /\ UNCHANGED <<haveInit, rings, locks, threads, handle, calls, overlapped, hjkBulkOutEndpt>>

\* The loops: i is the caller's own, the arrays, rings and the device are shared.
LoopEnds(c, len) == loop[c] + 1 >= len

Round(c, len, again, after) ==
  /\ Goes(c, IF LoopEnds(c, len) THEN after ELSE again)
  /\ loop' = [loop EXCEPT ![c] = IF LoopEnds(c, len) THEN 0 ELSE @ + 1]

WalkDevices(c) ==
  /\ At(c, "walk") /\ Round(c, n[c], "walk", "select")
  /\ opened' \in {loop[c], NoDevice}
  /\ UNCHANGED <<haveInit, rings, locks, USBDevice, hjkBulkOutEndpt, n, threads, handle, calls,
                 exited, overlapped>>

\* initHjkUSBXfer opens the first device again.  If it does not open, or has no bulk
\* endpoint, the result is 0 and the process ends, as it does without a device.
slecd == 0

InitHjkUSBXfer(c) ==
  /\ At(c, "select")
  /\ \/ /\ opened' = slecd
        /\ hjkBulkOutEndpt' = Endpoint(USBDevice, slecd)
        /\ Goes(c, "allocIn") /\ UNCHANGED exited
     \/ exited' = TRUE /\ UNCHANGED <<cpc, opened, hjkBulkOutEndpt>>
  /\ n' = [n EXCEPT ![c] = 0]
  /\ UNCHANGED <<haveInit, rings, locks, USBDevice, threads, loop, handle, calls, overlapped>>

AllocIn(c) ==
  /\ At(c, "allocIn") /\ Goes(c, "addIn")
  /\ inNode' = [inNode EXCEPT ![loop[c]] = inAllocs]
  /\ inAllocs' = inAllocs + 1
  /\ UNCHANGED <<haveInit, inRQue, outRQue, outNode, outAllocs, locks, usb, threads, loop, handle,
                 calls, exited, overlapped>>

AddIn(c) ==
  /\ At(c, "addIn") /\ Round(c, InLen, "allocIn", "drainIn")
  /\ inRQue' = In!add(inRQue, inNode[loop[c]], FALSE)
  /\ UNCHANGED <<haveInit, outRQue, inNode, outNode, inAllocs, outAllocs, locks, usb, threads, handle,
                 calls, exited, overlapped>>

DrainIn(c) ==
  /\ At(c, "drainIn") /\ Round(c, InLen, "drainIn", "allocOut")
  /\ inRQue' = In!pull(inRQue)
  /\ UNCHANGED <<haveInit, outRQue, inNode, outNode, inAllocs, outAllocs, locks, usb, threads, handle,
                 calls, exited, overlapped>>

AllocOut(c) ==
  /\ At(c, "allocOut") /\ Goes(c, "addOut")
  /\ outNode' = [outNode EXCEPT ![loop[c]] = outAllocs]
  /\ outAllocs' = outAllocs + 1
  /\ UNCHANGED <<haveInit, inRQue, outRQue, inNode, inAllocs, locks, usb, threads, loop, handle,
                 calls, exited, overlapped>>

AddOut(c) ==
  /\ At(c, "addOut") /\ Round(c, OutLen, "allocOut", "drainOut")
  /\ outRQue' = Out!add(outRQue, outNode[loop[c]], FALSE)
  /\ UNCHANGED <<haveInit, inRQue, inNode, outNode, inAllocs, outAllocs, locks, usb, threads, handle,
                 calls, exited, overlapped>>

DrainOut(c) ==
  /\ At(c, "drainOut") /\ Round(c, OutLen, "drainOut", "mutex")
  /\ outRQue' = Out!pull(outRQue)
  /\ UNCHANGED <<haveInit, inRQue, inNode, outNode, inAllocs, outAllocs, locks, usb, threads, handle,
                 calls, exited, overlapped>>

\* CreateMutex makes a new mutex; the handle of the one before is lost.
MakeMutex(c) ==
  /\ At(c, "mutex") /\ Goes(c, "threads")
  /\ mutexes' = mutexes + 1 /\ dataInMutex' = mutexes'
  /\ UNCHANGED <<haveInit, rings, owner, usb, threads, loop, handle, calls, exited, overlapped>>

StartThreads(c) ==
  /\ At(c, "threads") /\ Goes(c, "finish")
  /\ threads' = threads + 1
  /\ UNCHANGED <<haveInit, rings, locks, usb, loop, handle, calls, exited, overlapped>>

\* The call that initialised returns without enqueueing its sample.
Finish(c) ==
  /\ At(c, "finish") /\ Goes(c, "idle")
  /\ haveInit' = TRUE
  /\ UNCHANGED <<rings, locks, usb, threads, loop, handle, calls, exited, overlapped>>

InitQueueBuf(c) ==
  \/ Begin(c) \/ GetHjkUSBDevice(c) \/ WalkDevices(c) \/ InitHjkUSBXfer(c)
  \/ AllocIn(c) \/ AddIn(c) \/ DrainIn(c)
  \/ AllocOut(c) \/ AddOut(c) \/ DrainOut(c) \/ MakeMutex(c) \/ StartThreads(c) \/ Finish(c)

-----------------------------------------------------------------------------
\* queueBufStart from the mutex on.  The handle is read when the wait begins.
Lock(c) ==
  /\ At(c, "lock") /\ Goes(c, "wait")
  /\ handle' = [handle EXCEPT ![c] = dataInMutex]
  /\ UNCHANGED <<haveInit, rings, locks, usb, threads, loop, calls, exited, overlapped>>

\* A wait for the handle NULL fails, and the result is not looked at.
Granted(h) == h = 0 \/ owner[h] = "free"

Acquire(c) ==
  /\ At(c, "wait") /\ Granted(handle[c]) /\ Goes(c, "section")
  /\ owner' = IF handle[c] = 0 THEN owner ELSE [owner EXCEPT ![handle[c]] = c]
  /\ UNCHANGED <<haveInit, rings, dataInMutex, mutexes, usb, threads, loop, handle, calls, exited,
                 overlapped>>

\* The head node is filled and added.
Enqueue(c) ==
  /\ At(c, "section") /\ Goes(c, "release")
  /\ inRQue' = In!add(inRQue, inRQue.buf[In!getHead(inRQue)], FALSE)
  /\ UNCHANGED <<haveInit, outRQue, inNode, outNode, inAllocs, outAllocs, locks, usb, threads, loop,
                 handle, calls, exited, overlapped>>

\* ReleaseMutex reads dataInMutex again, and fails if the caller does not own it.
Release(c) ==
  /\ At(c, "release") /\ Goes(c, "idle")
  /\ owner' = IF owner[dataInMutex] = c THEN [owner EXCEPT ![dataInMutex] = "free"] ELSE owner
  /\ UNCHANGED <<haveInit, rings, dataInMutex, mutexes, usb, threads, loop, handle, calls, exited,
                 overlapped>>

QueueBufStart(c) ==
  Test(c) \/ InitQueueBuf(c) \/ Lock(c) \/ Acquire(c) \/ Enqueue(c) \/ Release(c)

Next == \E c \in Caller : Call(c) \/ QueueBufStart(c)

Spec == Init /\ [][Next]_vars

\* A call goes on, and the waiters of a mutex are served in turn.
FairSpec == Spec /\ \A c \in Caller : WF_vars(QueueBufStart(c)) /\ SF_vars(Acquire(c))

-----------------------------------------------------------------------------
TypeOK ==
  /\ haveInit \in BOOLEAN
  /\ inRQue \in In!Ring(Int) /\ outRQue \in Out!Ring(Int)
  /\ inNode \in [In!Slot -> Int] /\ outNode \in [Out!Slot -> Int]
  /\ inAllocs \in Nat /\ outAllocs \in Nat
  /\ dataInMutex \in Handle /\ owner \in [Handle -> Caller \cup {"free"}]
  /\ mutexes \in Handle /\ threads \in Handle
  /\ cpc \in [Caller -> Initialising \cup {"idle", "test", "lock", "wait", "section", "release"}]
  /\ USBDevice \in Handle /\ opened \in NoDevice .. MaxDevices - 1
  /\ hjkBulkOutEndpt \in [object : Handle, device : {NoDevice, slecd}]
  /\ n \in [Caller -> 0 .. MaxDevices]
  /\ loop \in [Caller -> Nat]
  /\ \A c \in Caller : /\ cpc[c] \in {"allocIn", "addIn", "drainIn"} => loop[c] < InLen
                       /\ cpc[c] \in {"allocOut", "addOut", "drainOut"} => loop[c] < OutLen
  /\ handle \in [Caller -> Handle] /\ calls \in 0 .. MaxCalls
  /\ exited \in BOOLEAN /\ overlapped \in BOOLEAN

\* As HjkUsbXfer has it initially: the rings drained, slot i with a buffer of its
\* own that the node array names too, and the endpoint that of the first device, which
\* the object still there has open although the walk opened every other after it.
Drained(len) == [head |-> 0, num |-> 0, buf |-> [s \in 0 .. len - 1 |-> s]]
Ready ==
  /\ inRQue = Drained(InLen) /\ outRQue = Drained(OutLen)
  /\ inNode = inRQue.buf /\ outNode = outRQue.buf
  /\ dataInMutex # 0 /\ threads = 1
  /\ opened = slecd /\ hjkBulkOutEndpt = Endpoint(USBDevice, slecd)

\* An initialisation that no other overlapped leaves the state in which the pipeline
\* starts: nobody has enqueued anything before, though the threads run already.
ReadyWhenInit == [][~haveInit /\ haveInit' /\ ~overlapped => Ready]_vars

\* Without overlapping first calls the threads are started once and the mutex is
\* never replaced (the unlocked test of haveInit, hjkUsbXferdll.cpp:199).
StartedOnce == ~overlapped => threads <= 1 /\ mutexes <= 1

\* Without overlapping first calls, dataInMutex keeps callers apart from the very
\* first sample on: nobody waits for a mutex that does not exist yet.
InSection == {c \in Caller : cpc[c] \in {"section", "release"}}
Exclusion == ~overlapped => Cardinality(InSection) <= 1

\* Every call returns, unless the process ends or first calls overlapped.
CallEnds ==
  \A c \in Caller : cpc[c] = "test" ~> (cpc[c] = "idle" \/ exited \/ overlapped)
=============================================================================
