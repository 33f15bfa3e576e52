# USBDAC_SIM: a TLA+ verification development

USBDAC_SIM streams samples from LabVIEW to a USB digital-to-analog converter.
LabVIEW calls a DLL with one sample per channel; the DLL queues the samples,
transposes them into the bit order the converter needs, packs them into frames
and sends the frames over a USB bulk endpoint. The repository also holds the
console simulator the DLL grew out of, and experiments. All of it is Windows
C++: threads from `_beginthread`, Win32 mutexes, events and semaphores, and the
vendor's CyAPI library for USB.

This directory models that code in TLA+, checks it with TLC on small instances,
and proves with TLAPS, for every size, that the ring buffer is a queue, that its
locked methods are atomic, and every safety property the passing runs check of the
pipeline, the initialisation, the data format, the semaphores and the simulator.
Liveness and the two experiments are model-checked only.

Paths below are relative to `src/`. `DLL` is `hjkUsbXferDll/hjkUsbXferdll.cpp`.

## 1. Inventory

### 1.1 RingBufCPP (`hjkUsbXferDll/RingBufCPP.h`, `RingBufHelpers.h`)

* State: the array `_buf`, the index `_head` of the slot to be filled next, the
  count `_numElements`, and a recursive Win32 mutex. The oldest element is at
  `(_head + MaxElements - _numElements) % MaxElements`.
* Operations: `add(obj, overwrite)`, `pull`, `peek`, `getHead`, `numElements`,
  `isFull`, `isEmpty`, each under the mutex; `add` and `pull` call `isFull` and
  `isEmpty` with the mutex already held.
* Interaction: the only thing shared between the threads of every other part.
  `getHead` hands out a pointer into the array, and the elements are structs
  with a data pointer, so the mutex guards less than it seems to.
* Hard: unsigned wrap-around, the recursive locking, the escaping pointer.
* Correct when: it is a bounded FIFO queue, its fields stay in range, every
  method is atomic, every call returns, and the head slot is no queued node
  while there is room.

### 1.2 The streaming pipeline of the DLL (`DLL`, `HjkDataDefine.h`)

* State: `inRQue` and `outRQue` (two rings of nodes), the memory each node owns,
  `dataInMutex`, the static node pointers, the fill level `index` of the frame
  being built, the transfer in flight.
* Operations: `queueBufStart` in the caller's thread (lines 195-225),
  `testFormat` (268-320) and `testOut` (321-376) in threads of their own.
  `testIn`, `dacDataIn` and `abortXfer` are in the file and nothing reaches them.
* Interaction: `queueBufStart` fills the head slot of `inRQue` in place and then
  adds it; `testFormat` pulls a node, formats it in its own buffer and copies it
  to the head slot of `outRQue`, which it adds when the frame is full; `testOut`
  pulls a frame and lets the driver read its buffer.
* Hard: a ring copies the struct of a node, never its data. A pull frees the
  slot while the puller goes on using the slot's buffer. The fill of a slot and
  the `add` that publishes it are separate, as are `isFull` and the `add` that
  relies on it. The device can stall, fail, or complete just as the transfer
  times out.
* Correct when: what reaches the device is the samples in order, each transposed
  exactly once, none lost unless a transfer was given up; a loss is reported;
  calls return; the rings drain.

### 1.3 Set-up of the DLL (`DLL` 56-193, `HjkUSBDevice.cpp`, `dllmain.cpp`)

* State: `haveInit`, the handles, the node arrays.
* Operations: `initHjkUSBXfer` opens the device and sets the frame size to
  `MaxPktSize * chNum` bytes, at most 4 MB; `initQueueBuf` gives each slot a
  buffer by filling and draining the rings, then starts the two threads.
  `getHjkUSBDevice` opens every device in turn and leaves the last one open;
  `initHjkUSBXfer` opens the first one again.
* Hard: `haveInit` is tested and set without a lock; the call that initialises
  does not enqueue its sample.
* Correct when: it ends in the state the pipeline starts from, once.

### 1.4 Wave data format (`HjkDataFormat.cpp`)

* State: the two scratch groups, allocated on the first call.
* Operations: `waveDataFormat` splits a node into odd and even channels, bit
  transposes each group of 32 words back into the node, and appends the node to
  the frame if it fits. The other overloads only copy.
* Hard: a `UCHAR` loop counter over `datalen`; 32 words whatever `datalen` is;
  a frame size that is no multiple of the node size would never be filled.
* Correct when: it ends, and the output is the transposition of the input.

### 1.5 InterfaceOfUSB (`usbdac_sim/InterfaceOfUSB.cpp`) and its template copy

* State: two rings, two counting semaphores, a node being filled (`tempMidNode`).
* Operations: `interfaceForIn`, `interfaceStart` (the format loop),
  `interfaceForUSBOut`.
* Hard: semaphore counts and ring counts can part (an overwriting `add` releases
  too); every queued frame shares `tempMidNode`'s one buffer; `isFull` is asked
  before the `add` that uses the answer.
* Correct when: the semaphores count the queued nodes, a call that reports a failure
  has lost a node and no other does, and each frame taken out is the one put in. The
  last does not hold (finding `interface_shared`).
* `HjkUSBInterface.h` is a class template made from this class. Its format thread
  fills the head slot itself and waits for and releases no semaphore; its USB
  thread still waits for one.

### 1.6 The simulator (`usbdac_sim/usbdac_sim.cpp`, `HJKUSBXfer.cpp`, `HjkDataFormat.cpp`)

* State: two rings and the memory of their nodes, the position in the frame, the
  OVERLAPPED array, the requests the driver holds.
* Operations: `testIn` (makes nodes), `testFormat` (packs frames), `testOut`
  (prints frames and sends them with `HjkUSBXfer::xferDataToUSBEp`, which waits,
  aborts, and waits again). A macro chooses one of two methods: nodes that
  contain their data, or nodes that point to it.
* Hard: `main` fills the pointer method's rings and does not drain them; `testIn`
  takes the head pointer before the mutex and ignores what `add` returns; a
  transfer that times out is reported as sent and never finished, and its
  OVERLAPPED is used again; nothing ever opens a device.
* Correct when: what is printed is what was made, in order, and what reaches the
  device is what was printed; the out thread always comes back.

### 1.7 simpledll (`simpledll/testdllarr.cpp`)

* State: two static pointers to the caller's arrays and an auto-reset event.
* Operations: `queueBufStart` in the caller's thread, `testIn` in its own.
* Hard: `SetEvent` comes before the output pointer is assigned; the next call
  replaces the input pointer while `testIn` works on it; two calls may wake the
  thread once.

### 1.8 The rest

`dllclient` is a loop of calls with console output: it is the environment of the
pipeline model. The simulator's device listing, `HjkRingBuf`, `sine_wave` and the
spare files are not used or not built (section 6). The CyAPI header and the Visual
Studio scaffolding are vendor's or generated.

## 2. The modules

| module | models | kind |
|---|---|---|
| `RingBufOps` | the methods of RingBufCPP as operators on a record `[head, num, buf]` | operators |
| `BoundedQueue` | the FIFO queue that the comments of RingBufCPP.h promise | abstract specification |
| `RingBuf` | one ring, any method at any time, each atomic | the object the locked one implements; itself implements `BoundedQueue` |
| `RingBufLock` | the bodies of the methods, one statement a step, under the recursive mutex | state machine, implements `RingBuf` and so `BoundedQueue` |
| `HjkUsbXfer` | callers, format thread, out thread and device around two rings | state machine over `RingBufOps` |
| `DllInit` | `queueBufStart` from the first call on, the device set-up and `initQueueBuf` | state machine over `RingBufOps` |
| `WaveDataFormat` | `waveDataFormat` and `transpositionInt`, words and bits | state machine |
| `InterfaceOfUSB` | the class of that name: two rings, two semaphores, three threads | state machine over `RingBufOps` |
| `SimRing` | the simulator's copy of RingBufCPP, the length being part of the object | operators |
| `UsbDacSim` | the simulator's three threads, both methods, and the USB transfer helper | state machine over `SimRing` |
| `HjkUSBInterface` | the class template | state machine over `SimRing` |
| `SimpleDll` | simpledll: a caller, a thread and an event | state machine |
| `RingBufOps_proofs`, `RingBuf_proofs`, `RingBufLock_proofs`, `HjkUsbXfer_proofs`, `DllInit_proofs`, `InterfaceOfUSB_proofs`, `WaveDataFormat_proofs`, `UsbDacSim_proofs` | lemmas and theorems | TLAPS |
| `RingBufLockMC`, `HjkUsbXferMC`, `DllInitMC`, `WaveDataFormatMC`, `InterfaceOfUSBMC`, `UsbDacSimMC`, `HjkUSBInterfaceMC`, `SimpleDllMC` | instances for TLC | MC |

The composition is by layers. `HjkUsbXfer` uses the ring methods as atomic
operators (`In == INSTANCE RingBufOps`, `Out == ...`). That is what the code may
rely on if methods are atomic, and `RingBufLock` shows they are, by implementing
`RingBuf`. `RingBuf` in turn implements `BoundedQueue`, by proof. `DllInit` ends
where `HjkUsbXfer` starts (`Ready` names the state), and `WaveDataFormat` looks
inside the steps `split`, `transpose` and `store` of the format thread. The
simulator's sources are a second program with its own copy of the ring, hence
`SimRing`, which takes the atomicity of the methods over from `RingBufLock`: the
two headers have the same method bodies.

### 2.1 The ring

`RingBufOps` keeps the names of the code. A method that changes the ring is an
operator from record to record (`add`, `pull`); what `pull` copies out is
`pulled`. `getHead` and `peek` return a slot, as the pointers of the code
designate slots; `-1` is NULL. `Contents(r)` is the queue a ring stands for.

`RingBuf` starts the array with arbitrary contents, for `_buf` is not
initialised. `result` records what the latest call returned, so that the return
values belong to the refinement. `RingBufLock` has a program counter per thread
whose values name the statement to come; the linearization points are the first
write of `add`, the decrement of `pull`, and the single reads. Because `add`
takes effect at its first write, the mapping `Committed` completes the `add` that
is under way. `Refinement` and `HeadSlotFree` are `RingBuf`'s promises restated
for the locked object, so the run checks the whole chain from statements to queue.
The mutex is an owner and a depth: `RB_ATOMIC_START` waits while
another thread is the owner and `RB_ATOMIC_END` counts down.

### 2.2 The pipeline

`HjkUsbXfer` starts where `initQueueBuf` ends: rings filled and drained, so
that slot *i* holds buffer *i*, and both threads polling.

* A ring element is the address of a buffer, and `inMem` and `outMem` hold the
  buffers, one cell per input node and one cell per node-sized part of a frame.
  This is the aliasing of the code: pulling copies the address.
* A cell is abstracted to the sample it came from and its form: as allocated,
  half written (`torn`), `raw`, `bits` (transposed once) or `garbled`
  (transposed again). `memcpy` into an input node takes two steps. The bit
  arithmetic is left out: every property is about which sample is where.
* Each caller walks `lock`, `getHead`, `memcpy`, `copying`, `add`, `release`;
  `testFormat` walks `poll`, then `isFull` and `add` if the frame is full, then
  or otherwise `pull`, `split`, `transpose`, `store`; `testOut` walks `poll`,
  `begin`, `wait`, after a timeout `abort`, `finish`, and `dead` once a transfer is
  rejected. A poll that
  finds its ring empty changes nothing, so it is a stutter.
* The driver and the device are external: `BeginDataXfer` may reject, a pending
  transfer may be completed (`UsbComplete`), end with an error (`UsbFail`) or stay
  pending, and `WaitForXfer` may time out at any point. Both endings may still come
  between the timeout and `Abort`, which takes the request back otherwise. The device
  reads the buffer when it completes.
* `overrun` and `reported` are history. `overrun` becomes true when a write hits a
  buffer that is queued or that its consumer is still using. `reported` becomes
  true when the code prints "Data in false." or "Data out false.".

The safety properties are stated relative to `overrun`, because the code really
does lose and reorder data when a ring is full, and what it promises is
otherwise. `OverrunNeedsFullRing` bounds when that can happen, so the pair says:
as long as neither ring holds all its elements or all but one, nothing is lost,
torn, duplicated or reordered, whatever times out and however the threads
interleave.

### 2.3 Initialisation

`DllInit` has the flag, the rings, the node arrays and the mutex handle shared, and a
program counter and loop variable per caller, so two first calls can interleave
anywhere in `initQueueBuf`: `haveInit` is tested without a lock. A mutex is a number;
`CreateMutex` makes a new one and the old handle is lost, so a caller may release a
mutex other than the one it waited for. Waiting for the handle NULL fails at once,
with the result ignored as in the code. `overlapped` records that one initialisation
began while another was under way. The device is one of `MaxDevices` indices or
none: `getHjkUSBDevice` opens each in turn for its name, with a new library object
at every call, and `initHjkUSBXfer` returns to the first; `ReadyWhenInit` includes
that the pipeline sends to that one. Everything promised is relative to it: with
overlapping first calls the code really does start the threads twice, mix the
buffers of the two initialisations and change the mutex under a caller, and nothing
in its documents or comments says that first calls may overlap.

### 2.4 The data format

`WaveDataFormat` keeps the shifts of `transpositionInt` and compares them with a
definition without shifts (`IsTranspose`). The loop counter is a number modulo
`CounterMod`. A read beyond a group returns any word and a write beyond goes
nowhere; both set `wild`. `FormattedInPlace`, `InBounds` and `FrameHoldsNodes` are
stated for `datalen = 2 * Bits`, the 64 channels of the DLL, because only then do
the two groups have the 32 words `transpositionInt` takes for granted. For fewer
channels the code does access memory beyond its groups, for more it leaves channels
untransposed, and for 256 or more the loop does not end; the model has those
behaviours and the properties leave them out.

### 2.5 InterfaceOfUSB

A node is its number. `interfaceForIn` walks `add` or `overwrite`, then `release`;
`interfaceStart` walks `poll`, `wait`, `pull`, `store` or `isFull`, `add` or
`overwrite`, `release`; `interfaceForUSBOut` walks `poll`, `wait`, `pull`. A
semaphore is a count with a maximum, at which a release fails. Three facts about
this class:

* `interfaceForIn` prints "overwrite failed" and returns false after an overwriting
  `add` that did overwrite, and says "overwrite!" only when the `add` found room after
  all (InterfaceOfUSB.cpp:102-113). `failures` counts the calls that return false, of
  all three branches that do. `FailuresAreLosses` says what such an answer is worth:
  each one stands for exactly one node lost, the oldest, and no node is lost without
  one. It also says which answers of `isFull` and `isEmpty` still hold when they are
  used: "not full" and "not empty" do, "full" may not.
* Every frame in `outRQueue` is a copy of the struct `tempMidNode` and shares its
  buffer (line 144). `FramesWhole` is about the frames as they are queued: the nodes
  taken, cut in order, of which the ring keeps the newest. What the buffer holds when
  a frame is taken out is another matter: `HeadFrameSent`, that it is that frame, is
  violated, and the finding quotes the documents that say it should be.
* `interfaceForUSBOut` takes its node by value, so what it pulls does not reach its
  caller.

### 2.6 The simulator

`UsbDacSim` has both methods in one module, `method` being fixed at the start of
a behaviour; they differ in whether `pull` copies an address or the data, in the
start state, and in whether a frame is sent. `inMem` and `outMem` are memory, a cell
per node, with `Fresh` for what `malloc` returned. `testIn` walks `fill`, `add`;
`testFormat` walks `poll`, then `pull`, `store` or `isFull`, `add`; `testOut` walks
`poll`, `print` and, with a device, `index` (which OVERLAPPED), `begin`, `wait`,
`abort`, `abortWait`. Filling a node and printing a frame are loops in the code and
one step here; the comments at the actions say why no interleaving is lost, namely
that any write that could fall into the loop sets `overrun` in the same way.

The driver holds a set of requests. It may complete one, which sends what the buffer
holds at that moment and sets the event of the request's OVERLAPPED, end one with an
error, aborted or not (`UsbFail`; the helper only prints which it was), do either to
one that belongs to an earlier call, or never answer. Since
`xferDataToUSBEp` gives up without finishing, requests outlive their call, events stay
set, and the next wait on the same array entry ends at once; index `OutLen`, one past
the array, can be chosen, and its event is whatever memory holds. All of this is in
the model. `SentAsPrinted` ends its promise at the first timeout for that reason:
after one, frames do arrive late, out of order and with newer contents. Up to then
the frames at the device are printed ones, in order and each at most once; those the
driver refused or failed are missing.

Nothing in the sources sets `USBDevice`, which is NULL, and `testOut` calls
`DeviceCount` through it when the first frame is printed. The model has that
outcome (`crashed`), and also the two a program that calls `getHjkUSBDevice` would
have, a device or none, because only with a device the transfer code runs.

### 2.7 The experiments

`SimpleDll` numbers arrays by the call that passes them; a word is its call and how
often 3000 was added to it. Each statement of `queueBufStart` and each word of
`testIn`'s loop is a step. `HjkUSBInterface` has the three methods of the template
with the semaphore calls that are not comments. No program of the repository
instantiates the methods; the threads are those the comments of `InterfaceOfUSB.h`
assign to them.

## 3. What TLC checks

| run | properties | what it shows |
|---|---|---|
| `ring_lock` | `TypeOK`, `LockBalanced`, `HeadSlotFree`, `Linearizable`, `Refinement`, `CallsReturn` | under the recursive mutex each method is one atomic step and returns, and together they are a bounded FIFO queue, return values included |
| `pipeline` | `SlotsOwnBuffers`, `HeadPointersCurrent`, `StreamIntact`, `NothingLost`, `OverrunNeedsFullRing` | without an overrun the stream is intact and complete; an overrun needs a ring at least one short of full |
| `pipeline_overflow` | `TypeOK`, `ReportsAreReal`, `OnlySubmittedData`, `CallReturns`, `InputDrains`, `OutputDrains` | with both rings overflowing and the device failing: no false alarm, no frame with memory never written, calls return whatever the device does, and the input drains even with the out thread dead |
| `interface` | `TypeOK`, `SemaphoresCount`, `FailuresAreLosses`, `TakenInOrder`, `FramesWhole`, `WaitsEnd`, `InterfaceDrains` | semaphores and rings agree whatever the interleaving, a reported failure is one lost node and no loss goes unreported, neither unbounded wait blocks while work is queued, and frames are queued whole and in order |
| `dll_init` | `TypeOK`, `StartedOnce`, `Exclusion`, `ReadyWhenInit`, `CallEnds` | unless first calls overlap, initialisation happens once, ends in the pipeline's initial state with the first device, and every call returns or the process ends |
| `wave_format` | `TypeOK`, `FormattedInPlace`, `InBounds`, `FrameHoldsNodes`, `NeverDropped`, `Returns` | the in-place format is two bit transpositions, the frame holds the nodes side by side, and a node that is admitted fits |
| `sim` | `TypeOK`, `PrintedStream`, `SentAsPrinted`, `OverrunNeedsFullRing`, `RingsDrain` | the console shows the memory `main` queued and then every value in order; until a timeout the device gets frames as printed, in order; the method that copies data may have both rings one short of full; the out thread comes back whatever the device does |
| `pipeline_order` | `SentInOrder` (violated) | a full input ring makes the device see a newer sample before an older one, and nothing is reported |
| `pipeline_flush` | `FullFrameQueued` (violated) | a full frame is not queued until a sample of the next frame arrives |
| `simple_dll` | `OwnResult` (violated) | an output array gets another call's words, or words increased twice or not at all |
| `template_wait` | `OutWaitEnds` (violated) | the template's USB thread waits for ever although a frame is queued |
| `interface_shared` | `HeadFrameSent` (violated) | the frame taken out of the output ring is not the one that was queued |

The five violations are disagreements of the code with its own documents and
comments; PROJECT.json quotes the lines under "findings". In order:

1. `queueBufStart` copies into the head slot before `add(*nodeIn, false)` tests
   for room. When the ring is full the head slot is the oldest queued node, so a newer
   sample takes its place and its turn. If `testFormat` pulls a node before `add`
   looks, the `add` succeeds, a sample is lost and neither diagnostic is printed.
2. The flush is inside `if (!inRQue.isEmpty())`, so the last frame stays behind.
3. `queueBufStart` of simpledll returns without waiting for `testIn`, whose comment
   says that the data may not change before it is enqueued.
4. Both releases of the semaphore that `interfaceForUSBOut` waits for are commented
   out in `HjkUSBInterface.h`.
5. All nodes of `outRQueue` in `InterfaceOfUSB` point to one buffer, which the format
   thread goes on filling, so the head frame is replaced by newer nodes while queued.

With one slot free, the buffer of the node just pulled is the next to be filled, and
`testFormat` may find its node replaced while it formats it, again without a report.
`OverrunNeedsFullRing` has that case and the full ring as the only two ways into an
overrun, and `ReportsAreReal` says that there is no report without one; what comes
after an overrun is promised by nothing in the sources but the first finding's quotes.

### Bounds

The rings of the DLL hold 1024 and 8 nodes; the runs use 1 to 3. All arithmetic on
a ring is modulo its length and the cases a length can distinguish (empty, one
element, one free, full, the head before and after the wrap) all occur with three
slots; the proofs cover every length. `MaxSamples` bounds the samples a behaviour
submits: 6 turn a three-slot input ring twice and make three frames of two nodes,
enough to wrap the output ring of two. `pipeline_overflow` has an input ring of two,
an output ring of one and frames of a single node, so four samples overflow both rings;
what a frame of several nodes may hold after an overflow is left to the theorem
`OnlyWrittenDataSent`. Two callers suffice
for the mutex, and they are a symmetry set in the safety runs only. Two threads
and two slots are enough for `RingBufLock`: at most one thread is inside a method.
`MaxSamples` appears in the guard of `Call` and nowhere else.

`interface` has rings of two and frames of two nodes; ten nodes overflow the input
ring and make more frames than the output ring holds, so the overwriting branches
and the failing releases occur; `interface_shared` has the same sizes. `dll_init` has two slots in each ring, up to two devices and
three calls of two callers: both may initialise, and one may enqueue afterwards. `wave_format`
has words of two bits, so groups of two words, and 16 nodes of four channels, which
are every content of the odd group with the even group varied; other channel
counts run from 2 to 9, around the counter's range of 8. The cap on a frame, 15
words, is just above the least value `CapAssumption` allows and cuts the frames of
eight and nine channels. `MaxNodes` and both `MaxCalls` appear only in the guard of
the action that submits.

`sim` has two slots in each ring and frames of two nodes. The pointer method starts
with both rings full, so three nodes are enough to meet a full ring, lose one, and see
the rest of the stream; the value method starts empty and gets six, which fill both
rings and overflow them. Two requests at a time are an abandoned one and the next.
`simple_dll` needs two calls and has three, `template_wait` one frame.

The largest run, `pipeline`, has 940,611 distinct states, and `pipeline_overflow`, whose
liveness takes longest, 439,433; every run ends within three minutes on two workers.

`sim`, `interface`, `dll_init`, `wave_format`, the pipeline runs and the runs of the
experiments set `CHECK_DEADLOCK FALSE`: the calls of a behaviour are bounded, and the
process may end during initialisation, in the simulator or in simpledll. In the pipeline, when LabVIEW has stopped calling, both
threads poll empty rings, and a poll that finds nothing is a stuttering step.
`ring_lock` checks deadlock.

### Fairness

`FairSpec` of `HjkUsbXfer` assumes that a thread that can take a step eventually
does: weak fairness of `TestFormat`, of `TestOut` (its timeout included, so that
`WaitForXfer` ends), and of each caller once it is inside `queueBufStart`. A
caller waiting for `dataInMutex` gets strong fairness, for Windows serves the
waiters of a mutex in turn, and with weak fairness alone one caller could be
overtaken for ever. There is no fairness on `Call` (LabVIEW may stop) nor on
`UsbComplete` (the device may never answer). `RingBufLock` assumes the same of its
threads and its mutex. `InterfaceOfUSB` assumes the three threads run, again
without an assumption that calls come. `DllInit` assumes it of each caller inside
a call, with strong fairness for the mutex; `WaveDataFormat` of its one thread.
`UsbDacSim` assumes that its three threads run (`testIn`'s mutex has no other user)
and nothing of the driver: a wait ends by its event or by its timeout.
`HjkUSBInterface` assumes that the threads run, so the violation is not one of a
thread that was merely never scheduled.

## 4. What is proved

For every `MaxElements > 0` and every `Type`, in `RingBuf_proofs`, about the atomic
ring (which the locked one implements: by `MethodsAtomic` below):

* `TypeCorrect`: `Spec => []TypeOK`. `TypeOK` is inductive as it stands.
* `HeadSlotFreeAlways`: `Spec => []HeadSlotFree`. Not by induction: `HeadSlotFree`
  follows from `TypeOK` in any state, because the queued slots are the `num` slots
  before the head, and the head is one of them only if `num = MaxElements`.
* `RingIsQueue`: `Spec => Abstract!Spec`, the refinement. Initially the contents are
  empty; each method, from a state in which `TypeOK` holds, takes the contents as
  the abstract operation does. The lemmas of `RingBufOps_proofs` carry the
  weight: that `add` with room appends to `Contents`, that an overwriting `add`
  appends to its tail, that `pull` takes the first element, and that `peek`
  points at the n-th. They rest on `Wrap`, the case analysis of
  `(a + b) % MaxElements` for a sum below twice `MaxElements`, since an index never
  wraps more than once.

The only assumption is `MaxElementsAssumption`, that an array is not empty, which
TLC evaluates on every run over `RingBufOps`.

In `RingBufLock_proofs`, for any set of threads not containing the mark of a free
mutex, any array length and any node type: `LockTypeCorrect` (`TypeOK`),
`LockingBalances` (`LockBalanced`), `MethodsAtomic` (`Linearizable`: the method bodies
implement the atomic `RingBuf`), `LockedRingIsQueue` (`Refinement`: they implement
`BoundedQueue`) and `LockedHeadSlotFree` (`HeadSlotFree`). The invariant
(`LockInductive`) adds to the types and the balance of the lock that the call fits the
place in the code (`CallAt`) and that what a method has found out, whether the ring is
full or empty, the tail, the node copied out, is still true when the method acts on it
(`LocalsCurrent`). It is preserved because a step that changes the object is made by the
owner of the mutex, and every other thread is then outside. `CommittedShape` gets rid of
the quantifiers in the refinement mapping; after that each step is either silent or the
one atomic operation.

For every number of callers, every two ring lengths, every node and frame size and
every bound, in `HjkUsbXfer_proofs`, from `SizesAssumption` (the sizes are positive)
and `CallerAssumption` (finitely many callers, none of them the marker of a free
mutex):

* `Inductive`: `Spec => []IInv`.
* `PipelineTypeCorrect`, `BuffersNeverShared` (`SlotsOwnBuffers`),
  `HeadPointersStayCurrent`, `NoFalseAlarm` (`ReportsAreReal`) and
  `OverrunOnlyWhenFull` (`OverrunNeedsFullRing`) follow from `IInv`.

None of these properties is inductive alone, and `IInv` adds what each lacks:

* `Room`: the samples submitted and the callers at the lock stay within
  `MaxSamples`. Needed only because a bounded counter must stay in its type.
* `MutexHeld`: a caller is between wait and release exactly if it owns
  `dataInMutex`. `nodeIn` is static, so this is what keeps it current.
* `RingsOwn`: slot *i* holds buffer *i*. `add(*nodeIn)` copies the head slot onto
  itself, provided `nodeIn` is current, and a `pull` changes no slot.
* `LastPulled`: while a node is formatted, its buffer is that of the slot just
  behind the queue, unless the ring is full; likewise for the frame in transfer. So
  a write to the head slot hits the buffer in use only if the slot behind the queue
  is the head, that is with at most one slot free.
* `SeenFull`: whoever is about to find its ring full has already written over a
  queued buffer, so a report is never a false alarm.

What the buffers hold is two more invariants of `HjkUsbXfer_proofs`, each on top of
`IInv`:

* `MemInv` (`MemInductive`) follows written memory: the queued nodes of both rings, the
  node being formatted, the frame in transfer and the complete part of the frame being
  built have all been written by somebody, whatever is overrun. It gives
  `OnlyWrittenDataSent` (`OnlySubmittedData`). Its heart is that a frame is queued only
  with as many nodes as it has places, and that a slot, once written, never becomes
  unwritten again: an overrun replaces data by newer data.
* `StreamInv` (`StreamInductive`) numbers the samples. As long as no buffer in use was
  written, the input queue holds consecutive samples, the node in hand is the one
  before them, the frames queued and in transfer are the ones before that, and what was
  sent, given up, in flight, queued, stored and in hand adds up to what was submitted.
  `StreamStaysIntact` (`StreamIntact`) and `NoSampleLost` (`NothingLost`) follow. The
  count needs the hypothesis `Divides`, that a frame is a whole number of nodes, and
  `NoSampleLost` states it: with a remainder no frame would ever be filled.
  `initHjkUSBXfer` makes the frame `MaxPktSize * chNum` bytes, and `NodesAlwaysFit`
  below says that the 4 MB cap does not break it. `StreamStaysIntact` does not need the
  hypothesis, for without it nothing is sent.

In `DllInit_proofs`, from `InitAssumption` (the rings are not empty, there is at least
one call, and no caller is the marker of a free mutex; the callers may be infinitely
many): `InitialisationInductive`, and from it `InitialisationTypes` (`TypeOK`),
`StartsOnce` (`StartedOnce`), `CallersExclude` (`Exclusion`) and `InitLeavesReady`
(`ReadyWhenInit`). One half of the invariant holds whatever overlaps (`Counts`: a call
makes at most one device object and one mutex and starts the threads at most once, so
the numbers stay within the number of calls; `DevicesFound`). The other half holds
until two first calls overlap: at most one caller is initialising (`Alone`), the rings,
node arrays and handles are exactly what the place it has reached implies, from static
storage to the start state of the pipeline (`Created`), and once `haveInit` is set every
caller has the same mutex in hand (`Owned`).

In `InterfaceOfUSB_proofs`, from `InterfaceAssumption`: `SemaphoresAgree`
(`SemaphoresCount`), `FailuresCountLosses` (`FailuresAreLosses`), `NodesTakenInOrder`,
`InterfaceTypeCorrect` and `FramesAreWhole` (`FramesWhole`). The first invariant joins the types, the counts,
`AnswersHold`, `FrameSeen` (who polled a frame still finds one) and `NodesOrdered`
(the numbers in the input ring increase and are beyond those taken). The counts need
`AnswersHold`, because a pull that failed would consume a token without a node; and it
holds because each ring has one producer and one consumer. An overwriting `add` may
find room after all, and the semaphore is then released: the step where the two answers
to "is it full" differ is the heart of the proof. `FailuresCountLosses` adds the balance
`Conserved`: what was submitted was taken, is queued, or was reported.
`FramesAreWhole` has an invariant of its own, `FrameInv`: the nodes taken are cut into
frames in order (`Cut`), the frame under way holds those not yet cut off (`Filled`), and
the output ring holds the latest frames (`Newer`).

In `WaveDataFormat_proofs`, from `FormatAssumption` and `CapAssumption`:

* `Transposes`: `transpositionInt` returns the transposed bit matrix for every word
  width. Shift, mask and shift back select a bit (quotient and remainder by a power of
  two), and the bits or-ed into a row do not disturb each other. The library's
  induction theorems cannot be used (they take an operator), so the induction over the
  places is stated with sets: a set of naturals with 0 that is closed under successor is
  `Nat` (`Induct`), from the least element that well-foundedness gives.
* `NodesAlwaysFit` (`NeverDropped`). `Whole` says that `index` is a multiple
  of `datalen` below the frame's end while a node is formatted, and that a node past
  the split loop has fewer words than `CounterMod`; then the cap does not apply and
  the frame is a whole number of nodes. `CapAssumption` is what the numbers of the
  code give: a bulk packet has at most 4096 words, bursts counted, and 255 of them
  stay below 2^20.
* `FormatTypes` (`TypeOK`), and from `NodeInv` (`NodeInductive`), which follows the node
  statement by statement, `FormatsInPlace` (`FormattedInPlace`) and `StaysInBounds`
  (`InBounds`): with two whole groups nothing is read or written outside, and what is
  overwritten in place has been copied to its group before.
* `FrameIsNodes` (`FrameHoldsNodes`), from `HeldInv` (`HeldInductive`), which says which
  submitted node each place of the frame holds.

In `UsbDacSim_proofs`, from `SimAssumption` (the rings and the frame are not empty), for
both methods at once:

* `SimTypeCorrect` (`TypeOK`). `Types` adds that slot *i* holds buffer *i* for ever,
  which needs the head pointers to be current when they are used.
* `OnlyFullRingsAreOverrun` (`OverrunNeedsFullRing`). `Pulled`: with the pointer method
  the buffer pulled last lies just behind the queue until the ring is full, with the
  value method it is private.
* `DeviceGetsWhatIsPrinted` (`SentAsPrinted`), from `DeviceInductive`. `Room`: without an
  overrun the input node and the frame being built have a slot to themselves, so no
  `add` is refused, none overwrites, and `numElements` is a valid index of the array of
  OVERLAPPEDs. `DeviceInv`: until a timeout there is a request only between its begin
  and its end, no event is left set, and the buffer is not written meanwhile.
* `PrintsTheStream` (`PrintedStream`), from `StreamInductive`. Both rings hold consecutive
  items (`Holds`, one notion for nodes and frames, with a lemma each for `add` and
  `pull`), and `Balance` says that what has entered is what is queued, in hand, stored
  and printed.

The inductive invariants were model-checked before they were proved. `AfterPrint` of
`UsbDacSim` and the transposition of a cell in `HjkUsbXfer` were written so that their
cases exclude each other: an overlapping CASE has no definite value to prove about.

Left to TLC: liveness (`CallsReturn`, `CallReturns`, `InputDrains`, `OutputDrains`,
`WaitsEnd`, `InterfaceDrains`, `CallEnds`, `Returns`, `RingsDrain`), which is out of the
prover's reach, and the five violations.

## 5. Plan

Modelling is done as far as section 6 allows. In the order they were built: the ring
and its lock, the pipeline, the data format, initialisation, `InterfaceOfUSB`, the
simulator with its transfers, and the two experiments. Every safety property of a
passing run has its theorem. What is left joins the components:

* that the state `DllInit` calls `Ready` is the initial state of `HjkUsbXfer`;
* an abstract specification of the pipeline, a channel that may lose but not reorder
  until an overrun, and the pipeline shown to implement it;
* how far the promise of `SentAsPrinted` can be kept after a timeout.

## 6. Not modelled, and why

* The CyAPI library and the device: external; modelled by what the code sees. What the
  library does with an OVERLAPPED after `Abort` is not in the repository. For the DLL
  the timeout and `Abort` are steps of their own, which race a completion and a failed
  transfer, but the transfer is taken to have ended when the two-second wait after
  `Abort` is over: the code ignores the result of that wait. For the simulator, which
  never finishes the transfer, requests outlive their call, and may end with an error
  at any time.
* Console text, project files: no state.
* Code nothing reaches: `testIn`, `dacDataIn` and `abortXfer` of the DLL;
  `testThreadDatain`, `testXferDataToUSB` and both `dacDataArrIn` of the simulator; the
  simulator's device listing; the destructors, second constructors and setters of
  `InterfaceOfUSB` and `HjkUSBInterface`; the overload of `waveDataFormat` for
  `QUEUE_NODE_A` in the DLL, which only copies.
* `HjkRingBuf` stores the address of its own parameter in an array that is never
  allocated, so none of its calls has a defined result, and nothing uses it.
  `sine_wave` and `wave_out_sim.cpp` are floating-point and called nowhere.
* The spare directory (`usbdac_sim/备用`) is in no project file. `buf_queue.cpp` and
  `interface_wave_usb.cpp` do not compile; `usbdac_sim3.26.cpp` is an earlier
  `usbdac_sim.cpp`, whose first method is word for word the one in `UsbDacSim`.
* `HJKUSBAPI.h` is the vendor's interface.

## 7. Running it

    tlc -workers 2 -config HjkUsbXferMC.cfg HjkUsbXferMC.tla
    tlapm RingBuf_proofs.tla

The cfg names are those of the runs in PROJECT.json.
