------------------------------ MODULE UsbDacSim -----------------------------
(***************************************************************************)
(* The simulator usbdac_sim/usbdac_sim.cpp after main has set it up:       *)
(*                                                                         *)
(*   testIn --inRQue--> testFormat --outRQue--> testOut --> USB endpoint   *)
(*                                                                         *)
(* The source holds two methods, chosen by the macro interfaceofusb.       *)
(* usbdac_sim.cpp defines it and so compiles method 2 ("pointer"): the     *)
(* rings hold structs that point to buffers, start full of buffers nobody  *)
(* has written, and each frame is sent with HjkUSBXfer::xferDataToUSBEp.   *)
(* Without it method 1 ("value") is compiled: the rings hold structs that  *)
(* contain their data, start empty, and frames are only printed.  The      *)
(* threads' code is otherwise the same, so one module has both, and        *)
(* method is fixed at the start of a behaviour.                            *)
(*                                                                         *)
(* inMem and outMem are memory: address s < length is the buffer slot s    *)
(* started with, and the last address is the private node (nodeabuf,       *)
(* nodebbuf) that method 1 pulls into.                                     *)
(*                                                                         *)
(* Nothing in the source sets hjkUdev.USBDevice, a public member of a      *)
(* global object: it is NULL, and calling DeviceCount through it ends the  *)
(* process.  The model also lets it be a CCyUSBDevice as getHjkUSBDevice   *)
(* would make it, with or without a device attached.                       *)
(***************************************************************************)
EXTENDS SimRing, Sequences, FiniteSets

CONSTANTS
  InLen,       \* IN_RQUEUE_LEN
  OutLen,      \* OUT_RQUEUE_LEN
  FrameNodes,  \* input nodes in an output node (5 in the code)
  MaxNodes,    \* bound on the nodes testIn fills in one behaviour of each method
  MaxRequests  \* bound on the requests the driver holds at a time

ASSUME SimAssumption ==
  /\ InLen \in Nat \ {0} /\ OutLen \in Nat \ {0} /\ FrameNodes \in Nat \ {0}
  /\ MaxNodes \in [{"pointer", "value"} -> Nat] /\ MaxRequests \in Nat \ {0}

VARIABLES
  method, USBDevice,
  inRQue, outRQue, inMem, outMem,
  tpc, nodes, nodeIn,                               \* testIn; nodes it has filled
  fpc, index, nodeOut, nodeInbuf, overwrite,        \* testFormat
  opc, nodeOutbuf, ov,                              \* testOut and xferDataToUSBEp
  requests, signalled,                              \* the driver's requests, the set events
  printed, sent,        \* frames on the console and at the device
  overrun,              \* history: a buffer was written while it was in use
  timedOut              \* history: a WaitForXfer timed out

inVars     == <<tpc, nodes, nodeIn>>
formatVars == <<fpc, index, nodeOut, nodeInbuf, overwrite>>
driver     == <<requests, signalled, sent>>
outVars    == <<opc, nodeOutbuf, ov, printed, timedOut, driver>>
memory     == <<inMem, outMem>>
chosen     == <<method, USBDevice>>
vars == <<chosen, inRQue, outRQue, memory, inVars, formatVars, outVars, overrun>>

\* What the memory of one input node holds: node n = 1, 2, ... of testIn, or
Fresh == 0     \* whatever malloc returned
Cell  == {Fresh} \cup 1 .. MaxNodes[method]
Frame == [0 .. FrameNodes - 1 -> Cell]

-----------------------------------------------------------------------------
\* main fills method 2's rings and leaves them full; method 1's are as constructed.
Filled(max) == [NewRing(max, [s \in 0 .. max - 1 |-> s]) EXCEPT !.num = max]

Ring(max) == IF method = "pointer" THEN Filled(max) ELSE NewRing(max, [s \in 0 .. max - 1 |-> s])

Init ==
  /\ method \in {"pointer", "value"}
  /\ USBDevice \in IF method = "pointer" THEN {"NULL", "none", "attached"} ELSE {"NULL"}
  /\ inRQue = Ring(InLen) /\ outRQue = Ring(OutLen)
  /\ inMem = [b \in 0 .. InLen |-> Fresh]
  /\ outMem = [b \in 0 .. OutLen |-> [k \in 0 .. FrameNodes - 1 |-> Fresh]]
  /\ tpc = "fill" /\ nodes = 0 /\ nodeIn = 0
  /\ fpc = "poll" /\ index = 0 /\ nodeOut = 0 /\ nodeInbuf = InLen /\ overwrite = FALSE
  /\ opc = "poll" /\ nodeOutbuf = OutLen /\ ov = 0
  /\ requests = {} /\ signalled = {} /\ printed = <<>> /\ sent = <<>>
  /\ overrun = FALSE /\ timedOut = FALSE

Running == opc # "crashed"
Calling == opc \in {"begin", "wait", "abort", "abortWait"}

\* The histories printed and sent end where the properties stop reading them.
Record(history, what, over) == IF over THEN history ELSE Append(history, what)

\* The buffers whose contents somebody still needs.  A node pulled by method 1 is a
\* copy, and no longer one of them.
InBusy  == QueuedIn(inRQue) \cup (IF fpc = "store" THEN {nodeInbuf} ELSE {})
OutBusy == QueuedIn(outRQue) \cup (IF opc = "poll" THEN {} ELSE {nodeOutbuf})

-----------------------------------------------------------------------------
\* Deliberate errors, each a variant of a definition below that the properties
\* have to notice.
FullTooSoon == index + 1 >= FrameNodes
FullTooLate == index > FrameNodes
SharedCopy(r, own) == pulled(r)
SendsTail == outRQue.buf[getTail(outRQue)]
WaitsForEver == FALSE

-----------------------------------------------------------------------------
\* testIn.  hjkMutex has no other user, so waiting for it changes nothing.
\* The loop writes the counter dda word by word into the buffer of the head slot, which
\* only testIn's own add moves.  One step stands for it: nobody can come to use that
\* buffer meanwhile, and one that is in use already is overrun.
InFill ==
  /\ Running /\ tpc = "fill" /\ tpc' = "add" /\ nodes < MaxNodes[method]
  /\ nodeIn' = getHead(inRQue)
  /\ nodes' = nodes + 1
  /\ inMem' = [inMem EXCEPT ![inRQue.buf[nodeIn']] = nodes + 1]
  /\ overrun' = (overrun \/ inRQue.buf[nodeIn'] \in InBusy)
  /\ UNCHANGED <<chosen, inRQue, outRQue, outMem, formatVars, outVars>>

\* add's overwrite defaults to false, and nobody looks at its result: a node refused
\* is gone.
RingWithNode == add(inRQue, inRQue.buf[nodeIn], FALSE)

InAdd ==
  /\ Running /\ tpc = "add" /\ tpc' = "fill"
  /\ inRQue' = RingWithNode
  /\ UNCHANGED <<chosen, outRQue, memory, nodes, nodeIn, formatVars, outVars, overrun>>

TestIn == InFill \/ InAdd

-----------------------------------------------------------------------------
\* testFormat, which asks for the output ring's head again on every turn.
FrameFull == index >= FrameNodes

FormatPoll ==
  /\ Running /\ fpc = "poll" /\ ~isEmpty(inRQue)
  /\ nodeOut' = getHead(outRQue)
  /\ fpc' = IF FrameFull THEN "isFull" ELSE "pull"
  /\ UNCHANGED <<chosen, inRQue, outRQue, memory, index, nodeInbuf, overwrite,
                 inVars, outVars, overrun>>

\* Method 2's pull copies the struct, and with it the address of the slot's buffer ...
FormatPull ==
  /\ Running /\ method = "pointer" /\ fpc = "pull" /\ fpc' = "store"
  /\ nodeInbuf' = IF isEmpty(inRQue) THEN nodeInbuf ELSE pulled(inRQue)
  /\ inRQue' = pull(inRQue)
  /\ UNCHANGED <<chosen, outRQue, memory, index, nodeOut, overwrite, inVars, outVars, overrun>>

\* ... method 1's copies the data, under the ring's lock.
CopyTo(r, own) == own

FormatPullValue ==
  LET own == CopyTo(inRQue, InLen) IN
  /\ Running /\ method = "value" /\ fpc = "pull" /\ fpc' = "store"
  /\ nodeInbuf' = own
  /\ inMem' = IF isEmpty(inRQue) THEN inMem ELSE [inMem EXCEPT ![own] = inMem[pulled(inRQue)]]
  /\ inRQue' = pull(inRQue)
  /\ UNCHANGED <<chosen, outRQue, outMem, index, nodeOut, overwrite, inVars, outVars, overrun>>

\* waveDataFormat copies the node into the frame; FrameNodes of them fit.
FormatStore ==
  LET b == outRQue.buf[nodeOut] IN
  /\ Running /\ fpc = "store" /\ fpc' = "poll"
  /\ outMem' = [outMem EXCEPT ![b][index] = inMem[nodeInbuf]]
  /\ overrun' = (overrun \/ b \in OutBusy)
  /\ index' = index + 1
  /\ UNCHANGED <<chosen, inRQue, outRQue, inMem, nodeOut, nodeInbuf, overwrite, inVars, outVars>>

FormatIsFull ==
  /\ Running /\ fpc = "isFull" /\ fpc' = "add"
  /\ index' = 0
  /\ overwrite' = isFull(outRQue)
  /\ UNCHANGED <<chosen, inRQue, outRQue, memory, nodeOut, nodeInbuf, inVars, outVars, overrun>>

FormatAdd ==
  /\ Running /\ fpc = "add" /\ fpc' = "poll"
  /\ outRQue' = add(outRQue, outRQue.buf[nodeOut], overwrite)
  /\ UNCHANGED <<chosen, inRQue, memory, index, nodeOut, nodeInbuf, overwrite,
                 inVars, outVars, overrun>>

\* The two versions of the loop differ in pull alone.
TestFormat ==
  method = "pointer" /\ (FormatPoll \/ FormatPull \/ FormatStore \/ FormatIsFull \/ FormatAdd)
TestFormatValue ==
  method = "value" /\ (FormatPoll \/ FormatPullValue \/ FormatStore \/ FormatIsFull \/ FormatAdd)

-----------------------------------------------------------------------------
\* testOut.
OutPull ==
  /\ method = "pointer" /\ opc = "poll" /\ ~isEmpty(outRQue)
  /\ nodeOutbuf' = pulled(outRQue)
  /\ outRQue' = pull(outRQue)
  /\ opc' = "print"
  /\ UNCHANGED <<chosen, inRQue, memory, ov, printed, timedOut, driver, inVars, formatVars, overrun>>

OutPullValue ==
  LET own == CopyTo(outRQue, OutLen) IN
  /\ method = "value" /\ opc = "poll" /\ ~isEmpty(outRQue)
  /\ nodeOutbuf' = own
  /\ outMem' = [outMem EXCEPT ![own] = outMem[pulled(outRQue)]]
  /\ outRQue' = pull(outRQue)
  /\ opc' = "print"
  /\ UNCHANGED <<chosen, inRQue, inMem, ov, printed, timedOut, driver, inVars, formatVars, overrun>>

\* USBDevice->DeviceCount() > 0 and what follows; method 1 has no device.
AfterPrint ==
  CASE method = "pointer" /\ USBDevice = "NULL"     -> "crashed"
    [] method = "pointer" /\ USBDevice = "attached" -> "index"
    [] OTHER                                       -> "poll"

\* The frame is printed word by word.  One step stands for the loop: a frame written
\* meanwhile is in OutBusy, and counts as overrun.
OutPrint ==
  /\ opc = "print" /\ opc' = AfterPrint
  /\ printed' = Record(printed, outMem[nodeOutbuf], overrun)
  /\ UNCHANGED <<chosen, inRQue, outRQue, memory, nodeOutbuf, ov, timedOut, driver,
                 inVars, formatVars, overrun>>

\* The OVERLAPPED is chosen by the number of frames queued NOW.  Entry OutLen is past
\* the end of hjkOutOvLap.
OvLapIndex == numElements(outRQue)

OutIndex ==
  /\ opc = "index" /\ opc' = "begin"
  /\ ov' = OvLapIndex
  /\ UNCHANGED <<chosen, inRQue, outRQue, memory, nodeOutbuf, printed, timedOut, driver,
                 inVars, formatVars, overrun>>

-----------------------------------------------------------------------------
\* HjkUSBXfer::xferDataToUSBEp.  ov is a copy of the caller's OVERLAPPED, but the
\* event in it is the array entry's own.  BulkOutEndPt is never isochronous.
XferBuffer == nodeOutbuf

\* The request is accepted, or refused; testOut does not look at the result.
XferBegin ==
  /\ opc = "begin"
  /\ \/ /\ Cardinality(requests) < MaxRequests
        /\ requests' = requests \cup {[frame |-> Len(printed), buf |-> XferBuffer, event |-> ov]}
        /\ opc' = "wait"
     \/ opc' = "poll" /\ UNCHANGED requests
  /\ UNCHANGED <<chosen, inRQue, outRQue, memory, nodeOutbuf, ov, printed, timedOut,
                 signalled, sent, inVars, formatVars, overrun>>

\* WaitForXfer: the event is set, and reset by the wait, or 100 ms pass.  What an entry
\* past the end of the array has for an event may do either.  After the event,
\* FinishDataXfer, whose result is only printed.
TimesOut == ov \notin signalled

XferWait ==
  /\ opc = "wait"
  /\ \/ ov \in signalled \cup {OutLen} /\ opc' = "poll" /\ UNCHANGED timedOut
     \/ TimesOut /\ opc' = "abort" /\ timedOut' = TRUE
  /\ signalled' = signalled \ {ov}
  /\ UNCHANGED <<chosen, inRQue, outRQue, memory, nodeOutbuf, ov, printed, requests, sent,
                 inVars, formatVars, overrun>>

\* Abort asks the driver to take every request of the endpoint back, which then end when
\* the driver gets to it.  Whether LastError is ERROR_IO_PENDING then is the library's
\* affair; there is no FinishDataXfer.
XferAbort ==
  /\ opc = "abort" /\ opc' \in {"abortWait", "poll"}
  /\ UNCHANGED <<chosen, inRQue, outRQue, memory, nodeOutbuf, ov, printed, timedOut,
                 requests, signalled, sent, inVars, formatVars, overrun>>

\* WaitForSingleObject(ov.hEvent, 2000): the event, or two seconds.
XferAbortWait ==
  /\ opc = "abortWait" /\ opc' = "poll"
  /\ signalled' = signalled \ {ov}
  /\ UNCHANGED <<chosen, inRQue, outRQue, memory, nodeOutbuf, ov, printed, timedOut,
                 requests, sent, inVars, formatVars, overrun>>

XferDataToUSBEp == XferBegin \/ XferWait \/ XferAbort \/ XferAbortWait

TestOut == OutPull \/ (method = "pointer" /\ OutPrint) \/ OutIndex
TestOutValue == OutPullValue \/ (method = "value" /\ OutPrint)

-----------------------------------------------------------------------------
\* The driver and the device (external): a request ends by sending what the buffer
\* holds at that moment, or with an error, after an abort or without one; either sets its
\* event, and xferDataToUSBEp only prints which it was (HJKUSBXfer.cpp:44-47).
OfThisCall(r) == Calling /\ r.frame = Len(printed)

UsbComplete(r) ==
  /\ sent' = Record(sent, [frame |-> r.frame, data |-> outMem[r.buf]], overrun \/ timedOut)
  /\ requests' = requests \ {r}
  /\ signalled' = signalled \cup ({r.event} \ {OutLen})
  /\ UNCHANGED <<chosen, inRQue, outRQue, memory, opc, nodeOutbuf, ov, printed, timedOut,
                 inVars, formatVars, overrun>>

UsbFail(r) ==
  /\ requests' = requests \ {r}
  /\ signalled' = signalled \cup ({r.event} \ {OutLen})
  /\ UNCHANGED <<chosen, inRQue, outRQue, memory, opc, nodeOutbuf, ov, printed, timedOut,
                 sent, inVars, formatVars, overrun>>

Usb == Running /\ \E r \in requests : UsbComplete(r) \/ UsbFail(r)

-----------------------------------------------------------------------------
Next ==
  TestIn \/ TestFormat \/ TestFormatValue \/ TestOut \/ TestOutValue \/ XferDataToUSBEp \/ Usb

Spec == Init /\ [][Next]_vars

\* The three threads run for ever.  Nothing makes the device complete a request.
Fairness ==
  /\ WF_vars(TestIn)
  /\ WF_vars(TestFormat \/ TestFormatValue)
  /\ WF_vars(TestOut \/ TestOutValue \/ XferDataToUSBEp)

FairSpec == Spec /\ Fairness

-----------------------------------------------------------------------------
TypeOK ==
  /\ method \in {"pointer", "value"} /\ USBDevice \in {"NULL", "none", "attached"}
  /\ inRQue \in RingOf(InLen, 0 .. InLen - 1) /\ outRQue \in RingOf(OutLen, 0 .. OutLen - 1)
  /\ inMem \in [0 .. InLen -> Cell] /\ outMem \in [0 .. OutLen -> Frame]
  /\ tpc \in {"fill", "add"} /\ nodes \in 0 .. MaxNodes[method]
  /\ nodeIn \in 0 .. InLen - 1
  /\ fpc \in {"poll", "pull", "store", "isFull", "add"} /\ index \in 0 .. FrameNodes
  /\ (fpc \in {"pull", "store"} => index < FrameNodes)
  /\ nodeOut \in 0 .. OutLen - 1 /\ nodeInbuf \in 0 .. InLen /\ overwrite \in BOOLEAN
  /\ Calling \/ opc \in {"poll", "print", "index", "crashed"}
  /\ nodeOutbuf \in 0 .. OutLen /\ ov \in 0 .. OutLen
  /\ requests \subseteq [frame : Nat, buf : 0 .. OutLen, event : 0 .. OutLen]
  /\ signalled \subseteq 0 .. OutLen - 1
  /\ printed \in Seq(Frame) /\ sent \in Seq([frame : Nat, data : Frame])
  /\ overrun \in BOOLEAN /\ timedOut \in BOOLEAN

\* The nodes of unwritten memory that leave the rings before testIn's first: none with
\* method 1, both rings' worth with method 2 (usbdac_sim.cpp:98 and 132).
StartupNodes == IF method = "pointer" THEN OutLen * FrameNodes + InLen ELSE 0
PrintedNode(p) == printed[(p - 1) \div FrameNodes + 1][(p - 1) % FrameNodes]

\* As long as no buffer in use was written, what is printed is the memory main queued
\* and then the values of testIn, every one of them once, whole and in order.
PrintedStream ==
  ~overrun =>
    \A p \in 1 .. FrameNodes * Len(printed) :
      PrintedNode(p) = IF p <= StartupNodes THEN Fresh ELSE p - StartupNodes

\* One slot to spare is enough for method 2, and method 1, whose pull copies the data,
\* needs none: only a full ring is overrun.
OverrunNeedsFullRing ==
  [][overrun' /\ ~overrun =>
       LET spare == IF method = "pointer" THEN 1 ELSE 0
       IN  inRQue.num + spare >= InLen \/ outRQue.num + spare >= OutLen]_vars

\* Until a buffer in use is written or a wait times out, every transfer is over when
\* the call returns, its OVERLAPPED is one of the array's, and what the device has are
\* frames as they were printed, in their order and each at most once; a frame whose
\* transfer was refused or failed is missing.  (xferDataToUSBEp returns true after a
\* timeout without having finished the transfer, HJKUSBXfer.cpp:36-41.)
SentAsPrinted ==
  ~overrun /\ ~timedOut =>
    /\ ov < OutLen
    /\ \A r \in requests : OfThisCall(r)
    /\ \A i \in DOMAIN sent : sent[i].data = printed[sent[i].frame]
    /\ \A i, j \in DOMAIN sent : i < j => sent[i].frame < sent[j].frame

\* Whatever the device refuses, times out or never answers, testOut comes back for the
\* next frame, and the rings run empty once testIn stops; unless the process has died
\* in DeviceCount.
RingsDrain == <>[](opc = "crashed" \/ (isEmpty(inRQue) /\ isEmpty(outRQue)))
=============================================================================
