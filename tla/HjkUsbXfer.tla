------------------------------ MODULE HjkUsbXfer ----------------------------
(***************************************************************************)
(* The streaming pipeline of hjkUsbXferDll/hjkUsbXferdll.cpp once          *)
(* initQueueBuf has returned:                                              *)
(*                                                                         *)
(*   LabVIEW threads --queueBufStart--> inRQue --testFormat--> outRQue     *)
(*                                             --testOut--> USB endpoint   *)
(*                                                                         *)
(* A node is {datalen, data, ...}; the rings copy the struct, never what   *)
(* data points to, so the slot of a pulled node and the pulled copy share  *)
(* one buffer.  A ring slot therefore holds the ADDRESS of a buffer, and   *)
(* inMem and outMem hold the buffers.                                      *)
(*                                                                         *)
(* A buffer cell is abstracted to the sample it came from and what has     *)
(* been done to it.  memcpy into an input buffer is two steps, so that the *)
(* other thread can meet it half written.                                  *)
(***************************************************************************)
EXTENDS Integers, Sequences, FiniteSets

CONSTANTS
  Caller,       \* the threads that call queueBufStart
  InLen,        \* IN_RQUEUE_LEN
  OutLen,       \* OUT_RQUEUE_LEN
  chNum,        \* words in an input node
  FrameWords,   \* xferUSBDataSize / sizeof(__int32), words in an output node
  MaxSamples    \* bound on the samples submitted in one behaviour

ASSUME SizesAssumption ==
  /\ InLen \in Nat \ {0}
  /\ OutLen \in Nat \ {0}
  /\ chNum \in Nat \ {0}
  /\ FrameWords \in Nat \ {0}
  /\ MaxSamples \in Nat

ASSUME CallerAssumption == IsFiniteSet(Caller) /\ "free" \notin Caller

VARIABLES
  inRQue, outRQue,   \* the two rings; an element is a buffer address
  inMem, outMem,     \* the buffers behind the addresses
  dataInMutex,       \* its owner, or "free"
  cpc,               \* where each caller is in queueBufStart
  submitted,         \* samples submitted so far; the last is what inData points to
  nodeIn,            \* the slot getHead returned to the caller
  fpc, index, nodeOut, nodeInbuf, group, overwrite,  \* testFormat
  opc, nodeOutbuf, xfer,                             \* testOut and its transfer
  sent, dropped,     \* frames the device received, in order; frames given up on
  overrun,           \* history: a buffer was written while it was in use
  reported           \* history: a "... false." line was printed

callerVars == <<dataInMutex, cpc, submitted, nodeIn>>
formatVars == <<fpc, index, nodeOut, nodeInbuf, group, overwrite>>
outVars    == <<opc, nodeOutbuf, xfer, sent, dropped>>
history    == <<overrun, reported>>
vars == <<inRQue, outRQue, inMem, outMem, callerVars, formatVars, outVars, history>>

In  == INSTANCE RingBufOps WITH MaxElements <- InLen
Out == INSTANCE RingBufOps WITH MaxElements <- OutLen

FrameNodes == FrameWords \div chNum   \* input nodes that fit an output node

-----------------------------------------------------------------------------
\* What one input node's worth of memory holds.
Fresh     == [sample |-> 0, form |-> "malloc"]
Torn      == [sample |-> 0, form |-> "torn"]
Raw(s)    == [sample |-> s, form |-> "raw"]
Bits(s)   == [sample |-> s, form |-> "bits"]
Garbled(s) == [sample |-> s, form |-> "garbled"]

Cell == {Fresh, Torn}
          \cup {Raw(s) : s \in 1 .. MaxSamples}
          \cup {Bits(s) : s \in 1 .. MaxSamples}
          \cup {Garbled(s) : s \in 1 .. MaxSamples}

\* waveDataFormat's transposition of a node: right once, wrong on a node that
\* is already transposed; memory nobody wrote stays memory nobody wrote.
Transposed(cell) ==
  CASE cell.form = "raw"                  -> Bits(cell.sample)
    [] cell.form \in {"bits", "garbled"}  -> Garbled(cell.sample)
    [] OTHER                              -> cell

-----------------------------------------------------------------------------
\* initQueueBuf fills each ring with nodes that each own a buffer, then drains
\* it: the ring is empty, the head is back at 0 and slot i holds buffer i.
Drained(len) == [head |-> 0, num |-> 0, buf |-> [i \in 0 .. len - 1 |-> i]]

Init ==
  /\ inRQue = Drained(InLen) /\ outRQue = Drained(OutLen)
  /\ inMem = [b \in 0 .. InLen - 1 |-> Fresh]
  /\ outMem = [b \in 0 .. OutLen - 1 |-> [k \in 0 .. FrameNodes - 1 |-> Fresh]]
  /\ dataInMutex = "free" /\ cpc = [c \in Caller |-> "idle"]
  /\ submitted = 0 /\ nodeIn = 0
  /\ fpc = "poll" /\ index = 0 /\ nodeOut = 0 /\ nodeInbuf = InLen - 1
  /\ group = Fresh /\ overwrite = FALSE
  /\ opc = "poll" /\ nodeOutbuf = OutLen - 1 /\ xfer = "none"
  /\ sent = <<>> /\ dropped = 0
  /\ overrun = FALSE /\ reported = FALSE

\* Buffers whose contents somebody still needs: those of queued nodes and that
\* of the node the consumer pulled last and is still working on.
InQueued  == {inRQue.buf[i] : i \in In!Queued(inRQue)}
OutQueued == {outRQue.buf[i] : i \in Out!Queued(outRQue)}
Formatting == fpc \in {"split", "transpose", "store"}
Transferring == opc \in {"begin", "wait", "abort", "finish"}
InBusy  == InQueued \cup (IF Formatting THEN {nodeInbuf} ELSE {})
OutBusy == OutQueued \cup (IF Transferring THEN {nodeOutbuf} ELSE {})

-----------------------------------------------------------------------------
\* Deliberate errors, each a variant of a definition below that the properties
\* have to notice.
MutexIgnored    == TRUE
ClaimsTail      == In!getTail(inRQue)
ResultInverted  == ~In!isFull(inRQue)
FillsSameSlot   == nodeOut
FlushesEarly    == index + chNum >= FrameWords
DecrementsFirst == In!pulled(In!pull(inRQue))
KeepsOldFrame   == nodeOutbuf
WaitsForEver    == FALSE

PollWaits ==
  /\ fpc = "poll" /\ ~In!isEmpty(inRQue) /\ ~Out!isFull(outRQue)
  /\ nodeOut' = IF index = 0 THEN Out!getHead(outRQue) ELSE nodeOut
  /\ fpc' = IF index >= FrameWords THEN "isFull" ELSE "pull"
  /\ UNCHANGED <<inRQue, outRQue, inMem, outMem, index, nodeInbuf, group, overwrite,
                 callerVars, outVars, history>>

LeavesLocked(c) ==
  /\ cpc[c] = "release" /\ cpc' = [cpc EXCEPT ![c] = "idle"]
  /\ UNCHANGED <<inRQue, outRQue, inMem, outMem, dataInMutex, submitted, nodeIn,
                 formatVars, outVars, history>>

-----------------------------------------------------------------------------
\* The tests and the choices of the three functions.
MutexFree == dataInMutex = "free"              \* WaitForSingleObject returns
ClaimedSlot == In!getHead(inRQue)              \* the node to fill
Refused == In!isFull(inRQue)                   \* add returns false
NextNode == In!pulled(inRQue)                  \* what pull copies to nodeInbuf
FillSlot == IF index = 0 THEN Out!getHead(outRQue) ELSE nodeOut
FrameFull == index >= FrameWords
Fits == index + chNum <= FrameWords
NextFrame == Out!pulled(outRQue)               \* what pull copies to nodeOutbuf
TimesOut == xfer = "pending"                   \* WaitForXfer may return false

-----------------------------------------------------------------------------
\* queueBufStart, with haveInit set.
Call(c) ==
  /\ cpc[c] = "idle"
  /\ submitted + Cardinality({d \in Caller : cpc[d] = "lock"}) < MaxSamples
  /\ cpc' = [cpc EXCEPT ![c] = "lock"]
  /\ UNCHANGED <<inRQue, outRQue, inMem, outMem, dataInMutex, submitted, nodeIn,
                 formatVars, outVars, history>>

\* WaitForSingleObject(dataInMutex); inData = allChIn1.  Samples are numbered
\* in the order their callers get the mutex.
Enter(c) ==
  /\ cpc[c] = "lock" /\ MutexFree
  /\ dataInMutex' = c
  /\ submitted' = submitted + 1
  /\ cpc' = [cpc EXCEPT ![c] = "getHead"]
  /\ UNCHANGED <<inRQue, outRQue, inMem, outMem, nodeIn, formatVars, outVars, history>>

GetHead(c) ==
  /\ cpc[c] = "getHead"
  /\ nodeIn' = ClaimedSlot
  /\ cpc' = [cpc EXCEPT ![c] = "memcpy"]
  /\ UNCHANGED <<inRQue, outRQue, inMem, outMem, dataInMutex, submitted,
                 formatVars, outVars, history>>

CopyBegin(c) ==
  /\ cpc[c] = "memcpy"
  /\ inMem' = [inMem EXCEPT ![inRQue.buf[nodeIn]] = Torn]
  /\ overrun' = (overrun \/ inRQue.buf[nodeIn] \in InBusy)
  /\ cpc' = [cpc EXCEPT ![c] = "copying"]
  /\ UNCHANGED <<inRQue, outRQue, outMem, dataInMutex, submitted, nodeIn,
                 formatVars, outVars, reported>>

\* If the format thread wrote the same buffer meanwhile, the result is either
\* the sample or a mixture.
CopyEnd(c) ==
  LET b == inRQue.buf[nodeIn] IN
  /\ cpc[c] = "copying"
  /\ \E cell \in {Raw(submitted)} \cup (IF inMem[b] = Torn THEN {} ELSE {Torn}) :
       inMem' = [inMem EXCEPT ![b] = cell]
  /\ cpc' = [cpc EXCEPT ![c] = "add"]
  /\ UNCHANGED <<inRQue, outRQue, outMem, dataInMutex, submitted, nodeIn,
                 formatVars, outVars, history>>

\* inRQue.add(*nodeIn, false); a refusal prints "Data in false."
AddIn(c) ==
  /\ cpc[c] = "add"
  /\ inRQue' = In!add(inRQue, inRQue.buf[nodeIn], FALSE)
  /\ reported' = (reported \/ Refused)
  /\ cpc' = [cpc EXCEPT ![c] = "release"]
  /\ UNCHANGED <<outRQue, inMem, outMem, dataInMutex, submitted, nodeIn,
                 formatVars, outVars, overrun>>

Leave(c) ==
  /\ cpc[c] = "release"
  /\ dataInMutex' = "free"
  /\ cpc' = [cpc EXCEPT ![c] = "idle"]
  /\ UNCHANGED <<inRQue, outRQue, inMem, outMem, submitted, nodeIn,
                 formatVars, outVars, history>>

QueueBufStart(c) ==
  \/ Enter(c) \/ GetHead(c) \/ CopyBegin(c) \/ CopyEnd(c) \/ AddIn(c) \/ Leave(c)

-----------------------------------------------------------------------------
\* testFormat, one turn of its loop.  It does nothing at all, not even flush a
\* full output node, while the input ring is empty.
FormatPoll ==
  /\ fpc = "poll" /\ ~In!isEmpty(inRQue)
  /\ nodeOut' = FillSlot
  /\ fpc' = IF FrameFull THEN "isFull" ELSE "pull"
  /\ UNCHANGED <<inRQue, outRQue, inMem, outMem, index, nodeInbuf, group, overwrite,
                 callerVars, outVars, history>>

FormatPull ==
  /\ fpc = "pull"
  /\ inRQue' = In!pull(inRQue)
  /\ nodeInbuf' = IF In!isEmpty(inRQue) THEN nodeInbuf ELSE NextNode
  /\ fpc' = "split"
  /\ UNCHANGED <<outRQue, inMem, outMem, index, nodeOut, group, overwrite,
                 callerVars, outVars, history>>

\* waveDataFormat: read the node into oddGroup and evenGroup ...
FormatSplit ==
  /\ fpc = "split"
  /\ group' = inMem[nodeInbuf]
  /\ fpc' = "transpose"
  /\ UNCHANGED <<inRQue, outRQue, inMem, outMem, index, nodeOut, nodeInbuf, overwrite,
                 callerVars, outVars, history>>

\* ... write the transposed groups back into the node's own buffer ...
FormatTranspose ==
  /\ fpc = "transpose"
  /\ inMem' = [inMem EXCEPT ![nodeInbuf] = Transposed(group)]
  /\ fpc' = "store"
  /\ UNCHANGED <<inRQue, outRQue, outMem, index, nodeOut, nodeInbuf, group, overwrite,
                 callerVars, outVars, history>>

\* ... and copy that buffer to the output node if it still fits.
FormatStore ==
  LET b == outRQue.buf[nodeOut] IN
  /\ fpc = "store"
  /\ IF Fits
     THEN /\ outMem' = [outMem EXCEPT ![b][index \div chNum] = inMem[nodeInbuf]]
          /\ index' = index + chNum
          /\ overrun' = (overrun \/ b \in OutBusy)
     ELSE UNCHANGED <<outMem, index, overrun>>
  /\ fpc' = "poll"
  /\ UNCHANGED <<inRQue, outRQue, inMem, nodeOut, nodeInbuf, group, overwrite,
                 callerVars, outVars, reported>>

FormatIsFull ==
  /\ fpc = "isFull"
  /\ index' = 0
  /\ overwrite' = Out!isFull(outRQue)
  /\ fpc' = "add"
  /\ UNCHANGED <<inRQue, outRQue, inMem, outMem, nodeOut, nodeInbuf, group,
                 callerVars, outVars, history>>

\* The overwriting call prints "Data out false."
FormatAdd ==
  /\ fpc = "add"
  /\ outRQue' = Out!add(outRQue, outRQue.buf[nodeOut], overwrite)
  /\ reported' = (reported \/ overwrite)
  /\ fpc' = "poll"
  /\ UNCHANGED <<inRQue, inMem, outMem, index, nodeOut, nodeInbuf, group, overwrite,
                 callerVars, outVars, overrun>>

TestFormat ==
  \/ FormatPoll \/ FormatPull \/ FormatSplit \/ FormatTranspose
  \/ FormatStore \/ FormatIsFull \/ FormatAdd

-----------------------------------------------------------------------------
\* testOut.
OutPull ==
  /\ opc = "poll" /\ ~Out!isEmpty(outRQue)
  /\ outRQue' = Out!pull(outRQue)
  /\ nodeOutbuf' = NextFrame
  /\ opc' = "begin"
  /\ UNCHANGED <<inRQue, inMem, outMem, xfer, sent, dropped, callerVars, formatVars, history>>

\* BeginDataXfer hands the buffer to the driver, or is rejected; then the
\* thread returns and nobody pulls outRQue any more.
OutBegin ==
  /\ opc = "begin"
  /\ \/ opc' = "wait" /\ xfer' = "pending" /\ UNCHANGED dropped
     \/ opc' = "dead" /\ dropped' = dropped + 1 /\ UNCHANGED xfer
  /\ UNCHANGED <<inRQue, outRQue, inMem, outMem, nodeOutbuf, sent,
                 callerVars, formatVars, history>>

\* The device takes the frame out of the buffer (external).
UsbComplete ==
  /\ xfer = "pending"
  /\ xfer' = "done"
  /\ sent' = Append(sent, outMem[nodeOutbuf])
  /\ UNCHANGED <<inRQue, outRQue, inMem, outMem, opc, nodeOutbuf, dropped,
                 callerVars, formatVars, history>>

\* Or the transfer ends with an error; FinishDataXfer will say so to nobody (external).
UsbFail ==
  /\ xfer = "pending"
  /\ xfer' = "done"
  /\ dropped' = dropped + 1
  /\ UNCHANGED <<inRQue, outRQue, inMem, outMem, opc, nodeOutbuf, sent,
                 callerVars, formatVars, history>>

\* WaitForXfer returns true, or gives up after XFER_TIME_OUT.
OutWait ==
  /\ opc = "wait"
  /\ \/ xfer = "done" /\ opc' = "finish"
     \/ TimesOut /\ opc' = "abort"
  /\ UNCHANGED <<inRQue, outRQue, inMem, outMem, nodeOutbuf, xfer, sent, dropped,
                 callerVars, formatVars, history>>

\* Abort takes the request back within the two seconds it is waited for, unless it
\* has ended since the timeout.
OutAbort ==
  /\ opc = "abort" /\ opc' = "finish"
  /\ xfer' = "done"
  /\ dropped' = IF xfer = "pending" THEN dropped + 1 ELSE dropped
  /\ UNCHANGED <<inRQue, outRQue, inMem, outMem, nodeOutbuf, sent,
                 callerVars, formatVars, history>>

\* FinishDataXfer; its result is not used: an aborted frame is not sent again.
OutFinish ==
  /\ opc = "finish"
  /\ xfer' = "none"
  /\ opc' = "poll"
  /\ UNCHANGED <<inRQue, outRQue, inMem, outMem, nodeOutbuf, sent, dropped,
                 callerVars, formatVars, history>>

TestOut == OutPull \/ OutBegin \/ OutWait \/ OutAbort \/ OutFinish

Next ==
  \/ \E c \in Caller : Call(c) \/ QueueBufStart(c)
  \/ TestFormat
  \/ TestOut
  \/ UsbComplete \/ UsbFail

Spec == Init /\ [][Next]_vars

\* Every thread keeps running and a blocked caller gets the mutex in its turn.
\* Nothing makes LabVIEW call again, or the device complete a transfer.
Fairness ==
  /\ \A c \in Caller : WF_vars(QueueBufStart(c)) /\ SF_vars(Enter(c))
  /\ WF_vars(TestFormat)
  /\ WF_vars(TestOut)

FairSpec == Spec /\ Fairness

-----------------------------------------------------------------------------
TypeOK ==
  /\ inRQue \in In!Ring(0 .. InLen - 1) /\ outRQue \in Out!Ring(0 .. OutLen - 1)
  /\ inMem \in [0 .. InLen - 1 -> Cell]
  /\ outMem \in [0 .. OutLen - 1 -> [0 .. FrameNodes - 1 -> Cell]]
  /\ dataInMutex \in Caller \cup {"free"}
  /\ cpc \in [Caller -> {"idle", "lock", "getHead", "memcpy", "copying", "add", "release"}]
  /\ submitted \in 0 .. MaxSamples /\ nodeIn \in 0 .. InLen - 1
  /\ fpc \in {"poll", "pull", "split", "transpose", "store", "isFull", "add"}
  /\ index \in 0 .. FrameWords /\ nodeOut \in 0 .. OutLen - 1
  /\ nodeInbuf \in 0 .. InLen - 1 /\ group \in Cell /\ overwrite \in BOOLEAN
  /\ opc \in {"poll", "begin", "wait", "abort", "finish", "dead"}
  /\ nodeOutbuf \in 0 .. OutLen - 1 /\ xfer \in {"none", "pending", "done"}
  /\ sent \in Seq([0 .. FrameNodes - 1 -> Cell]) /\ dropped \in Nat
  /\ overrun \in BOOLEAN /\ reported \in BOOLEAN

\* No two slots of a ring ever share a buffer, although add copies a whole node
\* struct, data pointer included, into the head slot (RingBufCPP.h:42): queueBufStart
\* and testFormat only ever add the head node to its own place.
SlotsOwnBuffers ==
  /\ \A i, j \in DOMAIN inRQue.buf : inRQue.buf[i] = inRQue.buf[j] => i = j
  /\ \A i, j \in DOMAIN outRQue.buf : outRQue.buf[i] = outRQue.buf[j] => i = j

\* The pointers taken with getHead still name the head slot when they are used,
\* several steps and several unlocks later: nodeIn until the add, because callers
\* exclude one another; nodeOut while a frame is being filled, because only
\* testFormat adds (the worry of the comment at hjkUsbXferdll.cpp:278).
HeadPointersCurrent ==
  /\ \A c \in Caller : cpc[c] \in {"memcpy", "copying", "add"} => nodeIn = inRQue.head
  /\ fpc \in {"pull", "split", "transpose", "store", "isFull", "add"} \/ (index > 0)
       => nodeOut = outRQue.head

\* A ring is safe with one slot to spare: a buffer in use is written only when a
\* ring holds all its elements or all but one.
OverrunNeedsFullRing ==
  [][overrun' /\ ~overrun
       => inRQue.num >= InLen - 1 \/ outRQue.num >= OutLen - 1]_vars

\* "Data in false." and "Data out false." (lines 214 and 307) are never false alarms.
ReportsAreReal == reported => overrun

\* A frame never carries memory that no sample was copied to.
OnlySubmittedData ==
  \A i \in DOMAIN sent : \A k \in DOMAIN sent[i] : sent[i][k] # Fresh

-----------------------------------------------------------------------------
\* A sequence of frames as the device must see them: every frame holds
\* consecutive samples, each transposed exactly once, frames in order.
Intact(frames) ==
  /\ \A i \in DOMAIN frames :
       /\ frames[i][0].form = "bits"
       /\ \A k \in DOMAIN frames[i] : frames[i][k] = Bits(frames[i][0].sample + k)
  /\ \A i \in DOMAIN frames : i > 1 =>
       frames[i][0].sample >= frames[i - 1][0].sample + FrameNodes

\* As long as no buffer in use was written, the device sees an intact stream,
\* whatever times out.
StreamIntact == ~overrun => Intact(sent)

\* The samples between the caller and the device, oldest first: in the transfer,
\* in outRQue, in the node being filled, in testFormat's hands, in inRQue.
FramesInTransit ==
  (IF opc = "begin" \/ xfer = "pending" THEN <<nodeOutbuf>> ELSE <<>>) \o Out!Contents(outRQue)
CellsIn(frames) ==
  [i \in 1 .. FrameNodes * Len(frames) |->
     outMem[frames[(i - 1) \div FrameNodes + 1]][(i - 1) % FrameNodes]]
BeingFilled ==
  [k \in 1 .. IF fpc = "add" THEN FrameNodes ELSE index \div chNum
     |-> outMem[outRQue.buf[nodeOut]][k - 1]]
BeingFormatted ==
  CASE fpc = "split"     -> <<Transposed(inMem[nodeInbuf])>>
    [] fpc = "transpose" -> <<Transposed(group)>>
    [] fpc = "store"     -> <<inMem[nodeInbuf]>>
    [] OTHER             -> <<>>
Waiting == [i \in 1 .. inRQue.num |-> Transposed(inMem[In!Contents(inRQue)[i]])]

InTransit ==
  CellsIn(FramesInTransit) \o BeingFilled \o BeingFormatted \o Waiting

\* Samples whose add has been made.
Enqueued ==
  submitted - Cardinality({c \in Caller : cpc[c] \in {"getHead", "memcpy", "copying", "add"}})

\* Without an overrun no sample is lost, duplicated or reordered on its way: the
\* samples in transit are the latest ones, in order and ready to be transposed
\* or transposed once, and those before them went out in frames the device got
\* or the transfer was given up for.
NothingLost ==
  ~overrun =>
    /\ InTransit = [i \in 1 .. Len(InTransit) |-> Bits(Enqueued - Len(InTransit) + i)]
    /\ Enqueued = FrameNodes * (Len(sent) + dropped) + Len(InTransit)

-----------------------------------------------------------------------------
\* The device gets the oldest data first, "get the oldest data from the output queue
\* and send it" (the requirements document, 3.1.1), "send the head element"
\* (ReadMe.txt:45), unless it was reported "that data was lost" (ReadMe.txt:44).
SentInOrder ==
  ~reported =>
    \A i, j \in DOMAIN sent : \A k, l \in 0 .. FrameNodes - 1 :
      /\ (i < j \/ (i = j /\ k < l))
      /\ sent[i][k].form = "bits" /\ sent[j][l].form = "bits"
      => sent[i][k].sample < sent[j][l].sample

\* "When the node is full, it is put in the output queue" (hjkUsbXferdll.cpp:292).
FullFrameQueued == FrameFull ~> index = 0

\* Every call of queueBufStart returns, whatever the other threads do.
CallReturns == \A c \in Caller : cpc[c] = "lock" ~> cpc[c] = "idle"

\* Once calls stop, the input ring runs empty even if testOut has died, and the
\* output ring runs empty unless it has.
InputDrains  == <>[]In!isEmpty(inRQue)
OutputDrains == <>[](Out!isEmpty(outRQue) \/ opc = "dead")
=============================================================================
