---------------------------- MODULE InterfaceOfUSB --------------------------
(***************************************************************************)
(* The class InterfaceOfUSB of usbdac_sim/InterfaceOfUSB.cpp: two rings,   *)
(* each paired with a counting semaphore, between an input thread          *)
(* (interfaceForIn), an interface thread that calls interfaceStart for     *)
(* ever, and a USB thread (interfaceForUSBOut).                            *)
(*                                                                         *)
(* The ring methods are atomic, and between any two of them, and between   *)
(* a method and the ReleaseSemaphore that follows it, the other threads    *)
(* run.  A node is numbered in the order of submission.  All nodes queued  *)
(* in outRQueue are copies of the struct tempMidNode and point to its one  *)
(* buffer, mid; a number tells the copies apart.                           *)
(***************************************************************************)
EXTENDS Integers, Sequences

CONSTANTS
  InLen,      \* IN_RQUEUE_LEN
  OutLen,     \* OUT_RQUEUE_LEN
  MidLen,     \* input nodes that fill tempMidNode (5 in the code)
  MaxNodes    \* bound on the nodes submitted in one behaviour

ASSUME InterfaceAssumption ==
  /\ InLen \in Nat \ {0} /\ OutLen \in Nat \ {0} /\ MidLen \in Nat \ {0}
  /\ MaxNodes \in Nat

VARIABLES
  inRQueue, outRQueue,
  inQ2MidNodeSem, midNode2OutQSem,   \* semaphore counts
  ipc, inNode,                       \* interfaceForIn and its argument
  failures,                          \* calls that printed "failed" and returned false
  fpc, index, tempInNode, mid,       \* interfaceStart; index counts nodes, not bytes
  opc,                               \* interfaceForUSBOut
  taken,                             \* history: what tempInNode held after each pull
  frames                             \* history: what mid held at each add to outRQueue

inVars  == <<ipc, inNode>>
midVars == <<fpc, index, tempInNode, mid, taken, frames>>
vars == <<inRQueue, outRQueue, inQ2MidNodeSem, midNode2OutQSem, inVars, midVars, opc, failures>>

In  == INSTANCE RingBufOps WITH MaxElements <- InLen
Out == INSTANCE RingBufOps WITH MaxElements <- OutLen

\* ReleaseSemaphore(sem, 1, NULL) fails, changing nothing, at the maximum count,
\* which the constructor sets to the length of the ring.
Released(count, max) == IF count < max THEN count + 1 ELSE count

One(b) == IF b THEN 1 ELSE 0

Init ==
  /\ inRQueue = In!NewRing([s \in In!Slot |-> 0])
  /\ outRQueue = Out!NewRing([s \in Out!Slot |-> 0])
  /\ inQ2MidNodeSem = 0 /\ midNode2OutQSem = 0
  /\ ipc = "idle" /\ inNode = 0 /\ failures = 0
  /\ fpc = "poll" /\ index = 0 /\ tempInNode = 0 /\ mid = [k \in 0 .. MidLen - 1 |-> 0]
  /\ opc = "poll"
  /\ taken = <<>> /\ frames = <<>>

-----------------------------------------------------------------------------
\* Deliberate errors, each a variant of a definition below that the properties
\* have to notice.
FullTooSoon == index + 1 >= MidLen
FullTooLate == index > MidLen
UsesFirstAnswer == ipc = "add"
ReleasesIfRoomSeen(kind) == kind = "add"
TrustsSemaphore == opc = "poll"

-----------------------------------------------------------------------------
\* interfaceForIn.  isFull decides which of the two calls of add follows.
InTest ==
  /\ ipc = "idle" /\ inNode < MaxNodes
  /\ inNode' = inNode + 1
  /\ ipc' = IF In!isFull(inRQueue) THEN "overwrite" ELSE "add"
  /\ UNCHANGED <<inRQueue, outRQueue, inQ2MidNodeSem, midNode2OutQSem, midVars, opc, failures>>

\* add returns true if there was room, and only then is the semaphore released.
\* Otherwise the call reports a failure and returns false (lines 94-98 and 109-113):
\* also when the add did overwrite, whose node is in the queue all the same.
AddReturned == ~In!isFull(inRQueue)

InAdd ==
  /\ ipc \in {"add", "overwrite"}
  /\ inRQueue' = In!add(inRQueue, inNode, ipc = "overwrite")
  /\ ipc' = IF AddReturned THEN "release" ELSE "idle"
  /\ failures' = failures + One(~AddReturned)
  /\ UNCHANGED <<outRQueue, inQ2MidNodeSem, midNode2OutQSem, inNode, midVars, opc>>

InRelease ==
  /\ ipc = "release" /\ ipc' = "idle"
  /\ inQ2MidNodeSem' = Released(inQ2MidNodeSem, InLen)
  /\ UNCHANGED <<inRQueue, outRQueue, midNode2OutQSem, inNode, midVars, opc, failures>>

InterfaceForIn == InTest \/ InAdd \/ InRelease

-----------------------------------------------------------------------------
\* interfaceStart.  Nothing happens while inRQueue is empty.
MidFull == index >= MidLen

StartPoll ==
  /\ fpc = "poll" /\ ~In!isEmpty(inRQueue)
  /\ IF MidFull
       THEN index' = 0 /\ fpc' = "isFull"
       ELSE fpc' = "wait" /\ UNCHANGED index
  /\ UNCHANGED <<inRQueue, outRQueue, inQ2MidNodeSem, midNode2OutQSem, inVars,
                 tempInNode, mid, taken, frames, opc, failures>>

\* WaitForSingleObject with TIMEOUT_MS = INFINITE.
StartWait ==
  /\ fpc = "wait" /\ inQ2MidNodeSem > 0
  /\ inQ2MidNodeSem' = inQ2MidNodeSem - 1
  /\ fpc' = "pull"
  /\ UNCHANGED <<inRQueue, outRQueue, midNode2OutQSem, inVars,
                 index, tempInNode, mid, taken, frames, opc, failures>>

\* The result of pull is not looked at: if it failed, tempInNode would keep the
\* node before and format it a second time.
StartPull ==
  /\ fpc = "pull" /\ fpc' = "store"
  /\ inRQueue' = In!pull(inRQueue)
  /\ tempInNode' = IF In!isEmpty(inRQueue) THEN tempInNode ELSE In!pulled(inRQueue)
  /\ taken' = Append(taken, tempInNode')
  /\ UNCHANGED <<outRQueue, inQ2MidNodeSem, midNode2OutQSem, inVars, index, mid, frames, opc, failures>>

\* HjkDataFormat::waveDataFormat of the simulator: a copy, which fits because
\* tempMidNode is a whole number of nodes long.
StartStore ==
  /\ fpc = "store" /\ fpc' = "poll"
  /\ mid' = [mid EXCEPT ![index] = tempInNode]
  /\ index' = index + 1
  /\ UNCHANGED <<inRQueue, outRQueue, inQ2MidNodeSem, midNode2OutQSem, inVars,
                 tempInNode, taken, frames, opc, failures>>

StartIsFull ==
  /\ fpc = "isFull"
  /\ fpc' = IF Out!isFull(outRQueue) THEN "overwrite" ELSE "add"
  /\ UNCHANGED <<inRQueue, outRQueue, inQ2MidNodeSem, midNode2OutQSem, inVars,
                 index, tempInNode, mid, taken, frames, opc, failures>>

\* Whether ReleaseSemaphore follows the add in this branch: it does in both.
ReleasesAfter(kind) == kind \in {"add", "overwrite"}

StartAdd ==
  /\ fpc \in {"add", "overwrite"}
  /\ outRQueue' = Out!add(outRQueue, Len(frames) + 1, fpc = "overwrite")
  /\ frames' = Append(frames, mid)
  /\ fpc' = IF ReleasesAfter(fpc) THEN "release" ELSE "poll"
  /\ UNCHANGED <<inRQueue, inQ2MidNodeSem, midNode2OutQSem, inVars,
                 index, tempInNode, mid, taken, opc, failures>>

StartRelease ==
  /\ fpc = "release" /\ fpc' = "poll"
  /\ midNode2OutQSem' = Released(midNode2OutQSem, OutLen)
  /\ UNCHANGED <<inRQueue, outRQueue, inQ2MidNodeSem, inVars,
                 index, tempInNode, mid, taken, frames, opc, failures>>

InterfaceStart ==
  StartPoll \/ StartWait \/ StartPull \/ StartStore \/ StartIsFull \/ StartAdd \/ StartRelease

-----------------------------------------------------------------------------
\* interfaceForUSBOut.  The node is pulled into a by-value parameter; a pull that
\* fails is reported.
OutReady == opc = "poll" /\ ~Out!isEmpty(outRQueue)

OutPoll ==
  /\ OutReady /\ opc' = "wait"
  /\ UNCHANGED <<inRQueue, outRQueue, inQ2MidNodeSem, midNode2OutQSem, inVars, midVars, failures>>

OutWait ==
  /\ opc = "wait" /\ midNode2OutQSem > 0
  /\ midNode2OutQSem' = midNode2OutQSem - 1
  /\ opc' = "pull"
  /\ UNCHANGED <<inRQueue, outRQueue, inQ2MidNodeSem, inVars, midVars, failures>>

OutPull ==
  /\ opc = "pull" /\ opc' = "poll"
  /\ outRQueue' = Out!pull(outRQueue)
  /\ failures' = failures + One(Out!isEmpty(outRQueue))
  /\ UNCHANGED <<inRQueue, inQ2MidNodeSem, midNode2OutQSem, inVars, midVars>>

InterfaceForUSBOut == OutPoll \/ OutWait \/ OutPull

-----------------------------------------------------------------------------
Next == InterfaceForIn \/ InterfaceStart \/ InterfaceForUSBOut

Spec == Init /\ [][Next]_vars

\* The three threads keep running; a call once begun is carried on, but nothing
\* makes the input thread call again.
Fairness ==
  /\ WF_vars(InAdd \/ InRelease)
  /\ WF_vars(InterfaceStart)
  /\ WF_vars(InterfaceForUSBOut)

FairSpec == Spec /\ Fairness

-----------------------------------------------------------------------------
TypeOK ==
  /\ inRQueue \in In!Ring(0 .. MaxNodes) /\ outRQueue \in Out!Ring(Nat)
  /\ inQ2MidNodeSem \in 0 .. InLen /\ midNode2OutQSem \in 0 .. OutLen
  /\ ipc \in {"idle", "add", "overwrite", "release"} /\ inNode \in 0 .. MaxNodes
  /\ fpc \in {"poll", "wait", "pull", "store", "isFull", "add", "overwrite", "release"}
  /\ index \in 0 .. MidLen /\ (fpc \in {"wait", "pull", "store"} => index < MidLen)
  /\ tempInNode \in 0 .. MaxNodes
  /\ mid \in [0 .. MidLen - 1 -> 0 .. MaxNodes]
  /\ opc \in {"poll", "wait", "pull"} /\ failures \in Nat
  /\ taken \in Seq(0 .. MaxNodes) /\ frames \in Seq([0 .. MidLen - 1 -> 0 .. MaxNodes])

\* inQ2MidNodeSem counts the nodes of inRQueue, but for the one not announced yet
\* and the one about to be taken; midNode2OutQSem counts at least the frames of
\* outRQueue, for an overwriting add releases it too.  A missing token would block a
\* thread that has work waiting (InterfaceOfUSB.cpp:127 and 168).
SemaphoresCount ==
  /\ inQ2MidNodeSem + One(ipc = "release") + One(fpc = "pull") = inRQueue.num
  /\ midNode2OutQSem + One(fpc = "release") + One(opc = "pull") >= outRQueue.num

\* A "not full" and a "not empty" are asked some steps before add and pull act, and
\* still hold then: the branch "that is never executed" (InterfaceOfUSB.cpp:94) and the
\* one at line 173 are not.  A "full" may go stale, and the add then finds room.
AnswersHold ==
  /\ ipc = "add" => ~In!isFull(inRQueue)
  /\ fpc = "add" => ~Out!isFull(outRQueue)
  /\ fpc = "pull" => ~In!isEmpty(inRQueue)
  /\ opc = "pull" => ~Out!isEmpty(outRQueue)

\* Each call that returns false has cost exactly one node, the oldest queued, and no
\* other node is lost: a node submitted was taken, is queued, or is one of those
\* reported, whatever the other threads did between isFull and add.
FailuresAreLosses ==
  /\ inNode - One(ipc \in {"add", "overwrite"}) = Len(taken) + inRQueue.num + failures
  /\ AnswersHold

\* Nodes are taken in the order they were submitted and never twice, although pull
\* is used without its result and an add may overwrite while StartPull is pending.
TakenInOrder == \A i, j \in DOMAIN taken : i < j => taken[i] < taken[j]

\* The frames added to outRQueue are the nodes taken, cut into pieces of MidLen, and
\* the ring keeps the newest of them in order: of a full ring only the oldest is
\* dropped (InterfaceOfUSB.h:12-13).
FramesWhole ==
  /\ Len(taken) >= Len(frames) * MidLen
  /\ \A i \in DOMAIN frames : \A k \in 0 .. MidLen - 1 :
       frames[i][k] = taken[(i - 1) * MidLen + k + 1]
  /\ outRQueue.num <= Len(frames)
  /\ \A i \in 1 .. outRQueue.num :
       Out!Contents(outRQueue)[i] = Len(frames) - outRQueue.num + i

\* What the head node points to when it is taken out is the frame queued as that
\* node: "the head element is sent" (ReadMe.txt:45, InterfaceOfUSB.h:76).  The code
\* gives every node of the ring the same buffer, tempMidNode's (line 144).
HeadFrameSent == opc = "pull" => mid = frames[Out!pulled(outRQueue)]

\* The two waits, which have no timeout, end: there is a token for whoever saw a
\* node.
WaitsEnd ==
  /\ fpc = "wait" ~> fpc = "pull"
  /\ opc = "wait" ~> opc = "pull"

\* Once calls stop, both rings run empty.
InterfaceDrains == <>[](In!isEmpty(inRQueue) /\ Out!isEmpty(outRQueue))
=============================================================================
