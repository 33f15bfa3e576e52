--------------------------- MODULE HjkUSBInterface --------------------------
(***************************************************************************)
(* The class template of usbdac_sim/HjkUSBInterface.h, the later copy of   *)
(* InterfaceOfUSB: nodes contain their data, and interfaceStart fills a    *)
(* frame in the head slot of outRQueue itself.  Its wait for the input     *)
(* semaphore and both its releases of the output semaphore are commented   *)
(* out; interfaceForUSBOut still waits for the latter.                     *)
(*                                                                         *)
(* The simulator has one object of it, and the call of interfaceStart in   *)
(* testFormat is commented out.  The three threads are those the comments  *)
(* of InterfaceOfUSB.h assign to the methods.                              *)
(***************************************************************************)
EXTENDS SimRing, Sequences

CONSTANTS
  InElems,     \* inQueElems
  OutElems,    \* outQueElems
  FrameNodes,  \* input nodes in an output node
  MaxNodes     \* bound on the nodes submitted in one behaviour

VARIABLES
  inRQueue, outRQueue,              \* of nodes, numbered as submitted, and of frames
  inQ2MidNodeSem, midNode2OutQSem,  \* semaphore counts
  ipc, inNode,                      \* interfaceForIn and its argument
  fpc, index, tempInNode, tempMidNode, overwrite, \* interfaceStart
  opc                               \* interfaceForUSBOut

inVars  == <<inQ2MidNodeSem, ipc, inNode>>
midVars == <<fpc, index, tempInNode, tempMidNode, overwrite>>
outVars == <<midNode2OutQSem, opc>>
vars == <<inRQueue, outRQueue, inVars, midVars, outVars>>

Released(count, max) == IF count < max THEN count + 1 ELSE count

Init ==
  /\ inRQueue = NewRing(InElems, [s \in 0 .. InElems - 1 |-> 0])
  /\ outRQueue = NewRing(OutElems, [s \in 0 .. OutElems - 1 |-> [k \in 0 .. FrameNodes - 1 |-> 0]])
  /\ inQ2MidNodeSem = 0 /\ midNode2OutQSem = 0
  /\ ipc = "idle" /\ inNode = 0
  /\ fpc = "poll" /\ index = 0 /\ tempInNode = 0 /\ tempMidNode = 0 /\ overwrite = FALSE
  /\ opc = "poll"

-----------------------------------------------------------------------------
\* interfaceForIn: the semaphore is released when add reports that there was room.
InTest ==
  /\ ipc = "idle" /\ inNode < MaxNodes
  /\ inNode' = inNode + 1
  /\ ipc' = IF isFull(inRQueue) THEN "overwrite" ELSE "add"
  /\ UNCHANGED <<inRQueue, outRQueue, inQ2MidNodeSem, midVars, outVars>>

InAdd ==
  /\ ipc \in {"add", "overwrite"}
  /\ inRQueue' = add(inRQueue, inNode, ipc = "overwrite")
  /\ ipc' = IF isFull(inRQueue) THEN "idle" ELSE "release"
  /\ UNCHANGED <<outRQueue, inQ2MidNodeSem, inNode, midVars, outVars>>

InRelease ==
  /\ ipc = "release" /\ ipc' = "idle"
  /\ inQ2MidNodeSem' = Released(inQ2MidNodeSem, InElems)
  /\ UNCHANGED <<inRQueue, outRQueue, inNode, midVars, outVars>>

InterfaceForIn == InTest \/ InAdd \/ InRelease

-----------------------------------------------------------------------------
\* interfaceStart, which waits for nothing.
StartPoll ==
  /\ fpc = "poll" /\ ~isEmpty(inRQueue)
  /\ tempMidNode' = getHead(outRQueue)
  /\ fpc' = IF index < FrameNodes THEN "pull" ELSE "isFull"
  /\ UNCHANGED <<inRQueue, outRQueue, index, tempInNode, overwrite, inVars, outVars>>

StartPull ==
  /\ fpc = "pull" /\ fpc' = "store"
  /\ inRQueue' = pull(inRQueue)
  /\ tempInNode' = IF isEmpty(inRQueue) THEN tempInNode ELSE pulled(inRQueue)
  /\ UNCHANGED <<outRQueue, index, tempMidNode, overwrite, inVars, outVars>>

StartStore ==
  /\ fpc = "store" /\ fpc' = "poll"
  /\ outRQueue' = [outRQueue EXCEPT !.buf[tempMidNode][index] = tempInNode]
  /\ index' = index + 1
  /\ UNCHANGED <<inRQueue, tempInNode, tempMidNode, overwrite, inVars, outVars>>

StartIsFull ==
  /\ fpc = "isFull" /\ fpc' = "add"
  /\ index' = 0
  /\ overwrite' = isFull(outRQueue)
  /\ UNCHANGED <<inRQueue, outRQueue, tempInNode, tempMidNode, inVars, outVars>>

\* The releases of midNode2OutQSem that follow in InterfaceOfUSB are comments here.
StartAdd ==
  /\ fpc = "add" /\ fpc' = "poll"
  /\ outRQueue' = add(outRQueue, outRQueue.buf[tempMidNode], overwrite)
  /\ UNCHANGED <<inRQueue, index, tempInNode, tempMidNode, overwrite, inVars, outVars>>

InterfaceStart == StartPoll \/ StartPull \/ StartStore \/ StartIsFull \/ StartAdd

-----------------------------------------------------------------------------
\* interfaceForUSBOut: WaitForSingleObject with TIMEOUT_MS = INFINITE, then pull.
OutPoll ==
  /\ opc = "poll" /\ ~isEmpty(outRQueue) /\ opc' = "wait"
  /\ UNCHANGED <<inRQueue, outRQueue, inVars, midVars, midNode2OutQSem>>

OutWait ==
  /\ opc = "wait" /\ midNode2OutQSem > 0 /\ opc' = "pull"
  /\ midNode2OutQSem' = midNode2OutQSem - 1
  /\ UNCHANGED <<inRQueue, outRQueue, inVars, midVars>>

OutPull ==
  /\ opc = "pull" /\ opc' = "poll"
  /\ outRQueue' = pull(outRQueue)
  /\ UNCHANGED <<inRQueue, inVars, midVars, midNode2OutQSem>>

InterfaceForUSBOut == OutPoll \/ OutWait \/ OutPull

-----------------------------------------------------------------------------
Next == InterfaceForIn \/ InterfaceStart \/ InterfaceForUSBOut

Spec == Init /\ [][Next]_vars

\* The threads keep running; nothing makes the input thread call again.
Fairness ==
  /\ WF_vars(InAdd \/ InRelease)
  /\ WF_vars(InterfaceStart)
  /\ WF_vars(InterfaceForUSBOut)

FairSpec == Spec /\ Fairness

-----------------------------------------------------------------------------
\* "The semaphore is greater than 0, or else the node at the head is not enqueued yet
\* and cannot be pulled" (HjkUSBInterface.h:175): once frames are queued the wait ends.
\* The code never releases the semaphore it waits for.
OutWaitEnds == opc = "wait" ~> opc = "pull"
=============================================================================
