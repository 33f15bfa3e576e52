------------------------ MODULE InterfaceOfUSB_proofs -----------------------
(***************************************************************************)
(* The semaphores of InterfaceOfUSB agree with the rings, its reported     *)
(* failures with the nodes it loses; it takes the nodes in order, cuts     *)
(* them into frames and keeps the newest of these queued, for rings and    *)
(* frames of any length.                                                   *)
(***************************************************************************)
EXTENDS InterfaceOfUSB, TLAPS

InP  == INSTANCE RingBufOps_proofs WITH MaxElements <- InLen
OutP == INSTANCE RingBufOps_proofs WITH MaxElements <- OutLen

Node == 0 .. MaxNodes
Frame == [0 .. MidLen - 1 -> Node]

\* TypeOK in two parts: the input side, and the rest.
InputTypes ==
  /\ inRQueue \in In!Ring(Node) /\ inQ2MidNodeSem \in 0 .. InLen
  /\ ipc \in {"idle", "add", "overwrite", "release"} /\ inNode \in Node
  /\ tempInNode \in Node /\ taken \in Seq(Node) /\ failures \in Nat

OutputTypes ==
  /\ outRQueue \in Out!Ring(Nat) /\ midNode2OutQSem \in 0 .. OutLen
  /\ fpc \in {"poll", "wait", "pull", "store", "isFull", "add", "overwrite", "release"}
  /\ index \in 0 .. MidLen /\ (fpc \in {"wait", "pull", "store"} => index < MidLen)
  /\ mid \in Frame /\ opc \in {"poll", "wait", "pull"} /\ frames \in Seq(Frame)

\* A frame that interfaceForUSBOut has seen is still there while it waits.
FrameSeen == opc = "wait" => ~Out!isEmpty(outRQueue)

\* The nodes taken, then those queued, in the order submitted; inNode is not among
\* them before its add.
Newest == IF ipc \in {"add", "overwrite"} THEN inNode - 1 ELSE inNode
Q == In!Contents(inRQueue)
Increasing(s) == \A i, j \in DOMAIN s : i < j => s[i] < s[j]
NodesOrdered ==
  /\ Increasing(taken) /\ Increasing(Q)
  /\ \A i \in DOMAIN taken : taken[i] <= Newest
  /\ \A j \in DOMAIN Q : Q[j] <= Newest
  /\ \A i \in DOMAIN taken, j \in DOMAIN Q : taken[i] < Q[j]

IInv ==
  /\ InputTypes /\ OutputTypes /\ SemaphoresCount
  /\ AnswersHold /\ FrameSeen /\ NodesOrdered

-----------------------------------------------------------------------------
\* The ring lemmas, for the two rings of the class.
LEMMA InAdded ==
  ASSUME NEW r \in In!Ring(Node), NEW obj \in Node, NEW overwrite \in BOOLEAN,
         overwrite \/ ~In!isFull(r)
  PROVE  /\ In!add(r, obj, overwrite) \in In!Ring(Node)
         /\ In!add(r, obj, overwrite).num = IF In!isFull(r) THEN r.num ELSE r.num + 1
         /\ In!Contents(In!add(r, obj, overwrite)) =
              Append(IF In!isFull(r) THEN Tail(In!Contents(r)) ELSE In!Contents(r), obj)
<1>1. /\ In!add(r, obj, overwrite) = InP!Added(r, obj)
      /\ InP!Added(r, obj).num = IF In!isFull(r) THEN r.num ELSE r.num + 1
  BY DEF In!add, In!Admits, In!Added, InP!Added, In!isFull, InP!isFull
<1>2. r \in InP!Ring(Node) /\ (In!isFull(r) <=> InP!isFull(r))
  BY DEF In!Ring, InP!Ring, In!Slot, InP!Slot, In!isFull, InP!isFull
<1>3. InLen \in Nat \ {0}
  BY InterfaceAssumption
<1>4. InP!Added(r, obj) \in In!Ring(Node)
  <2>1. InP!Added(r, obj) \in InP!Ring(Node)
    BY <1>2, <1>3, InP!AddedType DEF InP!MaxElementsAssumption
  <2> QED
    BY <2>1 DEF In!Ring, InP!Ring, In!Slot, InP!Slot
<1>5. InP!Contents(InP!Added(r, obj)) =
        Append(IF InP!isFull(r) THEN Tail(InP!Contents(r)) ELSE InP!Contents(r), obj)
  BY <1>2, <1>3, InP!AddAppends, InP!AddOverwrites DEF InP!MaxElementsAssumption
<1>6. \A x : InP!Contents(x) = In!Contents(x)
  BY DEF InP!Contents, In!Contents, InP!SlotAt, In!SlotAt, InP!getTail, In!getTail
<1> QED
  BY <1>1, <1>2, <1>4, <1>5, <1>6

LEMMA InPulled ==
  ASSUME NEW r \in In!Ring(Node), ~In!isEmpty(r)
  PROVE  /\ In!pull(r) \in In!Ring(Node)
         /\ In!pull(r).num = r.num - 1
         /\ In!Contents(r) # <<>>
         /\ In!pulled(r) = In!Contents(r)[1]
         /\ In!Contents(In!pull(r)) = Tail(In!Contents(r))
<1>1. In!pull(r) = InP!pull(r) /\ In!pulled(r) = InP!pulled(r) /\ ~InP!isEmpty(r)
  BY DEF InP!pull, In!pull, InP!pulled, In!pulled, InP!isEmpty, In!isEmpty,
         InP!getTail, In!getTail
<1>2. r \in InP!Ring(Node) /\ InLen \in Nat \ {0}
  BY InterfaceAssumption DEF In!Ring, InP!Ring, In!Slot, InP!Slot
<1>3. /\ InP!pull(r) \in InP!Ring(Node)
      /\ InP!Contents(r) # <<>>
      /\ InP!pulled(r) = InP!Contents(r)[1]
      /\ InP!Contents(InP!pull(r)) = Tail(InP!Contents(r))
  BY <1>1, <1>2, InP!PullTakes DEF InP!MaxElementsAssumption
<1>4. \A x : InP!Contents(x) = In!Contents(x)
  BY DEF InP!Contents, In!Contents, InP!SlotAt, In!SlotAt, InP!getTail, In!getTail
<1>5. InP!pull(r) \in In!Ring(Node)
  BY <1>3 DEF In!Ring, InP!Ring, In!Slot, InP!Slot
<1>6. In!pull(r).num = r.num - 1
  BY <1>2 DEF In!pull, In!Ring
<1> QED
  BY <1>1, <1>3, <1>4, <1>5, <1>6

LEMMA InQueue ==
  ASSUME NEW r \in In!Ring(Node)
  PROVE  In!Contents(r) \in Seq(Node) /\ Len(In!Contents(r)) = r.num /\ r.num \in 0 .. InLen
<1>1. r \in InP!Ring(Node) /\ InLen \in Nat \ {0}
  BY InterfaceAssumption DEF In!Ring, InP!Ring, In!Slot, InP!Slot
<1>2. InP!Contents(r) \in Seq(Node) /\ Len(InP!Contents(r)) = r.num
  BY <1>1, InP!ContentsSeq DEF InP!MaxElementsAssumption
<1>3. InP!Contents(r) = In!Contents(r)
  BY DEF InP!Contents, In!Contents, InP!SlotAt, In!SlotAt, InP!getTail, In!getTail
<1> QED
  BY <1>2, <1>3 DEF In!Ring

LEMMA OutAdded ==
  ASSUME NEW r \in Out!Ring(Nat), NEW obj \in Nat, NEW overwrite \in BOOLEAN,
         overwrite \/ ~Out!isFull(r)
  PROVE  /\ Out!add(r, obj, overwrite) \in Out!Ring(Nat)
         /\ Out!add(r, obj, overwrite).num = IF Out!isFull(r) THEN r.num ELSE r.num + 1
         /\ Out!Contents(Out!add(r, obj, overwrite)) =
              Append(IF Out!isFull(r) THEN Tail(Out!Contents(r)) ELSE Out!Contents(r), obj)
<1>1. /\ Out!add(r, obj, overwrite) = OutP!Added(r, obj)
      /\ OutP!Added(r, obj).num = IF Out!isFull(r) THEN r.num ELSE r.num + 1
  BY DEF Out!add, Out!Admits, Out!Added, OutP!Added, Out!isFull, OutP!isFull
<1>2. r \in OutP!Ring(Nat) /\ OutLen \in Nat \ {0} /\ (Out!isFull(r) <=> OutP!isFull(r))
  BY InterfaceAssumption DEF Out!Ring, OutP!Ring, Out!Slot, OutP!Slot, Out!isFull, OutP!isFull
<1>3. OutP!Added(r, obj) \in OutP!Ring(Nat)
  BY <1>2, OutP!AddedType DEF OutP!MaxElementsAssumption
<1>4. OutP!Added(r, obj) \in Out!Ring(Nat)
  BY <1>3 DEF Out!Ring, OutP!Ring, Out!Slot, OutP!Slot
<1>5. OutP!Contents(OutP!Added(r, obj)) =
        Append(IF OutP!isFull(r) THEN Tail(OutP!Contents(r)) ELSE OutP!Contents(r), obj)
  BY <1>2, OutP!AddAppends, OutP!AddOverwrites DEF OutP!MaxElementsAssumption
<1>6. \A x : OutP!Contents(x) = Out!Contents(x)
  BY DEF OutP!Contents, Out!Contents, OutP!SlotAt, Out!SlotAt, OutP!getTail, Out!getTail
<1> QED
  BY <1>1, <1>2, <1>4, <1>5, <1>6

LEMMA OutPulled ==
  ASSUME NEW r \in Out!Ring(Nat), ~Out!isEmpty(r)
  PROVE  /\ Out!pull(r) \in Out!Ring(Nat) /\ Out!pull(r).num = r.num - 1
         /\ Out!Contents(Out!pull(r)) = Tail(Out!Contents(r))
<1>1. Out!pull(r) \in Out!Ring(Nat) /\ Out!pull(r).num = r.num - 1
  BY InterfaceAssumption, SMT DEF Out!pull, Out!Ring, Out!isEmpty
<1>2. Out!pull(r) = OutP!pull(r) /\ ~OutP!isEmpty(r)
  BY DEF OutP!pull, Out!pull, OutP!isEmpty, Out!isEmpty
<1>3. r \in OutP!Ring(Nat) /\ OutLen \in Nat \ {0}
  BY InterfaceAssumption DEF Out!Ring, OutP!Ring, Out!Slot, OutP!Slot
<1>4. OutP!Contents(OutP!pull(r)) = Tail(OutP!Contents(r))
  BY <1>2, <1>3, OutP!PullTakes DEF OutP!MaxElementsAssumption
<1>5. \A x : OutP!Contents(x) = Out!Contents(x)
  BY DEF OutP!Contents, Out!Contents, OutP!SlotAt, Out!SlotAt, OutP!getTail, Out!getTail
<1> QED
  BY <1>1, <1>2, <1>4, <1>5

LEMMA OutQueue ==
  ASSUME NEW r \in Out!Ring(Nat)
  PROVE  Out!Contents(r) \in Seq(Nat) /\ Len(Out!Contents(r)) = r.num /\ r.num \in 0 .. OutLen
<1>1. r \in OutP!Ring(Nat) /\ OutLen \in Nat \ {0}
  BY InterfaceAssumption DEF Out!Ring, OutP!Ring, Out!Slot, OutP!Slot
<1>2. OutP!Contents(r) \in Seq(Nat) /\ Len(OutP!Contents(r)) = r.num
  BY <1>1, OutP!ContentsSeq DEF OutP!MaxElementsAssumption
<1>3. OutP!Contents(r) = Out!Contents(r)
  BY DEF OutP!Contents, Out!Contents, OutP!SlotAt, Out!SlotAt, OutP!getTail, Out!getTail
<1> QED
  BY <1>2, <1>3 DEF Out!Ring

-----------------------------------------------------------------------------
LEMMA InitInv == Init => IInv
<1> SUFFICES ASSUME Init PROVE IInv
  OBVIOUS
<1>1. /\ In!Slot = 0 .. InLen - 1 /\ Out!Slot = 0 .. OutLen - 1
      /\ inRQueue = [head |-> 0, num |-> 0, buf |-> [s \in 0 .. InLen - 1 |-> 0]]
      /\ outRQueue = [head |-> 0, num |-> 0, buf |-> [s \in 0 .. OutLen - 1 |-> 0]]
  BY DEF Init, In!NewRing, Out!NewRing, In!Slot, Out!Slot
<1>2. /\ 0 \in 0 .. InLen - 1 /\ 0 \in 0 .. OutLen - 1 /\ 0 \in 0 .. InLen /\ 0 \in 0 .. OutLen
      /\ 0 \in Node /\ 0 \in 0 .. MidLen /\ InLen > 0 /\ OutLen > 0
  BY InterfaceAssumption DEF Node
<1>3. inRQueue \in In!Ring(Node) /\ outRQueue \in Out!Ring(Nat)
  BY <1>1, <1>2 DEF In!Ring, Out!Ring
<1>4. InputTypes /\ OutputTypes
  BY <1>2, <1>3 DEF Init, InputTypes, OutputTypes, Frame
<1>5. SemaphoresCount /\ AnswersHold /\ FrameSeen
  <2>1. inRQueue.num = 0 /\ outRQueue.num = 0
    BY <1>1
  <2>2. /\ ipc = "idle" /\ fpc = "poll" /\ opc = "poll"
        /\ inQ2MidNodeSem = 0 /\ midNode2OutQSem = 0
    BY DEF Init
  <2> QED
    BY <2>1, <2>2 DEF SemaphoresCount, AnswersHold, FrameSeen, One
<1>6. NodesOrdered
  <2>1. Q \in Seq(Node) /\ Len(Q) = 0
    BY <1>1, <1>3, InQueue DEF Q
  <2>2. DOMAIN Q = {} /\ DOMAIN taken = {}
    BY <2>1 DEF Init
  <2> QED
    BY <2>2 DEF NodesOrdered, Increasing
<1> QED
  BY <1>4, <1>5, <1>6 DEF IInv

\* interfaceForIn.
LEMMA InTestKeeps == ASSUME IInv, InTest PROVE IInv'
<1> USE DEF IInv
<1>1. InputTypes' /\ OutputTypes'
  BY InterfaceAssumption DEF InTest, InputTypes, OutputTypes, midVars, Node
<1>2. SemaphoresCount' /\ AnswersHold' /\ FrameSeen'
  BY DEF InTest, SemaphoresCount, AnswersHold, FrameSeen, One, midVars
<1>3. NodesOrdered'
  <2>1. Newest' = Newest /\ Q' = Q /\ taken' = taken
    BY InterfaceAssumption DEF InTest, Newest, Q, midVars, InputTypes, Node
  <2> QED
    BY <2>1 DEF NodesOrdered, Increasing
<1> QED
  BY <1>1, <1>2, <1>3

LEMMA InAddKeeps == ASSUME IInv, InAdd PROVE IInv'
<1> USE DEF IInv
<1>1. /\ ipc \in {"add", "overwrite"}
      /\ inRQueue' \in In!Ring(Node)
      /\ inRQueue'.num = IF In!isFull(inRQueue) THEN inRQueue.num ELSE inRQueue.num + 1
      /\ Q' = Append(IF In!isFull(inRQueue) THEN Tail(Q) ELSE Q, inNode)
  <2>1. /\ ipc \in {"add", "overwrite"} /\ inRQueue' = In!add(inRQueue, inNode, ipc = "overwrite")
        /\ ipc = "overwrite" \/ ~In!isFull(inRQueue)
        /\ inRQueue \in In!Ring(Node) /\ inNode \in Node /\ (ipc = "overwrite") \in BOOLEAN
    BY DEF InAdd, AnswersHold, InputTypes
  <2> QED
    BY <2>1, InAdded DEF Q
<1>2. ipc' = IF In!isFull(inRQueue) THEN "idle" ELSE "release"
  BY DEF InAdd, AddReturned
<1>3. InputTypes' /\ OutputTypes'
  BY <1>1, <1>2 DEF InAdd, InputTypes, OutputTypes, midVars, One
<1>4. inRQueue.num \in 0 .. InLen /\ InLen \in Nat \ {0}
  BY InterfaceAssumption, InQueue DEF InputTypes
<1>5. SemaphoresCount'
  <2>1. /\ UNCHANGED <<inQ2MidNodeSem, midNode2OutQSem, outRQueue, fpc, opc>>
        /\ inQ2MidNodeSem \in Nat /\ One(fpc = "pull") \in Nat
    BY <1>4 DEF InAdd, midVars, InputTypes, One
  <2>2. inQ2MidNodeSem + One(fpc = "pull") = inRQueue.num
    BY <1>1, <1>4, <2>1 DEF SemaphoresCount, One
  <2>3. inQ2MidNodeSem' + One(ipc' = "release") + One(fpc' = "pull") = inRQueue'.num
    <3>1. CASE In!isFull(inRQueue)
      BY <1>1, <1>2, <2>1, <2>2, <3>1 DEF One
    <3>2. CASE ~In!isFull(inRQueue)
      <4>1. One(ipc' = "release") = 1 /\ inRQueue'.num = inRQueue.num + 1
        BY <1>1, <1>2, <3>2 DEF One
      <4> QED
        BY <1>4, <2>1, <2>2, <4>1
    <3> QED
      BY <3>1, <3>2
  <2> QED
    BY <2>1, <2>3 DEF SemaphoresCount, One
<1>6. AnswersHold' /\ FrameSeen'
  BY <1>1, <1>2, <1>4 DEF InAdd, AnswersHold, FrameSeen, midVars, In!isEmpty
<1>7. NodesOrdered'
  <2> DEFINE B == IF In!isFull(inRQueue) THEN Tail(Q) ELSE Q
  <2>1. Q \in Seq(Node) /\ Len(Q) = inRQueue.num /\ inNode \in Node /\ MaxNodes \in Nat
    BY InQueue, InterfaceAssumption DEF Q, InputTypes
  <2>2. B \in Seq(Node) /\ Increasing(B)
        /\ \A j \in DOMAIN B : \E k \in DOMAIN Q : B[j] = Q[k]
    <3>1. CASE In!isFull(inRQueue)
      <4>1. Len(Q) > 0
        BY <2>1, <1>4, <3>1 DEF In!isFull
      <4>2. /\ Tail(Q) \in Seq(Node) /\ Len(Tail(Q)) = Len(Q) - 1
            /\ \A j \in 1 .. Len(Q) - 1 : Tail(Q)[j] = Q[j + 1]
        BY <2>1, <4>1
      <4> QED
        BY <2>1, <3>1, <4>1, <4>2 DEF NodesOrdered, Increasing
    <3>2. CASE ~In!isFull(inRQueue)
      BY <2>1, <3>2 DEF NodesOrdered
    <3> QED
      BY <3>1, <3>2
  <2>3. Newest = inNode - 1 /\ Newest' = inNode /\ taken' = taken /\ taken \in Seq(Node)
    BY <1>1, <1>2 DEF InAdd, Newest, midVars, InputTypes
  <2>4. \A j \in DOMAIN B : B[j] < inNode /\ B[j] \in Node /\ \A i \in DOMAIN taken : taken[i] < B[j]
    <3> SUFFICES ASSUME NEW j \in DOMAIN B
                 PROVE  B[j] < inNode /\ B[j] \in Node /\ \A i \in DOMAIN taken : taken[i] < B[j]
      OBVIOUS
    <3>1. PICK k \in DOMAIN Q : B[j] = Q[k]
      BY <2>2
    <3>2. Q[k] \in Node /\ Q[k] <= inNode - 1 /\ \A i \in DOMAIN taken : taken[i] < Q[k]
      BY <2>1, <2>3 DEF NodesOrdered
    <3>3. Q[k] < inNode
      BY <2>1, <3>2 DEF Node
    <3> HIDE DEF B
    <3> QED
      BY <3>1, <3>2, <3>3
  <2>5. \A i \in DOMAIN taken : taken[i] < inNode /\ taken[i] \in Node
    BY <2>1, <2>3 DEF NodesOrdered, Node
  <2> HIDE DEF B
  <2>6. /\ Q' = Append(B, inNode) /\ DOMAIN B = 1 .. Len(B) /\ Len(B) \in Nat
        /\ DOMAIN Append(B, inNode) = 1 .. Len(B) + 1
        /\ Append(B, inNode)[Len(B) + 1] = inNode
        /\ \A j \in 1 .. Len(B) : Append(B, inNode)[j] = B[j]
    BY <1>1, <2>1, <2>2 DEF B
  <2>7. Increasing(Q') /\ (\A j \in DOMAIN Q' : Q'[j] <= inNode)
        /\ \A i \in DOMAIN taken, j \in DOMAIN Q' : taken[i] < Q'[j]
    BY <2>1, <2>2, <2>4, <2>5, <2>6 DEF Increasing, Node
  <2> QED
    BY <2>1, <2>3, <2>5, <2>7 DEF NodesOrdered, Node
<1> QED
  BY <1>3, <1>5, <1>6, <1>7

LEMMA InReleaseKeeps == ASSUME IInv, InRelease PROVE IInv'
<1> USE DEF IInv
<1>1. inRQueue.num \in 0 .. InLen /\ InLen \in Nat \ {0}
  BY InterfaceAssumption, InQueue DEF InputTypes
<1>2. inQ2MidNodeSem + 1 <= InLen /\ inQ2MidNodeSem' = inQ2MidNodeSem + 1
  BY <1>1 DEF InRelease, SemaphoresCount, One, InputTypes, Released
<1>3. InputTypes' /\ OutputTypes'
  BY <1>1, <1>2 DEF InRelease, InputTypes, OutputTypes, midVars
<1>4. SemaphoresCount'
  BY <1>1, <1>2 DEF InRelease, InputTypes, OutputTypes, SemaphoresCount, One, midVars
<1>5. AnswersHold' /\ FrameSeen'
  BY DEF InRelease, AnswersHold, FrameSeen, midVars
<1>6. NodesOrdered'
  <2>1. Newest' = Newest /\ Q' = Q /\ taken' = taken
    BY DEF InRelease, Newest, Q, midVars
  <2> QED
    BY <2>1 DEF NodesOrdered, Increasing
<1> QED
  BY <1>3, <1>4, <1>5, <1>6

-----------------------------------------------------------------------------
\* The steps that touch neither what is taken nor the input queue keep its order.
LEMMA OrderKept ==
  ASSUME NodesOrdered, UNCHANGED <<inRQueue, inVars, taken>>
  PROVE  NodesOrdered'
<1>1. Newest' = Newest /\ Q' = Q /\ taken' = taken
  BY DEF Newest, Q, inVars
<1> QED
  BY <1>1 DEF NodesOrdered, Increasing

\* interfaceStart.
LEMMA StartPollKeeps == ASSUME IInv, StartPoll PROVE IInv'
<1> USE DEF IInv
<1>1. InputTypes' /\ OutputTypes'
  BY InterfaceAssumption DEF StartPoll, MidFull, InputTypes, OutputTypes, inVars
<1>2. SemaphoresCount' /\ AnswersHold' /\ FrameSeen'
  BY DEF StartPoll, SemaphoresCount, AnswersHold, FrameSeen, One, inVars
<1>3. NodesOrdered'
  BY OrderKept DEF StartPoll
<1> QED
  BY <1>1, <1>2, <1>3

\* A token means a node: that is what makes the pull succeed.
LEMMA StartWaitKeeps == ASSUME IInv, StartWait PROVE IInv'
<1> USE DEF IInv
<1>1. inRQueue.num \in 0 .. InLen /\ InLen \in Nat \ {0}
  BY InterfaceAssumption, InQueue DEF InputTypes
<1>2. InputTypes' /\ OutputTypes'
  BY <1>1 DEF StartWait, InputTypes, OutputTypes, inVars
<1>3. SemaphoresCount' /\ inRQueue.num > 0
  BY <1>1 DEF StartWait, InputTypes, OutputTypes, SemaphoresCount, One, inVars
<1>4. AnswersHold' /\ FrameSeen'
  BY <1>1, <1>3 DEF StartWait, AnswersHold, FrameSeen, inVars, In!isEmpty
<1>5. NodesOrdered'
  BY OrderKept DEF StartWait
<1> QED
  BY <1>2, <1>3, <1>4, <1>5

LEMMA StartPullKeeps == ASSUME IInv, StartPull PROVE IInv'
<1> USE DEF IInv
<1>1. /\ fpc = "pull" /\ fpc' = "store" /\ ~In!isEmpty(inRQueue)
      /\ inRQueue' \in In!Ring(Node) /\ inRQueue'.num = inRQueue.num - 1
      /\ Q # <<>> /\ tempInNode' = Q[1] /\ taken' = Append(taken, Q[1]) /\ Q' = Tail(Q)
  BY InPulled DEF StartPull, AnswersHold, InputTypes, Q
<1>2. Q \in Seq(Node) /\ Len(Q) = inRQueue.num /\ inRQueue.num \in 0 .. InLen /\ InLen \in Nat
  BY InQueue, InterfaceAssumption DEF Q, InputTypes
<1>3. Q[1] \in Node
  BY <1>1, <1>2
<1>4. InputTypes' /\ OutputTypes'
  BY <1>1, <1>3 DEF StartPull, InputTypes, OutputTypes, inVars
<1>5. SemaphoresCount'
  BY <1>1, <1>2 DEF StartPull, InputTypes, OutputTypes, SemaphoresCount, One, inVars
<1>6. AnswersHold' /\ FrameSeen'
  BY <1>1, <1>2 DEF StartPull, AnswersHold, FrameSeen, inVars, In!isFull
<1>7. NodesOrdered'
  <2>1. /\ taken \in Seq(Node) /\ Newest' = Newest /\ Len(Q) > 0 /\ MaxNodes \in Nat
    BY <1>1, <1>2, InterfaceAssumption DEF StartPull, Newest, inVars, InputTypes
  <2>2. /\ DOMAIN Tail(Q) = 1 .. Len(Q) - 1 /\ DOMAIN Q = 1 .. Len(Q) /\ Len(Q) \in Nat
        /\ \A j \in 1 .. Len(Q) - 1 : Tail(Q)[j] = Q[j + 1]
        /\ \A j \in 1 .. Len(Q) : Q[j] \in Int
    <3>1. \A j \in 1 .. Len(Q) : Q[j] \in Node
      BY <1>2
    <3>2. Node \subseteq Int
      BY <2>1 DEF Node
    <3>3. /\ DOMAIN Tail(Q) = 1 .. Len(Q) - 1 /\ DOMAIN Q = 1 .. Len(Q) /\ Len(Q) \in Nat
          /\ \A j \in 1 .. Len(Q) - 1 : Tail(Q)[j] = Q[j + 1]
      BY <1>2, <2>1
    <3> QED
      BY <3>1, <3>2, <3>3
  <2>3. /\ DOMAIN Append(taken, Q[1]) = 1 .. Len(taken) + 1 /\ DOMAIN taken = 1 .. Len(taken)
        /\ Len(taken) \in Nat /\ Append(taken, Q[1])[Len(taken) + 1] = Q[1]
        /\ \A i \in 1 .. Len(taken) : Append(taken, Q[1])[i] = taken[i] /\ taken[i] \in Int
    BY <1>3, <2>1 DEF Node
  <2>4. Increasing(taken') /\ \A i \in DOMAIN taken' : taken'[i] <= Newest
    <3>1. \A i \in 1 .. Len(taken) : taken[i] < Q[1] /\ taken[i] <= Newest
      BY <2>1, <2>2, <2>3 DEF NodesOrdered
    <3>2. Q[1] <= Newest
      BY <2>1, <2>2 DEF NodesOrdered
    <3> QED
      BY <1>1, <2>3, <3>1, <3>2 DEF NodesOrdered, Increasing
  <2>5. Increasing(Q') /\ \A j \in DOMAIN Q' : Q'[j] <= Newest
    BY <1>1, <2>2 DEF NodesOrdered, Increasing
  <2>6. \A i \in DOMAIN taken', j \in DOMAIN Q' : taken'[i] < Q'[j]
    <3>1. \A j \in 1 .. Len(Q) - 1 : Q[1] < Q[j + 1]
      BY <2>1, <2>2 DEF NodesOrdered, Increasing
    <3>2. \A i \in 1 .. Len(taken), j \in 1 .. Len(Q) - 1 : taken[i] < Q[j + 1]
      BY <2>2, <2>3 DEF NodesOrdered
    <3> QED
      BY <1>1, <2>2, <2>3, <3>1, <3>2
  <2> QED
    BY <2>1, <2>4, <2>5, <2>6 DEF NodesOrdered
<1> QED
  BY <1>4, <1>5, <1>6, <1>7

LEMMA StartStoreKeeps == ASSUME IInv, StartStore PROVE IInv'
<1> USE DEF IInv
<1>1. mid' \in Frame
  BY DEF StartStore, OutputTypes, InputTypes, Frame
<1>2. InputTypes' /\ OutputTypes'
  BY <1>1, InterfaceAssumption DEF StartStore, InputTypes, OutputTypes, inVars
<1>3. SemaphoresCount' /\ AnswersHold' /\ FrameSeen'
  BY DEF StartStore, SemaphoresCount, AnswersHold, FrameSeen, One, inVars
<1>4. NodesOrdered'
  BY OrderKept DEF StartStore
<1> QED
  BY <1>2, <1>3, <1>4

LEMMA StartIsFullKeeps == ASSUME IInv, StartIsFull PROVE IInv'
<1> USE DEF IInv
<1>1. InputTypes' /\ OutputTypes'
  BY DEF StartIsFull, InputTypes, OutputTypes, inVars
<1>2. SemaphoresCount' /\ AnswersHold' /\ FrameSeen'
  BY DEF StartIsFull, SemaphoresCount, AnswersHold, FrameSeen, One, inVars
<1>3. NodesOrdered'
  BY OrderKept DEF StartIsFull
<1> QED
  BY <1>1, <1>2, <1>3

LEMMA StartAddKeeps == ASSUME IInv, StartAdd PROVE IInv'
<1> USE DEF IInv
<1>1. /\ fpc \in {"add", "overwrite"} /\ fpc' = "release"
      /\ outRQueue' \in Out!Ring(Nat)
      /\ outRQueue'.num = IF Out!isFull(outRQueue) THEN outRQueue.num ELSE outRQueue.num + 1
  <2>1. /\ fpc \in {"add", "overwrite"} /\ fpc' = "release"
        /\ outRQueue' = Out!add(outRQueue, Len(frames) + 1, fpc = "overwrite")
        /\ fpc = "overwrite" \/ ~Out!isFull(outRQueue)
        /\ outRQueue \in Out!Ring(Nat) /\ Len(frames) + 1 \in Nat /\ (fpc = "overwrite") \in BOOLEAN
    BY DEF StartAdd, AnswersHold, OutputTypes, ReleasesAfter
  <2> QED
    BY <2>1, OutAdded
<1>2. frames' \in Seq(Frame)
  BY DEF StartAdd, OutputTypes
<1>3. InputTypes' /\ OutputTypes'
  BY <1>1, <1>2 DEF StartAdd, InputTypes, OutputTypes, inVars
<1>4. outRQueue.num \in 0 .. OutLen /\ OutLen \in Nat \ {0}
  BY InterfaceAssumption DEF OutputTypes, Out!Ring
<1>5. SemaphoresCount'
  <2>1. /\ UNCHANGED <<inRQueue, inQ2MidNodeSem, midNode2OutQSem, ipc, opc>>
        /\ midNode2OutQSem \in Nat
    BY DEF StartAdd, OutputTypes, inVars
  <2>2. /\ One(fpc = "pull") = 0 /\ One(fpc = "pull")' = 0
        /\ One(fpc = "release") = 0 /\ One(fpc = "release")' = 1
    BY <1>1 DEF One
  <2>3. One(ipc = "release")' = One(ipc = "release")
        /\ One(opc = "pull")' = One(opc = "pull") /\ One(opc = "pull") \in Nat
    BY <2>1 DEF One
  <2> QED
    BY <1>1, <1>4, <2>1, <2>2, <2>3 DEF SemaphoresCount
<1>6. AnswersHold' /\ FrameSeen'
  BY <1>1, <1>4 DEF StartAdd, AnswersHold, FrameSeen, inVars, Out!isEmpty
<1>7. NodesOrdered'
  BY OrderKept DEF StartAdd
<1> QED
  BY <1>3, <1>5, <1>6, <1>7

\* At its maximum the semaphore covers a full ring, so a failed release is harmless.
LEMMA StartReleaseKeeps == ASSUME IInv, StartRelease PROVE IInv'
<1> USE DEF IInv
<1>1. outRQueue.num \in 0 .. OutLen /\ OutLen \in Nat \ {0}
  BY InterfaceAssumption DEF OutputTypes, Out!Ring
<1>2. midNode2OutQSem' = IF midNode2OutQSem < OutLen THEN midNode2OutQSem + 1 ELSE midNode2OutQSem
  BY DEF StartRelease, Released
<1>3. InputTypes' /\ OutputTypes'
  BY <1>1, <1>2 DEF StartRelease, InputTypes, OutputTypes, inVars
<1>4. SemaphoresCount'
  BY <1>1, <1>2 DEF StartRelease, InputTypes, OutputTypes, SemaphoresCount, One, inVars
<1>5. AnswersHold' /\ FrameSeen'
  BY DEF StartRelease, AnswersHold, FrameSeen, inVars
<1>6. NodesOrdered'
  BY OrderKept DEF StartRelease
<1> QED
  BY <1>3, <1>4, <1>5, <1>6

-----------------------------------------------------------------------------
\* interfaceForUSBOut.
LEMMA OutPollKeeps == ASSUME IInv, OutPoll PROVE IInv'
<1> USE DEF IInv
<1>1. InputTypes' /\ OutputTypes'
  BY DEF OutPoll, OutReady, InputTypes, OutputTypes, inVars, midVars
<1>2. SemaphoresCount' /\ AnswersHold' /\ FrameSeen'
  BY DEF OutPoll, OutReady, SemaphoresCount, AnswersHold, FrameSeen, One, inVars, midVars
<1>3. NodesOrdered'
  BY OrderKept DEF OutPoll, midVars
<1> QED
  BY <1>1, <1>2, <1>3

LEMMA OutWaitKeeps == ASSUME IInv, OutWait PROVE IInv'
<1> USE DEF IInv
<1>1. InputTypes' /\ OutputTypes'
  BY InterfaceAssumption DEF OutWait, InputTypes, OutputTypes, inVars, midVars
<1>2. SemaphoresCount'
  BY InterfaceAssumption DEF OutWait, InputTypes, OutputTypes, SemaphoresCount, One, inVars, midVars
<1>3. AnswersHold' /\ FrameSeen'
  BY DEF OutWait, AnswersHold, FrameSeen, inVars, midVars
<1>4. NodesOrdered'
  BY OrderKept DEF OutWait, midVars
<1> QED
  BY <1>1, <1>2, <1>3, <1>4

LEMMA OutPullKeeps == ASSUME IInv, OutPull PROVE IInv'
<1> USE DEF IInv
<1>1. /\ opc = "pull" /\ opc' = "poll"
      /\ outRQueue' \in Out!Ring(Nat) /\ outRQueue'.num = outRQueue.num - 1
  BY OutPulled DEF OutPull, AnswersHold, OutputTypes
<1>2. outRQueue.num \in 0 .. OutLen /\ OutLen \in Nat \ {0}
  BY InterfaceAssumption DEF OutputTypes, Out!Ring
<1>3. InputTypes' /\ OutputTypes'
  BY <1>1 DEF OutPull, InputTypes, OutputTypes, inVars, midVars, One
<1>4. SemaphoresCount'
  BY <1>1, <1>2 DEF OutPull, InputTypes, OutputTypes, SemaphoresCount, One, inVars, midVars
<1>5. AnswersHold' /\ FrameSeen'
  BY <1>1, <1>2 DEF OutPull, AnswersHold, FrameSeen, inVars, midVars, Out!isFull
<1>6. NodesOrdered'
  BY OrderKept DEF OutPull, midVars
<1> QED
  BY <1>3, <1>4, <1>5, <1>6

LEMMA StutterKeeps == ASSUME IInv, UNCHANGED vars PROVE IInv'
<1> USE DEF IInv
<1>1. InputTypes' /\ OutputTypes'
  BY DEF vars, InputTypes, OutputTypes, inVars, midVars
<1>2. SemaphoresCount' /\ AnswersHold' /\ FrameSeen'
  BY DEF vars, SemaphoresCount, AnswersHold, FrameSeen, inVars, midVars
<1>3. NodesOrdered'
  BY OrderKept DEF vars, midVars
<1> QED
  BY <1>1, <1>2, <1>3

-----------------------------------------------------------------------------
\* The invariant from which the results on semaphores, failures, order and types follow.
THEOREM InterfaceInductive == Spec => []IInv
<1>1. ASSUME IInv, [Next]_vars PROVE IInv'
  <2> USE <1>1
  <2>1. CASE InterfaceForIn
    BY <2>1, InTestKeeps, InAddKeeps, InReleaseKeeps DEF InterfaceForIn
  <2>2. CASE InterfaceStart
    BY <2>2, StartPollKeeps, StartWaitKeeps, StartPullKeeps, StartStoreKeeps,
       StartIsFullKeeps, StartAddKeeps, StartReleaseKeeps DEF InterfaceStart
  <2>3. CASE InterfaceForUSBOut
    BY <2>3, OutPollKeeps, OutWaitKeeps, OutPullKeeps DEF InterfaceForUSBOut
  <2>4. CASE UNCHANGED vars
    BY <2>4, StutterKeeps
  <2> QED
    BY <2>1, <2>2, <2>3, <2>4 DEF Next
<1> QED
  BY <1>1, InitInv, PTL DEF Spec

\* A token for every node, and one for every frame (InterfaceOfUSB.cpp:90, 104,
\* 145 and 150 against 127 and 168).
THEOREM SemaphoresAgree == Spec => []SemaphoresCount
<1>1. IInv => SemaphoresCount
  BY DEF IInv
<1> QED
  BY <1>1, InterfaceInductive, PTL

\* The nodes whose add has been made, and what has become of them.
Submitted == inNode - One(ipc \in {"add", "overwrite"})
Conserved == Submitted = Len(taken) + inRQueue.num + failures

LEMMA Counted ==
  ASSUME NEW s \in Int, NEW t \in Int, NEW a \in Int, NEW b \in Int, NEW c \in Int, NEW d \in Int,
         s - 1 = t + a + b, c + d = a + b + 1
  PROVE  s = t + c + d
BY SMT

\* Every node submitted is taken, queued, or one of those whose loss a call reported
\* by returning false; a "not full" or "not empty" answer holds until it is acted on
\* (interfaceForIn, InterfaceOfUSB.cpp:83-116).
THEOREM FailuresCountLosses == Spec => []FailuresAreLosses
<1>1. Init => Conserved
  <2> SUFFICES ASSUME Init PROVE Conserved
    OBVIOUS
  <2>1. inRQueue.num = 0 /\ Len(taken) = 0 /\ failures = 0
    BY DEF Init, In!NewRing
  <2>2. Submitted = 0
    <3>1. inNode = 0 /\ One(ipc \in {"add", "overwrite"}) = 0
      BY DEF Init, One
    <3> QED
      BY <3>1 DEF Submitted
  <2> QED
    BY <2>1, <2>2 DEF Conserved
<1>2. ASSUME IInv, Conserved, [Next]_vars PROVE Conserved'
  <2> USE <1>2
  <2>1. /\ inNode \in Int /\ inRQueue.num \in Int /\ failures \in Int
        /\ taken \in Seq(Node) /\ Len(taken) \in Int
    BY InterfaceAssumption, InQueue DEF IInv, InputTypes, Node
  <2>2. CASE InTest
    <3>1. /\ UNCHANGED <<taken, inRQueue, failures>> /\ inNode' = inNode + 1
          /\ One(ipc \in {"add", "overwrite"}) = 0 /\ One(ipc \in {"add", "overwrite"})' = 1
      BY <2>2 DEF InTest, midVars, One
    <3> QED
      BY <2>1, <3>1 DEF Conserved, Submitted
  <2>3. CASE InAdd
    <3>1. /\ UNCHANGED <<taken, inNode>>
          /\ One(ipc \in {"add", "overwrite"}) = 1 /\ One(ipc \in {"add", "overwrite"})' = 0
          /\ failures' = failures + One(In!isFull(inRQueue))
      BY <2>3 DEF InAdd, AddReturned, midVars, One
    <3>2. inRQueue'.num = IF In!isFull(inRQueue) THEN inRQueue.num ELSE inRQueue.num + 1
      <4>1. /\ inRQueue' = In!add(inRQueue, inNode, ipc = "overwrite")
            /\ ipc = "overwrite" \/ ~In!isFull(inRQueue)
            /\ inRQueue \in In!Ring(Node) /\ inNode \in Node /\ (ipc = "overwrite") \in BOOLEAN
        BY <2>3 DEF InAdd, IInv, AnswersHold, InputTypes
      <4> QED
        BY <4>1, InAdded
    <3>3. inRQueue'.num + failures' = inRQueue.num + failures + 1
      BY <2>1, <3>1, <3>2 DEF One
    <3>4. Submitted = inNode - 1 /\ Submitted' = inNode
      BY <2>1, <3>1 DEF Submitted
    <3>5. taken' = taken /\ Submitted = Len(taken) + inRQueue.num + failures
      BY <3>1 DEF Conserved
    <3>6. inRQueue'.num \in Int /\ failures' \in Int
      BY <2>1, <3>1, <3>2 DEF One
    <3>7. /\ Submitted' \in Int /\ Len(taken) \in Int /\ inRQueue.num \in Int
          /\ failures \in Int /\ inRQueue'.num \in Int /\ failures' \in Int
      BY <2>1, <3>4, <3>6
    <3>8. /\ Submitted' - 1 = Len(taken) + inRQueue.num + failures
          /\ inRQueue'.num + failures' = inRQueue.num + failures + 1
      BY <3>3, <3>4, <3>5
    <3>9. Submitted' = Len(taken) + inRQueue'.num + failures'
      BY <3>7, <3>8, Counted
    <3> QED
      BY <3>5, <3>9 DEF Conserved
  <2>4. CASE StartPull
    <3>1. /\ UNCHANGED <<inVars, failures>> /\ Len(taken') = Len(taken) + 1
          /\ inRQueue'.num = inRQueue.num - 1
      BY <2>1, <2>4, InPulled DEF StartPull, IInv, AnswersHold, InputTypes
    <3>2. Submitted' = Submitted /\ failures' = failures
      BY <3>1 DEF Submitted, inVars
    <3>3. Submitted = Len(taken') + inRQueue'.num + failures
      BY <2>1, <3>1 DEF Conserved
    <3> QED
      BY <3>2, <3>3 DEF Conserved
  <2>5. CASE OutPull
    <3>1. UNCHANGED <<inVars, inRQueue, taken, failures>>
      BY <2>1, <2>5 DEF OutPull, IInv, AnswersHold, midVars, One
    <3> QED
      BY <3>1 DEF Conserved, Submitted, inVars
  <2>6. CASE InRelease
    <3>1. /\ UNCHANGED <<inNode, inRQueue, taken, failures>>
          /\ One(ipc \in {"add", "overwrite"})' = One(ipc \in {"add", "overwrite"})
      BY <2>6 DEF InRelease, midVars, One
    <3> QED
      BY <3>1 DEF Conserved, Submitted
  <2>7. CASE \/ StartPoll \/ StartWait \/ StartStore \/ StartIsFull \/ StartAdd \/ StartRelease
             \/ OutPoll \/ OutWait \/ UNCHANGED vars
    <3>1. UNCHANGED <<inVars, inRQueue, taken, failures>>
      BY <2>7 DEF StartPoll, StartWait, StartStore, StartIsFull, StartAdd, StartRelease,
                  OutPoll, OutWait, vars, midVars
    <3> QED
      BY <3>1 DEF Conserved, Submitted, inVars
  <2> QED
    BY <2>2, <2>3, <2>4, <2>5, <2>6, <2>7
    DEF Next, InterfaceForIn, InterfaceStart, InterfaceForUSBOut
<1>3. IInv /\ Conserved => FailuresAreLosses
  BY DEF IInv, Conserved, Submitted, FailuresAreLosses
<1> QED
  BY <1>1, <1>2, <1>3, InterfaceInductive, PTL DEF Spec

\* No node is taken twice or out of order.
THEOREM NodesTakenInOrder == Spec => []TakenInOrder
<1>1. IInv => TakenInOrder
  BY DEF IInv, NodesOrdered, Increasing, TakenInOrder
<1> QED
  BY <1>1, InterfaceInductive, PTL

\* Counts, pointers and positions stay in range.
THEOREM InterfaceTypeCorrect == Spec => []TypeOK
<1>1. IInv => TypeOK
  BY DEF IInv, InputTypes, OutputTypes, TypeOK, Node, Frame
<1> QED
  BY <1>1, InterfaceInductive, PTL

-----------------------------------------------------------------------------
\* The frames.  Every node taken is in a frame queued, in mid or, while the thread
\* stands between pull and waveDataFormat, in tempInNode.
NodeOf(s, i, k) == s[(i - 1) * MidLen + k + 1]
Stored == IF fpc \in {"isFull", "add", "overwrite"} THEN MidLen ELSE index
Complete == Len(frames)

Accounted ==
  /\ Len(taken) = Complete * MidLen + Stored + One(fpc = "store")
  /\ fpc \in {"isFull", "add", "overwrite", "release"} => index = 0
  /\ fpc = "store" => taken[Len(taken)] = tempInNode

Cut == \A i \in 1 .. Complete : \A k \in 0 .. MidLen - 1 : frames[i][k] = NodeOf(taken, i, k)

Filled == \A k \in 0 .. MidLen - 1 : k < Stored => mid[k] = NodeOf(taken, Complete + 1, k)

\* The output ring holds the newest frames.
Numbers == Out!Contents(outRQueue)
Newer ==
  /\ outRQueue.num <= Complete
  /\ \A i \in 1 .. outRQueue.num : Numbers[i] = Complete - outRQueue.num + i

FrameInv == Accounted /\ Cut /\ Filled /\ Newer

\* Where the nodes of a frame are among the nodes taken.
LEMMA Places ==
  ASSUME NEW m \in Nat, NEW i \in 1 .. m, NEW k \in 0 .. MidLen - 1
  PROVE  (i - 1) * MidLen + k + 1 \in 1 .. m * MidLen
<1> DEFINE a == (i - 1) * MidLen
           b == m * MidLen
<1>1. MidLen \in Nat
  BY InterfaceAssumption
<1>2. a \in Nat /\ b \in Nat /\ a + MidLen <= b
  <2>1. a \in Nat /\ b \in Nat
    BY <1>1
  <2>2. (m - i) * MidLen \in Nat
    BY <1>1
  <2>3. b - a - MidLen = (m - i) * MidLen
    BY <1>1
  <2> HIDE DEF a, b
  <2> QED
    BY <1>1, <2>1, <2>2, <2>3
<1> HIDE DEF a, b
<1>3. a + k + 1 \in 1 .. b
  BY <1>1, <1>2
<1> QED
  BY <1>3 DEF a, b

LEMMA NextPlace ==
  ASSUME NEW m \in Nat, NEW k \in Nat
  PROVE  /\ m * MidLen \in Nat /\ ((m + 1) - 1) * MidLen + k + 1 = m * MidLen + k + 1
         /\ (m + 1) * MidLen = m * MidLen + MidLen
BY InterfaceAssumption

LEMMA FramesTypes ==
  ASSUME IInv
  PROVE  /\ taken \in Seq(Node) /\ frames \in Seq(Frame) /\ mid \in Frame
         /\ Len(taken) \in Nat /\ Complete \in Nat /\ Complete * MidLen \in Nat
         /\ DOMAIN taken = 1 .. Len(taken) /\ DOMAIN frames = 1 .. Complete
         /\ MidLen \in Nat /\ MidLen > 0 /\ index \in 0 .. MidLen /\ Stored \in 0 .. MidLen
         /\ outRQueue.num \in Nat
<1>1. /\ taken \in Seq(Node) /\ frames \in Seq(Frame) /\ mid \in Frame /\ index \in 0 .. MidLen
      /\ outRQueue.num \in 0 .. OutLen /\ OutLen \in Nat /\ MidLen \in Nat \ {0}
  BY InterfaceAssumption DEF IInv, InputTypes, OutputTypes, Out!Ring
<1>2. Len(taken) \in Nat /\ Len(frames) \in Nat
  BY <1>1
<1>3. Complete * MidLen \in Nat
  BY <1>1, <1>2, NextPlace DEF Complete
<1>4. Stored \in 0 .. MidLen
  BY <1>1 DEF Stored
<1> QED
  BY <1>1, <1>2, <1>3, <1>4 DEF Complete

\* Nodes taken later leave those of the frames where they are.
LEMMA CutKept ==
  ASSUME IInv, Accounted, Cut, Filled, NEW x, taken' = taken \/ taken' = Append(taken, x),
         UNCHANGED <<frames, mid>>, Stored' = Stored
  PROVE  Cut' /\ Filled'
<1>0. /\ Complete' = Complete /\ MidLen' = MidLen
      /\ \A j \in 1 .. Len(taken) : taken'[j] = taken[j]
  BY FramesTypes DEF Complete
<1>1. \A i \in 1 .. Complete : \A k \in 0 .. MidLen - 1 : NodeOf(taken', i, k) = NodeOf(taken, i, k)
  <2> SUFFICES ASSUME NEW i \in 1 .. Complete, NEW k \in 0 .. MidLen - 1
               PROVE  NodeOf(taken', i, k) = NodeOf(taken, i, k)
    OBVIOUS
  <2> DEFINE p == (i - 1) * MidLen + k + 1
             t == Complete * MidLen
  <2>1. p \in 1 .. t
    BY FramesTypes, Places
  <2>2. t \in Nat /\ t <= Len(taken)
    <3>1. t \in Nat /\ Len(taken) = t + Stored + One(fpc = "store") /\ One(fpc = "store") \in Nat
      BY FramesTypes DEF Accounted, One
    <3> HIDE DEF t
    <3> QED
      BY <3>1, FramesTypes
  <2> HIDE DEF p, t
  <2>3. p \in 1 .. Len(taken)
    BY <2>1, <2>2, FramesTypes
  <2>4. taken'[p] = taken[p]
    BY <1>0, <2>3
  <2> QED
    BY <2>4 DEF p, NodeOf
<1>2. \A k \in 0 .. MidLen - 1 : k < Stored => NodeOf(taken', Complete + 1, k) = NodeOf(taken, Complete + 1, k)
  <2> SUFFICES ASSUME NEW k \in 0 .. MidLen - 1, k < Stored
               PROVE  NodeOf(taken', Complete + 1, k) = NodeOf(taken, Complete + 1, k)
    OBVIOUS
  <2> DEFINE t == Complete * MidLen
             p == ((Complete + 1) - 1) * MidLen + k + 1
  <2>1. p = t + k + 1 /\ t \in Nat
    BY FramesTypes, NextPlace
  <2>2. Len(taken) = t + Stored + One(fpc = "store") /\ One(fpc = "store") \in Nat
    BY DEF Accounted, One
  <2> HIDE DEF t, p
  <2>3. p \in 1 .. Len(taken)
    BY <2>1, <2>2, FramesTypes
  <2>4. taken'[p] = taken[p]
    BY <1>0, <2>3
  <2> QED
    BY <2>4 DEF p, NodeOf
<1>3. Cut'
  BY <1>0, <1>1 DEF Cut, NodeOf
<1>4. Filled'
  BY <1>0, <1>2 DEF Filled, NodeOf
<1> QED
  BY <1>3, <1>4

LEMMA NewerKept == ASSUME Newer, UNCHANGED <<outRQueue, frames>> PROVE Newer'
<1>1. Numbers' = Numbers /\ Complete' = Complete
  BY DEF Numbers, Complete
<1> QED
  BY <1>1 DEF Newer

\* The steps that only wait, test or release, and those of the other two threads.
LEMMA FramesUntouched ==
  ASSUME IInv, FrameInv, Stored' = Stored, One(fpc = "store")' = One(fpc = "store"),
         fpc' \in {"isFull", "add", "overwrite", "release"} => index' = 0,
         UNCHANGED <<tempInNode, mid, taken, frames>>, Newer'
  PROVE  FrameInv'
<1>1. fpc' = "store" <=> fpc = "store"
  BY DEF One
<1>2. Accounted'
  BY <1>1 DEF FrameInv, Accounted, Complete
<1>3. Cut' /\ Filled'
  BY CutKept DEF FrameInv
<1> QED
  BY <1>2, <1>3 DEF FrameInv

LEMMA FramesPulled == ASSUME IInv, FrameInv, StartPull PROVE FrameInv'
<1>1. /\ fpc = "pull" /\ fpc' = "store" /\ taken' = Append(taken, tempInNode')
      /\ UNCHANGED <<index, mid, frames, outRQueue>>
  BY DEF StartPull
<1>2. Stored' = Stored /\ Stored = index
  BY <1>1 DEF Stored
<1>3. Accounted'
  <2>1. Len(taken') = Len(taken) + 1 /\ taken'[Len(taken')] = tempInNode'
    BY <1>1, FramesTypes
  <2>2. Len(taken) = Complete * MidLen + Stored + One(fpc = "store")
    BY DEF FrameInv, Accounted
  <2>3. One(fpc = "store") = 0 /\ One(fpc = "store")' = 1 /\ Complete' = Complete
    BY <1>1 DEF One, Complete
  <2>4. Len(taken') = Complete * MidLen + Stored + 1
    BY <2>1, <2>2, <2>3, FramesTypes
  <2> QED
    BY <1>1, <1>2, <2>1, <2>3, <2>4 DEF Accounted
<1>4. Cut' /\ Filled'
  BY <1>1, <1>2, CutKept DEF FrameInv
<1> QED
  BY <1>1, <1>3, <1>4, NewerKept DEF FrameInv

\* waveDataFormat puts the node where the next frame expects it.
LEMMA FramesStored == ASSUME IInv, FrameInv, StartStore PROVE FrameInv'
<1>1. /\ fpc = "store" /\ fpc' = "poll" /\ mid' = [mid EXCEPT ![index] = tempInNode]
      /\ index' = index + 1 /\ UNCHANGED <<tempInNode, taken, frames, outRQueue>>
      /\ index \in 0 .. MidLen - 1
  <2>1. index < MidLen
    BY DEF StartStore, IInv, OutputTypes
  <2> QED
    BY <2>1, FramesTypes DEF StartStore
<1>2. Stored = index /\ Stored' = index + 1 /\ Complete' = Complete
  BY <1>1 DEF Stored, Complete
<1>3. Len(taken) = Complete * MidLen + index + 1 /\ taken[Len(taken)] = tempInNode
  <2>1. One(fpc = "store") = 1
    BY <1>1 DEF One
  <2> QED
    BY <1>1, <1>2, <2>1 DEF FrameInv, Accounted
<1>4. Accounted'
  <2>1. One(fpc = "store")' = 0 /\ MidLen' = MidLen
    BY <1>1 DEF One
  <2>2. Len(taken) = Complete * MidLen + (index + 1) + 0
    BY <1>3, FramesTypes
  <2> QED
    BY <1>1, <1>2, <2>1, <2>2 DEF Accounted
<1>5. Cut'
  BY <1>1, <1>2 DEF FrameInv, Cut, NodeOf
<1>6. Filled'
  <2>1. \A k \in 0 .. MidLen - 1 : mid'[k] = IF k = index THEN tempInNode ELSE mid[k]
    BY <1>1, FramesTypes DEF Frame
  <2>2. tempInNode = NodeOf(taken, Complete + 1, index)
    <3>1. ((Complete + 1) - 1) * MidLen + index + 1 = Len(taken)
      BY <1>1, <1>3, FramesTypes, NextPlace
    <3> QED
      BY <1>3, <3>1 DEF NodeOf
  <2>3. \A k \in 0 .. MidLen - 1 : k < index + 1 => mid'[k] = NodeOf(taken, Complete + 1, k)
    <3> SUFFICES ASSUME NEW k \in 0 .. MidLen - 1, k < index + 1
                 PROVE  mid'[k] = NodeOf(taken, Complete + 1, k)
      OBVIOUS
    <3>1. CASE k = index
      BY <2>1, <2>2, <3>1
    <3>2. CASE k # index
      <4>1. mid'[k] = mid[k] /\ k < index
        BY <1>1, <2>1, <3>2, FramesTypes
      <4> QED
        BY <1>2, <4>1 DEF FrameInv, Filled
    <3> QED
      BY <3>1, <3>2
  <2> QED
    BY <1>1, <1>2, <2>3 DEF Filled, NodeOf
<1> QED
  BY <1>1, <1>4, <1>5, <1>6, NewerKept DEF FrameInv

\* The add queues the next number; of a full ring it drops the lowest.
LEMMA Shift ==
  ASSUME NEW a \in Nat, NEW b \in Nat, NEW i \in Int
  PROVE  /\ a - b + (i + 1) = (a + 1) - b + i
         /\ a - b + (i + 1) = a - (b - 1) + i
         /\ a - b + i = (a + 1) - (b + 1) + i
BY SMT

LEMMA Appended ==
  ASSUME NEW s \in Seq(Nat), NEW x \in Nat, NEW n \in Nat, Len(s) = n - 1,
         NEW m \in Nat, \A i \in 1 .. n - 1 : s[i] = m - n + i, x = m
  PROVE  \A i \in 1 .. n : Append(s, x)[i] = m - n + i
BY SMT

LEMMA NewerAdded == ASSUME IInv, Newer, StartAdd, Complete' = Complete + 1 PROVE Newer'
<1> DEFINE B == IF Out!isFull(outRQueue) THEN Tail(Numbers) ELSE Numbers
           n == Complete + 1
<1>1. /\ outRQueue'.num = IF Out!isFull(outRQueue) THEN outRQueue.num ELSE outRQueue.num + 1
      /\ Numbers' = Append(B, n)
  <2>1. /\ outRQueue' = Out!add(outRQueue, Len(frames) + 1, fpc = "overwrite")
        /\ fpc = "overwrite" \/ ~Out!isFull(outRQueue)
        /\ outRQueue \in Out!Ring(Nat) /\ Len(frames) + 1 \in Nat /\ (fpc = "overwrite") \in BOOLEAN
    BY DEF StartAdd, IInv, AnswersHold, OutputTypes
  <2> QED
    BY <2>1, OutAdded DEF Numbers, Complete
<1>2. /\ Numbers \in Seq(Nat) /\ Len(Numbers) = outRQueue.num /\ Complete \in Nat
      /\ outRQueue.num \in Nat /\ OutLen \in Nat \ {0}
      /\ Out!isFull(outRQueue) <=> outRQueue.num >= OutLen
  BY OutQueue, FramesTypes, InterfaceAssumption DEF IInv, OutputTypes, Numbers, Out!isFull
<1>3. CASE Out!isFull(outRQueue)
  <2>1. /\ B = Tail(Numbers) /\ Tail(Numbers) \in Seq(Nat) /\ Len(B) = outRQueue.num - 1
        /\ \A i \in 1 .. outRQueue.num - 1 : B[i] = Numbers[i + 1]
    BY <1>2, <1>3
  <2>2. \A i \in 1 .. outRQueue.num - 1 : B[i] = n - outRQueue.num + i
    <3> SUFFICES ASSUME NEW i \in 1 .. outRQueue.num - 1 PROVE B[i] = n - outRQueue.num + i
      OBVIOUS
    <3>1. i + 1 \in 1 .. outRQueue.num /\ B[i] = Numbers[i + 1]
      BY <1>2, <2>1
    <3>2. Numbers[i + 1] = Complete - outRQueue.num + (i + 1)
      BY <3>1 DEF Newer
    <3> QED
      <4>1. Complete \in Nat /\ outRQueue.num \in Nat /\ i \in Int
        BY <1>2
      <4>2. Complete - outRQueue.num + (i + 1) = (Complete + 1) - outRQueue.num + i
        BY <4>1, Shift
      <4> QED
        BY <3>1, <3>2, <4>2
  <2>3. outRQueue'.num = outRQueue.num /\ outRQueue.num > 0
    BY <1>1, <1>2, <1>3
  <2> HIDE DEF B
  <2>4. \A i \in 1 .. outRQueue.num : Numbers'[i] = n - outRQueue.num + i
    <3>1. \A i \in 1 .. outRQueue.num - 1 : B[i] = n - outRQueue.num + i
      BY <2>2
    <3>2. B \in Seq(Nat) /\ Len(B) = outRQueue.num - 1 /\ n \in Nat
      BY <1>2, <2>1
    <3> HIDE DEF n
    <3> QED
      BY <1>1, <1>2, <3>1, <3>2, Appended
  <2> QED
    BY <1>2, <2>3, <2>4 DEF Newer
<1>4. CASE ~Out!isFull(outRQueue)
  <2>1. B = Numbers /\ outRQueue'.num = outRQueue.num + 1
    BY <1>1, <1>4
  <2>2. \A i \in 1 .. outRQueue.num + 1 : Numbers'[i] = n - (outRQueue.num + 1) + i
    <3>1. \A i \in 1 .. outRQueue.num : B[i] = n - (outRQueue.num + 1) + i
      <4>1. \A i \in 1 .. outRQueue.num : B[i] = Complete - outRQueue.num + i
        BY <2>1 DEF Newer
      <4>2. \A i \in 1 .. outRQueue.num :
              Complete - outRQueue.num + i = n - (outRQueue.num + 1) + i
        <5>1. Complete \in Nat /\ outRQueue.num \in Nat
          BY <1>2
        <5> QED
          BY <5>1, Shift
      <4> QED
        BY <4>1, <4>2
    <3> HIDE DEF B
    <3> QED
      BY <1>1, <1>2, <2>1, <3>1, Appended
  <2> QED
    BY <1>2, <2>1, <2>2 DEF Newer
<1> QED
  BY <1>3, <1>4

LEMMA NewerPulled == ASSUME IInv, Newer, OutPull PROVE Newer'
<1>1. /\ Numbers' = Tail(Numbers) /\ outRQueue'.num = outRQueue.num - 1 /\ outRQueue.num # 0
      /\ Complete' = Complete
  BY OutPulled DEF OutPull, IInv, AnswersHold, OutputTypes, Numbers, Complete, midVars, Out!isEmpty
<1>2. /\ Numbers \in Seq(Nat) /\ Len(Numbers) = outRQueue.num
      /\ Complete \in Nat /\ outRQueue.num \in Nat
  BY OutQueue, FramesTypes DEF IInv, OutputTypes, Numbers
<1>3. \A i \in 1 .. outRQueue.num - 1 : Tail(Numbers)[i] = Numbers[i + 1]
  BY <1>1, <1>2
<1>4. \A i \in 1 .. outRQueue.num - 1 : Tail(Numbers)[i] = Complete - (outRQueue.num - 1) + i
  <2> SUFFICES ASSUME NEW i \in 1 .. outRQueue.num - 1
               PROVE  Tail(Numbers)[i] = Complete - (outRQueue.num - 1) + i
    OBVIOUS
  <2>1. i + 1 \in 1 .. outRQueue.num /\ Tail(Numbers)[i] = Numbers[i + 1]
    BY <1>2, <1>3
  <2>2. Numbers[i + 1] = Complete - outRQueue.num + (i + 1)
    BY <2>1 DEF Newer
  <2>3. Complete \in Nat /\ outRQueue.num \in Nat /\ i \in Int
    BY <1>2
  <2>4. Complete - outRQueue.num + (i + 1) = Complete - (outRQueue.num - 1) + i
    BY <2>3, Shift
  <2> QED
    BY <2>1, <2>2, <2>4
<1> QED
  BY <1>1, <1>2, <1>4 DEF Newer

\* The add queues what mid holds as the next frame.
LEMMA FramesAdded == ASSUME IInv, FrameInv, StartAdd PROVE FrameInv'
<1>1. /\ fpc \in {"add", "overwrite"} /\ fpc' = "release" /\ index = 0
      /\ frames' = Append(frames, mid) /\ UNCHANGED <<index, tempInNode, mid, taken>>
  BY DEF StartAdd, ReleasesAfter, FrameInv, Accounted
<1>2. Stored = MidLen /\ Stored' = 0
  BY <1>1 DEF Stored
<1>3. /\ Complete' = Complete + 1 /\ frames'[Complete + 1] = mid
      /\ \A i \in 1 .. Complete : frames'[i] = frames[i]
  BY <1>1, FramesTypes DEF Complete
<1>4. \A k \in 0 .. MidLen - 1 : mid[k] = NodeOf(taken, Complete + 1, k)
  <2>1. \A k \in 0 .. MidLen - 1 : k < Stored
    BY <1>2, FramesTypes
  <2> QED
    BY <2>1 DEF FrameInv, Filled
<1>5. Accounted'
  <2>1. One(fpc = "store") = 0 /\ One(fpc = "store")' = 0
    BY <1>1 DEF One
  <2>2. Len(taken) = Complete * MidLen + MidLen
    BY <1>2, <2>1, FramesTypes DEF FrameInv, Accounted
  <2>3. Len(taken) = (Complete + 1) * MidLen + 0 + 0
    <3>1. (Complete + 1) * MidLen = Complete * MidLen + MidLen
      BY FramesTypes, NextPlace
    <3> QED
      BY <2>2, <3>1, FramesTypes
  <2> QED
    BY <1>1, <1>2, <1>3, <2>1, <2>3 DEF Accounted
<1>6. Cut'
  <2> SUFFICES ASSUME NEW i \in 1 .. Complete + 1, NEW k \in 0 .. MidLen - 1
               PROVE  frames'[i][k] = NodeOf(taken, i, k)
    BY <1>1, <1>3 DEF Cut, NodeOf
  <2>1. CASE i = Complete + 1
    BY <1>3, <1>4, <2>1
  <2>2. CASE i # Complete + 1
    <3>1. i \in 1 .. Complete
      BY <2>2, FramesTypes
    <3> QED
      BY <1>3, <3>1 DEF FrameInv, Cut
  <2> QED
    BY <2>1, <2>2
<1>7. Filled'
  <2>1. \A k \in 0 .. MidLen - 1 : ~(k < 0)
    OBVIOUS
  <2> QED
    BY <1>1, <1>2, <1>3, <1>4, <2>1 DEF Filled, NodeOf
<1>8. Newer'
  BY <1>3, NewerAdded DEF FrameInv
<1> QED
  BY <1>5, <1>6, <1>7, <1>8 DEF FrameInv

\* FrameInv holds in every state (interfaceStart, InterfaceOfUSB.cpp:119-154).
THEOREM FramesInductive == Spec => []FrameInv
<1>1. Init => FrameInv
  <2> SUFFICES ASSUME Init PROVE FrameInv
    OBVIOUS
  <2>1. IInv /\ outRQueue.num = 0 /\ index = 0 /\ taken = <<>> /\ frames = <<>> /\ fpc = "poll"
    BY InitInv DEF Init, Out!NewRing
  <2>2. Complete = 0 /\ Len(taken) = 0 /\ Stored = 0 /\ One(fpc = "store") = 0
    BY <2>1 DEF Complete, Stored, One
  <2>3. Accounted
    BY <2>1, <2>2, InterfaceAssumption DEF Accounted
  <2>4. Cut /\ Filled
    BY <2>2, InterfaceAssumption DEF Cut, Filled
  <2>5. Newer
    BY <2>1, <2>2 DEF Newer
  <2> QED
    BY <2>3, <2>4, <2>5 DEF FrameInv
<1>2. ASSUME IInv, FrameInv, [Next]_vars PROVE FrameInv'
  <2> USE <1>2
  <2>1. CASE InterfaceForIn \/ OutPoll \/ OutWait \/ UNCHANGED vars
    <3>1. UNCHANGED <<fpc, index, tempInNode, mid, taken, frames, outRQueue>>
      BY <2>1 DEF InterfaceForIn, InTest, InAdd, InRelease, OutPoll, OutWait, vars, midVars
    <3> QED
      BY <3>1, NewerKept, FramesUntouched DEF FrameInv, Accounted, Stored
  <2>2. CASE OutPull
    <3>1. UNCHANGED <<fpc, index, tempInNode, mid, taken, frames>>
      BY <2>2 DEF OutPull, midVars
    <3> QED
      BY <2>2, <3>1, NewerPulled, FramesUntouched DEF FrameInv, Accounted, Stored
  <2>3. CASE StartPoll
    <3>1. UNCHANGED <<tempInNode, mid, taken, frames, outRQueue>> /\ fpc = "poll" /\ fpc' \in {"isFull", "wait"}
      BY <2>3 DEF StartPoll
    <3>2. Stored' = Stored /\ (fpc' = "isFull" => index' = 0)
      BY <2>3, FramesTypes DEF StartPoll, MidFull, Stored
    <3> QED
      BY <3>1, <3>2, NewerKept, FramesUntouched DEF FrameInv, One
  <2>4. CASE StartWait \/ StartIsFull \/ StartRelease
    <3>1. /\ UNCHANGED <<index, tempInNode, mid, taken, frames, outRQueue>>
          /\ \/ fpc = "wait" /\ fpc' = "pull"
             \/ fpc = "isFull" /\ fpc' \in {"add", "overwrite"}
             \/ fpc = "release" /\ fpc' = "poll"
      BY <2>4 DEF StartWait, StartIsFull, StartRelease
    <3>2. Stored' = Stored /\ (fpc' \in {"isFull", "add", "overwrite", "release"} => index' = 0)
      BY <3>1 DEF Stored, FrameInv, Accounted
    <3> QED
      BY <3>1, <3>2, NewerKept, FramesUntouched DEF FrameInv, One
  <2> QED
    BY <2>1, <2>2, <2>3, <2>4, FramesPulled, FramesStored, FramesAdded
    DEF Next, InterfaceStart, InterfaceForUSBOut
<1> QED
  BY <1>1, <1>2, InterfaceInductive, PTL DEF Spec

\* The frames are the nodes taken, MidLen at a time, and the ring holds the newest of
\* them in order (interfaceStart, InterfaceOfUSB.cpp:119-154).
THEOREM FramesAreWhole == Spec => []FramesWhole
<1>1. IInv /\ FrameInv => FramesWhole
  <2> SUFFICES ASSUME IInv, FrameInv PROVE FramesWhole
    OBVIOUS
  <2>1. Len(taken) >= Complete * MidLen
    <3> DEFINE t == Complete * MidLen
    <3>1. Len(taken) = t + Stored + One(fpc = "store") /\ t \in Nat /\ One(fpc = "store") \in Nat
      BY FramesTypes DEF FrameInv, Accounted, One
    <3> HIDE DEF t
    <3>2. Len(taken) >= t
      BY <3>1, FramesTypes
    <3> QED
      BY <3>2 DEF t
  <2>2. \A i \in DOMAIN frames : \A k \in 0 .. MidLen - 1 : frames[i][k] = NodeOf(taken, i, k)
    BY FramesTypes DEF FrameInv, Cut
  <2> QED
    BY <2>1, <2>2 DEF FramesWhole, FrameInv, Newer, Numbers, Complete, NodeOf
<1> QED
  BY <1>1, InterfaceInductive, FramesInductive, PTL

=============================================================================
