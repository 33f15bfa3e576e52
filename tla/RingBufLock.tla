----------------------------- MODULE RingBufLock ----------------------------
(***************************************************************************)
(* The bodies of RingBufCPP's methods, statement by statement, under its   *)
(* lock.  RB_ATOMIC_START waits for the object's Windows mutex and         *)
(* RB_ATOMIC_END releases it.  add and pull call isFull and isEmpty, which *)
(* lock again: the mutex counts how often its owner holds it.              *)
(*                                                                         *)
(* The module shows that a method is one atomic step to every other        *)
(* thread, which is how RingBuf and HjkUsbXfer model it.                   *)
(***************************************************************************)
EXTENDS RingBufOps

CONSTANTS Thread, Type

VARIABLES
  head, num, buf,      \* _head, _numElements, _buf
  owner, depth,        \* the mutex: the thread that holds it, and how many times
  pc, call,            \* where each thread is, and the call it makes
  full, tail, dest,    \* the locals of add and pull; full is also isEmpty's answer
  result               \* history: what the latest call to take effect returns

object == <<head, num, buf>>
Object == [head |-> head, num |-> num, buf |-> buf]
mutex  == <<owner, depth>>
locals == <<call, full, tail, dest>>
vars   == <<object, mutex, pc, locals, result>>

None == "none"

\* No thread is the mark of a free mutex.
ASSUME ThreadAssumption == None \notin Thread

Calls ==
  [op : {"add"}, obj : Type, overwrite : BOOLEAN]
    \cup [op : {"peek"}, n : 0 .. MaxElements]
    \cup [op : {"pull", "numElements", "getHead"}]

Idle == [op |-> "idle"]

Init ==
  /\ head = 0 /\ num = 0 /\ buf \in [Slot -> Type]
  /\ owner = None /\ depth = 0
  /\ pc = [t \in Thread |-> "idle"] /\ call = [t \in Thread |-> Idle]
  /\ full = [t \in Thread |-> FALSE] /\ tail = [t \in Thread |-> 0]
  /\ dest = [t \in Thread |-> None]
  /\ result = [op |-> "none"]

Goto(t, label) == pc' = [pc EXCEPT ![t] = label]

-----------------------------------------------------------------------------
\* Deliberate errors, each a variant of a definition below that the properties
\* have to notice.
NoWait(t)       == owner' = t /\ depth' = depth + 1
NotRecursive(t) == owner = None /\ owner' = t /\ depth' = depth + 1
ReleasesAll(t)  == owner = t /\ depth' = 0 /\ owner' = None
CountsWhenFull(t) ==
  /\ pc[t] = "_numElements++" /\ num' = num + 1 /\ Goto(t, "unlock")
  /\ UNCHANGED <<head, buf, mutex, locals, result>>

-----------------------------------------------------------------------------
\* WaitForSingleObject(HJKMUTEX, INFINITE) and ReleaseMutex(HJKMUTEX).
WaitMutex(t) == owner \in {None, t} /\ owner' = t /\ depth' = depth + 1
ReleaseMutex(t) ==
  /\ owner = t
  /\ depth' = depth - 1
  /\ owner' = IF depth = 1 THEN None ELSE t

-----------------------------------------------------------------------------
Enter(t, c) ==
  /\ pc[t] = "idle"
  /\ call' = [call EXCEPT ![t] = c]
  /\ Goto(t, "lock")
  /\ UNCHANGED <<object, mutex, full, tail, dest, result>>

\* The outer RB_ATOMIC_START of every method.
Lock(t) ==
  /\ pc[t] = "lock"
  /\ WaitMutex(t)
  /\ Goto(t, IF call[t].op \in {"add", "pull"} THEN "lock again" ELSE "read")
  /\ UNCHANGED <<object, locals, result>>

\* The nested isFull() of add and isEmpty() of pull.
LockAgain(t) ==
  /\ pc[t] = "lock again"
  /\ WaitMutex(t)
  /\ Goto(t, "test")
  /\ UNCHANGED <<object, locals, result>>

Test(t) ==
  /\ pc[t] = "test"
  /\ full' = [full EXCEPT ![t] = IF call[t].op = "add" THEN num >= MaxElements ELSE num = 0]
  /\ Goto(t, "unlock once")
  /\ UNCHANGED <<object, mutex, call, tail, dest, result>>

UnlockOnce(t) ==
  /\ pc[t] = "unlock once"
  /\ ReleaseMutex(t)
  /\ Goto(t, "branch")
  /\ UNCHANGED <<object, locals, result>>

\* add: if (!full || overwrite).  A refused add takes effect here.
AddBranch(t) ==
  /\ pc[t] = "branch" /\ call[t].op = "add"
  /\ IF ~full[t] \/ call[t].overwrite
     THEN Goto(t, "_buf[_head] = obj") /\ UNCHANGED result
     ELSE Goto(t, "unlock") /\ result' = [op |-> "add", ok |-> FALSE]
  /\ UNCHANGED <<object, mutex, locals>>

\* The first write of add is where the other threads may say it happened.
AddStore(t) ==
  /\ pc[t] = "_buf[_head] = obj"
  /\ buf' = [buf EXCEPT ![head] = call[t].obj]
  /\ result' = [op |-> "add", ok |-> ~full[t]]
  /\ Goto(t, "_head++")
  /\ UNCHANGED <<head, num, mutex, locals>>

AddHead(t) ==
  /\ pc[t] = "_head++"
  /\ head' = (head + 1) % MaxElements
  /\ Goto(t, "_numElements++")
  /\ UNCHANGED <<num, buf, mutex, locals, result>>

AddNum(t) ==
  /\ pc[t] = "_numElements++"
  /\ num' = IF full[t] THEN num ELSE num + 1
  /\ Goto(t, "unlock")
  /\ UNCHANGED <<head, buf, mutex, locals, result>>

\* pull: if (!isEmpty()).
PullBranch(t) ==
  /\ pc[t] = "branch" /\ call[t].op = "pull"
  /\ IF full[t]
     THEN /\ Goto(t, "unlock") /\ UNCHANGED tail
          /\ result' = [op |-> "pull", ok |-> FALSE]
     ELSE /\ tail' = [tail EXCEPT ![t] = getTail(Object)]
          /\ Goto(t, "*dest = _buf[tail]") /\ UNCHANGED result
  /\ UNCHANGED <<object, mutex, call, full, dest>>

PullCopy(t) ==
  /\ pc[t] = "*dest = _buf[tail]"
  /\ dest' = [dest EXCEPT ![t] = buf[tail[t]]]
  /\ Goto(t, "_numElements--")
  /\ UNCHANGED <<object, mutex, call, full, tail, result>>

PullNum(t) ==
  /\ pc[t] = "_numElements--"
  /\ num' = num - 1
  /\ result' = [op |-> "pull", ok |-> TRUE, obj |-> dest[t]]
  /\ Goto(t, "unlock")
  /\ UNCHANGED <<head, buf, mutex, locals>>

\* The bodies of numElements, getHead and peek are a single read.
Read(t) ==
  /\ pc[t] = "read"
  /\ result' =
       CASE call[t].op = "numElements" -> [op |-> "numElements", n |-> num]
         [] call[t].op = "getHead"     -> result
         [] call[t].op = "peek" /\ call[t].n < num ->
              [op |-> "peek", ok |-> TRUE, obj |-> buf[peek(Object, call[t].n)]]
         [] OTHER -> [op |-> "peek", ok |-> FALSE]
  /\ Goto(t, "unlock")
  /\ UNCHANGED <<object, mutex, locals>>

\* The outer RB_ATOMIC_END, and the return: the locals are gone.
Unlock(t) ==
  /\ pc[t] = "unlock"
  /\ ReleaseMutex(t)
  /\ Goto(t, "idle")
  /\ call' = [call EXCEPT ![t] = Idle] /\ full' = [full EXCEPT ![t] = FALSE]
  /\ tail' = [tail EXCEPT ![t] = 0] /\ dest' = [dest EXCEPT ![t] = None]
  /\ UNCHANGED <<object, result>>

Step(t) ==
  \/ Lock(t) \/ LockAgain(t) \/ Test(t) \/ UnlockOnce(t) \/ Read(t) \/ Unlock(t)
  \/ AddBranch(t) \/ AddStore(t) \/ AddHead(t) \/ AddNum(t)
  \/ PullBranch(t) \/ PullCopy(t) \/ PullNum(t)

Next == \E t \in Thread : Step(t) \/ \E c \in Calls : Enter(t, c)

Spec == Init /\ [][Next]_vars

\* Threads keep running, and a waiter is not passed over for ever.
Fairness == \A t \in Thread : WF_vars(Step(t)) /\ SF_vars(Lock(t))

FairSpec == Spec /\ Fairness

-----------------------------------------------------------------------------
Inside == {"lock again", "test", "unlock once", "branch", "_buf[_head] = obj", "_head++",
           "_numElements++", "*dest = _buf[tail]", "_numElements--", "read", "unlock"}

TypeOK ==
  /\ head \in Slot /\ num \in 0 .. MaxElements /\ buf \in [Slot -> Type]
  /\ owner \in Thread \cup {None} /\ depth \in 0 .. 2
  /\ pc \in [Thread -> Inside \cup {"idle", "lock"}]
  /\ call \in [Thread -> Calls \cup {Idle}] /\ full \in [Thread -> BOOLEAN]
  /\ tail \in [Thread -> Slot] /\ dest \in [Thread -> Type \cup {None}]

\* The nested locking balances: a thread is inside a method exactly while it owns
\* the mutex, twice while isFull or isEmpty runs, and releases it for good.
LockBalanced ==
  /\ \A t \in Thread : pc[t] \in Inside <=> owner = t
  /\ depth = IF owner = None THEN 0
             ELSE IF pc[owner] \in {"test", "unlock once"} THEN 2 ELSE 1

\* Half-way through add, the object as the other threads will find it.
AtPc(label) == \E t \in Thread : pc[t] = label
Adding == AtPc("_head++") \/ AtPc("_numElements++")
Committed ==
  [head |-> IF AtPc("_head++") THEN (head + 1) % MaxElements ELSE head,
   num  |-> IF Adding /\ ~full[owner] THEN num + 1 ELSE num,
   buf  |-> buf]

\* Each method takes effect in one step, whatever the interleaving: the threads
\* see the atomic object of module RingBuf, return values included.
Atomic == INSTANCE RingBuf WITH ring <- Committed

Linearizable == Atomic!Spec

\* What the atomic object promises its clients holds of the locked one: add, pull, peek
\* and numElements are those of a bounded FIFO queue, oldest element first ...
Refinement == Atomic!Refinement

\* ... and the head slot, which clients fill in place through the pointer getHead
\* returns, is outside the queue exactly while the ring is not full.
HeadSlotFree == Atomic!HeadSlotFree

\* Every call returns: the nested lock never blocks its own thread.
CallsReturn == \A t \in Thread : pc[t] = "lock" ~> pc[t] = "idle"
=============================================================================
