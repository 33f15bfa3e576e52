------------------------- MODULE RingBufLock_proofs -------------------------
(***************************************************************************)
(* The recursive mutex makes every method of RingBufCPP one atomic step,   *)
(* for any number of threads, any array size and any node type.            *)
(***************************************************************************)
EXTENDS RingBufLock, RingBufOps_proofs

\* What the method a thread is in has found out and not yet used: while the thread is
\* inside, nobody else changes the object, and so it stays true.
Asked  == {"unlock once", "branch", "_buf[_head] = obj", "_head++", "_numElements++",
           "*dest = _buf[tail]", "_numElements--"}
Nested == {"lock again", "test", "unlock once", "branch"}
AddPc  == {"_buf[_head] = obj", "_head++", "_numElements++"}
PullPc == {"*dest = _buf[tail]", "_numElements--"}

\* The call fits the place in the code.
CallAt(t) ==
  /\ pc[t] # "idle" => call[t] \in Calls
  /\ pc[t] \in Nested => call[t].op \in {"add", "pull"}
  /\ pc[t] \in AddPc => call[t].op = "add" /\ (~full[t] \/ call[t].overwrite)
  /\ pc[t] \in PullPc => call[t].op = "pull" /\ ~full[t]
  /\ pc[t] = "read" => call[t].op \in {"peek", "numElements", "getHead"}

\* The locals of the method agree with the object.
LocalsCurrent(t) ==
  /\ pc[t] \in Asked =>
       full[t] = (IF call[t].op = "add" THEN num >= MaxElements ELSE num = 0)
  /\ pc[t] \in PullPc => tail[t] = getTail(Object)
  /\ pc[t] = "_numElements--" => dest[t] = buf[tail[t]]

IInv ==
  /\ TypeOK /\ LockBalanced
  /\ \A t \in Thread : CallAt(t) /\ LocalsCurrent(t)

-----------------------------------------------------------------------------
LEMMA InitInv == Init => IInv
<1> SUFFICES ASSUME Init PROVE IInv
  OBVIOUS
<1>1. TypeOK
  BY MaxElementsAssumption DEF Init, TypeOK, Slot, Inside
<1>2. LockBalanced
  BY ThreadAssumption DEF Init, LockBalanced, Inside
<1>3. \A t \in Thread : CallAt(t) /\ LocalsCurrent(t)
  BY DEF Init, CallAt, LocalsCurrent, Nested, AddPc, PullPc, Asked
<1> QED
  BY <1>1, <1>2, <1>3 DEF IInv

LEMMA GetTailSlot ==
  ASSUME NEW h \in Slot, NEW k \in 0 .. MaxElements
  PROVE  (h + (MaxElements - k)) % MaxElements \in Slot
BY MaxElementsAssumption, SMT DEF Slot

\* Who holds the mutex, and how many times.
LEMMA Held ==
  ASSUME LockBalanced, NEW t \in Thread
  PROVE  /\ pc[t] \in Inside => owner = t
         /\ pc[t] \notin Inside => owner # t
         /\ pc[t] \in Inside => depth = IF pc[t] \in {"test", "unlock once"} THEN 2 ELSE 1
         /\ owner = None => depth = 0
<1> USE DEF LockBalanced
<1>1. pc[t] \in Inside <=> owner = t
  OBVIOUS
<1>2. owner = t => owner # None
  BY ThreadAssumption
<1> QED
  BY <1>1, <1>2

\* Types.
LEMMA StepTypes ==
  ASSUME IInv, NEW t \in Thread, Step(t) \/ \E c \in Calls : Enter(t, c)
  PROVE  TypeOK'
<1> USE DEF TypeOK, object, mutex, locals, Goto
<1>0. /\ TypeOK /\ LockBalanced /\ CallAt(t) /\ LocalsCurrent(t)
  BY DEF IInv
<1>a. /\ pc[t] \in Inside => owner = t
      /\ pc[t] \notin Inside => owner # t
      /\ pc[t] \in Inside => depth = IF pc[t] \in {"test", "unlock once"} THEN 2 ELSE 1
      /\ owner = None => depth = 0
  BY <1>0, Held
<1>1. ASSUME NEW c \in Calls, Enter(t, c) PROVE TypeOK'
  BY <1>0, <1>1 DEF Enter
<1>2. CASE Lock(t)
  <2>1. depth = 0
    BY <1>a, <1>2 DEF Lock, WaitMutex, Inside
  <2>2. depth' = depth + 1
    BY <1>2 DEF Lock, WaitMutex
  <2>3. depth' \in 0 .. 2
    BY <2>1, <2>2
  <2>4. owner' \in Thread \cup {None}
    BY <2>1, <1>2 DEF Lock, WaitMutex
  <2> QED
    BY <1>0, <1>2, <2>3, <2>4 DEF Lock, Inside
<1>3. CASE LockAgain(t)
  <2>1. depth = 1
    BY <1>a, <1>3 DEF LockAgain, Inside
  <2>2. depth' = depth + 1
    BY <1>3 DEF LockAgain, WaitMutex
  <2>3. depth' \in 0 .. 2
    BY <2>1, <2>2
  <2>4. owner' \in Thread \cup {None}
    BY <2>1, <1>3 DEF LockAgain, WaitMutex
  <2> QED
    BY <1>0, <1>3, <2>3, <2>4 DEF LockAgain, Inside
<1>4. CASE Test(t)
  <2> DEFINE answer == IF call[t].op = "add" THEN num >= MaxElements ELSE num = 0
  <2>1. full' = [full EXCEPT ![t] = answer]
    BY <1>4 DEF Test
  <2>2. answer \in BOOLEAN
    <3>1. CASE call[t].op = "add"
      BY <3>1
    <3>2. CASE call[t].op # "add"
      BY <3>2
    <3> QED
      BY <3>1, <3>2
  <2> HIDE DEF answer
  <2>3. full' \in [Thread -> BOOLEAN]
    BY <1>0, <2>1, <2>2
  <2> QED
    BY <1>0, <1>4, <2>3 DEF Test, Inside
<1>5. CASE UnlockOnce(t)
  <2>1. depth = 2
    BY <1>a, <1>5 DEF UnlockOnce, Inside
  <2>2. depth' = depth - 1
    BY <1>5 DEF UnlockOnce, ReleaseMutex
  <2>3. depth' \in 0 .. 2
    BY <2>1, <2>2
  <2>4. owner' \in Thread \cup {None}
    BY <2>1, <1>5 DEF UnlockOnce, ReleaseMutex
  <2> QED
    BY <1>0, <1>5, <2>3, <2>4 DEF UnlockOnce, Inside
<1>6. CASE Read(t)
  BY <1>0, <1>6 DEF Read, Inside
<1>7. CASE Unlock(t)
  <2>1. depth = 1
    BY <1>a, <1>7 DEF Unlock, Inside
  <2>2. 0 \in Slot
    BY MaxElementsAssumption DEF Slot
  <2>3. depth' \in 0 .. 2 /\ owner' \in Thread \cup {None}
    BY <1>7, <2>1 DEF Unlock, ReleaseMutex
  <2> QED
    BY <1>0, <1>7, <2>2, <2>3 DEF Unlock, Inside
<1>8. CASE AddBranch(t)
  BY <1>0, <1>8 DEF AddBranch, Inside
<1>9. CASE AddStore(t)
  <2>1. call[t].obj \in Type
    BY <1>0, <1>9 DEF AddStore, CallAt, AddPc, Calls
  <2> QED
    BY <1>0, <1>9, <2>1 DEF AddStore, Inside
<1>10. CASE AddHead(t)
  <2>1. (head + 1) % MaxElements \in Slot
    BY <1>0, MaxElementsAssumption, SMT DEF Slot
  <2> QED
    BY <1>0, <1>10, <2>1 DEF AddHead, Inside
<1>11. CASE AddNum(t)
  <2>1. ~full[t] => num + 1 \in 0 .. MaxElements
    BY <1>0, <1>11, MaxElementsAssumption DEF AddNum, CallAt, LocalsCurrent, AddPc, Asked
  <2> QED
    BY <1>0, <1>11, <2>1 DEF AddNum, Inside
<1>12. CASE PullBranch(t)
  <2>1. getTail(Object) \in Slot
    BY <1>0, GetTailSlot DEF getTail, Object
  <2> QED
    BY <1>0, <1>12, <2>1 DEF PullBranch, Inside
<1>13. CASE PullCopy(t)
  <2>1. buf[tail[t]] \in Type
    BY <1>0
  <2> QED
    BY <1>0, <1>13, <2>1 DEF PullCopy, Inside
<1>14. CASE PullNum(t)
  <2>1. num - 1 \in 0 .. MaxElements
    BY <1>0, <1>14, MaxElementsAssumption DEF PullNum, CallAt, LocalsCurrent, PullPc, Asked
  <2> QED
    BY <1>0, <1>14, <2>1 DEF PullNum, Inside
<1> QED
  BY <1>1, <1>2, <1>3, <1>4, <1>5, <1>6, <1>7, <1>8, <1>9, <1>10, <1>11, <1>12, <1>13, <1>14
  DEF Step

-----------------------------------------------------------------------------
\* Locking.  A step of t moves only t, and takes or gives the mutex as its new place
\* in the code demands.
Twice == {"test", "unlock once"}

LEMMA Balance ==
  ASSUME TypeOK, LockBalanced, NEW t \in Thread, NEW label,
         pc' = [pc EXCEPT ![t] = label],
         \/ /\ owner' = owner /\ depth' = depth
            /\ pc[t] \in Inside <=> label \in Inside
            /\ pc[t] \in Twice <=> label \in Twice
         \/ /\ owner \in {None, t} /\ owner' = IF label \in Inside THEN t ELSE None
            /\ depth' = IF label \in Twice THEN 2 ELSE IF label \in Inside THEN 1 ELSE 0
  PROVE  LockBalanced'
<1>1. \A u \in Thread : pc[u] \in Inside <=> owner = u
  BY DEF LockBalanced
<1>2. depth = IF owner = None THEN 0 ELSE IF pc[owner] \in Twice THEN 2 ELSE 1
  BY DEF LockBalanced, Twice
<1>3. /\ pc'[t] = label
      /\ \A u \in Thread : u # t => pc'[u] = pc[u]
  BY DEF TypeOK
<1>4. Twice \subseteq Inside
  BY DEF Twice, Inside
<1>5. \A u \in Thread : pc'[u] \in Inside <=> owner' = u
  BY <1>1, <1>3, ThreadAssumption
<1>6. depth' = IF owner' = None THEN 0 ELSE IF pc'[owner'] \in Twice THEN 2 ELSE 1
  <2>1. CASE owner' = owner /\ depth' = depth /\ (pc[t] \in Inside <=> label \in Inside)
             /\ (pc[t] \in Twice <=> label \in Twice)
    <3>1. owner # None => (pc'[owner] \in Twice <=> pc[owner] \in Twice)
      BY <2>1, <1>3 DEF TypeOK
    <3> QED
      BY <2>1, <3>1, <1>2
  <2>2. CASE owner \in {None, t} /\ owner' = (IF label \in Inside THEN t ELSE None)
             /\ depth' = IF label \in Twice THEN 2 ELSE IF label \in Inside THEN 1 ELSE 0
    BY <2>2, <1>3, <1>4, ThreadAssumption
  <2> QED
    BY <2>1, <2>2
<1> QED
  BY <1>5, <1>6 DEF LockBalanced, Twice

LEMMA StepBalance ==
  ASSUME IInv, NEW t \in Thread, Step(t) \/ \E c \in Calls : Enter(t, c)
  PROVE  LockBalanced'
<1> USE DEF object, mutex, locals, Goto
<1>0. TypeOK /\ LockBalanced /\ CallAt(t)
  BY DEF IInv
<1>a. /\ pc[t] \in Inside => owner = t
      /\ pc[t] \notin Inside => owner # t
      /\ pc[t] \in Inside => depth = IF pc[t] \in {"test", "unlock once"} THEN 2 ELSE 1
      /\ owner = None => depth = 0
  BY <1>0, Held
<1> DEFINE
     Stays == /\ owner' = owner /\ depth' = depth
              /\ \E label : /\ pc' = [pc EXCEPT ![t] = label]
                            /\ pc[t] \in Inside <=> label \in Inside
                            /\ pc[t] \in Twice <=> label \in Twice
     Moves == \E label :
                /\ pc' = [pc EXCEPT ![t] = label]
                /\ owner \in {None, t} /\ owner' = IF label \in Inside THEN t ELSE None
                /\ depth' = IF label \in Twice THEN 2 ELSE IF label \in Inside THEN 1 ELSE 0
<1> SUFFICES Stays \/ Moves
  BY <1>0, Balance
<1>1. ASSUME NEW c \in Calls, Enter(t, c) PROVE Stays
  <2>1. pc[t] = "idle" /\ pc' = [pc EXCEPT ![t] = "lock"] /\ owner' = owner /\ depth' = depth
    BY <1>1 DEF Enter
  <2>2. {"idle", "lock"} \cap Inside = {} /\ {"idle", "lock"} \cap Twice = {}
    BY DEF Inside, Twice
  <2> QED
    BY <2>1, <2>2
<1>2. CASE Lock(t)
  <2> DEFINE label == IF call[t].op \in {"add", "pull"} THEN "lock again" ELSE "read"
  <2>1. owner \in {None, t} /\ owner' = t /\ pc' = [pc EXCEPT ![t] = label]
    BY <1>2 DEF Lock, WaitMutex
  <2>2. depth = 0 /\ depth' = depth + 1
    BY <1>a, <1>2 DEF Lock, WaitMutex, Inside
  <2>3. depth' = 1
    BY <2>2
  <2>4. label \in Inside /\ label \notin Twice
    BY DEF Inside, Twice
  <2> QED
    BY <2>1, <2>3, <2>4
<1>3. CASE LockAgain(t)
  <2>1. owner \in {None, t} /\ owner' = t /\ pc' = [pc EXCEPT ![t] = "test"] /\ depth' = depth + 1
    BY <1>3 DEF LockAgain, WaitMutex
  <2>2. depth = 1
    BY <1>a, <1>3 DEF LockAgain, Inside
  <2>3. depth' = 2
    BY <2>1, <2>2
  <2>4. "test" \in Inside /\ "test" \in Twice
    BY DEF Inside, Twice
  <2> QED
    BY <2>1, <2>3, <2>4
<1>4. CASE Test(t)
  BY <1>4 DEF Test, Inside, Twice
<1>5. CASE UnlockOnce(t)
  <2>1. owner = t /\ depth' = depth - 1 /\ pc' = [pc EXCEPT ![t] = "branch"]
        /\ owner' = IF depth = 1 THEN None ELSE t
    BY <1>5 DEF UnlockOnce, ReleaseMutex
  <2>2. depth = 2
    BY <1>a, <1>5 DEF UnlockOnce, Inside
  <2>3. depth' = 1 /\ owner' = t
    BY <2>1, <2>2
  <2>4. "branch" \in Inside /\ "branch" \notin Twice
    BY DEF Inside, Twice
  <2> QED
    BY <2>1, <2>3, <2>4
<1>6. CASE Read(t)
  BY <1>6 DEF Read, Inside, Twice
<1>7. CASE Unlock(t)
  <2>1. owner = t /\ depth' = depth - 1 /\ pc' = [pc EXCEPT ![t] = "idle"]
        /\ owner' = IF depth = 1 THEN None ELSE t
    BY <1>7 DEF Unlock, ReleaseMutex
  <2>2. depth = 1
    BY <1>a, <1>7 DEF Unlock, Inside
  <2>3. depth' = 0 /\ owner' = None
    BY <2>1, <2>2
  <2>4. "idle" \notin Inside /\ "idle" \notin Twice
    BY DEF Inside, Twice
  <2> QED
    BY <2>1, <2>3, <2>4
<1>8. CASE AddBranch(t)
  <2>1. PICK label \in {"_buf[_head] = obj", "unlock"} : pc' = [pc EXCEPT ![t] = label]
    BY <1>8 DEF AddBranch
  <2>2. label \in Inside /\ label \notin Twice
    BY <2>1 DEF Inside, Twice
  <2> QED
    BY <1>8, <2>1, <2>2 DEF AddBranch, Inside, Twice
<1>9. CASE AddStore(t)
  BY <1>9 DEF AddStore, Inside, Twice
<1>10. CASE AddHead(t)
  BY <1>10 DEF AddHead, Inside, Twice
<1>11. CASE AddNum(t)
  BY <1>11 DEF AddNum, Inside, Twice
<1>12. CASE PullBranch(t)
  <2>1. PICK label \in {"*dest = _buf[tail]", "unlock"} : pc' = [pc EXCEPT ![t] = label]
    BY <1>12 DEF PullBranch
  <2>2. label \in Inside /\ label \notin Twice
    BY <2>1 DEF Inside, Twice
  <2> QED
    BY <1>12, <2>1, <2>2 DEF PullBranch, Inside, Twice
<1>13. CASE PullCopy(t)
  BY <1>13 DEF PullCopy, Inside, Twice
<1>14. CASE PullNum(t)
  BY <1>14 DEF PullNum, Inside, Twice
<1> QED
  BY <1>1, <1>2, <1>3, <1>4, <1>5, <1>6, <1>7, <1>8, <1>9, <1>10, <1>11, <1>12, <1>13, <1>14
  DEF Step

-----------------------------------------------------------------------------
\* Calls and locals.  A step of t changes nothing another thread has found out: the
\* other thread is then outside, or the object stays as it is.
LEMMA Elsewhere ==
  ASSUME IInv, NEW t \in Thread, Step(t) \/ \E c \in Calls : Enter(t, c)
  PROVE  /\ UNCHANGED object \/ owner = t
         /\ \A u \in Thread \ {t} :
              /\ pc'[u] = pc[u] /\ call'[u] = call[u] /\ full'[u] = full[u]
              /\ tail'[u] = tail[u] /\ dest'[u] = dest[u]
<1> USE DEF TypeOK, object, mutex, locals, Goto
<1>0. TypeOK /\ (pc[t] \in Inside => owner = t)
  BY Held DEF IInv
<1>1. ASSUME NEW c \in Calls, Enter(t, c)
      PROVE  /\ UNCHANGED object \/ owner = t
             /\ \A u \in Thread \ {t} :
                  /\ pc'[u] = pc[u] /\ call'[u] = call[u] /\ full'[u] = full[u]
                  /\ tail'[u] = tail[u] /\ dest'[u] = dest[u]
  BY <1>0, <1>1 DEF Enter
<1>2. CASE Lock(t)
  BY <1>0, <1>2 DEF Lock
<1>3. CASE LockAgain(t)
  BY <1>0, <1>3 DEF LockAgain
<1>4. CASE Test(t)
  BY <1>0, <1>4 DEF Test
<1>5. CASE UnlockOnce(t)
  BY <1>0, <1>5 DEF UnlockOnce
<1>6. CASE Read(t)
  BY <1>0, <1>6 DEF Read
<1>7. CASE Unlock(t)
  BY <1>0, <1>7 DEF Unlock
<1>8. CASE AddBranch(t)
  BY <1>0, <1>8 DEF AddBranch
<1>9. CASE AddStore(t)
  BY <1>0, <1>9 DEF AddStore, Inside
<1>10. CASE AddHead(t)
  BY <1>0, <1>10 DEF AddHead, Inside
<1>11. CASE AddNum(t)
  BY <1>0, <1>11 DEF AddNum, Inside
<1>12. CASE PullBranch(t)
  BY <1>0, <1>12 DEF PullBranch
<1>13. CASE PullCopy(t)
  BY <1>0, <1>13 DEF PullCopy
<1>14. CASE PullNum(t)
  BY <1>0, <1>14 DEF PullNum, Inside
<1> QED
  BY <1>1, <1>2, <1>3, <1>4, <1>5, <1>6, <1>7, <1>8, <1>9, <1>10, <1>11, <1>12, <1>13, <1>14
  DEF Step

LEMMA StepLocals ==
  ASSUME IInv, NEW t \in Thread, Step(t) \/ \E c \in Calls : Enter(t, c)
  PROVE  \A u \in Thread : CallAt(u)' /\ LocalsCurrent(u)'
<1>0. /\ TypeOK /\ CallAt(t) /\ LocalsCurrent(t)
      /\ \A u \in Thread : CallAt(u) /\ LocalsCurrent(u) /\ (pc[u] \in Inside => owner = u)
  BY Held DEF IInv
<1>a. ASSUME NEW u \in Thread \ {t} PROVE CallAt(u)' /\ LocalsCurrent(u)'
  <2>1. /\ pc'[u] = pc[u] /\ call'[u] = call[u] /\ full'[u] = full[u]
        /\ tail'[u] = tail[u] /\ dest'[u] = dest[u]
        /\ UNCHANGED object \/ owner = t
    BY Elsewhere
  <2>2. CallAt(u)'
    BY <1>0, <2>1 DEF CallAt
  <2>3. CASE UNCHANGED object
    <3>1. head' = head /\ num' = num /\ buf' = buf
      BY <2>3 DEF object
    <3>2. LocalsCurrent(u)
      BY <1>0
    <3>3. LocalsCurrent(u)' <=> LocalsCurrent(u)
      BY <2>1, <3>1, Zenon DEF LocalsCurrent, Object, getTail
    <3> QED
      BY <2>2, <3>2, <3>3
  <2>4. CASE owner = t
    <3>1. pc'[u] \notin Inside
      BY <1>0, <2>1, <2>4
    <3>2. LocalsCurrent(u)'
      BY <3>1, Zenon DEF LocalsCurrent, Inside, Asked, PullPc
    <3> QED
      BY <2>2, <3>2
  <2> QED
    BY <2>1, <2>2, <2>3, <2>4
<1> USE DEF TypeOK, object, mutex, locals, Goto
<1> DEFINE OwnKept == CallAt(t)' /\ LocalsCurrent(t)'
<1> SUFFICES OwnKept
  BY <1>a
<1> USE DEF Nested, AddPc, PullPc, Asked
<1>1. ASSUME NEW c \in Calls, Enter(t, c) PROVE OwnKept
  BY <1>0, <1>1 DEF Enter, CallAt, LocalsCurrent
<1>2. CASE Lock(t)
  <2>1. call[t] \in Calls /\ call'[t] = call[t]
    BY <1>0, <1>2 DEF Lock, CallAt
  <2>2. call[t].op \in {"add", "pull", "peek", "numElements", "getHead"}
    BY <2>1 DEF Calls
  <2>3. pc'[t] = IF call[t].op \in {"add", "pull"} THEN "lock again" ELSE "read"
    BY <1>0, <1>2 DEF Lock
  <2>4. CASE call[t].op \in {"add", "pull"}
    BY <2>1, <2>3, <2>4 DEF CallAt, LocalsCurrent
  <2>5. CASE call[t].op \notin {"add", "pull"}
    BY <2>1, <2>2, <2>3, <2>5 DEF CallAt, LocalsCurrent
  <2> QED
    BY <2>4, <2>5
<1>3. CASE LockAgain(t)
  BY <1>0, <1>3 DEF LockAgain, CallAt, LocalsCurrent
<1>4. CASE Test(t)
  BY <1>0, <1>4 DEF Test, CallAt, LocalsCurrent
<1>5. CASE UnlockOnce(t)
  BY <1>0, <1>5 DEF UnlockOnce, CallAt, LocalsCurrent
<1>6. CASE Read(t)
  BY <1>0, <1>6 DEF Read, CallAt, LocalsCurrent
<1>7. CASE Unlock(t)
  BY <1>0, <1>7 DEF Unlock, CallAt, LocalsCurrent
<1>8. CASE AddBranch(t)
  <2>1. /\ pc[t] = "branch" /\ call[t].op = "add" /\ call[t] \in Calls
        /\ UNCHANGED <<head, num, buf, call, full>>
    BY <1>0, <1>8 DEF AddBranch, CallAt
  <2>2. full[t] = (num >= MaxElements)
    BY <1>0, <2>1 DEF LocalsCurrent
  <2>3. CASE ~full[t] \/ call[t].overwrite
    <3>1. pc'[t] = "_buf[_head] = obj"
      BY <1>0, <1>8, <2>3 DEF AddBranch
    <3> QED
      BY <2>1, <2>2, <2>3, <3>1 DEF CallAt, LocalsCurrent
  <2>4. CASE ~(~full[t] \/ call[t].overwrite)
    <3>1. pc'[t] = "unlock"
      BY <1>0, <1>8, <2>4 DEF AddBranch
    <3> QED
      BY <2>1, <3>1 DEF CallAt, LocalsCurrent
  <2> QED
    BY <2>3, <2>4
<1>9. CASE AddStore(t)
  BY <1>0, <1>9 DEF AddStore, CallAt, LocalsCurrent
<1>10. CASE AddHead(t)
  BY <1>0, <1>10 DEF AddHead, CallAt, LocalsCurrent
<1>11. CASE AddNum(t)
  BY <1>0, <1>11 DEF AddNum, CallAt, LocalsCurrent
<1>12. CASE PullBranch(t)
  <2>1. /\ pc[t] = "branch" /\ call[t].op = "pull" /\ call[t] \in Calls
        /\ UNCHANGED <<head, num, buf, call, full>>
    BY <1>0, <1>12 DEF PullBranch, CallAt
  <2>2. full[t] = (num = 0)
    BY <1>0, <2>1 DEF LocalsCurrent
  <2>3. CASE ~full[t]
    <3>1. pc'[t] = "*dest = _buf[tail]" /\ tail'[t] = getTail(Object)
      BY <1>0, <1>12, <2>3 DEF PullBranch
    <3>2. getTail(Object)' = getTail(Object)
      BY <2>1 DEF getTail, Object
    <3> QED
      BY <2>1, <2>2, <2>3, <3>1, <3>2 DEF CallAt, LocalsCurrent
  <2>4. CASE full[t]
    <3>1. pc'[t] = "unlock"
      BY <1>0, <1>12, <2>4 DEF PullBranch
    <3> QED
      BY <2>1, <3>1 DEF CallAt, LocalsCurrent
  <2> QED
    BY <2>3, <2>4
<1>13. CASE PullCopy(t)
  BY <1>0, <1>13 DEF PullCopy, CallAt, LocalsCurrent, Object, getTail
<1>14. CASE PullNum(t)
  BY <1>0, <1>14 DEF PullNum, CallAt, LocalsCurrent
<1> QED
  BY <1>1, <1>2, <1>3, <1>4, <1>5, <1>6, <1>7, <1>8, <1>9, <1>10, <1>11, <1>12, <1>13, <1>14
  DEF Step

-----------------------------------------------------------------------------
\* The invariant is inductive: no thread is inside a method but the owner of the mutex,
\* so what the method has found out about the object is still true when it acts on it.
THEOREM LockInductive == Spec => []IInv
<1>1. Init => IInv
  BY InitInv
<1>2. IInv /\ [Next]_vars => IInv'
  <2> SUFFICES ASSUME IInv, [Next]_vars PROVE IInv'
    OBVIOUS
  <2>1. CASE UNCHANGED vars
    <3>1. TypeOK' /\ LockBalanced'
      BY <2>1 DEF IInv, TypeOK, LockBalanced, vars, object, mutex, locals
    <3>2. ASSUME NEW t \in Thread PROVE CallAt(t)' /\ LocalsCurrent(t)'
      <4>1. CallAt(t) /\ LocalsCurrent(t)
        BY DEF IInv
      <4>2. (CallAt(t)' <=> CallAt(t)) /\ (LocalsCurrent(t)' <=> LocalsCurrent(t))
        BY <2>1, Zenon DEF CallAt, LocalsCurrent, Object, getTail, vars, object, locals
      <4> QED
        BY <4>1, <4>2
    <3> QED
      BY <3>1, <3>2 DEF IInv
  <2>2. ASSUME NEW t \in Thread, Step(t) \/ \E c \in Calls : Enter(t, c) PROVE IInv'
    BY <2>2, StepTypes, StepBalance, StepLocals DEF IInv
  <2> QED
    BY <2>1, <2>2 DEF Next
<1> QED
  BY <1>1, <1>2, PTL DEF Spec

\* The fields of the object and of the mutex stay in range.
THEOREM LockTypeCorrect == Spec => []TypeOK
<1>1. IInv => TypeOK
  BY DEF IInv
<1> QED
  BY <1>1, LockInductive, PTL

\* The nested locking balances, whatever the number of threads.
THEOREM LockingBalances == Spec => []LockBalanced
<1>1. IInv => LockBalanced
  BY DEF IInv
<1> QED
  BY <1>1, LockInductive, PTL

-----------------------------------------------------------------------------
\* Committed without its quantifiers: which thread is half-way through add, if any.
CommittedAs ==
  /\ \A t \in Thread : pc[t] = "_head++" =>
       Committed = [head |-> (head + 1) % MaxElements,
                    num |-> IF full[t] THEN num ELSE num + 1, buf |-> buf]
  /\ \A t \in Thread : pc[t] = "_numElements++" =>
       Committed = [head |-> head, num |-> IF full[t] THEN num ELSE num + 1, buf |-> buf]
  /\ (\A t \in Thread : pc[t] \notin {"_head++", "_numElements++"}) => Committed = Object

LEMMA CommittedShape == IInv => CommittedAs
<1> SUFFICES ASSUME IInv PROVE CommittedAs
  OBVIOUS
<1>1. \A t \in Thread : pc[t] \in Inside => owner = t
  BY Held DEF IInv
<1>2. ASSUME NEW t \in Thread, pc[t] = "_head++"
      PROVE  Committed = [head |-> (head + 1) % MaxElements,
                          num |-> IF full[t] THEN num ELSE num + 1, buf |-> buf]
  BY <1>1, <1>2, Zenon DEF Committed, AtPc, Adding, Inside
<1>3. ASSUME NEW t \in Thread, pc[t] = "_numElements++"
      PROVE  Committed = [head |-> head, num |-> IF full[t] THEN num ELSE num + 1, buf |-> buf]
  <2>1. owner = t
    BY <1>1, <1>3 DEF Inside
  <2>2. ~AtPc("_head++") /\ Adding
    BY <1>1, <2>1, <1>3 DEF AtPc, Adding, Inside
  <2> QED
    BY <2>1, <2>2, Zenon DEF Committed
<1>4. ASSUME \A t \in Thread : pc[t] \notin {"_head++", "_numElements++"}
      PROVE  Committed = Object
  <2>1. ~AtPc("_head++") /\ ~Adding
    BY <1>4 DEF AtPc, Adding
  <2> QED
    BY <2>1, Zenon DEF Committed, Object
<1> QED
  BY <1>2, <1>3, <1>4 DEF CommittedAs

-----------------------------------------------------------------------------
\* Steps of the atomic object.  Where t is not half-way through add before or after a
\* step that leaves the object alone, the other threads see no change.
Middle == {"_head++", "_numElements++"}

LEMMA Unseen ==
  ASSUME IInv, CommittedAs, CommittedAs', NEW t \in Thread,
         Step(t) \/ \E c \in Calls : Enter(t, c),
         UNCHANGED object, pc[t] \notin Middle, pc'[t] \notin Middle
  PROVE  UNCHANGED Committed
<1>1. \A u \in Thread \ {t} : pc'[u] = pc[u] /\ full'[u] = full[u]
  BY Elsewhere
<1>2. head' = head /\ num' = num /\ buf' = buf
  BY DEF object
<1>3. CASE \E u \in Thread : pc[u] = "_head++"
  <2>1. PICK u \in Thread \ {t} : pc[u] = "_head++"
    BY <1>3 DEF Middle
  <2> QED
    BY <2>1, <1>1, <1>2, Zenon DEF CommittedAs
<1>4. CASE \E u \in Thread : pc[u] = "_numElements++"
  <2>1. PICK u \in Thread \ {t} : pc[u] = "_numElements++"
    BY <1>4 DEF Middle
  <2> QED
    BY <2>1, <1>1, <1>2, Zenon DEF CommittedAs
<1>5. CASE \A u \in Thread : pc[u] \notin Middle
  <2>1. \A u \in Thread : pc'[u] \notin Middle
    BY <1>1, <1>5
  <2> QED
    BY <2>1, <1>5, <1>2 DEF CommittedAs, Middle, Object
<1> QED
  BY <1>3, <1>4, <1>5 DEF Middle

\* Inside a method and not half-way through add: the object is the one the others see.
LEMMA Settled ==
  ASSUME IInv, CommittedAs, NEW t \in Thread, pc[t] \in Inside, pc[t] \notin Middle
  PROVE  Committed = Object
<1>1. \A u \in Thread : pc[u] \in Inside => u = t
  BY Held DEF IInv
<1>2. \A u \in Thread : pc[u] \notin Middle
  BY <1>1 DEF Middle, Inside
<1> QED
  BY <1>2 DEF CommittedAs, Middle

LEMMA SettledAfter ==
  ASSUME IInv, CommittedAs', NEW t \in Thread, pc[t] \in Inside,
         Step(t) \/ \E c \in Calls : Enter(t, c), pc'[t] \notin Middle
  PROVE  Committed' = Object'
<1>1. \A u \in Thread : pc[u] \in Inside => u = t
  BY Held DEF IInv
<1>2. \A u \in Thread \ {t} : pc'[u] = pc[u]
  BY Elsewhere
<1>3. \A u \in Thread : pc'[u] \notin Middle
  BY <1>1, <1>2 DEF Middle, Inside
<1> QED
  BY <1>3 DEF CommittedAs, Middle

LEMMA StoreImplements ==
  ASSUME IInv, CommittedAs, CommittedAs', NEW t \in Thread, AddStore(t)
  PROVE  \E obj \in Type, overwrite \in BOOLEAN : Atomic!Add(obj, overwrite)
<1>1. /\ pc[t] = "_buf[_head] = obj" /\ TypeOK /\ LocalsCurrent(t) /\ CallAt(t)
      /\ call[t] \in Calls /\ call[t].op = "add" /\ (~full[t] \/ call[t].overwrite)
  BY DEF IInv, AddStore, CallAt, AddPc
<1>2. call[t].obj \in Type /\ call[t].overwrite \in BOOLEAN
  BY <1>1 DEF Calls
<1>3. Committed = Object
  BY <1>1, Settled DEF Inside, Middle
<1>4. /\ pc'[t] = "_head++" /\ full' = full /\ head' = head /\ num' = num
      /\ buf' = [buf EXCEPT ![head] = call[t].obj]
      /\ result' = [op |-> "add", ok |-> ~full[t]]
  BY <1>1 DEF AddStore, Goto, TypeOK, locals, mutex
<1>5. Committed' = [head |-> (head + 1) % MaxElements,
                    num |-> IF full[t] THEN num ELSE num + 1,
                    buf |-> [buf EXCEPT ![head] = call[t].obj]]
  BY <1>4, Zenon DEF CommittedAs
<1>6. full[t] = Atomic!isFull(Object)
  BY <1>1 DEF LocalsCurrent, Asked, Atomic!isFull, Object
<1>7. Committed' = Atomic!Added(Object, call[t].obj)
  BY <1>5, <1>6 DEF Atomic!Added, Object
<1>8. Atomic!Admits(Object, call[t].overwrite)
  BY <1>1, <1>6 DEF Atomic!Admits
<1>9. Atomic!Add(call[t].obj, call[t].overwrite)
  BY <1>3, <1>4, <1>6, <1>7, <1>8 DEF Atomic!Add, Atomic!add
<1> QED
  BY <1>2, <1>9

LEMMA RefusedImplements ==
  ASSUME IInv, CommittedAs, CommittedAs', NEW t \in Thread, AddBranch(t),
         ~(~full[t] \/ call[t].overwrite)
  PROVE  \E obj \in Type, overwrite \in BOOLEAN : Atomic!Add(obj, overwrite)
<1>1. /\ pc[t] = "branch" /\ TypeOK /\ LocalsCurrent(t) /\ CallAt(t)
      /\ call[t] \in Calls /\ call[t].op = "add"
  BY DEF IInv, AddBranch, CallAt
<1>2. call[t].obj \in Type /\ call[t].overwrite \in BOOLEAN
  BY <1>1 DEF Calls
<1>3. /\ pc'[t] = "unlock" /\ UNCHANGED <<head, num, buf>>
      /\ result' = [op |-> "add", ok |-> FALSE]
  BY <1>1 DEF AddBranch, Goto, TypeOK, object
<1>4. Committed = Object /\ Committed' = Object'
  BY <1>1, <1>3, Settled, SettledAfter DEF Inside, Middle, Step
<1>5. Atomic!isFull(Object) /\ call[t].overwrite = FALSE
  BY <1>1, <1>2 DEF LocalsCurrent, Asked, Atomic!isFull, Object
<1>6. Committed' = Committed
  BY <1>3, <1>4 DEF Object
<1>7. Atomic!Add(call[t].obj, call[t].overwrite)
  BY <1>3, <1>4, <1>5, <1>6 DEF Atomic!Add, Atomic!add, Atomic!Admits
<1> QED
  BY <1>2, <1>7

LEMMA EmptyImplements ==
  ASSUME IInv, CommittedAs, CommittedAs', NEW t \in Thread, PullBranch(t), full[t]
  PROVE  Atomic!Pull
<1>1. pc[t] = "branch" /\ TypeOK /\ LocalsCurrent(t) /\ call[t].op = "pull"
  BY DEF IInv, PullBranch
<1>2. /\ pc'[t] = "unlock" /\ UNCHANGED <<head, num, buf>>
      /\ result' = [op |-> "pull", ok |-> FALSE]
  BY <1>1 DEF PullBranch, Goto, TypeOK, object
<1>3. Committed = Object /\ Committed' = Object'
  BY <1>1, <1>2, Settled, SettledAfter DEF Inside, Middle, Step
<1>4. Atomic!isEmpty(Object)
  BY <1>1 DEF LocalsCurrent, Asked, Atomic!isEmpty, Object
<1>5. Committed' = Committed
  BY <1>2, <1>3 DEF Object
<1> QED
  BY <1>2, <1>3, <1>4, <1>5 DEF Atomic!Pull, Atomic!pull

LEMMA PullImplements ==
  ASSUME IInv, CommittedAs, CommittedAs', NEW t \in Thread, PullNum(t)
  PROVE  Atomic!Pull
<1>1. /\ pc[t] = "_numElements--" /\ TypeOK /\ LocalsCurrent(t) /\ CallAt(t)
      /\ call[t].op = "pull" /\ ~full[t]
  BY DEF IInv, PullNum, CallAt, PullPc
<1>2. /\ pc'[t] = "unlock" /\ head' = head /\ num' = num - 1 /\ buf' = buf
      /\ result' = [op |-> "pull", ok |-> TRUE, obj |-> dest[t]]
  BY <1>1 DEF PullNum, Goto, TypeOK
<1>3. Committed = Object /\ Committed' = Object'
  BY <1>1, <1>2, Settled, SettledAfter DEF Inside, Middle, Step
<1>4. ~Atomic!isEmpty(Object)
  BY <1>1 DEF LocalsCurrent, Asked, Atomic!isEmpty, Object
<1>5. dest[t] = Atomic!pulled(Object)
  BY <1>1 DEF LocalsCurrent, PullPc, Atomic!pulled, Atomic!getTail, getTail, Object
<1>6. Object' = [Object EXCEPT !.num = @ - 1]
  BY <1>2 DEF Object
<1> QED
  BY <1>2, <1>3, <1>4, <1>5, <1>6 DEF Atomic!Pull, Atomic!pull

LEMMA ReadImplements ==
  ASSUME IInv, CommittedAs, CommittedAs', NEW t \in Thread, Read(t)
  PROVE  \/ \E n \in 0 .. MaxElements : Atomic!Peek(n)
         \/ Atomic!NumElements
         \/ UNCHANGED Atomic!vars
<1>1. /\ pc[t] = "read" /\ TypeOK /\ CallAt(t) /\ call[t] \in Calls
      /\ call[t].op \in {"peek", "numElements", "getHead"}
  BY DEF IInv, Read, CallAt
<1>2. pc'[t] = "unlock" /\ UNCHANGED <<head, num, buf>>
  BY <1>1 DEF Read, Goto, TypeOK, object
<1>3. Committed = Object /\ Committed' = Object'
  BY <1>1, <1>2, Settled, SettledAfter DEF Inside, Middle, Step
<1>4. UNCHANGED Committed
  BY <1>2, <1>3 DEF Object
<1>5. CASE call[t].op = "numElements"
  BY <1>3, <1>4, <1>5 DEF Read, Atomic!NumElements, Object
<1>6. CASE call[t].op = "getHead"
  BY <1>4, <1>6 DEF Read, Atomic!vars
<1>7. CASE call[t].op = "peek"
  <2>1. call[t].n \in 0 .. MaxElements
    BY <1>1, <1>7 DEF Calls
  <2>2. CASE call[t].n < num
    <3>1. peek(Object, call[t].n) \in Slot /\ peek(Object, call[t].n) # -1
      BY <1>1, <2>1, <2>2, MaxElementsAssumption, SMT
      DEF peek, getTail, Object, Slot, TypeOK
    <3>2. Atomic!peek(Object, call[t].n) = peek(Object, call[t].n)
      BY DEF Atomic!peek, peek, Atomic!getTail, getTail
    <3>3. result' = [op |-> "peek", ok |-> TRUE, obj |-> buf[peek(Object, call[t].n)]]
      BY <1>7, <2>2 DEF Read
    <3>4. Object.buf = buf
      BY DEF Object
    <3>5. Atomic!Peek(call[t].n)
      BY <1>3, <1>4, <3>1, <3>2, <3>3, <3>4 DEF Atomic!Peek
    <3> QED
      BY <2>1, <3>5
  <2>3. CASE ~(call[t].n < num)
    <3>1. Atomic!peek(Object, call[t].n) = -1
      BY <2>3 DEF Atomic!peek, Object
    <3>2. result' = [op |-> "peek", ok |-> FALSE]
      BY <1>7, <2>3 DEF Read
    <3>3. Atomic!Peek(call[t].n)
      BY <1>3, <1>4, <3>1, <3>2 DEF Atomic!Peek
    <3> QED
      BY <2>1, <3>3
  <2> QED
    BY <2>2, <2>3
<1> QED
  BY <1>1, <1>5, <1>6, <1>7

LEMMA StepImplements ==
  ASSUME IInv, CommittedAs, CommittedAs', NEW t \in Thread,
         Step(t) \/ \E c \in Calls : Enter(t, c)
  PROVE  Atomic!Next \/ UNCHANGED Atomic!vars
<1>0. /\ TypeOK /\ CallAt(t) /\ LocalsCurrent(t)
      /\ \A u \in Thread \ {t} : pc'[u] = pc[u] /\ full'[u] = full[u]
  BY Elsewhere DEF IInv
<1> DEFINE Silent == /\ UNCHANGED <<object, result>>
                     /\ pc[t] \notin Middle /\ pc'[t] \notin Middle
<1>a. ASSUME Silent PROVE UNCHANGED Atomic!vars
  BY <1>a, Unseen DEF Atomic!vars
<1> USE DEF TypeOK, object, mutex, locals, Goto, Middle
<1>1. ASSUME NEW c \in Calls, Enter(t, c) PROVE Silent
  BY <1>0, <1>1 DEF Enter
<1>2. ASSUME Lock(t) PROVE Silent
  BY <1>0, <1>2 DEF Lock
<1>3. ASSUME LockAgain(t) PROVE Silent
  BY <1>0, <1>3 DEF LockAgain
<1>4. ASSUME Test(t) PROVE Silent
  BY <1>0, <1>4 DEF Test
<1>5. ASSUME UnlockOnce(t) PROVE Silent
  BY <1>0, <1>5 DEF UnlockOnce
<1>6. CASE Read(t)
  BY <1>6, ReadImplements DEF Atomic!Next
<1>7. ASSUME Unlock(t) PROVE Silent
  BY <1>0, <1>7 DEF Unlock
<1>8. CASE AddBranch(t)
  <2>1. ASSUME ~full[t] \/ call[t].overwrite PROVE Silent
    BY <1>0, <1>8, <2>1 DEF AddBranch
  <2>2. CASE ~(~full[t] \/ call[t].overwrite)
    BY <1>8, <2>2, RefusedImplements DEF Atomic!Next
  <2> QED
    BY <1>a, <2>1, <2>2
<1>9. CASE AddStore(t)
  BY <1>9, StoreImplements DEF Atomic!Next
<1>10. CASE AddHead(t)
  <2>1. /\ pc[t] = "_head++" /\ pc'[t] = "_numElements++" /\ full' = full
        /\ head' = (head + 1) % MaxElements /\ num' = num /\ buf' = buf /\ result' = result
    BY <1>0, <1>10 DEF AddHead
  <2>2. Committed' = Committed
    BY <2>1, Zenon DEF CommittedAs
  <2> QED
    BY <2>1, <2>2 DEF Atomic!vars
<1>11. CASE AddNum(t)
  <2>1. /\ pc[t] = "_numElements++" /\ pc'[t] = "unlock" /\ head' = head /\ buf' = buf
        /\ num' = IF full[t] THEN num ELSE num + 1
        /\ result' = result
    BY <1>0, <1>11 DEF AddNum
  <2>2. Committed = [head |-> head, num |-> num', buf |-> buf]
    BY <2>1, Zenon DEF CommittedAs
  <2>3. Committed' = Object'
    BY <1>11, <2>1, SettledAfter DEF Inside, Step
  <2>4. Committed' = Committed
    BY <2>1, <2>2, <2>3 DEF Object
  <2> QED
    BY <2>1, <2>4 DEF Atomic!vars
<1>12. CASE PullBranch(t)
  <2>1. ASSUME ~full[t] PROVE Silent
    BY <1>0, <1>12, <2>1 DEF PullBranch
  <2>2. CASE full[t]
    BY <1>12, <2>2, EmptyImplements DEF Atomic!Next
  <2> QED
    BY <1>a, <2>1, <2>2
<1>13. ASSUME PullCopy(t) PROVE Silent
  BY <1>0, <1>13 DEF PullCopy
<1>14. CASE PullNum(t)
  BY <1>14, PullImplements DEF Atomic!Next
<1> HIDE DEF Silent
<1> QED
  BY <1>a, <1>1, <1>2, <1>3, <1>4, <1>5, <1>6, <1>7, <1>8, <1>9, <1>10, <1>11, <1>12, <1>13,
     <1>14
  DEF Step

LEMMA InitImplements == Init => Atomic!Init
<1> SUFFICES ASSUME Init PROVE Atomic!Init
  OBVIOUS
<1>1. \A t \in Thread : pc[t] \notin Middle
  BY DEF Init, Middle
<1>2. Committed = Object
  BY <1>1, InitInv, CommittedShape DEF CommittedAs, Middle
<1>3. Object = Atomic!NewRing(buf) /\ buf \in [Atomic!Slot -> Type]
  BY DEF Init, Object, Atomic!NewRing, Atomic!Slot, Slot
<1> QED
  BY <1>2, <1>3 DEF Init, Atomic!Init

\* Every method of the locked ring is one step of the atomic ring, whatever the
\* interleaving, the number of threads and the length of the array.
THEOREM MethodsAtomic == Spec => Linearizable
<1>1. IInv /\ CommittedAs /\ CommittedAs' /\ [Next]_vars => [Atomic!Next]_(Atomic!vars)
  <2> SUFFICES ASSUME IInv, CommittedAs, CommittedAs', [Next]_vars
               PROVE  Atomic!Next \/ UNCHANGED Atomic!vars
    OBVIOUS
  <2>1. CASE UNCHANGED vars
    <3>1. UNCHANGED <<head, num, buf, owner, pc, full, result>>
      BY <2>1 DEF vars, object, mutex, locals
    <3>2. UNCHANGED Committed
      BY <3>1, Zenon DEF Committed, Adding, AtPc
    <3> QED
      BY <3>1, <3>2 DEF Atomic!vars
  <2>2. ASSUME NEW t \in Thread, Step(t) \/ \E c \in Calls : Enter(t, c)
        PROVE  Atomic!Next \/ UNCHANGED Atomic!vars
    BY <2>2, StepImplements
  <2> QED
    BY <2>1, <2>2 DEF Next
<1> QED
  BY <1>1, InitImplements, CommittedShape, LockInductive, PTL DEF Spec, Linearizable, Atomic!Spec

-----------------------------------------------------------------------------
\* The operators of the atomic ring are those of RingBufOps.
LEMMA SameOps ==
  /\ \A r : Atomic!isFull(r) = isFull(r) /\ Atomic!isEmpty(r) = isEmpty(r)
  /\ \A r, obj, overwrite : Atomic!add(r, obj, overwrite) = add(r, obj, overwrite)
  /\ \A r : Atomic!pulled(r) = pulled(r) /\ Atomic!pull(r) = pull(r)
  /\ \A r, n : Atomic!peek(r, n) = peek(r, n)
  /\ \A r : Atomic!Contents(r) = Contents(r)
  /\ \A r : Atomic!getHead(r) = getHead(r) /\ Atomic!Queued(r) = Queued(r)
<1>1. \A r : Atomic!isFull(r) = isFull(r) /\ Atomic!isEmpty(r) = isEmpty(r)
  BY DEF Atomic!isFull, isFull, Atomic!isEmpty, isEmpty
<1>2. \A r, obj, overwrite : Atomic!add(r, obj, overwrite) = add(r, obj, overwrite)
  BY Zenon DEF Atomic!add, Atomic!Admits, Atomic!Added, Atomic!isFull, add, Admits, Added, isFull
<1>3. \A r : Atomic!getTail(r) = getTail(r)
  BY DEF Atomic!getTail, getTail
<1>4. \A r : Atomic!pulled(r) = pulled(r) /\ Atomic!pull(r) = pull(r)
  BY <1>3, Zenon DEF Atomic!pulled, Atomic!pull, Atomic!isEmpty, pulled, pull, isEmpty
<1>5. \A r, n : Atomic!peek(r, n) = peek(r, n)
  BY <1>3, Zenon DEF Atomic!peek, peek
<1>6. \A r, i : Atomic!SlotAt(r, i) = SlotAt(r, i)
  BY <1>3, Zenon DEF Atomic!SlotAt, SlotAt
<1>7. \A r : Atomic!Contents(r) = Contents(r) /\ Atomic!Queued(r) = Queued(r)
  BY <1>6 DEF Atomic!Contents, Contents, Atomic!Queued, Queued
<1>8. \A r : Atomic!getHead(r) = getHead(r)
  BY DEF Atomic!getHead, getHead
<1> QED
  BY <1>1, <1>2, <1>4, <1>5, <1>7, <1>8

LEMMA CommittedRing ==
  ASSUME IInv, CommittedAs
  PROVE  Committed \in Ring(Type)
<1>0. TypeOK /\ \A t \in Thread : CallAt(t) /\ LocalsCurrent(t)
  BY DEF IInv
<1>1. CASE \A t \in Thread : pc[t] \notin Middle
  <2>1. Committed = Object
    BY <1>1 DEF CommittedAs, Middle
  <2> QED
    BY <1>0, <2>1 DEF TypeOK, Ring, Object
<1>2. ASSUME NEW t \in Thread, pc[t] \in Middle PROVE Committed \in Ring(Type)
  <2> DEFINE h == IF pc[t] = "_head++" THEN (head + 1) % MaxElements ELSE head
             k == IF full[t] THEN num ELSE num + 1
  <2>1. Committed = [head |-> h, num |-> k, buf |-> buf]
    BY <1>2, Zenon DEF CommittedAs, Middle
  <2>2. h \in Slot
    <3>1. (head + 1) % MaxElements \in Slot
      BY <1>0, MaxElementsAssumption, SMT DEF TypeOK, Slot
    <3> QED
      BY <1>0, <3>1 DEF TypeOK
  <2>3. k \in 0 .. MaxElements
    <3>1. full[t] = (num >= MaxElements)
      BY <1>0, <1>2 DEF CallAt, LocalsCurrent, Middle, AddPc, Asked
    <3> QED
      BY <1>0, <3>1, MaxElementsAssumption DEF TypeOK
  <2> HIDE DEF h, k
  <2> QED
    BY <1>0, <2>1, <2>2, <2>3 DEF TypeOK, Ring
<1> QED
  BY <1>1, <1>2

\* The head slot, which clients fill in place through the pointer getHead returns, is
\* outside the queue exactly while the ring is not full.
THEOREM LockedHeadSlotFree == Spec => []HeadSlotFree
<1>1. IInv /\ CommittedAs => HeadSlotFree
  <2> SUFFICES ASSUME IInv, CommittedAs PROVE HeadSlotFree
    OBVIOUS
  <2>1. getHead(Committed) \notin Queued(Committed) <=> ~isFull(Committed)
    BY CommittedRing, HeadSlot
  <2> QED
    BY <2>1, SameOps DEF HeadSlotFree, Atomic!HeadSlotFree
<1> QED
  BY <1>1, CommittedShape, LockInductive, PTL

-----------------------------------------------------------------------------
\* What the atomic ring does is what a bounded queue does.
LEMMA QueueFull ==
  ASSUME Committed \in Ring(Type)
  PROVE  Atomic!Abstract!Full <=> isFull(Committed)
<1>1. Len(Contents(Committed)) = Committed.num /\ Committed.num \in 0 .. MaxElements
  BY ContentsSeq, Fields
<1> QED
  BY <1>1, SameOps, MaxElementsAssumption, SMT DEF Atomic!Abstract!Full, isFull

LEMMA QueueAdd ==
  ASSUME Committed \in Ring(Type), NEW obj \in Type, NEW overwrite \in BOOLEAN,
         Atomic!Add(obj, overwrite)
  PROVE  \/ Atomic!Abstract!AddWithRoom(obj)
         \/ Atomic!Abstract!AddRefused(obj)
         \/ Atomic!Abstract!AddOverwriting(obj)
<1>1. /\ Committed' = add(Committed, obj, overwrite)
      /\ result' = [op |-> "add", ok |-> ~isFull(Committed)]
  BY SameOps DEF Atomic!Add
<1>2. CASE ~isFull(Committed)
  <2>1. Contents(Committed)' = Append(Contents(Committed), obj)
    BY <1>1, <1>2, AddAppends DEF add, Admits
  <2> QED
    BY <1>1, <1>2, <2>1, QueueFull, SameOps DEF Atomic!Abstract!AddWithRoom
<1>3. CASE isFull(Committed) /\ overwrite
  <2>1. Contents(Committed)' = Append(Tail(Contents(Committed)), obj)
    BY <1>1, <1>3, AddOverwrites DEF add, Admits
  <2> QED
    BY <1>1, <1>3, <2>1, QueueFull, SameOps DEF Atomic!Abstract!AddOverwriting
<1>4. CASE isFull(Committed) /\ ~overwrite
  <2>1. Contents(Committed)' = Contents(Committed)
    BY <1>1, <1>4 DEF add, Admits
  <2> QED
    BY <1>1, <1>4, <2>1, QueueFull, SameOps DEF Atomic!Abstract!AddRefused
<1> QED
  BY <1>2, <1>3, <1>4

LEMMA QueuePull ==
  ASSUME Committed \in Ring(Type), Atomic!Pull
  PROVE  Atomic!Abstract!Pull
<1>0. /\ Committed' = pull(Committed)
      /\ result' = IF isEmpty(Committed) THEN [op |-> "pull", ok |-> FALSE]
                   ELSE [op |-> "pull", ok |-> TRUE, obj |-> pulled(Committed)]
  BY SameOps DEF Atomic!Pull
<1>1. CASE isEmpty(Committed)
  <2>1. Contents(Committed) \in Seq(Type) /\ Len(Contents(Committed)) = 0
    BY <1>1, ContentsSeq DEF isEmpty
  <2>2. Contents(Committed) = <<>>
    BY <2>1, EmptySeq, SMT
  <2>3. Contents(Committed)' = Contents(Committed)
    BY <1>0, <1>1 DEF pull
  <2> QED
    BY <1>0, <1>1, <2>2, <2>3, SameOps DEF Atomic!Abstract!Pull
<1>2. CASE ~isEmpty(Committed)
  <2>1. /\ Contents(Committed) # <<>> /\ pulled(Committed) = Contents(Committed)[1]
        /\ Contents(pull(Committed)) = Tail(Contents(Committed))
    BY <1>2, PullTakes
  <2> QED
    BY <1>0, <1>2, <2>1, SameOps DEF Atomic!Abstract!Pull
<1> QED
  BY <1>1, <1>2

LEMMA QueuePeek ==
  ASSUME Committed \in Ring(Type), NEW n \in 0 .. MaxElements, Atomic!Peek(n)
  PROVE  Atomic!Abstract!Peek(n)
<1>1. Len(Contents(Committed)) = Committed.num
  BY ContentsSeq
<1>2. Contents(Committed)' = Contents(Committed)
  BY DEF Atomic!Peek
<1>3. result' = IF peek(Committed, n) = -1 THEN [op |-> "peek", ok |-> FALSE]
                ELSE [op |-> "peek", ok |-> TRUE, obj |-> Committed.buf[peek(Committed, n)]]
  BY SameOps DEF Atomic!Peek
<1>4. CASE n < Committed.num
  <2>1. peek(Committed, n) # -1 /\ Committed.buf[peek(Committed, n)] = Contents(Committed)[n + 1]
    BY <1>4, PeekPoints
  <2> QED
    BY <1>1, <1>2, <1>3, <1>4, <2>1, SameOps DEF Atomic!Abstract!Peek
<1>5. CASE ~(n < Committed.num)
  <2>1. peek(Committed, n) = -1
    BY <1>5, PeekPoints
  <2> QED
    BY <1>1, <1>2, <1>3, <1>5, <2>1, SameOps DEF Atomic!Abstract!Peek
<1> QED
  BY <1>4, <1>5

\* The method bodies under their lock are a bounded FIFO queue: oldest element first, an
\* overwriting add drops exactly the oldest, a refused one has no effect, and every method
\* returns what the queue returns.
THEOREM LockedRingIsQueue == Spec => Refinement
<1>1. Init => Atomic!Abstract!Init
  <2> SUFFICES ASSUME Init PROVE Atomic!Abstract!Init
    OBVIOUS
  <2>1. CommittedAs /\ IInv
    BY InitInv, CommittedShape
  <2>2. Committed = Object /\ result = [op |-> "none"]
    BY <2>1 DEF Init, CommittedAs
  <2>3. Contents(Committed) \in Seq(Type) /\ Len(Contents(Committed)) = Committed.num
    BY <2>1, CommittedRing, ContentsSeq
  <2>4. Committed.num = 0
    BY <2>2 DEF Init, Object
  <2>5. Contents(Committed) = <<>>
    BY <2>3, <2>4, EmptySeq, SMT
  <2> QED
    BY <2>2, <2>5, SameOps DEF Atomic!Abstract!Init
<1>2. IInv /\ CommittedAs /\ [Atomic!Next]_(Atomic!vars)
        => [Atomic!Abstract!Next]_(Atomic!Abstract!vars)
  <2> SUFFICES ASSUME IInv, CommittedAs, [Atomic!Next]_(Atomic!vars)
               PROVE  Atomic!Abstract!Next \/ UNCHANGED Atomic!Abstract!vars
    OBVIOUS
  <2>0. Committed \in Ring(Type)
    BY CommittedRing
  <2>1. CASE UNCHANGED Atomic!vars
    BY <2>1, SameOps DEF Atomic!vars, Atomic!Abstract!vars
  <2>2. ASSUME NEW obj \in Type, NEW overwrite \in BOOLEAN, Atomic!Add(obj, overwrite)
        PROVE  Atomic!Abstract!Next
    BY <2>0, <2>2, QueueAdd DEF Atomic!Abstract!Next
  <2>3. CASE Atomic!Pull
    BY <2>0, <2>3, QueuePull DEF Atomic!Abstract!Next
  <2>4. ASSUME NEW n \in 0 .. MaxElements, Atomic!Peek(n) PROVE Atomic!Abstract!Next
    BY <2>0, <2>4, QueuePeek DEF Atomic!Abstract!Next
  <2>5. CASE Atomic!NumElements
    <3>1. Len(Contents(Committed)) = Committed.num
      BY <2>0, ContentsSeq
    <3>2. /\ Contents(Committed)' = Contents(Committed)
          /\ result' = [op |-> "numElements", n |-> Committed.num]
      BY <2>5 DEF Atomic!NumElements
    <3> QED
      BY <3>1, <3>2, SameOps DEF Atomic!Abstract!NumElements, Atomic!Abstract!Next
  <2> QED
    BY <2>1, <2>2, <2>3, <2>4, <2>5 DEF Atomic!Next
<1> QED
  BY <1>1, <1>2, CommittedShape, LockInductive, MethodsAtomic, PTL
  DEF Spec, Linearizable, Atomic!Spec, Refinement, Atomic!Refinement, Atomic!Abstract!Spec
=============================================================================
