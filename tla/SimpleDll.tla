------------------------------ MODULE SimpleDll -----------------------------
(***************************************************************************)
(* The experiment simpledll/testdllarr.cpp after initQueueBuf: LabVIEW     *)
(* calls queueBufStart(in, out), which leaves the two addresses in static  *)
(* variables and sets an auto-reset event; testIn waits for the event,     *)
(* adds 3000 to every word of the input array and copies it to the output  *)
(* array.  Nothing tells LabVIEW when that has happened, and it calls      *)
(* again with the next arrays.                                             *)
(*                                                                         *)
(* Arrays are numbered by the call that passes them.  A word is the call   *)
(* it belongs to and how often 3000 was added to it.                       *)
(***************************************************************************)
EXTENDS Integers

CONSTANTS
  chNum,      \* words in an array, at least one
  MaxCalls    \* bound on the calls of one behaviour

VARIABLES
  cpc, calls,        \* queueBufStart, and the call it is in or was in last
  inData, outIntBuf, \* the static pointers; 0 is NULL
  dataInEvent,       \* whether the event is set
  tpc, i,            \* testIn
  in, out            \* the arrays; out[k] = <<>> until somebody writes it

vars == <<cpc, calls, inData, outIntBuf, dataInEvent, tpc, i, in, out>>

Array == 1 .. MaxCalls
Words(call, added) == [w \in 0 .. chNum - 1 |-> [call |-> call, added |-> added]]

\* initQueueBuf: outIntBuf is NULL as every static, and testIn waits.
Init ==
  /\ cpc = "idle" /\ calls = 0
  /\ inData = 0 /\ outIntBuf = 0 /\ dataInEvent = FALSE
  /\ tpc = "wait" /\ i = 0
  /\ in = [k \in Array |-> Words(k, 0)] /\ out = [k \in Array |-> <<>>]

-----------------------------------------------------------------------------
\* queueBufStart, in its three statements.
StoreIn ==
  /\ cpc = "idle" /\ calls < MaxCalls
  /\ calls' = calls + 1
  /\ inData' = calls'
  /\ cpc' = "SetEvent"
  /\ UNCHANGED <<outIntBuf, dataInEvent, tpc, i, in, out>>

SetDataInEvent ==
  /\ cpc = "SetEvent" /\ cpc' = "outIntBuf"
  /\ dataInEvent' = TRUE
  /\ UNCHANGED <<calls, inData, outIntBuf, tpc, i, in, out>>

StoreOut ==
  /\ cpc = "outIntBuf" /\ cpc' = "idle"
  /\ outIntBuf' = calls
  /\ UNCHANGED <<calls, inData, dataInEvent, tpc, i, in, out>>

QueueBufStart == StoreIn \/ SetDataInEvent \/ StoreOut

-----------------------------------------------------------------------------
\* testIn.  The wait resets the event.
Wake ==
  /\ tpc = "wait" /\ dataInEvent
  /\ dataInEvent' = FALSE
  /\ tpc' = "add" /\ i' = 0
  /\ UNCHANGED <<cpc, calls, inData, outIntBuf, in, out>>

\* inData is read again for every word.
AddWord ==
  /\ tpc = "add"
  /\ in' = [in EXCEPT ![inData][i].added = @ + 1]
  /\ i' = i + 1
  /\ tpc' = IF i + 1 < chNum THEN "add" ELSE "memcpy"
  /\ UNCHANGED <<cpc, calls, inData, outIntBuf, dataInEvent, out>>

\* A memcpy to NULL ends the process.
CopyOut ==
  /\ tpc = "memcpy"
  /\ IF outIntBuf = 0
     THEN tpc' = "crashed" /\ UNCHANGED out
     ELSE tpc' = "wait" /\ out' = [out EXCEPT ![outIntBuf] = in[inData]]
  /\ UNCHANGED <<cpc, calls, inData, outIntBuf, dataInEvent, i, in>>

TestIn == Wake \/ AddWord \/ CopyOut

-----------------------------------------------------------------------------
Next == (tpc # "crashed" /\ QueueBufStart) \/ TestIn

Spec == Init /\ [][Next]_vars

-----------------------------------------------------------------------------
\* "Only after the data was obtained may the in thread enqueue, and before that the data
\* must not change" (testdllarr.cpp:19): an output array gets the words of its own call,
\* each increased once.  The code does not keep to it: the next call replaces inData under
\* testIn, and the event is set before outIntBuf is.
OwnResult == \A k \in Array : out[k] \in {<<>>, Words(k, 1)}
=============================================================================
