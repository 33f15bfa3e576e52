---------------------------- MODULE RingBufLockMC ---------------------------
(* Three threads would only repeat what two can do to one mutex. *)
EXTENDS RingBufLock
=============================================================================
