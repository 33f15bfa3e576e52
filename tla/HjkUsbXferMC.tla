----------------------------- MODULE HjkUsbXferMC ---------------------------
(***************************************************************************)
(* HjkUsbXfer on small rings.  The DLL's rings hold 1024 and 8 nodes and a *)
(* frame takes hundreds of input nodes; the cfgs give a ring two or three  *)
(* slots, so that a handful of samples turn it round and fill it, and a    *)
(* frame one or two nodes.  A run ends when MaxSamples samples are in:     *)
(* the callers stop, as LabVIEW does, and the threads have nothing to do.  *)
(***************************************************************************)
EXTENDS HjkUsbXfer, TLC

\* The callers are interchangeable.
CallerSymmetry == Permutations(Caller)
=============================================================================
