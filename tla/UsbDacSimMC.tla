----------------------------- MODULE UsbDacSimMC ----------------------------
(***************************************************************************)
(* UsbDacSim with short rings and frames of two nodes (4, 4 and 5 in the   *)
(* code).  Method 2 starts with full rings, so that its first node meets   *)
(* one already; method 1 needs six nodes to fill both and lose one.        *)
(***************************************************************************)
EXTENDS UsbDacSim

MCMaxNodes == [pointer |-> 3, value |-> 6]
=============================================================================
