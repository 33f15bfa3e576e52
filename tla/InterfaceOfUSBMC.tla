-------------------------- MODULE InterfaceOfUSBMC --------------------------
(***************************************************************************)
(* InterfaceOfUSB with two slots in each ring and two nodes to a frame:    *)
(* both rings fill, wrap and overwrite before the nodes run out.           *)
(***************************************************************************)
EXTENDS InterfaceOfUSB
=============================================================================
