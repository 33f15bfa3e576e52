-------------------------- MODULE HjkUSBInterfaceMC -------------------------
(* HjkUSBInterface with two slots in each ring and frames of one node: one *)
(* frame is enough for the out thread to start waiting.                    *)
EXTENDS HjkUSBInterface
=============================================================================
