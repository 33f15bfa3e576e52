------------------------------ MODULE DllInitMC -----------------------------
(* DllInit with two LabVIEW threads, two slots in each ring and up to two  *)
(* USB devices.  Three calls: one initialises, two contend for the mutex.  *)
EXTENDS DllInit
=============================================================================
