----------------------------- MODULE SimpleDllMC ----------------------------
(* SimpleDll with arrays of two words: a second call is enough. *)
EXTENDS SimpleDll
=============================================================================
