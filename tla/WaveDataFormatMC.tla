-------------------------- MODULE WaveDataFormatMC --------------------------
(***************************************************************************)
(* Words of two bits, so that groups have two words and four channels are  *)
(* the 64 of the DLL; a loop counter of three bits, so that eight channels *)
(* are its 256.                                                            *)
(***************************************************************************)
EXTENDS WaveDataFormat

\* Every content of the odd group.
FourChannels ==
  {[w \in 0 .. 3 |-> CASE w = 0 -> a [] w = 1 -> 1 [] w = 2 -> b [] OTHER -> a] : a \in Word, b \in Word}
OtherCounts == {[w \in 0 .. n - 1 |-> (w + 1) % 4] : n \in {2, 3, 5, 7, 8, 9}}

MCInputs == FourChannels \cup OtherCounts
=============================================================================
