---------------------------- MODULE MC_TdmTiming ----------------------------
(***************************************************************************)
(* Instances of the bit-clock model for TLC. The port counter is 7 bits   *)
(* wide instead of 16 so that it wraps every few frames; 128 is not a      *)
(* multiple of the frame lengths used, so the counter value at the sync   *)
(* edge differs from frame to frame as it does on the 16-bit counter.     *)
(***************************************************************************)
EXTENDS TdmTiming

MC_MaxPorts == 4
MC_AgeCap == 2
MC_TimerStarts == {0, 5}
=============================================================================
