---------------------------- MODULE MC_TdmSlave ----------------------------
(***************************************************************************)
(* Instance of the TDM slave engine for TLC: one input and one output     *)
(* line (the configuration of tdm_slave_tx16_test.c), ages told apart up  *)
(* to three frames, one restart answer and up to two calls of tdm_slave.  *)
(***************************************************************************)
EXTENDS TdmSlave

MC_MaxPorts == 4
MC_AgeCap == 3
=============================================================================
