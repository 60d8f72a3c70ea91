--------------------------- MODULE MCRealtimeCall ---------------------------
(***************************************************************************)
(* RealtimeCall on small instances.                                        *)
(***************************************************************************)
EXTENDS RealtimeCall, TLC

EveryFault == {"open", "recognition", "analysis", "slow", "leave"}
=============================================================================
