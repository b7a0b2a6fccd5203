------------------------------ MODULE MCPcmPump ------------------------------
(* Three sources for TLC: one of two windows, two shorter than a quantum. *)
EXTENDS PcmPump

CONSTANTS long, short, other

FramesMC == [s \in Sources |-> IF s = long THEN 7 ELSE 1]
=============================================================================
