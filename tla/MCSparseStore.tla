---------------------------- MODULE MCSparseStore ----------------------------
(* Two tabs install, open and inspect a silent source, or one with gaps: its *)
(* first FLAC chunk spans two intervals, its second interval two chunks.     *)
EXTENDS SparseStore

MCSources == {{}, {0, 1, 3, 4}}
=============================================================================
