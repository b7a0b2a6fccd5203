--------------------------- MODULE MCFlacWorkerPool ---------------------------
(* Three jobs on two reservations, retained by two callers in turn. *)
EXTENDS FlacWorkerPool

CONSTANTS j1, j2, j3, h1, h2
=============================================================================
