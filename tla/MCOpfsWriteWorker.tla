-------------------------- MODULE MCOpfsWriteWorker --------------------------
(* Two writers, one of them cancellable, and a capability probe. *)
EXTENDS OpfsWriteWorker

CONSTANTS staging, index, probe
=============================================================================
