--------------------------- MODULE MCEngineSession ---------------------------
(* Three calls of any kind on one session, enough for a play between a pause *)
(* and a seek; a dense session with its console and a sparse one without.    *)
EXTENDS EngineSession
MCConfigurations == {<<FALSE, TRUE>>, <<TRUE, FALSE>>}
=============================================================================
