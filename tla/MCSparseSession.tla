--------------------------- MODULE MCSparseSession ---------------------------
(* One source has an interval after a gap, the other is silent; both are     *)
(* committed, or one is corrupt and the other new.  The second preparation   *)
(* declares one of the sources of the first.                                 *)
EXTENDS SparseSession

CONSTANTS a, b
MCActive  == [s \in Sources |-> IF s = a THEN {1, 2, 3} ELSE {}]
MCCommits == {[s \in Sources |-> "good"], [s \in Sources |-> IF s = a THEN "bad" ELSE "none"]}
MCWanted  == <<{a, b}, {a}>>

\* The hypothesis of ProtocolAlwaysExact, and what CountsAlwaysAgree concludes of it.
ASSUME IndexesValid /\ CountsAgree
=============================================================================
