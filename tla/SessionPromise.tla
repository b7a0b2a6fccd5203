--------------------------- MODULE SessionPromise ---------------------------
(***************************************************************************)
(* What openEngineWebSession promises its caller, whatever it is made of:  *)
(* it either hands out a session or rejects, having given everything back; *)
(* a call is fulfilled only by an open session; closing rejects what is    *)
(* pending; and onError is told once, of a failure only, after cleanup.    *)
(***************************************************************************)
EXTENDS Naturals

CONSTANT Call   \* calls of play, pause and seekFrames

VARIABLES phase,    \* opening, open, closing, closed, refused
          cause,    \* why it closes: the owner's call, or a pump failure
          held,     \* resources of the session are still held
          answer,   \* per call: none, pending, fulfilled, rejected
          told      \* onError was called

vars == <<phase, cause, held, answer, told>>

Init == /\ phase = "opening" /\ cause = "none" /\ told = FALSE
        /\ held = FALSE
        /\ answer = [c \in Call |-> "none"]

Take == phase = "opening" /\ held' = TRUE /\ UNCHANGED <<phase, cause, answer, told>>

Open == phase = "opening" /\ held /\ phase' = "open" /\ UNCHANGED <<cause, held, answer, told>>

\* A refused opening and a closing session give back what they took.
Return == /\ phase \in {"opening", "closing"} /\ held /\ held' = FALSE
          /\ UNCHANGED <<phase, cause, answer, told>>

Refuse == /\ phase = "opening" /\ ~held /\ phase' = "refused"
          /\ UNCHANGED <<cause, held, answer, told>>

Ask(c) == /\ phase \in {"open", "closing", "closed"} /\ answer[c] = "none"
          /\ answer' = [answer EXCEPT ![c] = "pending"]
          /\ UNCHANGED <<phase, cause, held, told>>

Fulfil(c) == /\ phase = "open" /\ answer[c] = "pending"
             /\ answer' = [answer EXCEPT ![c] = "fulfilled"]
             /\ UNCHANGED <<phase, cause, held, told>>

Reject(c) == /\ answer[c] \in {"none", "pending"} /\ phase \notin {"opening", "refused"}
             /\ answer' = [answer EXCEPT ![c] = "rejected"]
             /\ UNCHANGED <<phase, cause, held, told>>

BeginClose(why) == /\ phase = "open" /\ phase' = "closing" /\ cause' = why
                   /\ UNCHANGED <<held, answer, told>>

Finish == /\ phase = "closing" /\ ~held /\ phase' = "closed"
          /\ UNCHANGED <<cause, held, answer, told>>

Tell == /\ phase = "closed" /\ cause = "failure" /\ ~told /\ told' = TRUE
        /\ UNCHANGED <<phase, cause, held, answer>>

Next == \/ Take \/ Open \/ Return \/ Refuse \/ Finish \/ Tell
        \/ \E c \in Call : Ask(c) \/ Fulfil(c) \/ Reject(c)
        \/ \E why \in {"owner", "failure"} : BeginClose(why)

Live == /\ phase = "closing" ~> phase = "closed"
        /\ (cause = "failure") ~> told
        /\ \A c \in Call : (phase \in {"closing", "closed"} /\ answer[c] = "pending") ~> answer[c] = "rejected"

Spec == Init /\ [][Next]_vars /\ Live
=============================================================================
