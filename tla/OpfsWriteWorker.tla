---------------------------- MODULE OpfsWriteWorker ----------------------------
(***************************************************************************)
(* The OPFS write Worker and its client                                    *)
(* (src/src/stems/opfs-worker-client.ts, internal/engine-web-opfs-worker.ts). *)
(*                                                                         *)
(* Every writer of one store goes through one Worker.  The Worker lives in *)
(* a generation: it starts with the first writer, stays for an idle grace  *)
(* after the last one, and any deadline, abort or close retires the whole  *)
(* generation.  A call is one createWriter(...) with the writes and the    *)
(* close or abort of the writer it returns; a probe is assertWriteSupport. *)
(* The store awaits each operation, so a call has one request at a time.   *)
(* Deadlines are events that may come while a request is pending; how      *)
(* replies push them back is left out.                                     *)
(***************************************************************************)
EXTENDS Integers, FiniteSets

CONSTANTS Writers, Probes,
          Signalled,   \* the writers that were given an AbortSignal
          Chunks       \* bound: chunks a writer writes

Calls == Writers \cup Probes

ASSUME OpfsAssumption ==
  /\ IsFiniteSet(Writers) /\ IsFiniteSet(Probes) /\ Writers \cap Probes = {}
  /\ Signalled \subseteq Writers /\ Chunks \in Nat

VARIABLES generation, worker, ready, openWriters, idle, writeSupport,
          call,      \* where each call is
          gen,       \* the generation each call captured
          wrote,     \* chunks each writer saw acknowledged
          pending,   \* the calls whose request sits in #pending
          inbox,     \* requests posted to a generation's Worker
          outbox,    \* replies of a generation's Worker still to be delivered
          handles,   \* the writers whose sync access handle is open
          file       \* chunks in each writer's file, -1 before it exists

vars == <<generation, worker, ready, openWriters, idle, writeSupport, call, gen,
          wrote, pending, inbox, outbox, handles, file>>

clientVars == <<generation, worker, ready, openWriters, idle, writeSupport>>
callVars == <<call, gen, wrote>>
workerVars == <<inbox, outbox, handles, file>>

\* A call that is ok or failed still has to run its finally block. What an abort
\* answers is of no interest to anybody: its call counts as failed.
Active == {"acquiring", "opening", "open", "writing", "closing", "aborting"}
Places == Active \cup {"new", "ok", "failed", "closed", "refused"}
Requests == [gen : Nat, call : Writers, op : {"opening", "writing", "closing", "aborting"}]
Replies == [gen : Nat, call : Writers, ok : BOOLEAN]

TypeOK ==
  /\ generation \in Nat \ {0} /\ worker \in BOOLEAN /\ ready \in BOOLEAN
  /\ openWriters \in 0..Cardinality(Calls) /\ idle \in Nat /\ writeSupport \in BOOLEAN
  /\ call \in [Calls -> Places]
  /\ gen \in [Calls -> Nat]
  /\ wrote \in [Writers -> 0..Chunks]
  /\ pending \subseteq Writers
  /\ inbox \subseteq Requests /\ outbox \subseteq Replies
  /\ handles \subseteq Writers
  /\ file \in [Writers -> -1..Chunks]

Init ==
  /\ generation = 1 /\ worker = FALSE /\ ready = FALSE
  /\ openWriters = 0 /\ idle = 0 /\ writeSupport = FALSE
  /\ call = [c \in Calls |-> "new"]
  /\ gen = [c \in Calls |-> 0]
  /\ wrote = [w \in Writers |-> 0]
  /\ pending = {} /\ inbox = {} /\ outbox = {} /\ handles = {}
  /\ file = [w \in Writers |-> -1]

-----------------------------------------------------------------------------
(* Retiring a generation. *)

\* Mutant: the Worker is forgotten, not terminated.
TeardownForgets ==
  /\ generation' = generation + 1
  /\ worker' = FALSE /\ ready' = FALSE /\ idle' = 0
  /\ UNCHANGED <<writeSupport, workerVars>>

\* terminate(): the user agent closes the Worker's handles and drops what it had
\* not read. Replies it had posted may still be on their way.
Teardown ==
  /\ generation' = generation + 1
  /\ worker' = FALSE /\ ready' = FALSE /\ idle' = 0
  /\ handles' = {} /\ inbox' = {}
  /\ UNCHANGED <<writeSupport, outbox, file>>

\* Mutant: the pending requests are cleared without being rejected.
FailForgetsPending ==
  /\ worker \/ pending # {}
  /\ Teardown
  /\ openWriters' = 0
  /\ pending' = {}
  /\ call' = [c \in Calls |-> IF call[c] = "acquiring" /\ ~ready THEN "failed" ELSE call[c]]
  /\ UNCHANGED <<gen, wrote>>

\* #fail: every pending request rejects, and so do the calls awaiting #ready.
Fail ==
  /\ worker \/ pending # {}
  /\ Teardown
  /\ openWriters' = 0
  /\ pending' = {}
  /\ call' = [c \in Calls |->
                IF c \in pending \/ (call[c] = "acquiring" /\ ~ready) THEN "failed" ELSE call[c]]
  /\ UNCHANGED <<gen, wrote>>

\* Mutants: a call of a retired generation takes a count of the next one, or the
\* count goes below zero.
ReleaseAny(g) ==
  /\ openWriters' = IF openWriters > 0 THEN openWriters - 1 ELSE 0
  /\ idle' = IF openWriters <= 1 /\ worker THEN generation ELSE idle
  /\ UNCHANGED <<generation, worker, ready, writeSupport, workerVars>>

ReleaseTwice(g) ==
  /\ openWriters' = openWriters - 1
  /\ idle' = IF openWriters <= 1 /\ worker THEN generation ELSE idle
  /\ UNCHANGED <<generation, worker, ready, writeSupport, workerVars>>

\* #release(g): only a call of the current generation gives its count back, and
\* the last one arms the idle timer.  A grace of zero is a timer that expires at
\* once; a Worker is up whenever a call of its generation unwinds (WorkerOwned).
Release(g) ==
  \/ /\ g # generation
     /\ UNCHANGED <<clientVars, workerVars>>
  \/ /\ g = generation /\ openWriters > 1
     /\ openWriters' = openWriters - 1
     /\ UNCHANGED <<generation, worker, ready, idle, writeSupport, workerVars>>
  \/ /\ g = generation /\ openWriters <= 1
     /\ openWriters' = 0 /\ idle' = g
     /\ UNCHANGED <<generation, worker, ready, writeSupport, workerVars>>

-----------------------------------------------------------------------------
(* Calls. *)

\* createWriter or assertWriteSupport up to the first await of #acquire.
Acquire(c) ==
  /\ call[c] = "new" /\ ~(c \in Probes /\ writeSupport)
  /\ call' = [call EXCEPT ![c] = "acquiring"]
  /\ gen' = [gen EXCEPT ![c] = generation]
  /\ worker' = TRUE /\ ready' = (worker /\ ready)
  /\ openWriters' = openWriters + 1
  /\ idle' = 0
  /\ UNCHANGED <<generation, writeSupport, wrote, pending, workerVars>>

\* Constructing the Worker throws: nothing was counted, createWriter releases.
NoWorker(c) ==
  /\ call[c] = "new" /\ ~worker /\ ~(c \in Probes /\ writeSupport)
  /\ call' = [call EXCEPT ![c] = "refused"]
  /\ gen' = [gen EXCEPT ![c] = generation]
  /\ IF c \in Writers THEN Teardown /\ openWriters' = 0
                      ELSE UNCHANGED <<clientVars, workerVars>>
  /\ UNCHANGED <<wrote, pending>>

\* The call of an unsupported scope or of a retired generation is refused.
ProbeDone(c) ==
  /\ c \in Probes /\ call[c] = "acquiring" /\ (ready \/ gen[c] # generation)
  /\ call' = [call EXCEPT ![c] = IF gen[c] = generation /\ writeSupport THEN "ok" ELSE "failed"]
  /\ UNCHANGED <<clientVars, gen, wrote, pending, workerVars>>

\* #request: nothing is posted once the generation moved on.
Request(w, op) ==
  IF gen[w] # generation \/ ~worker
  THEN /\ call' = [call EXCEPT ![w] = "failed"]
       /\ UNCHANGED <<pending, inbox>>
  ELSE /\ call' = [call EXCEPT ![w] = op]
       /\ pending' = pending \cup {w}
       /\ inbox' = inbox \cup {[gen |-> generation, call |-> w, op |-> op]}

Open(w) ==
  /\ call[w] = "acquiring" /\ (ready \/ gen[w] # generation)
  /\ Request(w, "opening")
  /\ UNCHANGED <<clientVars, gen, wrote, outbox, handles, file>>

Write(w) ==
  /\ call[w] = "open" /\ wrote[w] < Chunks
  /\ Request(w, "writing")
  /\ UNCHANGED <<clientVars, gen, wrote, outbox, handles, file>>

Finish(w, op) ==
  /\ call[w] = "open" /\ op \in {"closing", "aborting"}
  /\ Request(w, op)
  /\ UNCHANGED <<clientVars, gen, wrote, outbox, handles, file>>

\* The finally block of a call whose promise settled: detach and release.
Unwind(c) ==
  /\ call[c] \in {"ok", "failed"}
  /\ call' = [call EXCEPT ![c] = IF @ = "ok" THEN "closed" ELSE "refused"]
  /\ Release(gen[c])
  /\ UNCHANGED <<gen, wrote, pending>>

\* The caller's signal, heard until the call has unwound or been torn down.
Cancel(w) ==
  /\ w \in Signalled /\ gen[w] = generation /\ call[w] \in Active \cup {"ok", "failed"}
  /\ Fail

Close == Fail

\* The deadline of the handshake or of a pending request passes.
HandshakeDeadline == worker /\ ~ready /\ Fail
RequestDeadline(w) == w \in pending /\ Fail

\* The Worker fails to load, dies, or a message cannot be cloned.
WorkerError == worker /\ Fail

IdleExpires ==
  /\ idle # 0
  /\ IF idle # generation \/ openWriters > 0 \/ ~worker
     THEN idle' = 0 /\ UNCHANGED <<generation, worker, ready, openWriters, writeSupport, workerVars>>
     ELSE Teardown /\ UNCHANGED openWriters
  /\ UNCHANGED <<callVars, pending>>

\* Mutant: an error reply is taken for a success.
ReceiveOk(r) ==
  /\ r \in outbox /\ r.gen = generation /\ r.call \in pending
  /\ outbox' = outbox \ {r}
  /\ pending' = pending \ {r.call}
  /\ call' = [call EXCEPT ![r.call] = IF @ = "closing" THEN "ok"
                                      ELSE IF @ = "aborting" THEN "failed" ELSE "open"]
  /\ wrote' = IF call[r.call] = "writing" THEN [wrote EXCEPT ![r.call] = @ + 1] ELSE wrote
  /\ UNCHANGED <<clientVars, gen, inbox, handles, file>>

\* #receive: a reply of an older generation, or without a pending request, is inert.
Receive(r) ==
  /\ r \in outbox
  /\ outbox' = outbox \ {r}
  /\ IF r.gen # generation \/ r.call \notin pending
     THEN UNCHANGED <<callVars, pending>>
     ELSE /\ pending' = pending \ {r.call}
          /\ call' = [call EXCEPT ![r.call] =
               CASE @ = "writing" \/ (@ = "opening" /\ r.ok) -> "open"
                 [] @ = "closing" /\ r.ok -> "ok"
                 [] OTHER -> "failed"]
          /\ wrote' = IF call[r.call] = "writing" /\ r.ok
                      THEN [wrote EXCEPT ![r.call] = @ + 1] ELSE wrote
          /\ UNCHANGED gen
  /\ UNCHANGED <<clientVars, inbox, handles, file>>

-----------------------------------------------------------------------------
(* The Worker of the current generation. *)

WorkerReady(supported) ==
  /\ worker /\ ~ready
  /\ ready' = TRUE /\ writeSupport' = supported
  /\ UNCHANGED <<generation, worker, openWriters, idle, callVars, pending, workerVars>>

Reply(m, ok) ==
  /\ inbox' = inbox \ {m}
  /\ outbox' = outbox \cup {[gen |-> m.gen, call |-> m.call, ok |-> ok]}

\* apply(): each operation either takes effect or throws.  A file is counted in
\* whole chunks: what a short write leaves of one, behind the offset, is not
\* counted, as its writer takes no chunk any more.
Apply(m) ==
  /\ m \in inbox
  /\ \/ /\ m.op = "opening" /\ Reply(m, TRUE)
        /\ handles' = handles \cup {m.call} /\ file' = [file EXCEPT ![m.call] = 0]
     \/ /\ m.op = "writing" /\ m.call \in handles /\ Reply(m, TRUE)
        /\ file' = [file EXCEPT ![m.call] = @ + 1] /\ UNCHANGED handles
     \/ /\ m.op \in {"opening", "writing"} /\ Reply(m, FALSE)
        /\ UNCHANGED <<handles, file>>
     \/ /\ m.op = "closing" /\ m.call \in handles
        /\ \E flushed \in BOOLEAN : Reply(m, flushed)
        /\ handles' = handles \ {m.call} /\ UNCHANGED file
     \/ /\ m.op = "closing" /\ m.call \notin handles /\ Reply(m, FALSE)
        /\ UNCHANGED <<handles, file>>
     \/ /\ m.op = "aborting" /\ Reply(m, TRUE)
        /\ handles' = handles \ {m.call}
        /\ file' = IF m.call \in handles THEN [file EXCEPT ![m.call] = 0] ELSE file
  /\ UNCHANGED <<clientVars, callVars, pending>>

CallStep(c) == Acquire(c) \/ NoWorker(c) \/ ProbeDone(c) \/ Unwind(c)
WriterStep(w) ==
  \/ Open(w) \/ Write(w) \/ (\E op \in {"closing", "aborting"} : Finish(w, op))
  \/ Cancel(w) \/ RequestDeadline(w)

Next ==
  \/ \E c \in Calls : CallStep(c)
  \/ \E w \in Writers : WriterStep(w)
  \/ Close \/ HandshakeDeadline \/ WorkerError \/ IdleExpires
  \/ \E r \in outbox : Receive(r)
  \/ \E supported \in BOOLEAN : WorkerReady(supported)
  \/ \E m \in inbox : Apply(m)

Spec == Init /\ [][Next]_vars

\* The client's promises and timers run; the Worker may stall for ever.
Fairness ==
  /\ \A c \in Calls : WF_vars(ProbeDone(c)) /\ WF_vars(Unwind(c))
  /\ \A w \in Writers : WF_vars(Open(w)) /\ WF_vars(RequestDeadline(w))
  /\ WF_vars(HandshakeDeadline) /\ WF_vars(IdleExpires)

FairSpec == Spec /\ Fairness

-----------------------------------------------------------------------------
(* Properties. *)

Counted == {c \in Calls : gen[c] = generation /\ call[c] \in Active \cup {"ok", "failed"}}

\* Ownership is counted exactly once: whatever retires a generation and however
\* late its calls unwind, #openWriters is the number of calls of the current
\* generation that have not given their count back (#acquire, #release, #fail).
OwnershipExact == openWriters = Cardinality(Counted)

\* No thread is left behind: the Worker is up only for a counted call or until
\* the idle timer of its own generation fires, never under both.
WorkerOwned == worker <=> (openWriters > 0 \/ (idle = generation /\ openWriters = 0))

\* A physical lock always belongs to a writer somebody can still close: a late or
\* retired open leaves no handle (teardown, the Worker's write-open).
HandlesOwned ==
  \A w \in handles :
    gen[w] = generation /\ call[w] \in {"opening", "open", "writing", "closing", "aborting"}

\* A writer of a retired generation posts nothing into the Worker that replaced it.
RequestsOfGeneration == \A m \in inbox : gen[m.call] = generation

\* No thread, no file lock and no request outlives the generation that owns it.
ResourcesOwned == WorkerOwned /\ HandlesOwned /\ RequestsOfGeneration

\* An open writer has its handle and exactly the acknowledged chunks in its file,
\* and a close that resolved left that file complete, whatever happened to the
\* other writers of its generation.
AcknowledgedKept ==
  \A w \in Writers :
    /\ call[w] = "open" /\ gen[w] = generation => w \in handles /\ file[w] = wrote[w]
    /\ call[w] \in {"ok", "closed"} => file[w] = wrote[w]

\* Every createWriter, write, close, abort and probe settles although the Worker
\* may never answer: each one is under a deadline that fails the generation.
\* An idle Worker is eventually terminated or used again.
CallsSettle ==
  /\ \A c \in Calls : call[c] \in Active \ {"open"} ~> call[c] \in {"open", "closed", "refused"}
  /\ (worker /\ openWriters = 0) ~> (~worker \/ openWriters > 0)
=============================================================================
