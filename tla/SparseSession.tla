---------------------------- MODULE SparseSession ----------------------------
(***************************************************************************)
(* Preparations of sparse sessions (openSession of sparse-store.ts) that   *)
(* share a resolver: the claim of its warm preparation, a retained epoch,  *)
(* sources that are prepared side by side under their locks, fail-fast     *)
(* interruption, and the scopes that close before readiness is published.  *)
(* The installation of a source is one step; module SparseStore has it.    *)
(***************************************************************************)
EXTENDS SparseVerify

CONSTANTS Opens,       \* bound: preparations, numbered as they are opened
          Wanted,      \* per preparation: the sources it declares
          Concurrency, \* sources that are prepared at a time
          Commits      \* what markers may commit before, per source

ASSUME SessionAssumption ==
  /\ Opens \in Nat /\ Wanted \in [1..Opens -> SUBSET Sources \ {{}}]
  /\ Concurrency \in Nat \ {0}
  /\ Commits \subseteq [Sources -> {"none", "good", "bad"}]

VARIABLES
  session,  \* per session: where its preparation is
  task,     \* per session and source: where prepareUnique is
  aborted,  \* per session: the caller's signal, or the store's
  lock,     \* per source: session that holds its lock
  claim,    \* session that holds the resolver's warm preparation
  epochs    \* sessions that retain an epoch of the resolver's pool

vars == <<pool, stored, width, session, task, aborted, lock, claim, epochs>>

Sessions == 1..Opens
NoSession == 0
Preparation == {"preparing", "leaving", "left", "ready"}
Locked == {"looking", "verifying", "local", "cold", "verified", "failing"}

Init ==
  /\ pool = EmptyPool /\ width \in 0..MaxWidth
  /\ stored \in Commits
  /\ session = [p \in Sessions |-> "idle"]
  /\ task = [p \in Sessions |-> [s \in Wanted[p] |-> "idle"]]
  /\ aborted = [p \in Sessions |-> FALSE]
  /\ lock = [s \in Sources |-> NoSession] /\ claim = NoSession /\ epochs = {}

Warm(p) == claim = p
Tasks(p, pcs) == {s \in Wanted[p] : task[p][s] \in pcs}
\* Fail-fast: a source failed, and the others are interrupted.
Interrupted(p) == Tasks(p, {"failed"}) # {}
Under(p, s, pc) == task[p][s] = pc
Goes(p, s, pc) == task' = [task EXCEPT ![p][s] = pc]
Fault == pool.faults > 0 /\ pool' = [pool EXCEPT !.faults = @ - 1]

-----------------------------------------------------------------------------
(* The session *)

\* tryClaimWarmPreparation and its pool, then the epoch.
Open(p) ==
  /\ session[p] = "idle" /\ \A q \in 1..(p - 1) : session[q] # "idle"
  /\ session' = [session EXCEPT ![p] = "preparing"]
  /\ IF claim = NoSession /\ width > 0
       THEN claim' = p /\ pool' = NewPool(pool)
       ELSE UNCHANGED <<claim, pool>>
  /\ epochs' = epochs \cup {p}
  /\ UNCHANGED <<stored, width, task, aborted, lock>>

\* The caller's signal, or close() of the store; the jobs' listeners run at once.
Abort(p) ==
  /\ session[p] \in Preparation /\ ~aborted[p] /\ pool.faults > 0
  /\ aborted' = [aborted EXCEPT ![p] = TRUE]
  /\ LET P == [pool EXCEPT !.faults = @ - 1]
     IN pool' \in IF Warm(p) THEN AllCancelled(P) ELSE {P}
  /\ UNCHANGED <<stored, width, session, task, lock, claim, epochs>>

\* All sources are prepared, or one failed and no other goes on: the scope
\* releases the epoch, which is retained for good when a Worker of the pool
\* cannot be terminated.
Prepared(p) == Tasks(p, {"ready"}) = Wanted[p]
Leave(p) ==
  /\ session[p] = "preparing"
  /\ Prepared(p) \/ (Interrupted(p) /\ Tasks(p, {"idle", "ready", "failed"}) = Wanted[p])
  /\ session' = [session EXCEPT ![p] = "leaving"]
  /\ \/ epochs' = epochs \ {p} /\ UNCHANGED pool
     \/ UNCHANGED epochs /\ Fault
  /\ UNCHANGED <<stored, width, task, aborted, lock, claim>>

\* Mutant: the claim is released although the pool did not close.
CloseWarmAnyway(p) ==
  /\ session[p] = "leaving" /\ session' = [session EXCEPT ![p] = "left"]
  /\ IF Warm(p) THEN pool' \in Closed(pool) /\ claim' = NoSession ELSE UNCHANGED <<pool, claim>>
  /\ UNCHANGED <<stored, width, task, aborted, lock, epochs>>

\* The pool closes, then the claim is released.  A pool that does not close
\* keeps the claim for good, and fails the session.
CloseWarm(p) ==
  /\ session[p] = "leaving"
  /\ IF Warm(p)
       THEN /\ pool' \in (IF pool.open THEN Closed(pool) ELSE {pool})
            /\ claim' = (IF pool'.broken THEN claim ELSE NoSession)
            /\ session' = [session EXCEPT ![p] = IF pool'.broken THEN "failed" ELSE "left"]
       ELSE session' = [session EXCEPT ![p] = "left"] /\ UNCHANGED <<pool, claim>>
  /\ UNCHANGED <<stored, width, task, aborted, lock, epochs>>

\* The finalizer that failed fails the session.
Announce(p) ==
  /\ session[p] = "left"
  /\ session' = [session EXCEPT ![p] =
       IF Prepared(p) /\ ~aborted[p] /\ p \notin epochs THEN "ready" ELSE "failed"]
  /\ UNCHANGED <<pool, stored, width, task, aborted, lock, claim, epochs>>

\* handoff(): the lease of an aborted session is closed.
HandOver(p) ==
  /\ session[p] = "ready"
  /\ session' = [session EXCEPT ![p] = IF aborted[p] THEN "failed" ELSE "open"]
  /\ UNCHANGED <<pool, stored, width, task, aborted, lock, claim, epochs>>

-----------------------------------------------------------------------------
(* A source *)

StartTask(p, s) ==
  /\ session[p] = "preparing" /\ Under(p, s, "idle") /\ ~Interrupted(p)
  /\ Cardinality(Tasks(p, {"locking", "charging"} \cup Locked)) < Concurrency
  /\ Goes(p, s, IF aborted[p] THEN "failed" ELSE "locking")
  /\ UNCHANGED <<pool, stored, width, session, aborted, lock, claim, epochs>>

\* acquireStemLock: the two nested Web Locks of a source, as one.  An aborted
\* request gives its locks back before any scope of the source exists.
Grant(p, s) ==
  /\ Under(p, s, "locking") /\ ~aborted[p]
  /\ lock[s] = NoSession /\ lock' = [lock EXCEPT ![s] = p] /\ Goes(p, s, "looking")
  /\ UNCHANGED <<pool, stored, width, session, aborted, claim, epochs>>

\* A lock that is not granted yet, and a charge, are given up.
GiveUp(p, s) ==
  /\ \/ Under(p, s, "locking") /\ (aborted[p] \/ Interrupted(p))
     \/ Under(p, s, "charging") /\ Interrupted(p)
  /\ Goes(p, s, "failed")
  /\ UNCHANGED <<pool, stored, width, session, aborted, lock, claim, epochs>>

\* The interruption of a source; that of a job waits for its cancellation.
Interrupt(p, s) ==
  /\ Interrupted(p) /\ task[p][s] \in {"looking", "verifying", "local", "cold"}
  /\ Goes(p, s, "failing")
  /\ IF Under(p, s, "verifying") THEN pool' \in Cancelled(pool, s) ELSE UNCHANGED pool
  /\ UNCHANGED <<stored, width, session, aborted, lock, claim, epochs>>

\* The marker: a committed payload is verified by a Worker if the pool is open.
Look(p, s) ==
  /\ Under(p, s, "looking")
  /\ \/ aborted[p] /\ Goes(p, s, "failing") /\ UNCHANGED pool
     \/ Goes(p, s, "failing") /\ Fault
     \/ ~aborted[p] /\ stored[s] = "none" /\ Goes(p, s, "cold") /\ UNCHANGED pool
     \/ /\ ~aborted[p] /\ stored[s] # "none" /\ Warm(p) /\ pool.open
        /\ Goes(p, s, "verifying") /\ pool' \in Enqueued(pool, s)
     \/ /\ ~aborted[p] /\ stored[s] # "none" /\ ~(Warm(p) /\ pool.open)
        /\ Goes(p, s, "local") /\ UNCHANGED pool
  /\ UNCHANGED <<stored, width, session, aborted, lock, claim, epochs>>

\* The job settled; the store compares the digest of a complete one.
JobSettles(p, s) ==
  /\ Under(p, s, "verifying") /\ pool.outcome[s] # "pending"
  /\ Goes(p, s, IF pool.outcome[s] = "complete" /\ stored[s] = "good" /\ ~aborted[p]
                  THEN "verified" ELSE "failing")
  /\ UNCHANGED <<pool, stored, width, session, aborted, lock, claim, epochs>>

VerifyLocally(p, s) ==
  /\ Under(p, s, "local")
  /\ \/ /\ Goes(p, s, IF stored[s] = "good" /\ ~aborted[p] THEN "verified" ELSE "failing")
        /\ UNCHANGED pool
     \/ Goes(p, s, "failing") /\ Fault
  /\ UNCHANGED <<stored, width, session, aborted, lock, claim, epochs>>

Install(p, s) ==
  /\ Under(p, s, "cold")
  /\ \/ /\ ~aborted[p] /\ Goes(p, s, "verified") /\ UNCHANGED pool
        /\ stored' = [stored EXCEPT ![s] = "good"]
     \/ aborted[p] /\ Goes(p, s, "failing") /\ UNCHANGED <<pool, stored>>
     \/ Goes(p, s, "failing") /\ Fault /\ UNCHANGED stored
  /\ UNCHANGED <<width, session, aborted, lock, claim, epochs>>

\* The scope of the source: a failed one closes the warm pool before its lock.
Unlock(p, s) ==
  /\ task[p][s] \in {"verified", "failing"}
  /\ Goes(p, s, IF Under(p, s, "verified") THEN "charging" ELSE "failed")
  /\ IF Under(p, s, "failing") /\ Warm(p) /\ pool.open
       THEN pool' \in Closed(pool) ELSE UNCHANGED pool
  /\ lock' = [lock EXCEPT ![s] = NoSession]
  /\ UNCHANGED <<stored, width, session, aborted, claim, epochs>>

\* The metadata budget of the session, and source-ready.
Charge(p, s) ==
  /\ Under(p, s, "charging")
  /\ \/ Goes(p, s, IF aborted[p] THEN "failed" ELSE "ready") /\ UNCHANGED pool
     \/ Goes(p, s, "failed") /\ Fault
  /\ UNCHANGED <<stored, width, session, aborted, lock, claim, epochs>>

-----------------------------------------------------------------------------
Workers == \E w \in Realm : WorkerSteps(w) \/ PoolSteps(w)
Host == Workers /\ UNCHANGED <<session, task, aborted, lock, claim, epochs>>

Prepare(p) ==
  \/ Leave(p) \/ CloseWarm(p) \/ Announce(p) \/ HandOver(p)
  \/ \E s \in Wanted[p] :
       \/ StartTask(p, s) \/ Grant(p, s) \/ GiveUp(p, s) \/ Interrupt(p, s) \/ Look(p, s)
       \/ JobSettles(p, s) \/ VerifyLocally(p, s) \/ Install(p, s) \/ Unlock(p, s) \/ Charge(p, s)

Next == Host \/ \E p \in Sessions : Open(p) \/ Abort(p) \/ Prepare(p)

Spec == Init /\ [][Next]_vars /\ WF_vars(Host) /\ \A p \in Sessions : WF_vars(Prepare(p))

-----------------------------------------------------------------------------
\* Types of the state.
TypeOK ==
  /\ width \in 0..MaxWidth /\ stored \in [Sources -> {"none", "good", "bad"}]
  /\ {pool.open, pool.broken} \subseteq BOOLEAN /\ pool.faults \in 0..Faults
  /\ pool.queue \in Seq(Sources) /\ IsInjective(pool.queue)
  /\ pool.outcome \in [Sources -> {"none", "pending", "complete", "failed", "corrupt"}]
  /\ \A w \in Realm :
       LET v == pool.worker[w]
       IN /\ {v.there, v.alive, v.hung, v.awaiting} \subseteq BOOLEAN /\ (v.there => v.alive)
          /\ {v.pending, v.job} \subseteq Sources \cup {NoSource}
          /\ v.sent <= v.updates /\ v.of <= v.generation
  /\ session \in [Sessions -> Preparation \cup {"idle", "open", "failed"}]
  /\ \A p \in Sessions :
       task[p] \in [Wanted[p] -> {"idle", "locking", "charging", "ready", "failed"} \cup Locked]
  /\ aborted \in [Sessions -> BOOLEAN] /\ lock \in [Sources -> Sessions \cup {NoSession}]
  /\ claim \in Sessions \cup {NoSession} /\ epochs \subseteq Sessions

\* sparse-store.ts:378: a Worker reads the payload of a source only while the
\* preparation it belongs to holds the source's lock, unless it could not be
\* terminated; and then the resolver's claim is never given to another
\* preparation, so that the Workers alive stay within the width it funds.
VerifyUnderLock ==
  /\ \A w \in Realm : LET v == pool.worker[w] IN
       v.job # NoSource /\ ~pool.broken => claim # NoSession /\ lock[v.job] = claim
  /\ Cardinality({w \in Realm : pool.worker[w].alive}) <= width

\* engine-web-sparse-verify-worker.ts:80: whatever the order of progress,
\* acknowledgements, completion and the next start, neither side takes the
\* other's messages for corruption, and the counters agree for every index.
ProtocolExact == \A s \in Sources : pool.outcome[s] # "corrupt"

\* sparse-store.ts:510: ready is published when every source is verified, with
\* its lock, its Worker, the warm claim and the epoch released before.
ReadyComplete ==
  \A p \in Sessions : session[p] \in {"ready", "open"} =>
    /\ \A s \in Wanted[p] : task[p][s] = "ready" /\ stored[s] = "good" /\ lock[s] # p
    /\ claim # p /\ p \notin epochs
    /\ claim = NoSession => \A w \in Realm : ~pool.worker[w].alive

\* sparse-verify-worker-pool.ts:311: every preparation ends, whichever Worker
\* hangs, fails, or cannot be made or terminated, so close() of the store does.
SessionSettles ==
  \A p \in Sessions : session[p] \in Preparation ~> session[p] \in {"open", "failed"}
=============================================================================
