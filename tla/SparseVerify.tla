---------------------------- MODULE SparseVerify ----------------------------
(***************************************************************************)
(* Warm verification of committed sparse payloads: the pool of one         *)
(* preparation (sparse-verify-worker-pool.ts), its Workers                 *)
(* (engine-web-sparse-verify-worker.ts) and their messages                 *)
(* (sparse-verify-worker-protocol.ts).  A job is named by its source.      *)
(*                                                                         *)
(* The pool is one record, so that a handler that ends a job, terminates a *)
(* Worker, starts the next job and closes the pool is a function of it;    *)
(* where a Worker cannot be made or terminated, it is a set of pools.      *)
(***************************************************************************)
EXTENDS SparsePcm

CONSTANTS Sources,     \* identities of a session
          NoSource,    \* no job
          Active,      \* per source: the frames it stores
          Realms,      \* bound: names of Workers
          MaxWidth,    \* largest width a memory budget funds
          ReadFrames,  \* frames of SPARSE_VERIFY_READ_BYTES
          ZeroFrames,  \* frames of SPARSE_VERIFY_ZERO_BYTES
          Faults       \* bound: aborts, and Workers that fail, hang, or cannot be made or terminated

ASSUME VerifyAssumption ==
  /\ NoSource \notin Sources /\ Active \in [Sources -> SUBSET Frame]
  /\ Realms \in Nat /\ MaxWidth \in 0..Realms /\ Faults \in Nat
  /\ ReadFrames \in Nat \ {0} /\ ZeroFrames \in Nat \ {0}

VARIABLES pool,    \* the pool of the preparation that holds the claim
          stored,  \* per source: none, good or bad, what its marker commits
          width    \* fundedWarmWidth of the resolver

Realm == 1..Realms
Index(s) == DeriveIndex(ManifestOf(Active[s]))

-----------------------------------------------------------------------------
(* What a Worker does for an index, and what the host expects it to count  *)

\* The updates of the hash: n frames in pieces of a size.
Ceil(n, size) == (n + size - 1) \div size
Pieces(zero, n, size) ==
  [k \in 1..Ceil(n, size) |-> [zero |-> zero, frames |-> Min({size, n - (k - 1) * size})]]

\* Every interval is read after the silence before it; silence ends it.
Updates(index) ==
  LET before(k) == IF k = 1 THEN 0 ELSE End(index[k - 1])
      silence(k) == (IF k > Len(index) THEN Frames ELSE index[k].start) - before(k)
  IN FlattenSeq([k \in 1..(Len(index) + 1) |->
       Pieces(TRUE, silence(k), ZeroFrames)
         \o (IF k > Len(index) THEN <<>> ELSE Pieces(FALSE, index[k].frames, ReadFrames))])
Work == [s \in Sources |-> Updates(Index(s))]

\* The counters of a Worker, which every update adds to.
AfterUpdate(c, u) ==
  [reads |-> c.reads + (IF u.zero THEN 0 ELSE 1), zeros |-> c.zeros + (IF u.zero THEN 1 ELSE 0),
   hashed |-> c.hashed + u.frames]
Counted(updates) ==
  LET after[n \in 0..Len(updates)] == IF n = 0 THEN [reads |-> 0, zeros |-> 0, hashed |-> 0]
                                      ELSE AfterUpdate(after[n - 1], updates[n])
  IN after[Len(updates)]
Counts(s) == Counted(Work[s])

\* sparseVerifyExpectedCounts.
ExpectedCounts(index) ==
  LET sum[n \in 0..Len(index)] ==
        IF n = 0 THEN [reads |-> 0, zeros |-> 0, end |-> 0]
        ELSE LET c == sum[n - 1]
                 i == index[n]
             IN [reads |-> c.reads + Ceil(i.frames, ReadFrames),
                 zeros |-> c.zeros + Ceil(i.start - c.end, ZeroFrames), end |-> End(i)]
      c == sum[Len(index)]
  IN [reads |-> c.reads, zeros |-> c.zeros + Ceil(Frames - c.end, ZeroFrames), hashed |-> Frames]
Expected == [s \in Sources |-> ExpectedCounts(Index(s))]

\* The indexes are valid, which a store checks of each that it reads or derives
\* (validateSparsePcmIndex).
IndexesValid ==
  \A s \in Sources : Index(s) \in Seq(Interval) /\ ValidIndex(Index(s), Cardinality(Active[s]))

\* The counters a Worker leaves are those the host expects.
CountsAgree == \A s \in Sources : Len(Work[s]) \in Nat /\ Counts(s) = Expected[s]

-----------------------------------------------------------------------------
(* The pool *)

\* A Worker: its slot in the pool (there, pending job, generation, progress) and
\* its realm (alive, hung, job, generation, updates done, progress sent, awaiting
\* an acknowledgement), with the messages on their way.
NoWorker == [there |-> FALSE, pending |-> NoSource, generation |-> 0, last |-> 0,
             alive |-> FALSE, hung |-> FALSE, job |-> NoSource, of |-> 0,
             updates |-> 0, sent |-> 0, awaiting |-> FALSE, toHost |-> <<>>, toWorker |-> <<>>]

\* outcome: how the job of a source was settled.
EmptyPool == [open |-> FALSE, broken |-> FALSE, queue |-> <<>>,
              outcome |-> [s \in Sources |-> "none"],
              worker |-> [w \in Realm |-> NoWorker], faults |-> Faults]
NewPool(P) == [EmptyPool EXCEPT !.open = TRUE, !.faults = P.faults,
                                !.worker = [w \in Realm |-> [P.worker[w] EXCEPT !.there = FALSE]]]

Slots(P)   == {w \in Realm : P.worker[w].there}
Idle(P)    == {w \in Slots(P) : P.worker[w].pending = NoSource}
Running(P) == Slots(P) \ Idle(P)
Unused(P)  == {w \in Realm : ~P.worker[w].there /\ ~P.worker[w].alive}

\* Only the first settlement of a job counts.
Settled(P, jobs, outcome) ==
  [P EXCEPT !.outcome = [s \in Sources |->
     IF s \in jobs /\ @[s] = "pending" THEN outcome ELSE @[s]]]

Started(v, s) ==
  [v EXCEPT !.there = TRUE, !.alive = TRUE, !.pending = s, !.generation = @ + 1, !.last = 0,
            !.toWorker = Append(@, [type |-> "start", generation |-> v.generation + 1, source |-> s])]
StartJob(P, w) == [P EXCEPT !.queue = Tail(@), !.worker[w] = Started(@, Head(P.queue))]

\* A Worker that cannot be constructed fails the head of the queue, and the rest
\* of the queue waits.
Unconstructed(P) ==
  Settled([P EXCEPT !.queue = Tail(@), !.faults = @ - 1], {Head(P.queue)}, "failed")

\* dispatch(): as long as there are jobs, an idle Worker takes the first of them, or a
\* new one while the width has room.  A construction that fails ends the loop.
Serves(P) == P.open /\ P.queue # <<>> /\ (Idle(P) # {} \/ Cardinality(Slots(P)) < width)
Served(P) == StartJob(P, Min(IF Idle(P) # {} THEN Idle(P) ELSE Unused(P)))
Dispatched(P) ==
  LET jobs == 0..Len(P.queue)
      after[n \in jobs] == IF n = 0 THEN P
                           ELSE LET Q == after[n - 1] IN IF Serves(Q) THEN Served(Q) ELSE Q
  IN {after[Len(P.queue)]}
       \cup {Unconstructed(after[n]) : n \in {k \in jobs : LET Q == after[k] IN
                                                  Serves(Q) /\ Idle(Q) = {} /\ Q.faults > 0}}

\* Mutant: the slots are given up, their Workers go on.
Abandoned(P, workers, throw) ==
  [P EXCEPT !.worker = [w \in Realm |-> IF w \in workers
     THEN [@[w] EXCEPT !.there = FALSE, !.pending = NoSource] ELSE @[w]]]

\* The Workers of a set are terminated; those that throw stay, and close the pool.
Terminated(P, workers, throw) ==
  [P EXCEPT !.faults = @ - Cardinality(throw),
            !.broken = @ \/ throw # {}, !.open = @ /\ throw = {},
            !.worker = [w \in Realm |-> CASE w \in throw -> [@[w] EXCEPT !.pending = NoSource]
                                          [] w \in workers \ throw -> NoWorker
                                          [] OTHER -> @[w]]]

\* Workers of a set that may throw when they are terminated.
Throws(P, workers) == {throw \in SUBSET workers : Cardinality(throw) <= P.faults}

\* close(): the queue is cancelled, then every slot is terminated.
Closed(P) ==
  {Settled(Terminated([P EXCEPT !.open = FALSE, !.queue = <<>>], Slots(P), throw), Sources, "failed") :
     throw \in Throws(P, Slots(P))}

\* finishSlot: the Worker is terminated before its job settles; then the queue
\* goes on in another one, or the pool closes.
Finished(P, w, outcome) ==
  UNION {LET T == Settled(Terminated(P, {w}, throw), {P.worker[w].pending}, outcome)
         IN IF throw = {} THEN Dispatched(T) ELSE Closed(T) : throw \in Throws(P, {w})}

\* Mutant: a completed job does not pass its Worker on.
CompletedAlone(P, w) ==
  {Settled([P EXCEPT !.worker[w].pending = NoSource], {P.worker[w].pending}, "complete")}

\* complete: the Worker is idle again.
Completed(P, w) ==
  Dispatched(Settled([P EXCEPT !.worker[w].pending = NoSource], {P.worker[w].pending}, "complete"))

Enqueued(P, s) == Dispatched([P EXCEPT !.queue = Append(@, s), !.outcome[s] = "pending"])

\* abortJob: a queued job leaves the queue, a running one takes its Worker with it.
Cancelled(P, s) ==
  IF P.outcome[s] # "pending" THEN {P}
  ELSE IF Contains(P.queue, s)
    THEN LET at == CHOOSE k \in DOMAIN P.queue : P.queue[k] = s
         IN {Settled([P EXCEPT !.queue = RemoveAt(@, at)], {s}, "failed")}
  ELSE Finished(P, CHOOSE w \in Running(P) : P.worker[w].pending = s, "failed")

\* The abort listeners of all jobs, in one task: no queued job is started between.
AllCancelled(P) ==
  LET Q == Settled([P EXCEPT !.queue = <<>>], ToSet(P.queue), "failed")
  IN UNION {LET T == Settled(Terminated(Q, Running(Q), throw), Sources, "failed")
            IN IF throw = {} THEN {T} ELSE Closed(T) : throw \in Throws(Q, Running(Q))}

-----------------------------------------------------------------------------
(* Messages *)

Answered(v, m) ==
  [v EXCEPT !.last = m.updates,
            !.toWorker = Append(@, [type |-> "ack", generation |-> m.generation, updates |-> m.updates])]

\* The handler of the host; the listeners of an idle slot are detached.
Received(P, w) ==
  LET v == P.worker[w]
      m == Head(v.toHost)
      Q == [P EXCEPT !.worker[w].toHost = Tail(@)]
      acked == [Q EXCEPT !.worker[w] = Answered(@, m)]
  IN IF ~v.there \/ v.pending = NoSource \/ m.generation # v.generation THEN {Q}
     ELSE CASE m.type = "progress" ->
                 IF m.updates <= v.last \/ m.updates > Len(Work[v.pending])
                   THEN Finished(Q, w, "corrupt") ELSE {acked}
            [] m.type = "failure" -> Finished(Q, w, m.kind)
            [] OTHER -> IF m.counts = Expected[v.pending] THEN Completed(Q, w)
                        ELSE Finished(Q, w, "corrupt")

Receive(w) ==
  /\ pool.worker[w].toHost # <<>> /\ pool' \in Received(pool, w)
  /\ UNCHANGED <<stored, width>>

\* The watchdog ends a job whose Worker hangs, or is only slow.
Watchdog(w) ==
  /\ w \in Running(pool) /\ pool.worker[w].toHost = <<>>
  /\ LET v == pool.worker[w]
     IN pool' \in IF v.hung THEN Finished(pool, w, "failed")
                  ELSE IF pool.faults > 0 THEN Finished([pool EXCEPT !.faults = @ - 1], w, "failed")
                  ELSE {}
  /\ UNCHANGED <<stored, width>>

-----------------------------------------------------------------------------
(* The Worker *)

Post(v, m) == [v EXCEPT !.toHost = Append(@, m)]
\* Mutant: the progress that was sent is not reset.
ClearKeepsSent(v) == [v EXCEPT !.job = NoSource, !.of = 0, !.updates = 0, !.awaiting = FALSE]
Clear(v) == [v EXCEPT !.job = NoSource, !.of = 0, !.updates = 0, !.sent = 0, !.awaiting = FALSE]
FailJob(v, kind) == Clear(Post(v, [type |-> "failure", generation |-> v.of, kind |-> kind]))
PostProgress(v) ==
  [Post(v, [type |-> "progress", generation |-> v.of, updates |-> v.updates])
     EXCEPT !.sent = v.updates, !.awaiting = TRUE]

Works(w) == pool.worker[w].alive /\ ~pool.worker[w].hung
Becomes(w, v) == pool' = [pool EXCEPT !.worker[w] = v] /\ UNCHANGED <<stored, width>>

\* scope.onmessage: a start, or an acknowledgement; that of an earlier job is ignored.
TakeMessage(w) ==
  /\ Works(w) /\ pool.worker[w].toWorker # <<>>
  /\ LET m == Head(pool.worker[w].toWorker)
         v == [pool.worker[w] EXCEPT !.toWorker = Tail(@)]
         acked == [v EXCEPT !.awaiting = FALSE]
     IN Becomes(w,
          IF m.type = "start"
            THEN IF v.job # NoSource
                   THEN Post(v, [type |-> "failure", generation |-> m.generation, kind |-> "corrupt"])
                   ELSE [v EXCEPT !.job = m.source, !.of = m.generation]
          ELSE IF v.job = NoSource \/ m.generation # v.of THEN v
          ELSE IF ~v.awaiting \/ m.updates # v.sent THEN FailJob(v, "corrupt")
          ELSE IF v.updates > v.sent THEN PostProgress(acked) ELSE acked)

\* Mutant: progress is posted although an earlier one is not acknowledged.
UpdateUncoalesced(w) ==
  /\ Works(w) /\ pool.worker[w].job # NoSource
  /\ pool.worker[w].updates < Len(Work[pool.worker[w].job])
  /\ Becomes(w, PostProgress([pool.worker[w] EXCEPT !.updates = @ + 1]))

\* One read or one piece of silence is hashed; progress is posted unless one
\* is not acknowledged yet.
Update(w) ==
  /\ Works(w) /\ pool.worker[w].job # NoSource
  /\ pool.worker[w].updates < Len(Work[pool.worker[w].job])
  /\ LET v == [pool.worker[w] EXCEPT !.updates = @ + 1]
     IN Becomes(w, IF v.awaiting THEN v ELSE PostProgress(v))

\* The digest and the counters, whether or not the last progress was acknowledged.
FinishJob(w) ==
  /\ Works(w)
  /\ LET v == pool.worker[w]
     IN /\ v.job # NoSource /\ v.updates = Len(Work[v.job])
        /\ Becomes(w, Post(Clear(v), [type |-> "complete", generation |-> v.of, counts |-> Counts(v.job)]))

\* A read fails or is late, or the Worker makes no progress any more.
BreakDown(w) ==
  /\ Works(w) /\ pool.worker[w].job # NoSource /\ pool.faults > 0
  /\ \E v \in {FailJob(pool.worker[w], "failed"), [pool.worker[w] EXCEPT !.hung = TRUE]} :
       pool' = [pool EXCEPT !.worker[w] = v, !.faults = @ - 1]
  /\ UNCHANGED <<stored, width>>

WorkerSteps(w) == TakeMessage(w) \/ Update(w) \/ FinishJob(w) \/ BreakDown(w)
PoolSteps(w) == Receive(w) \/ Watchdog(w)
=============================================================================
