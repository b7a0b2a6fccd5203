---------------------------- MODULE FlacWorkerPool ----------------------------
(***************************************************************************)
(* The pool of FLAC decoder Workers (src/src/stems/flac-worker-pool.ts)    *)
(* over its admission (BoundedStemAdmission of flac-admission.ts) and its  *)
(* single-flight decoder module.                                           *)
(*                                                                         *)
(* While somebody retains the pool, jobs queue for realms (Worker slots)   *)
(* that are reused; otherwise each job gets a Worker of its own.  The last *)
(* release closes the epoch.  A slot is named after the job it was         *)
(* constructed for.  Every handler that runs to completion is one action;  *)
(* a promise continuation is an action of its own.                         *)
(***************************************************************************)
EXTENDS Integers, FiniteSets, FiniteSetsExt, SequencesExt

CONSTANTS Jobs, Holders,
          Limit,        \* the admission's limit
          HasLoader,    \* native Workers share a compiled decoder module
          None, Idle    \* a slot without a Worker, or with one and without a job

ASSUME PoolAssumption ==
  /\ IsFiniteSet(Jobs) /\ IsFiniteSet(Holders)
  /\ Limit \in Nat \ {0} /\ HasLoader \in BOOLEAN
  /\ None \notin Jobs /\ Idle \notin Jobs /\ None # Idle

VARIABLES pc,            \* where each job is
          aborted,       \* the jobs whose signal fired
          oneShot,       \* the jobs #runOneShot serves
          pending,       \* #pending
          worker,        \* #workers: whom each slot serves
          constructing,  \* the jobs inside #constructNew
          activeJobs,
          retentions, closing,
          holder,        \* each caller of retain()
          leases,        \* the reservations the admission has granted
          admQueue,      \* the jobs waiting for one
          module, owners \* the shared module load and who owns it

poolVars == <<pc, pending, worker, constructing, activeJobs, closing, holder,
              leases, admQueue, module, owners>>
vars == <<poolVars, aborted, oneShot, retentions>>

Waits == {"queued", "module", "ready", "admission", "admitted", "rejected"}
Runs == {"working", "residual"}
Settled == {"done", "failed"}

TypeOK ==
  /\ pc \in [Jobs -> {"new"} \cup Waits \cup Runs \cup Settled]
  /\ aborted \subseteq Jobs /\ oneShot \subseteq Jobs
  /\ pending \in Seq(Jobs) /\ admQueue \in Seq(Jobs)
  /\ worker \in [Jobs -> Jobs \cup {None, Idle}]
  /\ constructing \subseteq Jobs
  /\ activeJobs \in 0..Cardinality(Jobs)
  /\ retentions \in Nat /\ closing \in BOOLEAN
  /\ holder \in [Holders -> {"new", "held", "noop", "releasing", "released"}]
  /\ leases \subseteq Jobs
  /\ module \in {"none", "loading", "doomed", "cached"}
  /\ owners \subseteq Jobs

Init ==
  /\ pc = [j \in Jobs |-> "new"]
  /\ aborted = {} /\ oneShot = {}
  /\ pending = <<>> /\ admQueue = <<>>
  /\ worker = [s \in Jobs |-> None]
  /\ constructing = {} /\ activeJobs = 0
  /\ retentions = 0 /\ closing = FALSE
  /\ holder = [h \in Holders |-> "new"]
  /\ leases = {} /\ module = "none" /\ owners = {}

-----------------------------------------------------------------------------
(* What every handler ends with: #admitNext, #drain and #maybeFinishClose.  *)
(* A handler edits the pool's state Now and hands it to Continue.           *)

Now == [pc |-> pc, pending |-> pending, worker |-> worker, constructing |-> constructing,
        activeJobs |-> activeJobs, closing |-> closing, holder |-> holder,
        leases |-> leases, admQueue |-> admQueue, module |-> module, owners |-> owners]

Without(q, S) ==
  LET kept[n \in 0..Len(q)] == IF n = 0 THEN <<>>
                               ELSE IF q[n] \in S THEN kept[n - 1] ELSE Append(kept[n - 1], q[n])
  IN  kept[Len(q)]
Slots(w) == {s \in Jobs : w[s] # None}

\* #maybeFinishClose: the epoch has physically drained.
Drained(p) == Slots(p.worker) = {} /\ p.constructing = {} /\ p.activeJobs = 0 /\ p.pending = <<>>

\* #admitNext and #drain, from the state p the handler left behind.
AdmitAndDrain(p) ==
  LET grants == Min({Len(p.admQueue), Limit - Cardinality(p.leases)})
      granted == ToSet(SubSeq(p.admQueue, 1, grants))
      idle == {s \in Jobs : p.worker[s] = Idle}
      room == Limit - Cardinality(Slots(p.worker)) - Cardinality(p.constructing)
      reuses == IF p.closing THEN 0 ELSE Min({Len(p.pending), Cardinality(idle)})
      builds == IF p.closing \/ room < 0 THEN 0 ELSE Min({Len(p.pending) - reuses, room})
      reused == ToSet(SubSeq(p.pending, 1, reuses))
      built == ToSet(SubSeq(p.pending, reuses + 1, reuses + builds))
      loads == HasLoader /\ p.module # "cached"
  IN
  /\ leases' = p.leases \cup granted
  /\ admQueue' = SubSeq(p.admQueue, grants + 1, Len(p.admQueue))
  /\ \E taken \in [1..reuses -> idle] :
       /\ \A i, k \in 1..reuses : i # k => taken[i] # taken[k]
       /\ worker' = [s \in Jobs |-> IF \E i \in 1..reuses : taken[i] = s
                                    THEN p.pending[CHOOSE i \in 1..reuses : taken[i] = s]
                                    ELSE p.worker[s]]
  /\ activeJobs' = p.activeJobs + reuses
  /\ constructing' = p.constructing \cup built
  /\ pending' = SubSeq(p.pending, reuses + builds + 1, Len(p.pending))
  \* NativeDecoderModuleLoader.acquire joins whatever load is pending.
  /\ owners' = IF loads THEN p.owners \cup built ELSE p.owners
  /\ module' = IF loads /\ built # {} /\ p.module = "none" THEN "loading" ELSE p.module
  /\ pc' = [j \in Jobs |-> IF j \in granted THEN "admitted"
                           ELSE IF j \in reused THEN "working"
                           ELSE IF j \in built THEN (IF loads THEN "module" ELSE "ready")
                           ELSE p.pc[j]]
  /\ closing' = p.closing
  /\ holder' = IF p.closing /\ Drained(p)
               THEN [h \in Holders |-> IF p.holder[h] = "releasing" THEN "released" ELSE p.holder[h]]
               ELSE p.holder

Continue(left) == \E p \in {left} : AdmitAndDrain(p)

\* A load whose last owner lets go is aborted, but stays the pending one until
\* it has rejected.
Disowned(p, S) ==
  [p EXCEPT !.owners = @ \ S,
            !.module = IF @ = "loading" /\ p.owners \ S = {} THEN "doomed" ELSE @]

-----------------------------------------------------------------------------
(* Epochs. *)

Retain(h) ==
  /\ holder[h] = "new"
  /\ IF closing /\ ~Drained(Now)
     THEN /\ holder' = [holder EXCEPT ![h] = "noop"]
          /\ UNCHANGED <<retentions, closing>>
     ELSE /\ holder' = [holder EXCEPT ![h] = "held"]
          /\ retentions' = retentions + 1
          /\ closing' = FALSE
  /\ UNCHANGED <<pc, aborted, oneShot, pending, worker, constructing, activeJobs,
                 leases, admQueue, module, owners>>

\* Mutant: the epoch closes but its queue is left to wait.
BeginCloseKeepsQueue(p) ==
  LET idle == {s \in Jobs : worker[s] = Idle}
      waiting == {j \in constructing : pc[j] = "admission"} IN
  Disowned([p EXCEPT !.closing = TRUE,
              !.admQueue = Without(@, waiting),
              !.worker = [s \in Jobs |-> IF s \in idle THEN None ELSE @[s]],
              !.leases = @ \ idle,
              !.pc = [j \in Jobs |-> IF j \in waiting THEN "rejected" ELSE @[j]]],
           constructing)

\* #beginClose: the constructions are aborted, the queue rejected and the idle
\* realms terminated; what is running winds up by itself.
BeginClose(p) ==
  LET idle == {s \in Jobs : worker[s] = Idle}
      waiting == {j \in constructing : pc[j] = "admission"}
      queued == {j \in Jobs : pc[j] = "queued"} IN
  Disowned([p EXCEPT !.closing = TRUE, !.pending = <<>>,
              !.admQueue = Without(@, waiting),
              !.worker = [s \in Jobs |-> IF s \in idle THEN None ELSE @[s]],
              !.leases = @ \ idle,
              !.pc = [j \in Jobs |-> IF j \in waiting THEN "rejected"
                                     ELSE IF j \in queued THEN "failed" ELSE @[j]]],
           constructing)

Release(h) ==
  \/ /\ holder[h] = "held"
     /\ retentions' = retentions - 1
     /\ IF retentions = 1
        THEN Continue(BeginClose([Now EXCEPT !.holder[h] = "releasing"]))
        ELSE Continue([Now EXCEPT !.holder[h] = "released"])
     /\ UNCHANGED <<aborted, oneShot>>
  \/ /\ holder[h] = "noop"
     /\ holder' = [holder EXCEPT ![h] = "released"]
     /\ UNCHANGED <<pc, aborted, oneShot, pending, worker, constructing, activeJobs,
                    retentions, closing, leases, admQueue, module, owners>>

-----------------------------------------------------------------------------
(* Jobs on their way to a Worker. *)

Fail(p, j) == [p EXCEPT !.pc[j] = "failed"]

\* BoundedStemAdmission.acquire
Acquire(p, j) ==
  IF Cardinality(p.leases) < Limit
  THEN [p EXCEPT !.pc[j] = "admitted", !.leases = @ \cup {j}]
  ELSE [p EXCEPT !.pc[j] = "admission", !.admQueue = Append(@, j)]

\* run(): closed, retained, or one job on a Worker of its own.
Submit(j) ==
  /\ pc[j] = "new"
  /\ CASE closing \/ j \in aborted -> Continue(Fail(Now, j)) /\ UNCHANGED oneShot
       [] ~closing /\ j \notin aborted /\ retentions > 0 ->
            /\ Continue([Now EXCEPT !.pc[j] = "queued", !.pending = Append(@, j)])
            /\ UNCHANGED oneShot
       [] OTHER -> Continue(Acquire(Now, j)) /\ oneShot' = oneShot \cup {j}
  /\ UNCHANGED <<aborted, retentions>>

\* The abort listener of whatever the job is waiting in. A running job's work
\* hears the signal itself.
Abort(j) ==
  /\ j \notin aborted /\ pc[j] \notin Settled
  /\ aborted' = aborted \cup {j}
  /\ CASE pc[j] = "queued" -> Continue(Fail([Now EXCEPT !.pending = Without(@, {j})], j))
       [] pc[j] = "module" -> Continue(Disowned(Now, {j}))
       [] pc[j] = "admission" ->
            Continue([Now EXCEPT !.admQueue = Without(@, {j}),
                                 !.pc[j] = IF j \in oneShot THEN "failed" ELSE "rejected"])
       [] OTHER -> UNCHANGED poolVars
  /\ UNCHANGED <<oneShot, retentions>>

\* The wait for the module is bounded for each job.
ModuleTimeout(j) ==
  /\ pc[j] = "module"
  /\ Continue(Disowned([Now EXCEPT !.pc[j] = "rejected"], {j}))
  /\ UNCHANGED <<aborted, oneShot, retentions>>

\* The load settles: every waiter hears of it, and one that let go in the
\* meantime is cancelled.
LoadSettles(ok) ==
  /\ module \in {"loading", "doomed"} /\ (ok => module = "loading")
  /\ Continue([Now EXCEPT
       !.module = IF ok THEN "cached" ELSE "none", !.owners = {},
       !.pc = [j \in Jobs |-> IF @[j] # "module" THEN @[j]
                              ELSE IF ok /\ j \in owners THEN "ready" ELSE "rejected"]])
  /\ UNCHANGED <<aborted, oneShot, retentions>>

\* The catch and finally blocks of #constructNew.
Unbuilt(j) ==
  Disowned([Fail(Now, j) EXCEPT !.constructing = @ \ {j}, !.leases = @ \ {j}], {j})

Ready(j) ==
  /\ pc[j] = "ready"
  /\ Continue(IF j \in aborted \/ closing THEN Unbuilt(j) ELSE Acquire(Now, j))
  /\ UNCHANGED <<aborted, oneShot, retentions>>

Rejected(j) ==
  /\ pc[j] = "rejected"
  /\ Continue(Unbuilt(j))
  /\ UNCHANGED <<aborted, oneShot, retentions>>

\* Mutant: the end of the epoch is not rechecked.
ConstructAlways(j, made) ==
  /\ pc[j] = "admitted" /\ j \notin oneShot
  /\ Continue(IF j \in aborted \/ ~made THEN Unbuilt(j)
              ELSE [Now EXCEPT !.pc[j] = "working", !.worker[j] = j, !.activeJobs = @ + 1])
  /\ UNCHANGED <<aborted, oneShot, retentions>>

Construct(j, made) ==
  /\ pc[j] = "admitted" /\ j \notin oneShot
  /\ Continue(IF j \in aborted \/ closing \/ ~made THEN Unbuilt(j)
              ELSE [Now EXCEPT !.pc[j] = "working", !.worker[j] = j, !.activeJobs = @ + 1])
  /\ UNCHANGED <<aborted, oneShot, retentions>>

\* #runOneShot once it has its reservation.
StartOneShot(j, made) ==
  /\ pc[j] = "admitted" /\ j \in oneShot
  /\ Continue(IF j \in aborted \/ ~made THEN [Fail(Now, j) EXCEPT !.leases = @ \ {j}]
              ELSE [Now EXCEPT !.pc[j] = "working"])
  /\ UNCHANGED <<aborted, oneShot, retentions>>

-----------------------------------------------------------------------------
(* Jobs on a Worker. *)

\* Mutant: the realm is free as soon as the work is done.
WorkDoneFreesRealm(j) ==
  /\ pc[j] = "working"
  /\ pc' = [pc EXCEPT ![j] = "residual"]
  /\ worker' = [s \in Jobs |-> IF worker[s] = j THEN Idle ELSE worker[s]]
  /\ UNCHANGED <<aborted, oneShot, pending, constructing, activeJobs, retentions,
                 closing, holder, leases, admQueue, module, owners>>

\* The work is done; the realm stays until its residual output is released.
WorkDone(j) ==
  /\ pc[j] = "working"
  /\ pc' = [pc EXCEPT ![j] = "residual"]
  /\ UNCHANGED <<aborted, oneShot, pending, worker, constructing, activeJobs, retentions,
                 closing, holder, leases, admQueue, module, owners>>

SlotOf(j) == CHOOSE s \in Jobs : worker[s] = j

Outcome(j) == IF pc[j] = "residual" THEN "done" ELSE "failed"

\* #execute settles: only an acknowledged reset in a live epoch keeps the realm.
Execute(j, reset) ==
  LET kept == pc[j] = "residual" /\ ~closing /\ retentions > 0 /\ j \notin aborted /\ reset IN
  /\ pc[j] \in Runs /\ j \notin oneShot
  /\ Continue([Now EXCEPT !.pc[j] = Outcome(j), !.activeJobs = @ - 1,
                          !.worker[SlotOf(j)] = IF kept THEN Idle ELSE None,
                          !.leases = IF kept THEN @ ELSE @ \ {SlotOf(j)}])
  /\ UNCHANGED <<aborted, oneShot, retentions>>

FinishOneShot(j) ==
  /\ pc[j] \in Runs /\ j \in oneShot
  /\ Continue([Now EXCEPT !.pc[j] = Outcome(j), !.leases = @ \ {j}])
  /\ UNCHANGED <<aborted, oneShot, retentions>>

\* Mutant: the job is counted out twice.
UnwindCountsAgain(j) ==
  /\ j \in constructing /\ pc[j] \in Settled
  /\ Continue([Now EXCEPT !.constructing = @ \ {j}, !.activeJobs = @ - 1])
  /\ UNCHANGED <<aborted, oneShot, retentions>>

\* #constructNew awaited the first #execute of its slot, and counts until now.
Unwind(j) ==
  /\ j \in constructing /\ pc[j] \in Settled
  /\ Continue([Now EXCEPT !.constructing = @ \ {j}])
  /\ UNCHANGED <<aborted, oneShot, retentions>>

JobStep(j) ==
  \/ ModuleTimeout(j) \/ Ready(j) \/ Rejected(j)
  \/ (\E made \in BOOLEAN : Construct(j, made) \/ StartOneShot(j, made))
  \/ WorkDone(j) \/ (\E reset \in BOOLEAN : Execute(j, reset)) \/ FinishOneShot(j)

Next ==
  \/ \E h \in Holders : Retain(h) \/ Release(h)
  \/ \E j \in Jobs : Submit(j) \/ Abort(j) \/ JobStep(j) \/ Unwind(j)
  \/ \E ok \in BOOLEAN : LoadSettles(ok)

Spec == Init /\ [][Next]_vars

\* Continuations run, decoders are under a watchdog, and consumers take or cancel
\* the output; nothing forces a caller to release or abort.  No step repeats, so
\* that fairness of all of them together is enough.
Fairness == WF_vars(\E j \in Jobs : JobStep(j) \/ Unwind(j))

FairSpec == Spec /\ Fairness

-----------------------------------------------------------------------------
(* Properties. *)

\* The physical Workers: the slots, and those of the one-shot jobs.
Live == Slots(worker) \cup {j \in oneShot : pc[j] \in Runs}

\* Every physical Worker is covered by a reservation of its own, none outlives
\* its Worker, and there are never more than the budget allows (WorkerSlot,
\* #finishTerminated, the hand-over in #constructNew).
ReservationsExact ==
  /\ leases = Live \cup {j \in Jobs : pc[j] = "admitted"}
  /\ Cardinality(leases) <= Limit

\* A realm serves one running job at a time, each running job has exactly one,
\* and #activeJobs counts them.
RealmsExclusive ==
  LET running == {j \in Jobs \ oneShot : pc[j] \in Runs} IN
  /\ \A j \in running : \E s \in Jobs : worker[s] = j /\ \A u \in Jobs \ {s} : worker[u] # j
  /\ \A s \in Jobs : worker[s] \in Jobs => worker[s] \in running
  /\ activeJobs = Cardinality(running)

\* No job waits without a reason: a queued job means that no realm is idle and
\* that what is running or being built fills the pool (#drain after each event).
NoLostWakeup ==
  pending # <<>> =>
    /\ ~closing /\ \A s \in Jobs : worker[s] # Idle
    /\ Cardinality(Slots(worker)) + Cardinality(constructing) >= Limit

\* The pool's Workers, by reservation, by realm and by the queue that wants them.
WorkersExact == ReservationsExact /\ RealmsExclusive /\ NoLostWakeup

\* The end of an epoch is final: from the last release() to the next retain() no
\* new realm appears, however far its construction had come.
NoResurrection == [][closing /\ closing' => Slots(worker') \subseteq Slots(worker)]_vars

\* release() resolves only once the epoch it ended has physically drained.
ReleasedDrained ==
  [][\A h \in Holders : holder[h] = "releasing" /\ holder'[h] = "released" =>
       Slots(worker') = {} /\ constructing' = {} /\ pending' = <<>>]_vars

\* The end of an epoch: nothing new, and nothing left when it is reported.
EpochOver == NoResurrection /\ ReleasedDrained

\* Every job settles, and every release() resolves, although jobs are queued,
\* aborted, timed out and cut off by the end of the epoch at any moment: with
\* the calls bounded, there is a last moment at which one is unsettled.
Settles == <>[](/\ \A j \in Jobs : pc[j] \notin Waits \cup Runs
                /\ \A h \in Holders : holder[h] # "releasing")

\* "Releasing this waiter's lease aborts the shared load only when no other
\* construction still owns it": an aborted load is nobody's.
AbortedLoadUnowned == module = "doomed" => owners = {}
=============================================================================
