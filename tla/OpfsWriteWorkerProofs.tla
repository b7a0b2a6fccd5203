------------------------ MODULE OpfsWriteWorkerProofs ------------------------
(***************************************************************************)
(* What OpfsWriteWorker keeps for every set of writers and probes, every   *)
(* choice of the writers with a signal and every number of chunks.         *)
(***************************************************************************)
EXTENDS OpfsWriteWorker, FiniteSetTheorems, TLAPS

-----------------------------------------------------------------------------
(* The inductive invariant behind the safety properties. *)

\* TypeOK without its bounds, which the counts and the contents are about.
Typed ==
  /\ generation \in Nat \ {0} /\ worker \in BOOLEAN /\ ready \in BOOLEAN
  /\ openWriters \in Nat /\ idle \in Nat /\ writeSupport \in BOOLEAN
  /\ call \in [Calls -> Places] /\ gen \in [Calls -> Nat]
  /\ wrote \in [Writers -> Nat] /\ pending \subseteq Writers
  /\ inbox \subseteq Requests /\ outbox \subseteq Replies /\ handles \subseteq Writers
  /\ file \in [Writers -> Int]

InFlight == {"opening", "writing", "closing", "aborting"}

\* Generations only grow, and a request is pending for a counted call.
Generations ==
  /\ \A c \in Calls : gen[c] <= generation
  /\ \A w \in pending : gen[w] = generation /\ call[w] \in InFlight

Counts == Generations /\ OwnershipExact /\ WorkerOwned

\* A pending call has one message on its way, in one direction; replies of older
\* generations may still be there.
Wires ==
  /\ \A m \in inbox : m.gen = generation /\ m.call \in pending /\ m.op = call[m.call]
  /\ \A m, n \in inbox : m.call = n.call => m = n
  /\ \A r \in outbox : r.gen <= generation
  /\ \A r \in outbox : r.gen = generation => r.call \in pending
  /\ \A r \in outbox, m \in inbox : r.gen = generation => m.call # r.call
  /\ \A r, q \in outbox : r.gen = generation /\ q.gen = generation /\ q.call = r.call => q = r

\* What the file and the handle of a writer are at each place of its call.
Synced(w) == w \in handles /\ file[w] = wrote[w]

\* What a reply on its way to the client tells of them.
Answered(r) ==
  /\ call[r.call] = "opening" /\ r.ok => Synced(r.call)
  /\ call[r.call] = "opening" /\ ~r.ok => r.call \notin handles
  /\ call[r.call] = "writing" /\ r.ok => file[r.call] = wrote[r.call] + 1
  /\ call[r.call] = "writing" /\ ~r.ok => file[r.call] = wrote[r.call]
  /\ call[r.call] = "writing" => r.call \in handles
  /\ call[r.call] = "closing" => r.call \notin handles /\ file[r.call] = wrote[r.call]
  /\ call[r.call] = "aborting" => r.call \notin handles

Contents ==
  /\ \A w \in Writers :
       /\ wrote[w] <= Chunks /\ file[w] \in -1..Chunks
       /\ call[w] \in {"new", "acquiring", "opening"} => wrote[w] = 0
       /\ call[w] = "writing" => wrote[w] < Chunks
       /\ call[w] = "open" /\ gen[w] = generation => Synced(w)
       /\ call[w] \in {"ok", "closed"} => file[w] = wrote[w]
  /\ \A m \in inbox : m.op = "opening" => m.call \notin handles
  /\ \A m \in inbox : m.op # "opening" => Synced(m.call)
  /\ \A r \in outbox : r.gen = generation => Answered(r)

Consistent == Typed /\ Counts /\ Wires /\ Contents /\ HandlesOwned

-----------------------------------------------------------------------------
(* Types *)

\* The calls are finitely many, so the counted ones have a cardinality.
LEMMA FiniteCalls == IsFiniteSet(Calls) /\ \A S \in SUBSET Calls : IsFiniteSet(S)
  BY OpfsAssumption, FS_Union, FS_Subset DEF Calls

\* A client that was just constructed, and a store without files.
LEMMA TypedInit == Init => Typed
<1> SUFFICES ASSUME Init PROVE Typed
  OBVIOUS
<1>1. call \in [Calls -> Places] /\ gen \in [Calls -> Nat]
  BY DEF Init, Places
<1>2. wrote \in [Writers -> Nat] /\ file \in [Writers -> Int]
  BY DEF Init
<1>3. worker \in BOOLEAN /\ ready \in BOOLEAN /\ writeSupport \in BOOLEAN
  BY Zenon DEF Init
<1>4. generation \in Nat \ {0} /\ openWriters \in Nat /\ idle \in Nat
  BY DEF Init
<1>5. /\ pending \subseteq Writers /\ inbox \subseteq Requests /\ outbox \subseteq Replies
      /\ handles \subseteq Writers
  BY DEF Init
<1> QED
  BY <1>1, <1>2, <1>3, <1>4, <1>5 DEF Typed

\* A retired generation: the next number, and nothing of the Worker is left.
LEMMA TeardownType ==
  ASSUME Typed, Teardown
  PROVE  /\ generation' \in Nat \ {0} /\ idle' \in Nat
         /\ worker' \in BOOLEAN /\ ready' \in BOOLEAN /\ writeSupport' \in BOOLEAN
         /\ inbox' \subseteq Requests /\ outbox' \subseteq Replies /\ handles' \subseteq Writers
         /\ file' \in [Writers -> Int]
<1>1. worker' \in BOOLEAN /\ ready' \in BOOLEAN
  BY Zenon DEF Teardown
<1> QED
  BY <1>1 DEF Teardown, Typed

\* No step of a call, a timer, the client or its Worker leaves the types.
LEMMA TypedNext == Typed /\ [Next]_vars => Typed'
<1> SUFFICES ASSUME Typed, [Next]_vars PROVE Typed'
  OBVIOUS
<1> USE DEF Typed, Places, Active, clientVars, callVars, workerVars
<1>0. Writers \subseteq Calls
  BY DEF Calls
<1>1. ASSUME NEW c \in Calls, Acquire(c) PROVE Typed'
  <2>1. worker' \in BOOLEAN /\ ready' \in BOOLEAN
    BY <1>1 DEF Acquire
  <2>2. call' \in [Calls -> Places] /\ gen' \in [Calls -> Nat]
    BY <1>1 DEF Acquire
  <2>3. openWriters' \in Nat /\ idle' \in Nat
    BY <1>1 DEF Acquire
  <2> QED
    BY <1>1, <2>1, <2>2, <2>3 DEF Acquire
<1>2. ASSUME NEW c \in Calls, NoWorker(c) PROVE Typed'
  <2>1. call' \in [Calls -> Places] /\ gen' \in [Calls -> Nat]
    BY <1>2 DEF NoWorker
  <2>2. CASE c \in Writers
    BY <1>2, <2>1, <2>2, TeardownType DEF NoWorker
  <2>3. CASE c \notin Writers
    BY <1>2, <2>1, <2>3 DEF NoWorker
  <2> QED
    BY <2>2, <2>3
<1>3. ASSUME NEW c \in Calls, ProbeDone(c) PROVE Typed'
  BY <1>3 DEF ProbeDone
<1>4. ASSUME NEW c \in Calls, Unwind(c) PROVE Typed'
  BY <1>4 DEF Unwind, Release
<1>5. ASSUME NEW w \in Writers, NEW op \in {"opening", "writing", "closing", "aborting"},
             Request(w, op)
      PROVE  /\ call' \in [Calls -> Places] /\ pending' \subseteq Writers
             /\ inbox' \subseteq Requests
  BY <1>0, <1>5 DEF Request, Requests
<1>6. ASSUME NEW w \in Writers, Open(w) PROVE Typed'
  BY <1>5, <1>6 DEF Open
<1>7. ASSUME NEW w \in Writers, Write(w) PROVE Typed'
  BY <1>5, <1>7 DEF Write
<1>8. ASSUME NEW w \in Writers, NEW op \in {"closing", "aborting"}, Finish(w, op) PROVE Typed'
  BY <1>5, <1>8 DEF Finish
<1>9. ASSUME Fail PROVE Typed'
  <2>1. call' \in [Calls -> Places]
    BY <1>9 DEF Fail
  <2> QED
    BY <1>9, <2>1, TeardownType DEF Fail
<1>10. ASSUME IdleExpires PROVE Typed'
  BY <1>10, TeardownType DEF IdleExpires
<1>11. ASSUME NEW r \in outbox, Receive(r) PROVE Typed'
  <2>1. r.call \in Writers
    BY DEF Replies
  <2>2. call' \in [Calls -> Places] /\ wrote' \in [Writers -> Nat]
    BY <1>0, <1>11, <2>1 DEF Receive
  <2> QED
    BY <1>11, <2>2 DEF Receive
<1>12. ASSUME NEW supported \in BOOLEAN, WorkerReady(supported) PROVE Typed'
  BY <1>12 DEF WorkerReady
<1>13. ASSUME NEW m \in inbox, Apply(m) PROVE Typed'
  <2>1. m.gen \in Nat /\ m.call \in Writers
    BY DEF Requests
  <2>2. ASSUME NEW ok \in BOOLEAN, Reply(m, ok)
        PROVE inbox' \subseteq Requests /\ outbox' \subseteq Replies
    BY <2>1, <2>2 DEF Reply, Replies
  <2>3. inbox' \subseteq Requests /\ outbox' \subseteq Replies
    BY <1>13, <2>2 DEF Apply
  <2>4. handles' \subseteq Writers
    BY <1>13, <2>1 DEF Apply
  <2>5. file' \in {file, [file EXCEPT ![m.call] = 0], [file EXCEPT ![m.call] = @ + 1]}
    BY <1>13 DEF Apply
  <2>6. file' \in [Writers -> Int]
    BY <2>1, <2>5
  <2> QED
    BY <1>13, <2>3, <2>4, <2>6 DEF Apply
<1>14. CASE UNCHANGED vars
  BY <1>14 DEF vars
<1> QED
  BY <1>1, <1>2, <1>3, <1>4, <1>6, <1>7, <1>8, <1>9, <1>10, <1>11, <1>12, <1>13, <1>14
     DEF Next, CallStep, WriterStep, Cancel, Close, HandshakeDeadline, RequestDeadline, WorkerError

\* Whatever the callers, the timers and the Worker do, the types of the state stay.
THEOREM TypedAlways == Spec => []Typed
  BY TypedInit, TypedNext, PTL DEF Spec

-----------------------------------------------------------------------------
(* Counts *)

\* The states in which a call has not given its count back.
Counting == Active \cup {"ok", "failed"}

\* As many calls are counted as there are names for, a natural number.
LEMMA CountedFinite ==
  /\ IsFiniteSet(Counted) /\ Cardinality(Counted) \in 0..Cardinality(Calls)
  /\ Cardinality(Counted) = 0 <=> Counted = {}
<1>1. Counted \in SUBSET Calls
  BY DEF Counted
<1>2. IsFiniteSet(Counted) /\ Cardinality(Counted) <= Cardinality(Calls)
  BY <1>1, FiniteCalls, FS_Subset
<1>3. Cardinality(Counted) \in Nat /\ Cardinality(Calls) \in Nat
  BY <1>2, FiniteCalls, FS_CardinalityType
<1> QED
  BY <1>2, <1>3, FS_EmptySet

\* While no counted call changes its generation and none leaves or joins, the
\* counted calls are the same.
LEMMA SameCounted ==
  ASSUME gen' = gen, generation' = generation,
         \A c \in Calls : call'[c] \in Counting <=> call[c] \in Counting
  PROVE  Counted' = Counted
  BY DEF Counted, Counting

\* A Worker is up while a call is counted; without one nobody waits for an answer.
LEMMA CountedUp ==
  ASSUME Typed, Counts
  PROVE  /\ Counted # {} => worker /\ openWriters > 0
         /\ openWriters = 0 => Counted = {} /\ pending = {}
<1>1. openWriters = Cardinality(Counted) /\ openWriters \in Nat
  BY DEF Counts, OwnershipExact, Typed
<1>2. Counted # {} => worker /\ openWriters > 0
  BY <1>1, CountedFinite DEF Counts, WorkerOwned
<1>3. ASSUME NEW w \in pending PROVE w \in Counted
  BY <1>3 DEF Counts, Generations, InFlight, Counted, Active, Typed, Calls
<1> QED
  BY <1>1, <1>2, <1>3, CountedFinite

\* A retired generation counts nobody.
LEMMA RetiredCounts ==
  ASSUME Typed, Counts, Teardown, openWriters' = 0, pending' = {}, gen' \in [Calls -> Nat],
         \A c \in Calls : gen'[c] <= generation
  PROVE  Counts'
<1>1. generation \in Nat /\ generation' = generation + 1 /\ idle' = 0
  BY DEF Teardown, Typed
<1>2. Counted' = {}
  BY <1>1 DEF Counted, Typed
<1>3. OwnershipExact'
  BY <1>2, FS_EmptySet DEF OwnershipExact
<1>4. WorkerOwned'
  <2>1. ~worker'
    BY DEF Teardown
  <2> QED
    BY <1>1, <2>1 DEF WorkerOwned
<1>5. Generations'
  BY <1>1 DEF Generations, Typed
<1> QED
  BY <1>3, <1>4, <1>5 DEF Counts

\* Every step keeps the generations apart, the count exact and the Worker owned.
LEMMA CountsNext == Typed /\ Counts /\ [Next]_vars => Counts'
<1> SUFFICES ASSUME Typed, Counts, [Next]_vars PROVE Counts'
  OBVIOUS
<1>t. Typed'
  BY TypedNext
<1>0. /\ openWriters = Cardinality(Counted) /\ IsFiniteSet(Counted)
      /\ Writers \subseteq Calls /\ pending \subseteq Calls
  BY CountedFinite DEF Counts, OwnershipExact, Calls, Typed
\* Steps that leave the generation, the Worker and the count alone.
<1>a. ASSUME UNCHANGED <<generation, worker, openWriters, idle, gen>>,
             \A c \in Calls : call'[c] \in Counting <=> call[c] \in Counting,
             \A w \in pending' : gen[w] = generation /\ call'[w] \in InFlight
      PROVE  Counts'
  <2>1. Counted' = Counted
    BY <1>a, SameCounted
  <2>2. OwnershipExact' /\ WorkerOwned'
    BY <1>a, <2>1 DEF Counts, OwnershipExact, WorkerOwned
  <2>3. Generations'
    BY <1>a DEF Counts, Generations
  <2> QED
    BY <2>2, <2>3 DEF Counts
<1>1. ASSUME NEW c \in Calls, Acquire(c) PROVE Counts'
  <2>1. c \notin Counted /\ c \notin pending
    BY <1>1 DEF Acquire, Counted, Active, Counts, Generations, InFlight
  <2>2. Counted' = Counted \cup {c}
    BY <1>1 DEF Acquire, Counted, Active, Typed
  <2>3. OwnershipExact'
    BY <1>0, <1>1, <2>1, <2>2, FS_AddElement DEF OwnershipExact, Acquire
  <2>4. WorkerOwned'
    <3>1. openWriters' > 0
      BY <1>1 DEF Acquire, Typed
    <3>2. worker'
      BY <1>1 DEF Acquire
    <3> QED
      BY <3>1, <3>2 DEF WorkerOwned
  <2>5. Generations'
    BY <1>0, <1>1, <2>1 DEF Counts, Generations, Acquire, Typed
  <2> QED
    BY <2>3, <2>4, <2>5 DEF Counts
<1>2. ASSUME NEW c \in Calls, NoWorker(c) PROVE Counts'
  <2>1. Counted = {} /\ pending = {} /\ openWriters = 0
    <3>1. ~worker
      BY <1>2 DEF NoWorker
    <3>2. ~(openWriters > 0)
      BY <3>1 DEF Counts, WorkerOwned
    <3> QED
      BY <3>2, CountedUp DEF Typed
  <2>2. \A d \in Calls : gen'[d] <= generation
    BY <1>2 DEF NoWorker, Counts, Generations, Typed
  <2>3. CASE c \in Writers
    BY <1>2, <1>t, <2>1, <2>2, <2>3, RetiredCounts DEF NoWorker, Typed
  <2>4. CASE c \notin Writers
    <3>1. UNCHANGED <<generation, worker, openWriters, idle>> /\ pending' = {}
      BY <1>2, <2>1, <2>4 DEF NoWorker, clientVars
    <3>2. Counted' = Counted
      BY <1>2, <2>1, <3>1 DEF NoWorker, Counted, Active, Typed
    <3>3. OwnershipExact' /\ WorkerOwned'
      BY <3>1, <3>2 DEF Counts, OwnershipExact, WorkerOwned
    <3> QED
      BY <2>2, <3>1, <3>3 DEF Counts, Generations
  <2> QED
    BY <2>3, <2>4
<1>3. ASSUME NEW c \in Calls, ProbeDone(c) PROVE Counts'
  <2>1. c \notin pending
    BY <1>3 DEF ProbeDone, Counts, Generations, InFlight
  <2>2. \A d \in Calls : call'[d] \in Counting <=> call[d] \in Counting
    BY <1>3 DEF ProbeDone, Counting, Active, Typed
  <2> QED
    BY <1>a, <1>0, <1>3, <2>1, <2>2 DEF ProbeDone, clientVars, Counts, Generations, Typed
<1>4. ASSUME NEW c \in Calls, Unwind(c) PROVE Counts'
  <2>1. c \notin pending
    BY <1>4 DEF Unwind, Counts, Generations, InFlight
  <2>2. Generations'
    BY <1>0, <1>4, <2>1 DEF Unwind, Release, Counts, Generations, Typed, clientVars
  <2>3. CASE gen[c] # generation
    <3>1. UNCHANGED <<generation, worker, openWriters, idle>>
      BY <1>4, <2>3 DEF Unwind, Release, clientVars
    <3>2. Counted' = Counted
      BY <1>4, <2>3, <3>1 DEF Unwind, Counted, Typed
    <3> QED
      BY <2>2, <3>1, <3>2 DEF Counts, OwnershipExact, WorkerOwned
  <2>4. CASE gen[c] = generation
    <3>1. c \in Counted
      BY <1>4, <2>4 DEF Unwind, Counted
    <3>2. worker
      BY <3>1, CountedUp
    <3>3. openWriters > 0 /\ openWriters \in Nat
      BY <3>1, CountedUp DEF Typed
    <3>4. generation' = generation /\ worker' = worker
      BY <1>4, <2>4 DEF Unwind, Release
    <3>5. Counted' = Counted \ {c}
      BY <1>4, <3>4 DEF Unwind, Counted, Active, Typed
    <3>6. Cardinality(Counted') = openWriters - 1
      BY <1>0, <3>1, <3>5, FS_RemoveElement
    <3>7. \/ openWriters > 1 /\ openWriters' = openWriters - 1
          \/ openWriters <= 1 /\ openWriters' = 0 /\ idle' = generation
      BY <1>4, <2>4 DEF Unwind, Release
    <3>8. OwnershipExact'
      BY <3>3, <3>6, <3>7 DEF OwnershipExact
    <3>9. openWriters' > 0 \/ (openWriters' = 0 /\ idle' = generation)
      BY <3>3, <3>7
    <3>10. WorkerOwned'
      BY <3>2, <3>4, <3>9 DEF WorkerOwned
    <3> QED
      BY <2>2, <3>8, <3>10 DEF Counts
  <2> QED
    BY <2>3, <2>4
<1>5. ASSUME NEW w \in Writers, NEW op \in InFlight, Request(w, op), UNCHANGED clientVars,
             UNCHANGED gen, call[w] \in {"acquiring", "open"}
      PROVE  Counts'
  <2>1. w \in Calls /\ w \notin pending
    BY <1>0, <1>5 DEF Counts, Generations, InFlight
  <2>2. \A d \in Calls : call'[d] \in Counting <=> call[d] \in Counting
    BY <1>5, <2>1 DEF Request, Counting, Active, Typed, InFlight
  <2>3. \A v \in pending' : gen[v] = generation /\ call'[v] \in InFlight
    BY <1>0, <1>5, <2>1 DEF Request, Counts, Generations, Typed
  <2> QED
    BY <1>a, <1>5, <2>2, <2>3 DEF clientVars
<1>6. ASSUME NEW w \in Writers, Open(w) PROVE Counts'
  BY <1>5, <1>6 DEF Open, InFlight
<1>7. ASSUME NEW w \in Writers, Write(w) PROVE Counts'
  BY <1>5, <1>7 DEF Write, InFlight
<1>8. ASSUME NEW w \in Writers, NEW op \in {"closing", "aborting"}, Finish(w, op) PROVE Counts'
  BY <1>5, <1>8 DEF Finish, InFlight
<1>9. ASSUME Fail PROVE Counts'
  BY <1>9, <1>t, RetiredCounts DEF Fail, Typed, Counts, Generations
<1>10. ASSUME IdleExpires PROVE Counts'
  <2>1. call' = call /\ gen' = gen /\ pending' = pending /\ openWriters' = openWriters
    BY <1>10 DEF IdleExpires, callVars
  <2>2. CASE idle # generation \/ openWriters > 0 \/ ~worker
    <3>1. generation' = generation /\ worker' = worker /\ idle' = 0
      BY <1>10, <2>2 DEF IdleExpires
    <3>2. OwnershipExact' /\ Generations'
      BY <2>1, <3>1 DEF Counts, OwnershipExact, Counted, Generations
    <3>3. 0 # generation
      BY DEF Typed
    <3>4. WorkerOwned'
      BY <2>1, <2>2, <3>1, <3>3 DEF Counts, WorkerOwned
    <3> QED
      BY <3>2, <3>4 DEF Counts
  <2>3. CASE ~(idle # generation \/ openWriters > 0 \/ ~worker)
    <3>1. openWriters = 0 /\ Teardown
      BY <1>10, <2>3 DEF IdleExpires, Typed
    <3>2. pending' = {} /\ openWriters' = 0
      BY <2>1, <3>1, CountedUp
    <3> QED
      BY <1>t, <2>1, <3>1, <3>2, RetiredCounts DEF Typed, Counts, Generations
  <2> QED
    BY <2>2, <2>3
<1>11. ASSUME NEW r \in outbox, Receive(r) PROVE Counts'
  <2>1. UNCHANGED <<generation, worker, openWriters, idle, gen>>
    BY <1>11 DEF Receive, clientVars, callVars
  <2>2. CASE r.gen # generation \/ r.call \notin pending
    BY <1>11, <1>a, <2>1, <2>2 DEF Receive, callVars, Counts, Generations
  <2>3. CASE ~(r.gen # generation \/ r.call \notin pending)
    <3>1. r.call \in pending /\ r.call \in Calls /\ call[r.call] \in InFlight
      BY <1>0, <2>3 DEF Counts, Generations
    <3>2. \A d \in Calls : call'[d] \in Counting <=> call[d] \in Counting
      BY <1>11, <2>3, <3>1 DEF Receive, Counting, Active, Typed, InFlight
    <3>3. \A v \in pending' : gen[v] = generation /\ call'[v] \in InFlight
      BY <1>0, <1>11, <2>3, <3>1 DEF Receive, Counts, Generations, Typed
    <3> QED
      BY <1>a, <2>1, <3>2, <3>3
  <2> QED
    BY <2>2, <2>3
<1>12. ASSUME NEW supported \in BOOLEAN, WorkerReady(supported) PROVE Counts'
  BY <1>12, <1>a DEF WorkerReady, callVars, Counts, Generations
<1>13. ASSUME NEW m \in inbox, Apply(m) PROVE Counts'
  BY <1>13, <1>a DEF Apply, clientVars, callVars, Counts, Generations
<1>14. CASE UNCHANGED vars
  BY <1>14, <1>a DEF vars, Counts, Generations
<1> QED
  BY <1>1, <1>2, <1>3, <1>4, <1>6, <1>7, <1>8, <1>9, <1>10, <1>11, <1>12, <1>13, <1>14
     DEF Next, CallStep, WriterStep, Cancel, Close, HandshakeDeadline, RequestDeadline, WorkerError

\* Nothing is counted before the first call.
LEMMA CountsInit == Init => Counts
<1> SUFFICES ASSUME Init PROVE Counts
  OBVIOUS
<1>1. Counted = {}
  BY DEF Init, Counted
<1>2. OwnershipExact
  BY <1>1, FS_EmptySet DEF Init, OwnershipExact
<1>3. WorkerOwned
  BY DEF Init, WorkerOwned
<1>4. Generations
  BY DEF Init, Generations
<1> QED
  BY <1>2, <1>3, <1>4 DEF Counts

\* The count of #openWriters is exact however many calls are retired, cancelled or
\* unwound late (#acquire, #release, #fail).
THEOREM OwnershipAlwaysExact == Spec => []OwnershipExact
<1>1. Typed /\ Counts => OwnershipExact
  BY DEF Counts
<1> QED
  BY <1>1, TypedInit, TypedNext, CountsInit, CountsNext, PTL DEF Spec

-----------------------------------------------------------------------------
(* Messages *)

\* The replies of a retired generation are inert in the next one.
LEMMA RetiredWires ==
  ASSUME Typed, Wires, Teardown
  PROVE  Wires'
<1>1. generation' = generation + 1 /\ inbox' = {} /\ outbox' = outbox
  BY DEF Teardown
<1> QED
  BY <1>1 DEF Wires, Typed, Replies

\* Every step keeps one message per pending call, and none of a retired call.
LEMMA WiresNext == Typed /\ Counts /\ Wires /\ [Next]_vars => Wires'
<1> SUFFICES ASSUME Typed, Counts, Wires, [Next]_vars PROVE Wires'
  OBVIOUS
<1>0. \A w \in pending : w \in Calls /\ call[w] \in InFlight
  BY DEF Counts, Generations, Typed, Calls
\* Steps that send nothing and move no pending call.
<1>a. ASSUME UNCHANGED <<generation, pending, inbox, outbox>>,
             \A w \in pending : call'[w] = call[w]
      PROVE  Wires'
  BY <1>a DEF Wires
<1>1. ASSUME NEW c \in Calls, Acquire(c) PROVE Wires'
  <2>1. c \notin pending
    BY <1>0, <1>1 DEF Acquire, InFlight
  <2> QED
    BY <1>a, <1>0, <1>1, <2>1 DEF Acquire, workerVars, Typed
<1>2. ASSUME NEW c \in Calls, NoWorker(c) PROVE Wires'
  <2>1. c \notin pending
    BY <1>0, <1>2 DEF NoWorker, InFlight
  <2>2. CASE c \in Writers
    BY <1>2, <2>2, RetiredWires DEF NoWorker
  <2>3. CASE c \notin Writers
    BY <1>a, <1>0, <1>2, <2>1, <2>3 DEF NoWorker, clientVars, workerVars, Typed
  <2> QED
    BY <2>2, <2>3
<1>3. ASSUME NEW c \in Calls, ProbeDone(c) PROVE Wires'
  <2>1. c \notin pending
    BY <1>0, <1>3 DEF ProbeDone, InFlight
  <2> QED
    BY <1>a, <1>0, <1>3, <2>1 DEF ProbeDone, clientVars, workerVars, Typed
<1>4. ASSUME NEW c \in Calls, Unwind(c) PROVE Wires'
  <2>1. c \notin pending
    BY <1>0, <1>4 DEF Unwind, InFlight
  <2>2. UNCHANGED <<generation, pending, inbox, outbox>>
    BY <1>4 DEF Unwind, Release, clientVars, workerVars
  <2> QED
    BY <1>a, <1>0, <1>4, <2>1, <2>2 DEF Unwind, Typed
<1>5. ASSUME NEW w \in Writers, NEW op \in InFlight, Request(w, op), call[w] \notin InFlight,
             UNCHANGED <<generation, outbox>>
      PROVE  Wires'
  <2>1. w \in Calls /\ w \notin pending
    BY <1>0, <1>5 DEF Calls
  <2>2. CASE gen[w] # generation \/ ~worker
    BY <1>a, <1>0, <1>5, <2>1, <2>2 DEF Request, Typed
  <2>3. CASE ~(gen[w] # generation \/ ~worker)
    <3> DEFINE posted == [gen |-> generation, call |-> w, op |-> op]
    <3>1. /\ pending' = pending \cup {w} /\ inbox' = inbox \cup {posted}
          /\ call' = [call EXCEPT ![w] = op]
      BY <1>5, <2>3 DEF Request
    <3>2. \A v \in pending : call'[v] = call[v]
      BY <1>0, <2>1, <3>1 DEF Typed
    <3>3. call'[w] = op
      BY <2>1, <3>1 DEF Typed
    <3>4. \A m \in inbox : m.call # w
      BY <2>1 DEF Wires
    <3>5. \A r \in outbox : r.gen = generation => r.call # w
      BY <2>1 DEF Wires
    <3>6. \A m \in inbox' : m.gen = generation /\ m.call \in pending' /\ m.op = call'[m.call]
      BY <3>1, <3>2, <3>3 DEF Wires
    <3>7. \A m, n \in inbox' : m.call = n.call => m = n
      BY <3>1, <3>4 DEF Wires
    <3>8. \A r \in outbox : r.gen = generation => r.call \in pending'
      BY <3>1 DEF Wires
    <3>9. \A r \in outbox, m \in inbox' : r.gen = generation => m.call # r.call
      BY <3>1, <3>5 DEF Wires
    <3> QED
      BY <1>5, <3>6, <3>7, <3>8, <3>9 DEF Wires
  <2> QED
    BY <2>2, <2>3
<1>6. ASSUME NEW w \in Writers, Open(w) PROVE Wires'
  BY <1>5, <1>6 DEF Open, InFlight, clientVars
<1>7. ASSUME NEW w \in Writers, Write(w) PROVE Wires'
  BY <1>5, <1>7 DEF Write, InFlight, clientVars
<1>8. ASSUME NEW w \in Writers, NEW op \in {"closing", "aborting"}, Finish(w, op) PROVE Wires'
  BY <1>5, <1>8 DEF Finish, InFlight, clientVars
<1>9. ASSUME Fail PROVE Wires'
  BY <1>9, RetiredWires DEF Fail
<1>10. ASSUME IdleExpires PROVE Wires'
  <2>1. CASE idle # generation \/ openWriters > 0 \/ ~worker
    BY <1>a, <1>10, <2>1 DEF IdleExpires, callVars, workerVars
  <2>2. CASE ~(idle # generation \/ openWriters > 0 \/ ~worker)
    BY <1>10, <2>2, RetiredWires DEF IdleExpires
  <2> QED
    BY <2>1, <2>2
<1>11. ASSUME NEW r \in outbox, Receive(r) PROVE Wires'
  <2>0. UNCHANGED <<generation, inbox>> /\ outbox' = outbox \ {r}
    BY <1>11 DEF Receive, clientVars
  <2>1. CASE r.gen # generation \/ r.call \notin pending
    <3>1. UNCHANGED <<call, pending>>
      BY <1>11, <2>1 DEF Receive, callVars
    <3> QED
      BY <2>0, <3>1 DEF Wires
  <2>2. CASE ~(r.gen # generation \/ r.call \notin pending)
    <3>1. r.gen = generation /\ pending' = pending \ {r.call}
      BY <1>11, <2>2 DEF Receive
    <3>2. \A v \in pending' : call'[v] = call[v]
      BY <1>0, <1>11, <2>2, <3>1 DEF Receive, Typed
    <3>3. \A m \in inbox : m.call # r.call
      BY <3>1 DEF Wires
    <3>4. \A q \in outbox' : q.gen = generation => q.call # r.call
      BY <2>0, <3>1 DEF Wires
    <3> QED
      BY <2>0, <3>1, <3>2, <3>3, <3>4 DEF Wires
  <2> QED
    BY <2>1, <2>2
<1>12. ASSUME NEW supported \in BOOLEAN, WorkerReady(supported) PROVE Wires'
  BY <1>12, <1>a DEF WorkerReady, callVars, workerVars
<1>13. ASSUME NEW m \in inbox, Apply(m) PROVE Wires'
  <2>1. UNCHANGED <<generation, call, pending>>
    BY <1>13 DEF Apply, clientVars, callVars
  <2>2. PICK ok \in BOOLEAN : Reply(m, ok)
    BY <1>13 DEF Apply
  <2> DEFINE answer == [gen |-> m.gen, call |-> m.call, ok |-> ok]
  <2>3. inbox' = inbox \ {m} /\ outbox' = outbox \cup {answer}
    BY <2>2 DEF Reply
  <2>4. m.gen = generation /\ m.call \in pending
    BY DEF Wires
  <2>5. \A n \in inbox' : n.call # m.call
    BY <2>3 DEF Wires
  <2>6. \A r \in outbox : r.gen = generation => r.call # m.call
    BY DEF Wires
  <2>7. generation \in Nat
    BY DEF Typed
  <2>8. \A r \in outbox' : r.gen <= generation
    BY <2>3, <2>4, <2>7 DEF Wires
  <2>9. \A r \in outbox' : r.gen = generation => r.call \in pending
    BY <2>3, <2>4 DEF Wires
  <2>10. \A r \in outbox', n \in inbox' : r.gen = generation => n.call # r.call
    BY <2>3, <2>5 DEF Wires
  <2>11. \A r, q \in outbox' : r.gen = generation /\ q.gen = generation /\ q.call = r.call => q = r
    BY <2>3, <2>6 DEF Wires
  <2>12. \A k \in inbox' : k.gen = generation /\ k.call \in pending /\ k.op = call[k.call]
    BY <2>3 DEF Wires
  <2>13. \A k, n \in inbox' : k.call = n.call => k = n
    BY <2>3 DEF Wires
  <2> QED
    BY <2>1, <2>8, <2>9, <2>10, <2>11, <2>12, <2>13 DEF Wires
<1>14. CASE UNCHANGED vars
  BY <1>14, <1>a DEF vars
<1> QED
  BY <1>1, <1>2, <1>3, <1>4, <1>6, <1>7, <1>8, <1>9, <1>10, <1>11, <1>12, <1>13, <1>14
     DEF Next, CallStep, WriterStep, Cancel, Close, HandshakeDeadline, RequestDeadline, WorkerError

-----------------------------------------------------------------------------
(* Handles and files *)

\* A retired generation leaves no handle, no request and no reply of the next one.
LEMMA RetiredContents ==
  ASSUME Typed, Wires, Counts, Contents, Teardown, wrote' = wrote, gen' \in [Calls -> Nat],
         \A w \in Writers : gen'[w] <= generation,
         \A w \in Writers : call'[w] = call[w] \/ call'[w] \in {"failed", "refused"}
  PROVE  Contents' /\ HandlesOwned'
<1>1. /\ generation' = generation + 1 /\ handles' = {} /\ inbox' = {}
      /\ outbox' = outbox /\ file' = file
  BY DEF Teardown
<1>2. \A w \in Writers : gen'[w] # generation'
  BY <1>1 DEF Typed, Calls
<1>3. \A r \in outbox' : r.gen # generation'
  BY <1>1 DEF Wires, Typed, Replies
<1> QED
  BY <1>1, <1>2, <1>3 DEF Contents, HandlesOwned

\* Every step keeps what the handles and the files say of the calls.
LEMMA ContentsNext ==
  Typed /\ Counts /\ Wires /\ Contents /\ HandlesOwned /\ [Next]_vars => Contents' /\ HandlesOwned'
<1> SUFFICES ASSUME Typed, Counts, Wires, Contents, HandlesOwned, [Next]_vars
             PROVE  Contents' /\ HandlesOwned'
  OBVIOUS
<1>0. \A w \in pending : w \in Writers /\ w \in Calls /\ call[w] \in InFlight /\ gen[w] = generation
  BY DEF Counts, Generations, Typed, Calls
<1>m. \A m \in inbox : m.call \in pending /\ m.gen = generation /\ m.op = call[m.call]
  BY DEF Wires
<1>o. \A r \in outbox : r.gen = generation => r.call \in pending
  BY DEF Wires
\* Steps of one call that is not pending and touch neither the Worker nor the wires.
<1>a. ASSUME NEW c \in Calls, c \notin pending,
             UNCHANGED <<generation, wrote, inbox, outbox, handles, file>>,
             \A d \in Calls \ {c} : call'[d] = call[d] /\ gen'[d] = gen[d],
             call'[c] \in {"acquiring", "ok", "failed", "closed", "refused"},
             c \in Writers =>
               /\ c \notin handles
               /\ call'[c] = "acquiring" => call[c] = "new"
               /\ call'[c] \in {"ok", "closed"} => call[c] = "ok"
      PROVE  Contents' /\ HandlesOwned'
  <2>1. \A w \in Writers \ {c} : call'[w] = call[w] /\ gen'[w] = gen[w]
    BY <1>a DEF Calls
  <2>2. \A m \in inbox : m.call # c
    BY <1>a, <1>m
  <2>3. \A r \in outbox : r.gen = generation => r.call \in Writers \ {c}
    BY <1>0, <1>a, <1>o
  <2>4. \A w \in Writers :
           /\ wrote'[w] <= Chunks /\ file'[w] \in -1..Chunks
           /\ call'[w] \in {"new", "acquiring", "opening"} => wrote'[w] = 0
           /\ call'[w] = "writing" => wrote'[w] < Chunks
           /\ call'[w] = "open" /\ gen'[w] = generation' => Synced(w)'
           /\ call'[w] \in {"ok", "closed"} => file'[w] = wrote'[w]
    <3> SUFFICES ASSUME NEW w \in Writers
                 PROVE  /\ wrote'[w] <= Chunks /\ file'[w] \in -1..Chunks
                        /\ call'[w] \in {"new", "acquiring", "opening"} => wrote'[w] = 0
                        /\ call'[w] = "writing" => wrote'[w] < Chunks
                        /\ call'[w] = "open" /\ gen'[w] = generation' => Synced(w)'
                        /\ call'[w] \in {"ok", "closed"} => file'[w] = wrote'[w]
      OBVIOUS
    <3>1. CASE w = c
      BY <1>a, <3>1 DEF Contents
    <3>2. CASE w # c
      BY <1>a, <2>1, <3>2 DEF Contents, Synced
    <3> QED
      BY <3>1, <3>2
  <2>5. \A m \in inbox' : m.op = "opening" => m.call \notin handles'
    BY <1>a DEF Contents
  <2>6. \A m \in inbox' : m.op # "opening" => Synced(m.call)'
    BY <1>a DEF Contents, Synced
  <2>7. \A r \in outbox' : r.gen = generation' => Answered(r)'
    BY <1>a, <2>1, <2>3 DEF Contents, Answered, Synced
  <2>8. HandlesOwned'
    BY <1>a, <2>1 DEF HandlesOwned, Typed
  <2> QED
    BY <2>4, <2>5, <2>6, <2>7, <2>8 DEF Contents
<1>1. ASSUME NEW c \in Calls, Acquire(c) PROVE Contents' /\ HandlesOwned'
  <2>1. c \notin pending /\ c \notin handles /\ call[c] = "new"
    BY <1>0, <1>1 DEF Acquire, InFlight, HandlesOwned
  <2> QED
    BY <1>a, <1>1, <2>1 DEF Acquire, workerVars, Typed
<1>2. ASSUME NEW c \in Calls, NoWorker(c) PROVE Contents' /\ HandlesOwned'
  <2>1. c \notin pending /\ c \notin handles /\ call[c] = "new"
    BY <1>0, <1>2 DEF NoWorker, InFlight, HandlesOwned
  <2>2. CASE c \in Writers
    <3>1. gen' \in [Calls -> Nat] /\ \A w \in Writers : gen'[w] <= generation
      BY <1>2 DEF NoWorker, Counts, Generations, Typed, Calls
    <3>2. \A w \in Writers : call'[w] = call[w] \/ call'[w] \in {"failed", "refused"}
      BY <1>2 DEF NoWorker, Typed, Calls
    <3> QED
      BY <1>2, <2>2, <3>1, <3>2, RetiredContents DEF NoWorker
  <2>3. CASE c \notin Writers
    BY <1>a, <1>2, <2>1, <2>3 DEF NoWorker, clientVars, workerVars, Typed
  <2> QED
    BY <2>2, <2>3
<1>3. ASSUME NEW c \in Calls, ProbeDone(c) PROVE Contents' /\ HandlesOwned'
  <2>1. c \notin pending /\ c \notin Writers
    BY <1>0, <1>3, OpfsAssumption DEF ProbeDone, InFlight
  <2> QED
    BY <1>a, <1>3, <2>1 DEF ProbeDone, clientVars, workerVars, Typed
<1>4. ASSUME NEW c \in Calls, Unwind(c) PROVE Contents' /\ HandlesOwned'
  <2>1. c \notin pending /\ c \notin handles
    BY <1>0, <1>4 DEF Unwind, InFlight, HandlesOwned
  <2>2. UNCHANGED <<generation, wrote, inbox, outbox, handles, file>>
    BY <1>4 DEF Unwind, Release, clientVars, workerVars
  <2> QED
    BY <1>a, <1>4, <2>1, <2>2 DEF Unwind, Typed
<1>5. ASSUME NEW w \in Writers, NEW op \in InFlight, Request(w, op),
             call[w] \in {"acquiring", "open"},
             call[w] = "acquiring" => op = "opening",
             call[w] = "open" => op # "opening",
             op = "writing" => wrote[w] < Chunks,
             UNCHANGED <<generation, gen, wrote, outbox, handles, file>>
      PROVE  Contents' /\ HandlesOwned'
  <2>1. w \in Calls /\ w \notin pending
    BY <1>0, <1>5 DEF Calls, InFlight
  <2>2. CASE gen[w] # generation \/ ~worker
    <3>1. gen[w] # generation
      <4>1. gen[w] = generation => w \in Counted
        BY <1>5, <2>1 DEF Counted, Active
      <4> QED
        BY <2>2, <4>1, CountedUp
    <3>2. w \notin handles
      BY <3>1 DEF HandlesOwned
    <3>3. call' = [call EXCEPT ![w] = "failed"] /\ inbox' = inbox
      BY <1>5, <2>2 DEF Request
    <3> QED
      BY <1>a, <1>5, <2>1, <3>2, <3>3 DEF Typed
  <2>3. CASE ~(gen[w] # generation \/ ~worker)
    <3> DEFINE posted == [gen |-> generation, call |-> w, op |-> op]
    <3>1. inbox' = inbox \cup {posted} /\ call' = [call EXCEPT ![w] = op]
      BY <1>5, <2>3 DEF Request
    <3>2. call'[w] = op /\ \A d \in Writers \ {w} : call'[d] = call[d]
      BY <2>1, <3>1 DEF Typed, Calls
    <3>3. op = "opening" => w \notin handles /\ wrote[w] = 0
      BY <1>5 DEF HandlesOwned, Contents
    <3>4. op # "opening" => Synced(w)
      BY <1>5, <2>3 DEF Contents
    <3>5. \A v \in Writers :
             /\ wrote'[v] <= Chunks /\ file'[v] \in -1..Chunks
             /\ call'[v] \in {"new", "acquiring", "opening"} => wrote'[v] = 0
             /\ call'[v] = "writing" => wrote'[v] < Chunks
             /\ call'[v] = "open" /\ gen'[v] = generation' => Synced(v)'
             /\ call'[v] \in {"ok", "closed"} => file'[v] = wrote'[v]
      BY <1>5, <3>2, <3>3 DEF Contents, Synced, InFlight
    <3>6. \A m \in inbox' : m.op = "opening" => m.call \notin handles'
      BY <1>5, <3>1, <3>3 DEF Contents
    <3>7. \A m \in inbox' : m.op # "opening" => Synced(m.call)'
      BY <1>5, <3>1, <3>4 DEF Contents, Synced
    <3>8. \A r \in outbox : r.gen = generation => r.call \in Writers \ {w}
      BY <1>0, <1>o, <2>1
    <3>9. \A r \in outbox' : r.gen = generation' => Answered(r)'
      BY <1>5, <3>2, <3>8 DEF Contents, Answered, Synced
    <3>10. HandlesOwned'
      BY <1>5, <2>3, <3>2 DEF HandlesOwned, InFlight, Typed
    <3> QED
      BY <3>5, <3>6, <3>7, <3>9, <3>10 DEF Contents
  <2> QED
    BY <2>2, <2>3
<1>6. ASSUME NEW w \in Writers, Open(w) PROVE Contents' /\ HandlesOwned'
  BY <1>5, <1>6 DEF Open, InFlight, clientVars
<1>7. ASSUME NEW w \in Writers, Write(w) PROVE Contents' /\ HandlesOwned'
  BY <1>5, <1>7 DEF Write, InFlight, clientVars
<1>8. ASSUME NEW w \in Writers, NEW op \in {"closing", "aborting"}, Finish(w, op)
      PROVE  Contents' /\ HandlesOwned'
  BY <1>5, <1>8 DEF Finish, InFlight, clientVars
<1>9. ASSUME Fail PROVE Contents' /\ HandlesOwned'
  <2>1. gen' \in [Calls -> Nat] /\ \A w \in Writers : gen'[w] <= generation
    BY <1>9 DEF Fail, Counts, Generations, Typed, Calls
  <2>2. \A w \in Writers : call'[w] = call[w] \/ call'[w] \in {"failed", "refused"}
    BY <1>9 DEF Fail, Typed, Calls
  <2> QED
    BY <1>9, <2>1, <2>2, RetiredContents DEF Fail
<1>u. ASSUME UNCHANGED <<generation, call, gen, wrote, inbox, handles, file>>, outbox' \subseteq outbox
      PROVE  Contents' /\ HandlesOwned'
  BY <1>u DEF Contents, HandlesOwned, Synced, Answered
<1>10. ASSUME IdleExpires PROVE Contents' /\ HandlesOwned'
  <2>1. CASE idle # generation \/ openWriters > 0 \/ ~worker
    BY <1>u, <1>10, <2>1 DEF IdleExpires, callVars, workerVars
  <2>2. CASE ~(idle # generation \/ openWriters > 0 \/ ~worker)
    BY <1>10, <2>2, RetiredContents DEF IdleExpires, callVars, Counts, Generations, Typed, Calls
  <2> QED
    BY <2>1, <2>2
<1>12. ASSUME NEW supported \in BOOLEAN, WorkerReady(supported) PROVE Contents' /\ HandlesOwned'
  BY <1>12, <1>u DEF WorkerReady, callVars, workerVars
<1>14. CASE UNCHANGED vars
  BY <1>14, <1>u DEF vars
<1>11. ASSUME NEW r \in outbox, Receive(r) PROVE Contents' /\ HandlesOwned'
  <2>0. UNCHANGED <<generation, gen, inbox, handles, file>> /\ outbox' = outbox \ {r}
    BY <1>11 DEF Receive, clientVars, callVars
  <2>1. CASE r.gen # generation \/ r.call \notin pending
    BY <1>11, <1>u, <2>0, <2>1 DEF Receive, callVars
  <2>2. CASE ~(r.gen # generation \/ r.call \notin pending)
    <3> DEFINE w == r.call
    <3>1. r.gen = generation /\ w \in Writers /\ w \in Calls /\ call[w] \in InFlight /\ gen[w] = generation
      BY <1>0, <2>2
    <3>2. \A d \in Writers \ {w} : call'[d] = call[d] /\ wrote'[d] = wrote[d]
      BY <1>11, <2>2, <3>1 DEF Receive, Typed, Calls
    <3>3. call'[w] = CASE call[w] = "writing" \/ (call[w] = "opening" /\ r.ok) -> "open"
                       [] call[w] = "closing" /\ r.ok -> "ok"
                       [] OTHER -> "failed"
      BY <1>11, <2>2, <3>1 DEF Receive, Typed
    <3>4. wrote'[w] = IF call[w] = "writing" /\ r.ok THEN wrote[w] + 1 ELSE wrote[w]
      BY <1>11, <2>2, <3>1 DEF Receive, Typed
    <3>5. Answered(r) /\ wrote[w] \in Nat /\ file[w] \in Int /\ wrote[w] <= Chunks
      BY <3>1 DEF Contents, Typed
    <3>6. \A m \in inbox : m.call # w
      BY <3>1 DEF Wires
    <3>7. \A q \in outbox' : q.gen = generation => q.call \in Writers \ {w}
      BY <1>0, <1>o, <2>0, <3>1 DEF Wires
    <3>8. wrote'[w] <= Chunks /\ call'[w] \notin {"new", "acquiring", "opening", "writing", "closed"}
      <4>1. CASE call[w] = "writing"
        BY <3>1, <3>3, <3>4, <3>5, <4>1, OpfsAssumption DEF Contents
      <4>2. CASE call[w] # "writing"
        BY <3>1, <3>3, <3>4, <3>5, <4>2 DEF InFlight
      <4> QED
        BY <4>1, <4>2
    <3>9. call'[w] = "open" => Synced(w)'
      BY <2>0, <3>3, <3>4, <3>5 DEF Answered, Synced
    <3>10. call'[w] \in {"ok", "closed"} => file'[w] = wrote'[w]
      BY <2>0, <3>3, <3>4, <3>5 DEF Answered
    <3>11. w \in handles => call'[w] = "open"
      BY <3>1, <3>3, <3>5 DEF Answered, InFlight
    <3>12. \A v \in Writers :
             /\ wrote'[v] <= Chunks /\ file'[v] \in -1..Chunks
             /\ call'[v] \in {"new", "acquiring", "opening"} => wrote'[v] = 0
             /\ call'[v] = "writing" => wrote'[v] < Chunks
             /\ call'[v] = "open" /\ gen'[v] = generation' => Synced(v)'
             /\ call'[v] \in {"ok", "closed"} => file'[v] = wrote'[v]
      <4> SUFFICES ASSUME NEW v \in Writers
                   PROVE  /\ wrote'[v] <= Chunks /\ file'[v] \in -1..Chunks
                          /\ call'[v] \in {"new", "acquiring", "opening"} => wrote'[v] = 0
                          /\ call'[v] = "writing" => wrote'[v] < Chunks
                          /\ call'[v] = "open" /\ gen'[v] = generation' => Synced(v)'
                          /\ call'[v] \in {"ok", "closed"} => file'[v] = wrote'[v]
        OBVIOUS
      <4>1. CASE v = w
        BY <2>0, <3>8, <3>9, <3>10, <4>1 DEF Contents
      <4>2. CASE v # w
        BY <2>0, <3>2, <4>2 DEF Contents, Synced
      <4> QED
        BY <4>1, <4>2
    <3>13. \A m \in inbox' : m.op = "opening" => m.call \notin handles'
      BY <2>0 DEF Contents
    <3>14. \A m \in inbox' : m.op # "opening" => Synced(m.call)'
      <4>1. \A m \in inbox : m.call \in Writers \ {w}
        BY <1>0, <1>m, <3>6
      <4> QED
        BY <2>0, <3>2, <4>1 DEF Contents, Synced
    <3>15. \A q \in outbox' : q.gen = generation' => Answered(q)'
      BY <2>0, <3>2, <3>7 DEF Contents, Answered, Synced
    <3>16. HandlesOwned'
      BY <2>0, <3>2, <3>11 DEF HandlesOwned, Typed
    <3> QED
      BY <3>12, <3>13, <3>14, <3>15, <3>16 DEF Contents
  <2> QED
    BY <2>1, <2>2
<1>13. ASSUME NEW m \in inbox, Apply(m) PROVE Contents' /\ HandlesOwned'
  <2> DEFINE w == m.call
  <2>0. UNCHANGED <<generation, gen, call, wrote>> /\ inbox' = inbox \ {m}
    BY <1>13 DEF Apply, Reply, clientVars, callVars
  <2>1. PICK ok \in BOOLEAN : Reply(m, ok)
    BY <1>13 DEF Apply
  <2>2. /\ w \in Writers /\ w \in Calls /\ gen[w] = generation
        /\ call[w] = m.op /\ m.op \in InFlight
    BY <1>0, <1>m
  <2>3. /\ \A v \in Writers \ {w} : file'[v] = file[v] /\ (v \in handles' <=> v \in handles)
        /\ handles' \subseteq handles \cup {w}
    BY <1>13, <2>2 DEF Apply, Typed
  <2>4. file'[w] \in -1..Chunks /\ file'[w] \in Int
    <3>1. m.op = "writing" => file[w] = wrote[w] /\ wrote[w] < Chunks
      BY <2>2 DEF Contents, Synced
    <3>2. /\ file'[w] = file[w] \/ file'[w] = 0 \/ (m.op = "writing" /\ file'[w] = file[w] + 1)
      BY <1>13, <2>2 DEF Apply, Typed
    <3>3. file[w] \in -1..Chunks /\ wrote[w] \in Nat /\ Chunks \in Nat
      BY <2>2, OpfsAssumption DEF Contents, Typed
    <3> QED
      BY <3>1, <3>2, <3>3
  <2>5. \A n \in inbox' : n.call \in Writers \ {w} /\ n \in inbox
    BY <1>0, <1>m, <2>0 DEF Wires
  <2>6. \A r \in outbox : r.gen = generation => r.call \in Writers \ {w}
    BY <1>0, <1>m, <1>o DEF Wires
  <2>7. \A v \in Writers :
           /\ wrote'[v] <= Chunks /\ file'[v] \in -1..Chunks
           /\ call'[v] \in {"new", "acquiring", "opening"} => wrote'[v] = 0
           /\ call'[v] = "writing" => wrote'[v] < Chunks
           /\ call'[v] = "open" /\ gen'[v] = generation' => Synced(v)'
           /\ call'[v] \in {"ok", "closed"} => file'[v] = wrote'[v]
    <3> SUFFICES ASSUME NEW v \in Writers
                 PROVE  /\ wrote'[v] <= Chunks /\ file'[v] \in -1..Chunks
                        /\ call'[v] \in {"new", "acquiring", "opening"} => wrote'[v] = 0
                        /\ call'[v] = "writing" => wrote'[v] < Chunks
                        /\ call'[v] = "open" /\ gen'[v] = generation' => Synced(v)'
                        /\ call'[v] \in {"ok", "closed"} => file'[v] = wrote'[v]
      OBVIOUS
    <3>1. CASE v = w
      BY <2>0, <2>2, <2>4, <3>1 DEF Contents, InFlight
    <3>2. CASE v # w
      BY <2>0, <2>3, <3>2 DEF Contents, Synced
    <3> QED
      BY <3>1, <3>2
  <2>8. \A n \in inbox' : n.op = "opening" => n.call \notin handles'
    BY <2>3, <2>5 DEF Contents
  <2>9. \A n \in inbox' : n.op # "opening" => Synced(n.call)'
    BY <2>0, <2>3, <2>5 DEF Contents, Synced
  <2>10. \A r \in outbox : r.gen = generation => Answered(r)'
    BY <2>0, <2>3, <2>6 DEF Contents, Answered, Synced
  <2> DEFINE answer(b) == [gen |-> m.gen, call |-> w, ok |-> b]
  <2>11. ASSUME NEW b \in BOOLEAN, Reply(m, b) PROVE b = ok
    <3>1. answer(b) \in outbox \cup {answer(ok)}
      BY <2>1, <2>11 DEF Reply
    <3>2. answer(b) \notin outbox
      <4>1. answer(b).gen = generation /\ answer(b).call = w
        BY <1>m
      <4> QED
        BY <2>6, <4>1
    <3>3. answer(b) = answer(ok)
      BY <3>1, <3>2
    <3>4. answer(b).ok = b /\ answer(ok).ok = ok
      OBVIOUS
    <3> QED
      BY <3>3, <3>4
  <2>12. Answered(answer(ok))'
    <3>1. m.op = "opening" => w \notin handles /\ wrote[w] = 0
      BY <2>2 DEF Contents
    <3>2. m.op # "opening" => w \in handles /\ file[w] = wrote[w]
      BY <2>2 DEF Contents, Synced
    <3>3. CASE m.op = "opening"
      <4>1. ok => w \in handles' /\ file'[w] = 0
        BY <1>13, <2>2, <2>11, <3>3 DEF Apply, Typed
      <4>2. ~ok => handles' = handles
        BY <1>13, <2>2, <2>11, <3>3 DEF Apply
      <4> QED
        BY <2>0, <2>2, <3>1, <3>3, <4>1, <4>2 DEF Answered, Synced
    <3>4. CASE m.op = "writing"
      <4>1. ok => handles' = handles /\ file'[w] = file[w] + 1
        BY <1>13, <2>2, <2>11, <3>4 DEF Apply, Typed
      <4>2. ~ok => handles' = handles /\ file' = file
        BY <1>13, <2>2, <2>11, <3>4 DEF Apply
      <4> QED
        BY <2>0, <2>2, <3>2, <3>4, <4>1, <4>2 DEF Answered, Synced
    <3>5. CASE m.op = "closing"
      <4>1. w \notin handles' /\ file' = file
        BY <1>13, <3>5 DEF Apply
      <4> QED
        BY <2>0, <2>2, <3>2, <3>5, <4>1 DEF Answered, Synced
    <3>6. CASE m.op = "aborting"
      <4>1. w \notin handles'
        BY <1>13, <3>6 DEF Apply
      <4> QED
        BY <2>0, <2>2, <3>6, <4>1 DEF Answered, Synced
    <3> QED
      BY <2>2, <3>3, <3>4, <3>5, <3>6 DEF InFlight
  <2>13. outbox' = outbox \cup {answer(ok)}
    BY <2>1 DEF Reply
  <2>14. \A r \in outbox' : r.gen = generation' => Answered(r)'
    BY <2>0, <2>10, <2>12, <2>13
  <2>15. HandlesOwned'
    BY <2>0, <2>2, <2>3 DEF HandlesOwned, InFlight, Typed
  <2> QED
    BY <2>7, <2>8, <2>9, <2>14, <2>15 DEF Contents
<1> QED
  BY <1>1, <1>2, <1>3, <1>4, <1>6, <1>7, <1>8, <1>9, <1>10, <1>11, <1>12, <1>13, <1>14
     DEF Next, CallStep, WriterStep, Cancel, Close, HandshakeDeadline, RequestDeadline, WorkerError

\* Nothing is on its way and no file is open before the first call.
LEMMA ContentsInit == Init => Wires /\ Contents /\ HandlesOwned
<1> SUFFICES ASSUME Init PROVE Wires /\ Contents /\ HandlesOwned
  OBVIOUS
<1>1. Wires /\ HandlesOwned
  BY DEF Init, Wires, HandlesOwned
<1>2. \A w \in Writers : wrote[w] = 0 /\ file[w] = -1 /\ call[w] = "new"
  BY DEF Init, Calls
<1>3. inbox = {} /\ outbox = {} /\ Chunks \in Nat
  BY OpfsAssumption DEF Init
<1> QED
  BY <1>1, <1>2, <1>3 DEF Contents

\* The invariant of the client, its Worker and the messages between them.
LEMMA ConsistentAlways == Spec => []Consistent
<1>1. Init => Consistent
  BY TypedInit, CountsInit, ContentsInit DEF Consistent
<1>2. Consistent /\ [Next]_vars => Consistent'
  BY TypedNext, CountsNext, WiresNext, ContentsNext DEF Consistent
<1> QED
  BY <1>1, <1>2, PTL DEF Spec

\* No step takes the count beyond the calls there are, nor a writer or its file
\* beyond the chunks it was to write.
THEOREM TypeCorrect == Spec => []TypeOK
<1>1. ASSUME Consistent PROVE TypeOK
  <2>1. openWriters \in 0..Cardinality(Calls)
    BY <1>1, CountedFinite DEF Consistent, Counts, OwnershipExact
  <2>2. wrote \in [Writers -> 0..Chunks] /\ file \in [Writers -> -1..Chunks]
    BY <1>1, OpfsAssumption DEF Consistent, Contents, Typed
  <2> QED
    BY <1>1, <2>1, <2>2 DEF Consistent, Typed, TypeOK
<1> QED
  BY <1>1, ConsistentAlways, PTL

\* No thread, no file lock and no request outlives the generation that owns it.
THEOREM ResourcesAlwaysOwned == Spec => []ResourcesOwned
<1>1. ASSUME Consistent PROVE ResourcesOwned
  <2>1. RequestsOfGeneration
    BY <1>1 DEF Consistent, Wires, Counts, Generations, RequestsOfGeneration
  <2> QED
    BY <1>1, <2>1 DEF Consistent, Counts, ResourcesOwned
<1> QED
  BY <1>1, ConsistentAlways, PTL

\* An open writer has its handle and exactly the acknowledged chunks, and a file
\* whose close resolved is complete, whatever the rest of its generation did.
THEOREM AcknowledgedAlwaysKept == Spec => []AcknowledgedKept
<1>1. ASSUME Consistent PROVE AcknowledgedKept
  BY <1>1 DEF Consistent, Contents, Synced, AcknowledgedKept
<1> QED
  BY <1>1, ConsistentAlways, PTL
=============================================================================
