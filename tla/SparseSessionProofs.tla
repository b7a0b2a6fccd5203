------------------------ MODULE SparseSessionProofs ------------------------
(***************************************************************************)
(* Proofs about SparseSession: the verification Workers of a preparation,  *)
(* their pool, and the preparations that share a resolver.                 *)
(***************************************************************************)
EXTENDS SparseSession, FiniteSetTheorems, SequenceTheorems, WellFoundedInduction, TLAPS

-----------------------------------------------------------------------------
(* The messages, a Worker and a pool, as they are typed *)

HostMessage ==
  [type : {"progress"}, generation : Nat, updates : Nat]
    \cup [type : {"failure"}, generation : Nat, kind : {"failed", "corrupt"}]
    \cup [type : {"complete"}, generation : Nat, counts : {Counts(s) : s \in Sources}]
WorkerMessage ==
  [type : {"start"}, generation : Nat, source : Sources]
    \cup [type : {"ack"}, generation : Nat, updates : Nat]

Slot == [there : BOOLEAN, pending : Sources \cup {NoSource}, generation : Nat, last : Nat,
         alive : BOOLEAN, hung : BOOLEAN, job : Sources \cup {NoSource}, of : Nat,
         updates : Nat, sent : Nat, awaiting : BOOLEAN,
         toHost : Seq(HostMessage), toWorker : Seq(WorkerMessage)]

Outcome == {"none", "pending", "complete", "failed", "corrupt"}
PoolState == [open : BOOLEAN, broken : BOOLEAN, queue : Seq(Sources),
              outcome : [Sources -> Outcome], worker : [Realm -> Slot], faults : 0..Faults]

-----------------------------------------------------------------------------
(* A slot and its Worker in step: where a job and its messages can be *)

\* What any slot satisfies, also that of a Worker that could not be terminated.
SlotShape(v) ==
  /\ v.there => v.alive
  /\ ~v.there => v = NoWorker
  /\ v.sent <= v.updates /\ v.of <= v.generation
  /\ \A i \in 1..Len(v.toWorker) : v.toWorker[i].generation <= v.generation

\* Acknowledgements of a generation or of earlier ones, which nobody waits for.
Acks(q, n, g) == \A i \in 1..n : q[i].type = "ack" /\ q[i].generation <= g

JobFree(v) == v.job = NoSource /\ v.updates = 0 /\ v.sent = 0 /\ ~v.awaiting

\* No job is pending: the Worker has none, and sent all it had to send.
Rests(v) ==
  v.pending = NoSource /\ JobFree(v) /\ v.toHost = <<>> /\ Acks(v.toWorker, Len(v.toWorker), v.generation)

\* The start is on its way, behind acknowledgements of earlier jobs.
Fresh(v) ==
  /\ v.pending # NoSource /\ JobFree(v) /\ v.toHost = <<>> /\ v.last = 0
  /\ v.toWorker # <<>> /\ Acks(v.toWorker, Len(v.toWorker) - 1, v.generation - 1)
  /\ LET m == v.toWorker[Len(v.toWorker)]
     IN m.type = "start" /\ m.generation = v.generation /\ m.source = v.pending

\* Progress on its way to the host, beyond what the host knows.
Reports(v, m, u) == m.type = "progress" /\ m.generation = v.generation /\ m.updates = u /\ v.last < u

\* The job runs: nothing is on its way, or progress is, or its acknowledgement.
Runs(v) ==
  /\ v.pending # NoSource /\ v.job = v.pending /\ v.of = v.generation
  /\ CountsAgree => v.updates <= Len(Work[v.job])
  /\ \/ ~v.awaiting /\ v.toHost = <<>> /\ v.toWorker = <<>> /\ v.last = v.sent
     \/ v.awaiting /\ Len(v.toHost) = 1 /\ Reports(v, v.toHost[1], v.sent) /\ v.toWorker = <<>>
     \/ /\ v.awaiting /\ v.toHost = <<>> /\ Len(v.toWorker) = 1 /\ v.last = v.sent
        /\ LET m == v.toWorker[1]
           IN m.type = "ack" /\ m.generation = v.generation /\ m.updates = v.sent

\* The message that ends a job.
Ends(v, m) ==
  /\ m.generation = v.generation
  /\ \/ m.type = "failure" /\ m.kind = "failed"
     \/ m.type = "complete" /\ m.counts = Counts(v.pending)

\* The Worker is done, and its last messages are on their way.
Over(v) ==
  /\ v.pending # NoSource /\ JobFree(v) /\ Acks(v.toWorker, Len(v.toWorker), v.generation)
  /\ \/ Len(v.toHost) = 1 /\ Ends(v, v.toHost[1])
     \/ /\ Len(v.toHost) = 2 /\ Ends(v, v.toHost[2])
        /\ LET m == v.toHost[1]
           IN Reports(v, m, m.updates) /\ (CountsAgree => m.updates <= Len(Work[v.pending]))

Sound(v) == Rests(v) \/ Fresh(v) \/ Runs(v) \/ Over(v)

-----------------------------------------------------------------------------
(* The pool *)

\* A pending job is in the queue, or in one slot.
Places(P) ==
  /\ \A v, w \in Realm : P.worker[v].pending = P.worker[w].pending
                           => v = w \/ P.worker[v].pending = NoSource
  /\ \A w \in Realm : ~Contains(P.queue, P.worker[w].pending)
  /\ \A s \in Sources : P.outcome[s] = "pending"
       <=> Contains(P.queue, s) \/ \E w \in Realm : P.worker[w].pending = s

\* A pool that closes has no job left; one that is closed has no Worker left,
\* unless one could not be terminated.
Closing(P) ==
  /\ P.broken => ~P.open
  /\ ~P.open => P.queue = <<>> /\ \A w \in Realm : P.worker[w].pending = NoSource
  /\ ~P.open /\ ~P.broken => \A w \in Realm : ~P.worker[w].there

\* What holds of a pool within its handlers too.
Shape(P) ==
  /\ P \in PoolState /\ \A w \in Realm : SlotShape(P.worker[w])
  /\ Cardinality(Slots(P)) <= width
Core(P) ==
  /\ Shape(P) /\ IsInjective(P.queue) /\ Places(P) /\ Closing(P)
  /\ CountsAgree => \A s \in Sources : P.outcome[s] # "corrupt"
SoundAt(P, w) == ~P.broken /\ P.worker[w].there => Sound(P.worker[w])

Kept(P) == Core(P) /\ \A w \in Realm : SoundAt(P, w)

-----------------------------------------------------------------------------
(* The preparations *)

Busy == Locked \cup {"locking", "charging"}

SessionType ==
  /\ width \in 0..MaxWidth /\ stored \in [Sources -> {"none", "good", "bad"}]
  /\ session \in [Sessions -> Preparation \cup {"idle", "open", "failed"}]
  /\ DOMAIN task = Sessions
  /\ \A p \in Sessions :
       task[p] \in [Wanted[p] -> {"idle", "locking", "charging", "ready", "failed"} \cup Locked]
  /\ aborted \in [Sessions -> BOOLEAN] /\ lock \in [Sources -> Sessions \cup {NoSession}]
  /\ claim \in Sessions \cup {NoSession} /\ epochs \subseteq Sessions

\* A session works on a source while it holds its lock.
LocksHeld ==
  \A p \in Sessions : \A s \in Sources :
    lock[s] = p <=> s \in Wanted[p] /\ task[p][s] \in Locked

\* Where a session can be, by what its sources do and what it holds.
Phases ==
  \A p \in Sessions :
    /\ session[p] # "preparing" => \A s \in Wanted[p] : task[p][s] \notin Busy
    /\ session[p] \in {"ready", "open"} =>
         p \notin epochs /\ \A s \in Wanted[p] : task[p][s] = "ready"
    /\ \A s \in Wanted[p] : task[p][s] \in {"verified", "charging", "ready"} => stored[s] = "good"
    /\ claim = p => \/ session[p] \in {"preparing", "leaving"}
                    \/ pool.broken /\ session[p] = "failed"

\* The jobs of the pool are those its preparation waits for.
Claims ==
  /\ claim = NoSession => ~pool.open /\ ~pool.broken
  /\ \A p \in Sessions : \A s \in Wanted[p] : task[p][s] = "verifying" => claim = p
  /\ \A s \in Sources : pool.outcome[s] = "pending" =>
       claim # NoSession /\ s \in Wanted[claim] /\ task[claim][s] = "verifying"

Inv == SessionType /\ Kept(pool) /\ LocksHeld /\ Phases /\ Claims

-----------------------------------------------------------------------------
(* What is left of a sequence without its first element. *)
LEMMA HeadAndTail ==
  ASSUME NEW S, NEW s \in Seq(S), s # <<>>
  PROVE  /\ Len(s) \in Nat /\ Len(s) >= 1 /\ 1 \in 1..Len(s) /\ Len(s) \in 1..Len(s)
         /\ Head(s) = s[1] /\ s[1] \in S
         /\ Tail(s) \in Seq(S) /\ Len(Tail(s)) = Len(s) - 1
         /\ \A i \in 1..Len(Tail(s)) : i + 1 \in 1..Len(s) /\ Tail(s)[i] = s[i + 1]
OBVIOUS

LEMMA TailKeepsLast ==
  ASSUME NEW S, NEW s \in Seq(S), Len(s) > 1
  PROVE  Tail(s) # <<>> /\ Tail(s)[Len(Tail(s))] = s[Len(s)]
<1>1. s # <<>> /\ Len(s) \in Nat
  OBVIOUS
<1>2. Len(Tail(s)) = Len(s) - 1 /\ Len(Tail(s)) \in 1..Len(Tail(s))
  BY <1>1
<1>3. Tail(s)[Len(Tail(s))] = s[Len(Tail(s)) + 1]
  BY <1>1, <1>2, HeadAndTail
<1>4. Len(Tail(s)) + 1 = Len(s)
  BY <1>1, <1>2
<1> QED BY <1>2, <1>3, <1>4

(* What is left when one element is taken out of a sequence. *)
LEMMA RemovedAt ==
  ASSUME NEW S, NEW s \in Seq(S), NEW k \in 1..Len(s)
  PROVE  /\ RemoveAt(s, k) \in Seq(S) /\ Len(s) \in Nat /\ Len(RemoveAt(s, k)) = Len(s) - 1
         /\ \A i \in 1..Len(RemoveAt(s, k)) :
              /\ i < k => i \in 1..Len(s) /\ RemoveAt(s, k)[i] = s[i]
              /\ i >= k => i + 1 \in 1..Len(s) /\ RemoveAt(s, k)[i] = s[i + 1]
<1>1. PICK n \in Nat : n = Len(s) /\ k \in 1..n
  OBVIOUS
<1> DEFINE p == SubSeq(s, 1, k - 1)
           q == SubSeq(s, k + 1, n)
<1>2. \A i \in 1..n : s[i] \in S
  BY <1>1
<1>3. /\ p \in Seq(S) /\ Len(p) = (IF 1 <= k - 1 THEN k - 1 - 1 + 1 ELSE 0)
      /\ \A i \in 1..(k - 1 - 1 + 1) : p[i] = s[1 + i - 1]
  <2>1. \A i \in 1..(k - 1) : s[i] \in S
    BY <1>1, <1>2
  <2>2. 1 \in Int /\ k - 1 \in Int
    BY <1>1
  <2> QED BY <2>1, <2>2, SubSeqProperties
<1>4. /\ q \in Seq(S) /\ Len(q) = (IF k + 1 <= n THEN n - (k + 1) + 1 ELSE 0)
      /\ \A i \in 1..(n - (k + 1) + 1) : q[i] = s[k + 1 + i - 1]
  <2>1. \A i \in (k + 1)..n : s[i] \in S
    BY <1>1, <1>2
  <2>2. k + 1 \in Int /\ n \in Int
    BY <1>1
  <2> QED BY <2>1, <2>2, SubSeqProperties
<1>5. Len(p) = k - 1 /\ Len(q) = n - k
  BY <1>1, <1>3, <1>4
<1>6. RemoveAt(s, k) = p \o q
  BY <1>1 DEF RemoveAt
<1> HIDE DEF p, q
<1>7. /\ p \o q \in Seq(S) /\ Len(p \o q) = Len(p) + Len(q)
      /\ \A i \in 1..(Len(p) + Len(q)) : (p \o q)[i] = IF i <= Len(p) THEN p[i] ELSE q[i - Len(p)]
  BY <1>3, <1>4, ConcatProperties
<1>8. ASSUME NEW i \in 1..(n - 1)
      PROVE  /\ i < k => i \in 1..n /\ (p \o q)[i] = s[i]
             /\ i >= k => i + 1 \in 1..n /\ (p \o q)[i] = s[i + 1]
  <2>1. CASE i < k
    <3>1. i \in 1..(Len(p) + Len(q)) /\ i <= Len(p) /\ i \in 1..n /\ i \in 1..(k - 1 - 1 + 1) /\ 1 + i - 1 = i
      BY <1>1, <1>5, <2>1
    <3> QED BY <1>3, <1>7, <2>1, <3>1
  <2>2. CASE i >= k
    <3>1. PICK j \in 1..(n - (k + 1) + 1) : j = i - Len(p) /\ k + 1 + j - 1 = i + 1
      BY <1>1, <1>5, <2>2
    <3>2. i \in 1..(Len(p) + Len(q)) /\ ~(i <= Len(p)) /\ i + 1 \in 1..n
      BY <1>1, <1>5, <2>2
    <3>3. q[j] = s[i + 1]
      BY <1>4, <3>1
    <3>4. (p \o q)[i] = q[j]
      BY <1>7, <3>1, <3>2
    <3> QED BY <2>2, <3>2, <3>3, <3>4
  <2> QED BY <2>1, <2>2
<1>9. Len(p \o q) = n - 1
  BY <1>1, <1>5, <1>7
<1> QED BY <1>1, <1>6, <1>7, <1>8, <1>9

-----------------------------------------------------------------------------
(* Least elements, and induction for a set instead of a predicate *)

LEMMA LeastNumber ==
  ASSUME NEW T \in SUBSET Nat, T # {}
  PROVE  \E n \in T : \A m \in T : n <= m
<1> DEFINE R == {ss \in Nat \X Nat : ss[1] < ss[2]}
<1>1. IsWellFoundedOn(R, Nat)
  BY NatLessThanWellFounded DEF OpToRel
<1>2. \E n \in T : \A m \in T : ~ (<<m, n>> \in R)
  <2> HIDE DEF R
  <2> QED BY <1>1, WFMin
<1>3. PICK n \in T : \A m \in T : ~ (<<m, n>> \in R)
  BY <1>2
<1>4. ASSUME NEW m \in T PROVE n <= m
  <2>1. n \in Nat /\ m \in Nat BY <1>3
  <2>2. ~ (<<m, n>> \in R) BY <1>3
  <2>3. m < n => <<m, n>> \in R BY <2>1
  <2> QED BY <2>1, <2>2, <2>3
<1> QED BY <1>4

LEMMA AllNumbers ==
  ASSUME NEW T \in SUBSET Nat, 0 \in T, \A n \in T : n + 1 \in T
  PROVE  T = Nat
<1> DEFINE B == Nat \ T
<1>1. CASE B # {}
  <2>1. PICK n \in B : \A m \in B : n <= m
    BY <1>1, LeastNumber
  <2>2. n # 0 /\ n \in Nat BY <2>1
  <2>3. n - 1 \in Nat /\ n - 1 \notin B BY <2>1, <2>2
  <2>4. n - 1 + 1 = n BY <2>2
  <2> QED BY <2>1, <2>2, <2>3, <2>4
<1> QED BY <1>1

LEMMA MinOf ==
  ASSUME NEW T \in SUBSET Nat, T # {}
  PROVE  Min(T) \in T
BY LeastNumber DEF Min

LEMMA SomeRealms ==
  ASSUME NEW A \in SUBSET Realm
  PROVE  IsFiniteSet(A) /\ Cardinality(A) \in Nat
<1>1. IsFiniteSet(Realm)
  BY VerifyAssumption, FS_Interval DEF Realm
<1> QED BY <1>1, FS_Subset, FS_CardinalityType

-----------------------------------------------------------------------------
(* The counters of a Worker, and those the host expects *)

\* A function that takes each number's value from the one before.
Iterated(g, S, b, N, F) ==
  g \in [0..N -> S] /\ g[0] = b /\ \A n \in 1..N : g[n] = F[<<n, g[n - 1]>>]

LEMMA Iterates ==
  ASSUME NEW S, NEW b \in S, NEW N \in Nat, NEW F \in [(1..N) \X S -> S]
  PROVE  \E g : Iterated(g, S, b, N, F)
<1> DEFINE Upto(m) == \E g \in [0..N -> S] : g[0] = b /\ \A n \in 1..N : n <= m => g[n] = F[<<n, g[n - 1]>>]
           T == {m \in Nat : Upto(m)}
<1>1. 0 \in T
  <2> DEFINE g == [n \in 0..N |-> b]
  <2>1. g \in [0..N -> S] /\ g[0] = b /\ \A n \in 1..N : n <= 0 => g[n] = F[<<n, g[n - 1]>>]
    OBVIOUS
  <2> QED BY <2>1
<1>2. ASSUME NEW m \in T PROVE m + 1 \in T
  <2>1. PICK g \in [0..N -> S] : g[0] = b /\ \A n \in 1..N : n <= m => g[n] = F[<<n, g[n - 1]>>]
    OBVIOUS
  <2>2. CASE m + 1 \in 1..N
    <3> DEFINE h == [g EXCEPT ![m + 1] = F[<<m + 1, g[m]>>]]
    <3>1. F[<<m + 1, g[m]>>] \in S
      <4>1. m \in 0..N BY <2>2
      <4>2. g[m] \in S BY <4>1
      <4> QED BY <2>2, <4>2
    <3>2. h \in [0..N -> S] /\ h[0] = b
      <4>1. m \in Nat /\ 0 # m + 1 /\ 0 \in 0..N
        OBVIOUS
      <4> QED BY <2>1, <3>1, <4>1
    <3>3. ASSUME NEW n \in 1..N, n <= m + 1 PROVE h[n] = F[<<n, h[n - 1]>>]
      <4>1. n - 1 \in 0..N /\ n \in 0..N /\ n - 1 # m + 1
        BY <3>3
      <4>2. h[n - 1] = g[n - 1]
        BY <4>1
      <4>3. CASE n = m + 1
        BY <4>1, <4>2, <4>3
      <4>4. CASE n # m + 1
        <5>1. n <= m BY <3>3, <4>4
        <5>2. h[n] = g[n] BY <4>1, <4>4
        <5> QED BY <2>1, <4>2, <5>1, <5>2
      <4> QED BY <4>3, <4>4
    <3> HIDE DEF h
    <3> QED BY <3>2, <3>3
  <2>3. CASE m + 1 \notin 1..N
    <3>1. m \in Nat /\ m + 1 \in Nat /\ \A n \in 1..N : n <= m + 1 => n <= m
      BY <2>3
    <3> QED BY <2>1, <3>1
  <2> QED BY <2>2, <2>3
<1>3. T = Nat
  <2> HIDE DEF T
  <2>1. T \in SUBSET Nat
    BY DEF T
  <2> QED BY <1>1, <1>2, <2>1, AllNumbers
<1>4. PICK g \in [0..N -> S] : g[0] = b /\ \A n \in 1..N : n <= N => g[n] = F[<<n, g[n - 1]>>]
  <2>1. N \in T BY <1>3
  <2> QED BY <2>1
<1>5. Iterated(g, S, b, N, F)
  BY <1>4 DEF Iterated
<1> QED BY <1>5

Hash == [zero : BOOLEAN, frames : Nat]
Total == [reads : Nat, zeros : Nat, hashed : Nat]

LEMMA CountedIs ==
  ASSUME NEW u \in Seq(Hash)
  PROVE  \E g \in [0..Len(u) -> Total] :
           /\ g[0] = [reads |-> 0, zeros |-> 0, hashed |-> 0]
           /\ \A n \in 1..Len(u) : g[n] = AfterUpdate(g[n - 1], u[n])
           /\ Counted(u) = g[Len(u)]
<1> DEFINE N == Len(u)
           b == [reads |-> 0, zeros |-> 0, hashed |-> 0]
           F == [x \in (1..N) \X Total |-> AfterUpdate(x[2], u[x[1]])]
           Pass(f, n) == IF n = 0 THEN b ELSE AfterUpdate(f[n - 1], u[n])
<1>1. N \in Nat /\ b \in Total /\ \A n \in 1..N : u[n] \in Hash
  BY DEF Total
<1>2. ASSUME NEW c \in Total, NEW h \in Hash PROVE AfterUpdate(c, h) \in Total
  BY DEF Total, Hash, AfterUpdate
<1>3. F \in [(1..N) \X Total -> Total]
  BY <1>1, <1>2
<1>i. PICK g : Iterated(g, Total, b, N, F)
  <2>1. N \in Nat /\ b \in Total
    BY <1>1
  <2> HIDE DEF F, b, N
  <2>2. F \in [(1..N) \X Total -> Total]
    BY <1>3
  <2> QED BY <2>1, <2>2, Iterates
<1>4. g \in [0..N -> Total] /\ g[0] = b /\ \A n \in 1..N : g[n] = F[<<n, g[n - 1]>>]
  BY <1>i DEF Iterated
<1>5. ASSUME NEW n \in 1..N PROVE g[n] = AfterUpdate(g[n - 1], u[n])
  <2>1. n - 1 \in 0..N BY <1>1
  <2>2. g[n - 1] \in Total BY <1>4, <2>1
  <2>3. <<n, g[n - 1]>> \in (1..N) \X Total BY <2>2
  <2> QED BY <1>4, <2>3
<1>6. g = [n \in 0..N |-> Pass(g, n)]
  <2>1. \A n \in 0..N : g[n] = Pass(g, n)
    <3>1. ASSUME NEW n \in 0..N PROVE g[n] = Pass(g, n)
      <4>1. CASE n = 0 BY <1>4, <4>1
      <4>2. CASE n # 0
        <5>1. n \in 1..N BY <1>1, <4>2
        <5> QED BY <1>5, <4>2, <5>1
      <4> QED BY <4>1, <4>2
    <3> QED BY <3>1
  <2>2. g = [n \in 0..N |-> g[n]]
    BY <1>4
  <2> HIDE DEF Pass
  <2> QED BY <2>1, <2>2
<1> DEFINE f == CHOOSE f : f = [n \in 0..N |-> Pass(f, n)]
<1>7. f = [n \in 0..N |-> Pass(f, n)]
  BY <1>6
<1>8. Counted(u) = f[N]
  BY DEF Counted
<1>9. \A n \in 0..N : f[n] = Pass(f, n)
  <2> HIDE DEF f, Pass
  <2> QED BY <1>7
<1> HIDE DEF f
<1> DEFINE T == {n \in Nat : n <= N => f[n] = g[n]}
<1>10. T = Nat
  <2>1. 0 \in T
    BY <1>1, <1>4, <1>9
  <2>2. ASSUME NEW n \in T PROVE n + 1 \in T
    <3>1. CASE n + 1 <= N
      <4>1. n + 1 \in 0..N /\ n + 1 \in 1..N /\ n + 1 # 0 /\ n + 1 - 1 = n /\ n <= N
        BY <1>1, <3>1
      <4>2. f[n + 1] = AfterUpdate(f[n], u[n + 1])
        BY <1>9, <4>1
      <4>3. g[n + 1] = AfterUpdate(g[n], u[n + 1])
        BY <1>5, <4>1
      <4> QED BY <4>1, <4>2, <4>3
    <3> QED BY <1>1, <3>1
  <2>3. T \in SUBSET Nat
    OBVIOUS
  <2> HIDE DEF T
  <2> QED BY <2>1, <2>2, <2>3, AllNumbers
<1>11. f[N] = g[N]
  <2>1. N \in T BY <1>1, <1>10
  <2> QED BY <1>1, <2>1
<1> QED BY <1>4, <1>5, <1>8, <1>11

Both(c, d) == [reads |-> c.reads + d.reads, zeros |-> c.zeros + d.zeros, hashed |-> c.hashed + d.hashed]

\* The updates of two parts of an index count for themselves.
LEMMA CountedTogether ==
  ASSUME NEW u \in Seq(Hash), NEW v \in Seq(Hash)
  PROVE  /\ u \o v \in Seq(Hash) /\ Counted(u) \in Total /\ Counted(v) \in Total
         /\ Counted(u \o v) = Both(Counted(u), Counted(v))
<1> DEFINE w == u \o v
           m == Len(u)
           n == Len(v)
<1>1. /\ w \in Seq(Hash) /\ Len(w) = m + n /\ m \in Nat /\ n \in Nat
      /\ \A k \in 1..m : w[k] = u[k] /\ u[k] \in Hash
      /\ \A k \in 1..n : w[m + k] = v[k] /\ v[k] \in Hash
  <2>1. w \in Seq(Hash) /\ Len(w) = m + n /\ m \in Nat /\ n \in Nat
    OBVIOUS
  <2>2. \A k \in 1..m : w[k] = u[k] /\ u[k] \in Hash
    OBVIOUS
  <2>3. ASSUME NEW k \in 1..n PROVE w[m + k] = v[k] /\ v[k] \in Hash
    <3>1. m + k \in 1..(m + n) /\ ~(m + k <= m) /\ m + k - m = k
      OBVIOUS
    <3> QED BY <3>1
  <2> QED BY <2>1, <2>2, <2>3
<1>2. PICK g \in [0..m -> Total] :
        /\ g[0] = [reads |-> 0, zeros |-> 0, hashed |-> 0]
        /\ \A k \in 1..m : g[k] = AfterUpdate(g[k - 1], u[k])
        /\ Counted(u) = g[m]
  BY CountedIs
<1>3. PICK h \in [0..n -> Total] :
        /\ h[0] = [reads |-> 0, zeros |-> 0, hashed |-> 0]
        /\ \A k \in 1..n : h[k] = AfterUpdate(h[k - 1], v[k])
        /\ Counted(v) = h[n]
  BY CountedIs
<1>4. PICK f \in [0..Len(w) -> Total] :
        /\ f[0] = [reads |-> 0, zeros |-> 0, hashed |-> 0]
        /\ \A k \in 1..Len(w) : f[k] = AfterUpdate(f[k - 1], w[k])
        /\ Counted(w) = f[Len(w)]
  <2> HIDE DEF w
  <2> QED BY <1>1, CountedIs
<1> HIDE DEF w, m, n
<1> DEFINE A == {k \in Nat : k <= m => f[k] = g[k]}
           B == {k \in Nat : k <= n => f[m + k] = Both(g[m], h[k])}
<1>5. A = Nat
  <2>1. 0 \in A
    BY <1>2, <1>4
  <2>2. ASSUME NEW k \in A PROVE k + 1 \in A
    <3>1. CASE k + 1 <= m
      <4>1. /\ k + 1 \in 1..m /\ k + 1 \in 1..Len(w) /\ k + 1 - 1 = k /\ k <= m /\ k + 1 \in Nat
        BY <1>1, <3>1
      <4>2. f[k] = g[k]
        BY <4>1
      <4>3. f[k + 1] = AfterUpdate(f[k], w[k + 1])
        BY <1>4, <4>1
      <4>4. g[k + 1] = AfterUpdate(g[k], u[k + 1])
        BY <1>2, <4>1
      <4> QED BY <1>1, <4>1, <4>2, <4>3, <4>4
    <3> QED BY <1>1, <3>1
  <2>3. A \in SUBSET Nat
    OBVIOUS
  <2> HIDE DEF A
  <2> QED BY <2>1, <2>2, <2>3, AllNumbers
<1>6. f[m] = g[m] /\ g[m] \in Total
  <2>1. m \in A
    <3> HIDE DEF A
    <3> QED BY <1>1, <1>5
  <2>2. m \in 0..m
    BY <1>1
  <2> QED BY <1>1, <1>2, <2>1, <2>2
<1>7. B = Nat
  <2>1. 0 \in B
    <3>1. Both(g[m], h[0]) = g[m]
      BY <1>3, <1>6 DEF Both, Total
    <3> QED BY <1>1, <1>6, <3>1
  <2>2. ASSUME NEW k \in B PROVE k + 1 \in B
    <3>1. CASE k + 1 <= n
      <4>1. /\ k + 1 \in 1..n /\ m + (k + 1) \in 1..Len(w) /\ k + 1 - 1 = k /\ k <= n /\ k + 1 \in Nat
            /\ m + (k + 1) - 1 = m + k /\ k \in 0..n
        BY <1>1, <3>1
      <4>2. f[m + k] = Both(g[m], h[k]) /\ h[k] \in Total /\ v[k + 1] \in Hash
        BY <1>1, <1>3, <4>1
      <4>3. f[m + (k + 1)] = AfterUpdate(Both(g[m], h[k]), v[k + 1])
        BY <1>1, <1>4, <4>1, <4>2
      <4>4. h[k + 1] = AfterUpdate(h[k], v[k + 1])
        BY <1>3, <4>1
      <4>5. ASSUME NEW c \in Total, NEW d \in Total, NEW x \in Hash
            PROVE  AfterUpdate(Both(c, d), x) = Both(c, AfterUpdate(d, x))
        BY DEF Both, AfterUpdate, Total, Hash
      <4>6. AfterUpdate(Both(g[m], h[k]), v[k + 1]) = Both(g[m], AfterUpdate(h[k], v[k + 1]))
        BY <1>6, <4>2, <4>5
      <4> QED BY <4>1, <4>3, <4>4, <4>6
    <3> QED BY <1>1, <3>1
  <2>3. B \in SUBSET Nat
    OBVIOUS
  <2> HIDE DEF B
  <2> QED BY <2>1, <2>2, <2>3, AllNumbers
<1>8. f[m + n] = Both(g[m], h[n])
  <2>1. n \in B BY <1>1, <1>7
  <2> QED BY <1>1, <2>1
<1>9. g[m] \in Total /\ h[n] \in Total
  BY <1>1, <1>2, <1>3
<1> QED BY <1>1, <1>2, <1>3, <1>4, <1>8, <1>9 DEF w

\* As many pieces as fit, and the rest in one more.
LEMMA CeilIs ==
  ASSUME NEW n \in Nat, NEW size \in Nat \ {0}
  PROVE  /\ Ceil(n, size) \in Nat /\ n <= Ceil(n, size) * size
         /\ (n = 0 => Ceil(n, size) = 0)
         /\ (n > 0 => Ceil(n, size) > 0 /\ (Ceil(n, size) - 1) * size < n)
<1> DEFINE x == n + size - 1
           q == x \div size
<1>1. x \in Nat /\ q \in Nat /\ q * size <= x /\ x < q * size + size
  OBVIOUS
<1>2. (q - 1) * size = q * size - size
  BY <1>1
<1> HIDE DEF q
<1>3. n <= q * size
  <2>1. q * size \in Nat BY <1>1
  <2> QED BY <1>1, <2>1
<1>4. ASSUME n = 0 PROVE q = 0
  <2>1. q * size < size
    BY <1>1, <1>4
  <2>2. q >= 1 => q * size >= size
    BY <1>1
  <2> QED BY <1>1, <2>1, <2>2
<1>5. ASSUME n > 0 PROVE q > 0 /\ (q - 1) * size < n
  <2>1. q * size - size < n
    BY <1>1
  <2>2. q = 0 => q * size = 0
    BY <1>1
  <2> QED BY <1>1, <1>2, <1>3, <1>5, <2>1, <2>2
<1> QED BY <1>1, <1>3, <1>4, <1>5 DEF q, Ceil

LEMMA MinTwo ==
  ASSUME NEW a \in Nat, NEW b \in Nat
  PROVE  Min({a, b}) = IF a <= b THEN a ELSE b
BY DEF Min

\* The updates of silence, or of an interval that is read, in pieces.
LEMMA PiecesCounted ==
  ASSUME NEW zero \in BOOLEAN, NEW n \in Nat, NEW size \in Nat \ {0}
  PROVE  /\ Pieces(zero, n, size) \in Seq(Hash)
         /\ Counted(Pieces(zero, n, size)) =
              [reads |-> IF zero THEN 0 ELSE Ceil(n, size),
               zeros |-> IF zero THEN Ceil(n, size) ELSE 0, hashed |-> n]
<1> DEFINE p == Pieces(zero, n, size)
           c == Ceil(n, size)
           Left(k) == n - (k - 1) * size
           So(k) == [reads |-> IF zero THEN 0 ELSE k, zeros |-> IF zero THEN k ELSE 0,
                     hashed |-> IF k = c THEN n ELSE k * size]
<1>1. c \in Nat /\ n <= c * size /\ (n = 0 => c = 0) /\ (n > 0 => c > 0 /\ (c - 1) * size < n)
  BY CeilIs
<1>2. Len(p) = c /\ DOMAIN p = 1..c
  BY <1>1 DEF Pieces
<1>3. ASSUME NEW k \in 1..c
      PROVE  /\ p[k] = [zero |-> zero, frames |-> IF k = c THEN Left(k) ELSE size]
             /\ Left(k) \in Nat /\ Left(c) \in Nat
  <2>1. c \in Nat /\ k \in Nat /\ size \in Nat /\ n > 0
    BY <1>1
  <2>2. (k - 1) * size \in Nat /\ (c - 1) * size \in Nat /\ (k - 1) * size <= (c - 1) * size
    <3>1. \A a, b \in Nat : a <= b => a * size \in Nat /\ b * size \in Nat /\ a * size <= b * size
      BY <2>1
    <3>2. k - 1 \in Nat /\ c - 1 \in Nat /\ k - 1 <= c - 1
      BY <2>1
    <3> QED BY <3>1, <3>2
  <2>3. Left(k) \in Nat /\ Left(c) \in Nat
    BY <1>1, <2>1, <2>2
  <2>4. Min({size, Left(k)}) = (IF k = c THEN Left(k) ELSE size)
    <3>1. CASE k = c
      <4>1. n <= c * size /\ c * size = (c - 1) * size + size /\ c * size \in Nat
        BY <1>1, <2>1
      <4>2. Left(k) <= size
        BY <2>1, <2>2, <3>1, <4>1
      <4> HIDE DEF Left
      <4> QED BY <2>1, <2>3, <3>1, <4>2, MinTwo
    <3>2. CASE k # c
      <4>1. k - 1 + 1 <= c - 1
        BY <2>1, <3>2
      <4>2. k * size <= (c - 1) * size /\ k * size = (k - 1) * size + size
        <5>1. \A a, b \in Nat : a <= b => a * size <= b * size
          BY <2>1
        <5>2. k <= c - 1 /\ c - 1 \in Nat
          BY <2>1, <4>1
        <5> QED BY <2>1, <5>1, <5>2
      <4>3. size <= Left(k)
        <5>1. k * size \in Nat
          BY <2>1
        <5>2. (c - 1) * size < n
          BY <1>1, <2>1
        <5>3. k * size < n
          BY <2>1, <2>2, <4>2, <5>1, <5>2
        <5> QED BY <2>1, <2>2, <4>2, <5>1, <5>3
      <4> HIDE DEF Left
      <4> QED BY <2>1, <2>3, <3>2, <4>3, MinTwo
    <3> QED BY <3>1, <3>2
  <2>5. p[k] = [zero |-> zero, frames |-> Min({size, Left(k)})]
    BY DEF Pieces
  <2> HIDE DEF Left, p
  <2> QED BY <2>3, <2>4, <2>5
<1>4. p \in Seq(Hash)
  <2>1. ASSUME NEW k \in 1..c PROVE p[k] \in Hash
    <3>1. p[k] = [zero |-> zero, frames |-> IF k = c THEN Left(k) ELSE size] /\ Left(k) \in Nat
      BY <1>3
    <3>2. (IF k = c THEN Left(k) ELSE size) \in Nat
      BY <3>1
    <3> HIDE DEF p, Left
    <3> QED BY <3>1, <3>2 DEF Hash
  <2>2. p = [k \in 1..c |-> p[k]]
    BY DEF Pieces
  <2> HIDE DEF p
  <2> QED BY <1>1, <2>1, <2>2
<1>5. PICK g \in [0..c -> Total] :
        /\ g[0] = [reads |-> 0, zeros |-> 0, hashed |-> 0]
        /\ \A k \in 1..c : g[k] = AfterUpdate(g[k - 1], p[k])
        /\ Counted(p) = g[c]
  <2> HIDE DEF p
  <2> QED BY <1>2, <1>4, CountedIs
<1> HIDE DEF p
<1> DEFINE T == {k \in Nat : k <= c => g[k] = So(k)}
<1>6. 0 \in T
  <2>1. (IF 0 = c THEN n ELSE 0 * size) = 0
    BY <1>1
  <2> QED BY <1>5, <2>1
<1>7. ASSUME NEW k \in T PROVE k + 1 \in T
  <2>1. CASE k + 1 <= c
    <3>1. k + 1 \in 1..c /\ k + 1 - 1 = k /\ k <= c /\ k # c /\ k \in Nat /\ k + 1 \in Nat
      BY <1>1, <2>1
    <3>2. g[k] = So(k) /\ So(k) = [reads |-> IF zero THEN 0 ELSE k, zeros |-> IF zero THEN k ELSE 0,
                                   hashed |-> k * size]
      BY <3>1
    <3>3. g[k + 1] = AfterUpdate(So(k), p[k + 1])
      BY <1>5, <3>1, <3>2
    <3>4. p[k + 1].zero = zero /\ p[k + 1].frames = (IF k + 1 = c THEN n - k * size ELSE size)
      <4>1. Left(k + 1) = n - k * size
        BY <3>1
      <4>2. p[k + 1] = [zero |-> zero, frames |-> IF k + 1 = c THEN Left(k + 1) ELSE size]
        BY <1>3, <3>1
      <4> HIDE DEF Left
      <4> QED BY <4>1, <4>2
    <3>5. k * size \in Nat /\ (k + 1) * size = k * size + size
      BY <3>1
    <3>6. k * size + p[k + 1].frames = (IF k + 1 = c THEN n ELSE (k + 1) * size)
      BY <3>4, <3>5
    <3>7. AfterUpdate(So(k), p[k + 1]) =
            [reads |-> (IF zero THEN 0 ELSE k) + (IF zero THEN 0 ELSE 1),
             zeros |-> (IF zero THEN k ELSE 0) + (IF zero THEN 1 ELSE 0),
             hashed |-> k * size + p[k + 1].frames]
      BY <3>2, <3>4 DEF AfterUpdate
    <3>8. /\ (IF zero THEN 0 ELSE k) + (IF zero THEN 0 ELSE 1) = (IF zero THEN 0 ELSE k + 1)
          /\ (IF zero THEN k ELSE 0) + (IF zero THEN 1 ELSE 0) = (IF zero THEN k + 1 ELSE 0)
      BY <3>1
    <3>9. g[k + 1] = So(k + 1)
      BY <3>3, <3>6, <3>7, <3>8
    <3> HIDE DEF So
    <3> QED BY <3>1, <3>9
  <2>2. CASE ~(k + 1 <= c)
    BY <2>2
  <2> QED BY <2>1, <2>2
<1>8. c \in T
  <2>1. T \in SUBSET Nat
    OBVIOUS
  <2> HIDE DEF T
  <2>2. T = Nat
    BY <1>6, <1>7, <2>1, AllNumbers
  <2> QED BY <1>1, <2>2
<1>9. g[c] = So(c)
  BY <1>1, <1>8
<1> QED BY <1>4, <1>5, <1>9 DEF p

LEMMA FlatIs ==
  ASSUME NEW S, NEW s \in Seq(Seq(S)), s # <<>>
  PROVE  \E h \in [0..Len(s) -> Seq(S)] :
           /\ h[0] = <<>> /\ \A n \in 1..Len(s) : h[n] = h[n - 1] \o s[n]
           /\ FlattenSeq(s) = h[Len(s)]
<1> DEFINE N == Len(s)
           F == [x \in (1..N) \X Seq(S) |-> x[2] \o s[x[1]]]
           Pass(f, n) == IF n = 1 THEN s[n] ELSE f[n - 1] \o s[n]
<1>1. N \in Nat /\ N # 0 /\ 1 \in 1..N /\ <<>> \in Seq(S) /\ \A n \in 1..N : s[n] \in Seq(S)
  <2>1. N \in Nat /\ N # 0 /\ <<>> \in Seq(S) /\ \A n \in 1..N : s[n] \in Seq(S)
    OBVIOUS
  <2> QED BY <2>1
<1>2. F \in [(1..N) \X Seq(S) -> Seq(S)]
  <2>1. ASSUME NEW c \in Seq(S), NEW n \in 1..N PROVE c \o s[n] \in Seq(S)
    <3>1. s[n] \in Seq(S) BY <1>1
    <3> QED BY <3>1
  <2> QED BY <2>1
<1>i. PICK h : Iterated(h, Seq(S), <<>>, N, F)
  <2>1. N \in Nat /\ <<>> \in Seq(S)
    BY <1>1
  <2> HIDE DEF F, N
  <2>2. F \in [(1..N) \X Seq(S) -> Seq(S)]
    BY <1>2
  <2> QED BY <2>1, <2>2, Iterates
<1>3. h \in [0..N -> Seq(S)] /\ h[0] = <<>> /\ \A n \in 1..N : h[n] = F[<<n, h[n - 1]>>]
  BY <1>i DEF Iterated
<1>4. ASSUME NEW n \in 1..N PROVE h[n] = h[n - 1] \o s[n]
  <2>1. n - 1 \in 0..N BY <1>1
  <2>2. h[n - 1] \in Seq(S) BY <1>3, <2>1
  <2>3. <<n, h[n - 1]>> \in (1..N) \X Seq(S) BY <2>2
  <2> QED BY <1>3, <2>3
<1>5. h[1] = s[1]
  <2>1. h[1] = h[0] \o s[1]
    <3>1. 1 - 1 = 0 OBVIOUS
    <3> QED BY <1>1, <1>4, <3>1
  <2>2. s[1] \in Seq(S) BY <1>1
  <2>3. <<>> \o s[1] = s[1] BY <2>2
  <2> QED BY <1>3, <2>1, <2>3
<1> DEFINE g == [n \in 1..N |-> h[n]]
<1>6. g = [n \in 1..N |-> Pass(g, n)]
  <2>1. ASSUME NEW n \in 1..N PROVE h[n] = Pass(g, n)
    <3>1. CASE n = 1
      BY <1>5, <3>1
    <3>2. CASE n # 1
      <4>1. n - 1 \in 1..N BY <1>1, <3>2
      <4>2. g[n - 1] = h[n - 1] BY <4>1
      <4> QED BY <1>4, <3>2, <4>2
    <3> QED BY <3>1, <3>2
  <2> HIDE DEF Pass
  <2>2. [n \in 1..N |-> h[n]] = [n \in 1..N |-> Pass(g, n)]
    BY <2>1
  <2> QED BY <2>2
<1> DEFINE f == CHOOSE f : f = [n \in 1..N |-> Pass(f, n)]
<1>7. f = [n \in 1..N |-> Pass(f, n)]
  <2> HIDE DEF g, Pass
  <2> QED BY <1>6
<1>8. FlattenSeq(s) = f[N]
  BY <1>1 DEF FlattenSeq
<1>9. \A n \in 1..N : f[n] = Pass(f, n)
  <2> HIDE DEF f, Pass
  <2> QED BY <1>7
<1> HIDE DEF f
<1> DEFINE T == {n \in Nat : \A j \in 1..N : j <= n => f[j] = h[j]}
<1>10. T = Nat
  <2>1. 0 \in T
    BY <1>1
  <2>2. ASSUME NEW n \in T PROVE n + 1 \in T
    <3>1. ASSUME NEW j \in 1..N, j <= n + 1 PROVE f[j] = h[j]
      <4>1. CASE j = 1
        BY <1>5, <1>9, <4>1
      <4>2. CASE j # 1
        <5>1. j - 1 \in 1..N /\ j - 1 <= n
          BY <1>1, <3>1, <4>2
        <5>2. f[j - 1] = h[j - 1]
          BY <5>1
        <5> QED BY <1>4, <1>9, <4>2, <5>2
      <4> QED BY <4>1, <4>2
    <3> HIDE DEF Pass
    <3> QED BY <3>1
  <2>3. T \in SUBSET Nat
    OBVIOUS
  <2> HIDE DEF T
  <2> QED BY <2>1, <2>2, <2>3, AllNumbers
<1>11. f[N] = h[N]
  <2>1. N \in T
    <3> HIDE DEF T
    <3> QED BY <1>1, <1>10
  <2>2. N \in 1..N
    BY <1>1
  <2> QED BY <2>1, <2>2
<1> QED BY <1>3, <1>4, <1>8, <1>11

\* What the host has added up at an interval.
Sums == [reads : Int, zeros : Int, end : Int]

LEMMA ExpectedIs ==
  ASSUME NEW i \in Seq(Interval)
  PROVE  \E g \in [0..Len(i) -> Sums] :
           /\ g[0] = [reads |-> 0, zeros |-> 0, end |-> 0]
           /\ \A n \in 1..Len(i) :
                g[n] = [reads |-> g[n - 1].reads + Ceil(i[n].frames, ReadFrames),
                        zeros |-> g[n - 1].zeros + Ceil(i[n].start - g[n - 1].end, ZeroFrames),
                        end |-> End(i[n])]
           /\ ExpectedCounts(i) =
                [reads |-> g[Len(i)].reads,
                 zeros |-> g[Len(i)].zeros + Ceil(Frames - g[Len(i)].end, ZeroFrames), hashed |-> Frames]
<1> DEFINE N == Len(i)
           b == [reads |-> 0, zeros |-> 0, end |-> 0]
           Add(c, x) == [reads |-> c.reads + Ceil(x.frames, ReadFrames),
                         zeros |-> c.zeros + Ceil(x.start - c.end, ZeroFrames), end |-> End(x)]
           F == [x \in (1..N) \X Sums |-> Add(x[2], i[x[1]])]
           Pass(f, n) == IF n = 0 THEN b ELSE Add(f[n - 1], i[n])
<1>1. N \in Nat /\ b \in Sums /\ \A n \in 1..N : i[n] \in Interval
  BY DEF Sums
<1>2. ASSUME NEW c \in Sums, NEW x \in Interval PROVE Add(c, x) \in Sums
  <2>1. ReadFrames \in Nat \ {0} /\ ZeroFrames \in Nat \ {0} /\ Frames \in Nat
    BY VerifyAssumption, PcmAssumption
  <2>2. c.reads \in Int /\ c.zeros \in Int /\ c.end \in Int
    BY DEF Sums
  <2>3. x.frames \in Nat /\ x.start \in Nat /\ End(x) \in Int
    BY <2>1 DEF Interval, Frame, End
  <2>4. \A m \in Int : \A z \in Nat \ {0} : Ceil(m, z) \in Int
    BY DEF Ceil
  <2>d. x.start - c.end \in Int
    BY <2>2, <2>3
  <2>5. Ceil(x.frames, ReadFrames) \in Int /\ Ceil(x.start - c.end, ZeroFrames) \in Int
    <3>1. x.frames \in Int
      BY <2>3
    <3>2. Ceil(x.frames, ReadFrames) \in Int
      BY <2>1, <2>4, <3>1
    <3>3. Ceil(x.start - c.end, ZeroFrames) \in Int
      BY <2>1, <2>4, <2>d
    <3> QED BY <3>2, <3>3
  <2> QED BY <2>2, <2>3, <2>5 DEF Sums
<1>3. F \in [(1..N) \X Sums -> Sums]
  <2> HIDE DEF Add
  <2> QED BY <1>1, <1>2
<1>i. PICK g : Iterated(g, Sums, b, N, F)
  <2>1. N \in Nat /\ b \in Sums
    BY <1>1
  <2> HIDE DEF F, b, N
  <2>2. F \in [(1..N) \X Sums -> Sums]
    BY <1>3
  <2> QED BY <2>1, <2>2, Iterates
<1>4. g \in [0..N -> Sums] /\ g[0] = b /\ \A n \in 1..N : g[n] = F[<<n, g[n - 1]>>]
  BY <1>i DEF Iterated
<1>5. ASSUME NEW n \in 1..N PROVE g[n] = Add(g[n - 1], i[n])
  <2>1. n - 1 \in 0..N BY <1>1
  <2>2. g[n - 1] \in Sums BY <1>4, <2>1
  <2>3. <<n, g[n - 1]>> \in (1..N) \X Sums BY <2>2
  <2> HIDE DEF Add
  <2> QED BY <1>4, <2>3
<1>6. g = [n \in 0..N |-> Pass(g, n)]
  <2>1. ASSUME NEW n \in 0..N PROVE g[n] = Pass(g, n)
    <3> HIDE DEF Add, b
    <3>1. CASE n = 0 BY <1>4, <3>1
    <3>2. CASE n # 0
      <4>1. n \in 1..N BY <1>1, <3>2
      <4> QED BY <1>5, <3>2, <4>1
    <3> QED BY <3>1, <3>2
  <2>2. g = [n \in 0..N |-> g[n]]
    BY <1>4
  <2> HIDE DEF Pass
  <2> QED BY <2>1, <2>2
<1> DEFINE f == CHOOSE f : f = [n \in 0..N |-> Pass(f, n)]
<1>7. f = [n \in 0..N |-> Pass(f, n)]
  <2> HIDE DEF Pass
  <2> QED BY <1>6
<1>8. ExpectedCounts(i) =
        [reads |-> f[N].reads, zeros |-> f[N].zeros + Ceil(Frames - f[N].end, ZeroFrames), hashed |-> Frames]
  BY DEF ExpectedCounts
<1>9. \A n \in 0..N : f[n] = Pass(f, n)
  <2> HIDE DEF f, Pass
  <2> QED BY <1>7
<1> HIDE DEF f
<1> DEFINE T == {n \in Nat : n <= N => f[n] = g[n]}
<1>10. T = Nat
  <2>1. 0 \in T
    <3>1. f[0] = g[0]
      <4>1. 0 \in 0..N BY <1>1
      <4> HIDE DEF Add, b
      <4>2. f[0] = b BY <1>9, <4>1
      <4> QED BY <1>4, <4>2
    <3> QED BY <3>1
  <2>2. ASSUME NEW n \in T PROVE n + 1 \in T
    <3> HIDE DEF Add
    <3>1. CASE n + 1 <= N
      <4>1. n + 1 \in 0..N /\ n + 1 \in 1..N /\ n + 1 # 0 /\ n + 1 - 1 = n /\ n <= N
        BY <1>1, <3>1
      <4>2. f[n + 1] = Add(f[n], i[n + 1])
        BY <1>9, <4>1
      <4>3. g[n + 1] = Add(g[n], i[n + 1])
        BY <1>5, <4>1
      <4> QED BY <4>1, <4>2, <4>3
    <3> QED BY <1>1, <3>1
  <2>3. T \in SUBSET Nat
    OBVIOUS
  <2> HIDE DEF T
  <2> QED BY <2>1, <2>2, <2>3, AllNumbers
<1>11. f[N] = g[N]
  <2>1. N \in T
    <3> HIDE DEF T
    <3> QED BY <1>1, <1>10
  <2> QED BY <1>1, <2>1
<1> QED BY <1>4, <1>5, <1>8, <1>11

Apart(i) ==
  i \in Seq(Interval) /\ \A k \in 1..Len(i) : End(i[k]) <= Frames /\ (k > 1 => End(i[k - 1]) < i[k].start)

\* What a Worker hashes of a valid index is what the host expects: each interval
\* and the silence before it add the pieces that the host counts for it, and
\* in the end every frame is hashed.
LEMMA UpdatesCounted ==
  ASSUME NEW i, Apart(i)
  PROVE  Updates(i) \in Seq(Hash) /\ Counted(Updates(i)) = ExpectedCounts(i)
<1> DEFINE N == Len(i)
           before(k) == IF k = 1 THEN 0 ELSE End(i[k - 1])
           silence(k) == (IF k > N THEN Frames ELSE i[k].start) - before(k)
           part(k) == Pieces(TRUE, silence(k), ZeroFrames)
                        \o (IF k > N THEN <<>> ELSE Pieces(FALSE, i[k].frames, ReadFrames))
           s == [k \in 1..(N + 1) |-> part(k)]
           none == [reads |-> 0, zeros |-> 0, hashed |-> 0]
<1>1. /\ N \in Nat /\ Frames \in Nat /\ ReadFrames \in Nat \ {0} /\ ZeroFrames \in Nat \ {0}
      /\ i \in Seq(Interval)
  BY PcmAssumption, VerifyAssumption DEF Apart
<1>2. ASSUME NEW k \in 1..N
      PROVE  /\ i[k].start \in Nat /\ i[k].frames \in Nat /\ End(i[k]) \in Nat
             /\ End(i[k]) = i[k].start + i[k].frames /\ End(i[k]) <= Frames
  <2>1. i[k] \in Interval BY <1>1
  <2> QED BY <1>1, <2>1 DEF Apart, Interval, Frame, End
<1>3. ASSUME NEW k \in 1..(N + 1) PROVE before(k) \in Nat /\ silence(k) \in Nat
  <2>1. CASE k = 1
    <3>1. before(k) = 0 BY <2>1
    <3>2. CASE k > N
      BY <1>1, <3>1, <3>2
    <3>3. CASE k <= N
      <4>1. i[k].start \in Nat BY <1>2, <3>3
      <4> QED BY <1>1, <3>1, <3>3, <4>1
    <3> QED BY <1>1, <3>2, <3>3
  <2>2. CASE k # 1
    <3>1. k - 1 \in 1..N /\ before(k) = End(i[k - 1])
      BY <1>1, <2>2
    <3>2. End(i[k - 1]) \in Nat /\ End(i[k - 1]) <= Frames
      BY <1>2, <3>1
    <3>3. CASE k > N
      BY <1>1, <3>1, <3>2, <3>3
    <3>4. CASE k <= N
      <4>1. k \in 1..N /\ k > 1 BY <1>1, <2>2, <3>4
      <4>2. End(i[k - 1]) < i[k].start /\ i[k].start \in Nat
        BY <1>2, <4>1 DEF Apart
      <4> QED BY <1>1, <3>1, <3>2, <3>4, <4>2
    <3> QED BY <1>1, <3>3, <3>4
  <2> QED BY <2>1, <2>2
<1>4. Counted(<<>>) = none /\ <<>> \in Seq(Hash) /\ none \in Total
  <2>1. <<>> \in Seq(Hash) /\ Len(<<>>) = 0
    OBVIOUS
  <2>2. PICK g \in [0..Len(<<>>) -> Total] : g[0] = none /\ Counted(<<>>) = g[Len(<<>>)]
    BY <2>1, CountedIs
  <2> QED BY <2>1, <2>2 DEF Total
<1> HIDE DEF none, silence
<1>5. ASSUME NEW k \in 1..(N + 1)
      PROVE  /\ s[k] \in Seq(Hash)
             /\ k <= N => Counted(s[k]) = [reads |-> Ceil(i[k].frames, ReadFrames),
                                           zeros |-> Ceil(silence(k), ZeroFrames),
                                           hashed |-> silence(k) + i[k].frames]
             /\ k > N => Counted(s[k]) = [reads |-> 0, zeros |-> Ceil(silence(k), ZeroFrames),
                                          hashed |-> silence(k)]
  <2> DEFINE u == Pieces(TRUE, silence(k), ZeroFrames)
             v == IF k > N THEN <<>> ELSE Pieces(FALSE, i[k].frames, ReadFrames)
  <2>1. /\ u \in Seq(Hash)
        /\ Counted(u) = [reads |-> 0, zeros |-> Ceil(silence(k), ZeroFrames), hashed |-> silence(k)]
    <3>1. silence(k) \in Nat BY <1>3
    <3> QED BY <1>1, <3>1, PiecesCounted
  <2>2. /\ v \in Seq(Hash)
        /\ Counted(v) = IF k > N THEN none
                        ELSE [reads |-> Ceil(i[k].frames, ReadFrames), zeros |-> 0, hashed |-> i[k].frames]
    <3>1. CASE k > N
      BY <1>4, <3>1
    <3>2. CASE k <= N
      <4>1. k \in 1..N /\ i[k].frames \in Nat BY <1>1, <1>2, <3>2
      <4>2. ~(k > N)
        BY <1>1, <4>1
      <4>3. /\ Pieces(FALSE, i[k].frames, ReadFrames) \in Seq(Hash)
            /\ Counted(Pieces(FALSE, i[k].frames, ReadFrames)) =
                 [reads |-> Ceil(i[k].frames, ReadFrames), zeros |-> 0, hashed |-> i[k].frames]
        BY <1>1, <4>1, PiecesCounted
      <4> QED BY <4>2, <4>3
    <3>3. k > N \/ k <= N
      BY <1>1
    <3> HIDE DEF v
    <3> QED BY <3>1, <3>2, <3>3
  <2>3. s[k] = u \o v
    OBVIOUS
  <2> HIDE DEF u, v, s, part
  <2>4. s[k] \in Seq(Hash) /\ Counted(s[k]) = Both(Counted(u), Counted(v))
    BY <2>1, <2>2, <2>3, CountedTogether
  <2>5. /\ Ceil(silence(k), ZeroFrames) \in Nat /\ silence(k) \in Nat
        /\ k <= N => i[k].frames \in Nat /\ Ceil(i[k].frames, ReadFrames) \in Nat
    <3>1. silence(k) \in Nat BY <1>3
    <3>2. k <= N => k \in 1..N BY <1>1
    <3> QED BY <1>1, <1>2, <3>1, <3>2, CeilIs
  <2>6. CASE k <= N
    <3>1. /\ Both(Counted(u), Counted(v)).reads = Ceil(i[k].frames, ReadFrames)
          /\ Both(Counted(u), Counted(v)) =
               [reads |-> 0 + Ceil(i[k].frames, ReadFrames), zeros |-> Ceil(silence(k), ZeroFrames) + 0,
                hashed |-> silence(k) + i[k].frames]
      BY <1>1, <2>1, <2>2, <2>5, <2>6 DEF Both
    <3> QED BY <1>1, <2>4, <2>5, <2>6, <3>1
  <2>7. CASE k > N
    <3>1. Both(Counted(u), Counted(v)) =
            [reads |-> 0 + 0, zeros |-> Ceil(silence(k), ZeroFrames) + 0, hashed |-> silence(k) + 0]
      BY <1>1, <2>1, <2>2, <2>7 DEF Both, none
    <3> QED BY <1>1, <2>4, <2>5, <2>7, <3>1
  <2> QED BY <1>1, <2>4, <2>6, <2>7
<1>6. s \in Seq(Seq(Hash)) /\ s # <<>> /\ Len(s) = N + 1
  <2> HIDE DEF part
  <2>1. N + 1 \in Nat /\ N + 1 # 0
    BY <1>1
  <2>2. Len(s) = N + 1
    BY <1>1
  <2>3. \A k \in 1..(N + 1) : part(k) \in Seq(Hash)
    BY <1>5
  <2>4. s \in Seq(Seq(Hash))
    BY <2>1, <2>3
  <2> HIDE DEF s
  <2> QED BY <2>1, <2>2, <2>4
<1>7. Updates(i) = FlattenSeq(s)
  BY DEF Updates, silence
<1> HIDE DEF s
<1>8. PICK h \in [0..(N + 1) -> Seq(Hash)] :
        /\ h[0] = <<>> /\ \A n \in 1..(N + 1) : h[n] = h[n - 1] \o s[n]
        /\ Updates(i) = h[N + 1]
  BY <1>6, <1>7, FlatIs
<1>9. PICK g \in [0..N -> Sums] :
        /\ g[0] = [reads |-> 0, zeros |-> 0, end |-> 0]
        /\ \A n \in 1..N :
             g[n] = [reads |-> g[n - 1].reads + Ceil(i[n].frames, ReadFrames),
                     zeros |-> g[n - 1].zeros + Ceil(i[n].start - g[n - 1].end, ZeroFrames),
                     end |-> End(i[n])]
        /\ ExpectedCounts(i) =
             [reads |-> g[N].reads,
              zeros |-> g[N].zeros + Ceil(Frames - g[N].end, ZeroFrames), hashed |-> Frames]
  BY <1>1, ExpectedIs
<1> DEFINE So(n) == /\ g[n].end = before(n + 1)
                    /\ Counted(h[n]) = [reads |-> g[n].reads, zeros |-> g[n].zeros, hashed |-> g[n].end]
           T == {n \in Nat : n <= N => So(n)}
<1>10. ASSUME NEW n \in 0..N
       PROVE  /\ h[n + 1] \in Seq(Hash) /\ Counted(h[n]) \in Total
              /\ Counted(h[n + 1]) = Both(Counted(h[n]), Counted(s[n + 1]))
  <2>1. n + 1 \in 1..(N + 1) /\ n + 1 - 1 = n /\ n \in 0..(N + 1) /\ n + 1 \in 0..(N + 1)
    BY <1>1
  <2>2. h[n] \in Seq(Hash) /\ h[n + 1] \in Seq(Hash) /\ s[n + 1] \in Seq(Hash)
    BY <1>5, <2>1
  <2>3. h[n + 1] = h[n] \o s[n + 1]
    <3>1. PICK m \in 1..(N + 1) : m = n + 1
      BY <2>1
    <3>2. h[m] = h[m - 1] \o s[m]
      BY <1>8
    <3>3. m - 1 = n
      BY <2>1, <3>1
    <3> QED BY <3>1, <3>2, <3>3
  <2> QED BY <2>2, <2>3, CountedTogether
<1>11. 0 \in T
  <2>1. before(0 + 1) = 0
    OBVIOUS
  <2> HIDE DEF before
  <2>2. Counted(h[0]) = [reads |-> 0, zeros |-> 0, hashed |-> 0]
    BY <1>4, <1>8 DEF none
  <2> QED BY <1>9, <2>1, <2>2
<1>12. ASSUME NEW n \in T PROVE n + 1 \in T
  <2>1. CASE n + 1 <= N
    <3>1. n + 1 \in 1..N /\ n + 1 - 1 = n /\ n \in 0..N /\ n + 1 + 1 - 1 = n + 1 /\ n + 1 + 1 # 1 /\ n <= N
      BY <1>1, <2>1
    <3>2. n + 1 \in 1..(N + 1) /\ ~(n + 1 > N)
      BY <1>1, <3>1
    <3>3. So(n)
      BY <3>1
    <3>4. silence(n + 1) = i[n + 1].start - g[n].end
      BY <3>2, <3>3 DEF silence
    <3>5. g[n + 1] = [reads |-> g[n].reads + Ceil(i[n + 1].frames, ReadFrames),
                      zeros |-> g[n].zeros + Ceil(silence(n + 1), ZeroFrames), end |-> End(i[n + 1])]
      <4> HIDE DEF So, before
      <4> QED BY <1>9, <3>1, <3>4
    <3>6. before(n + 1 + 1) = End(i[n + 1])
      BY <3>1
    <3>7. Counted(s[n + 1]) = [reads |-> Ceil(i[n + 1].frames, ReadFrames),
                               zeros |-> Ceil(silence(n + 1), ZeroFrames),
                               hashed |-> silence(n + 1) + i[n + 1].frames]
      BY <1>5, <2>1, <3>2
    <3>8. Counted(h[n + 1]) = [reads |-> g[n].reads + Ceil(i[n + 1].frames, ReadFrames),
                               zeros |-> g[n].zeros + Ceil(silence(n + 1), ZeroFrames),
                               hashed |-> g[n].end + (silence(n + 1) + i[n + 1].frames)]
      <4>1. Counted(h[n + 1]) = Both(Counted(h[n]), Counted(s[n + 1]))
        BY <1>10, <3>1
      <4>2. Counted(h[n]) = [reads |-> g[n].reads, zeros |-> g[n].zeros, hashed |-> g[n].end]
        BY <3>3
      <4> HIDE DEF before, So
      <4> QED BY <3>7, <4>1, <4>2 DEF Both
    <3>9. g[n].end + (silence(n + 1) + i[n + 1].frames) = End(i[n + 1])
      <4>1. g[n].end \in Int
        BY <3>1 DEF Sums
      <4>2. /\ i[n + 1].start \in Nat /\ i[n + 1].frames \in Nat
            /\ End(i[n + 1]) = i[n + 1].start + i[n + 1].frames
        BY <1>2, <3>1
      <4> HIDE DEF So, before
      <4> QED BY <3>4, <4>1, <4>2
    <3>10. So(n + 1)
      <4> HIDE DEF before
      <4> QED BY <3>5, <3>6, <3>8, <3>9
    <3> HIDE DEF So
    <3> QED BY <3>1, <3>10
  <2>2. CASE ~(n + 1 <= N)
    BY <2>2
  <2> QED BY <2>1, <2>2
<1>13. So(N)
  <2>1. T \in SUBSET Nat
    OBVIOUS
  <2>2. T = Nat
    <3> HIDE DEF T
    <3> QED BY <1>11, <1>12, <2>1, AllNumbers
  <2>3. N \in T
    <3> HIDE DEF T
    <3> QED BY <1>1, <2>2
  <2> HIDE DEF So
  <2> QED BY <1>1, <2>3
<1>14. N \in 0..N /\ N + 1 \in 1..(N + 1) /\ N + 1 > N
  BY <1>1
<1>15. silence(N + 1) = Frames - g[N].end
  BY <1>13, <1>14 DEF silence
<1>16. Counted(s[N + 1]) = [reads |-> 0, zeros |-> Ceil(silence(N + 1), ZeroFrames), hashed |-> silence(N + 1)]
  <2> HIDE DEF before
  <2> QED BY <1>5, <1>14
<1>17. g[N].reads \in Int /\ g[N].zeros \in Int /\ g[N].end \in Int
  BY <1>14 DEF Sums
<1>18. Counted(h[N + 1]) = [reads |-> g[N].reads + 0, zeros |-> g[N].zeros + Ceil(silence(N + 1), ZeroFrames),
                            hashed |-> g[N].end + silence(N + 1)]
  <2> HIDE DEF before
  <2> QED BY <1>10, <1>13, <1>14, <1>16 DEF Both
<1>19. g[N].reads + 0 = g[N].reads /\ g[N].end + silence(N + 1) = Frames
  <2> HIDE DEF before, So
  <2> QED BY <1>1, <1>15, <1>17
<1>20. h[N + 1] \in Seq(Hash)
  <2> HIDE DEF before, So
  <2> QED BY <1>10, <1>14
<1> HIDE DEF before, So
<1> QED BY <1>8, <1>9, <1>15, <1>18, <1>19, <1>20

\* sparseVerifyExpectedCounts: of a valid index a Worker counts as many reads and
\* updates as the host expects of it, and hashes every frame, whatever the sizes
\* of its pieces.
THEOREM CountsAlwaysAgree == ASSUME IndexesValid PROVE CountsAgree
<1>1. ASSUME NEW s \in Sources PROVE Len(Work[s]) \in Nat /\ Counts(s) = Expected[s]
  <2>1. Index(s) \in Seq(Interval) /\ ValidIndex(Index(s), Cardinality(Active[s]))
    BY DEF IndexesValid
  <2>2. ASSUME NEW k \in 1..Len(Index(s))
        PROVE  End(Index(s)[k]) <= Frames /\ (k > 1 => End(Index(s)[k - 1]) < Index(s)[k].start)
    <3>1. k \in DOMAIN Index(s) /\ Index(s)[k] \in Interval
      BY <2>1
    <3>2. End(Index(s)[k]) <= Frames /\ (k > 1 => Index(s)[k].start > End(Index(s)[k - 1]))
      BY <2>1, <3>1 DEF ValidIndex
    <3> QED BY <3>2
  <2>3. Apart(Index(s))
    BY <2>1, <2>2 DEF Apart
  <2>4. Updates(Index(s)) \in Seq(Hash) /\ Counted(Updates(Index(s))) = ExpectedCounts(Index(s))
    BY <2>3, UpdatesCounted
  <2>5. Work[s] = Updates(Index(s)) /\ Expected[s] = ExpectedCounts(Index(s))
    BY DEF Work, Expected
  <2> QED BY <2>4, <2>5 DEF Counts
<1> QED BY <1>1 DEF CountsAgree

-----------------------------------------------------------------------------
(* What the operators of the pool change *)

LEMMA NoWorkerShape ==
  /\ NoWorker \in Slot /\ SlotShape(NoWorker) /\ JobFree(NoWorker)
  /\ ~NoWorker.there /\ ~NoWorker.alive /\ NoWorker.pending = NoSource /\ NoWorker.generation = 0
  /\ NoWorker.toHost = <<>> /\ NoWorker.toWorker = <<>>
<1>1. <<>> \in Seq(HostMessage) /\ <<>> \in Seq(WorkerMessage) /\ Len(<<>>) = 0
  OBVIOUS
<1> QED BY <1>1 DEF NoWorker, Slot, SlotShape, JobFree

LEMMA PoolFields ==
  ASSUME NEW P \in PoolState
  PROVE  /\ P.open \in BOOLEAN /\ P.broken \in BOOLEAN /\ P.queue \in Seq(Sources)
         /\ P.outcome \in [Sources -> Outcome] /\ P.worker \in [Realm -> Slot] /\ P.faults \in 0..Faults
BY DEF PoolState

LEMMA SlotFields ==
  ASSUME NEW v \in Slot
  PROVE  /\ v.there \in BOOLEAN /\ v.alive \in BOOLEAN /\ v.hung \in BOOLEAN /\ v.awaiting \in BOOLEAN
         /\ v.pending \in Sources \cup {NoSource} /\ v.job \in Sources \cup {NoSource}
         /\ v.generation \in Nat /\ v.last \in Nat /\ v.of \in Nat /\ v.updates \in Nat /\ v.sent \in Nat
         /\ v.toHost \in Seq(HostMessage) /\ v.toWorker \in Seq(WorkerMessage)
BY DEF Slot

LEMMA SettledIs ==
  ASSUME NEW P \in PoolState, NEW jobs, NEW o \in Outcome
  PROVE  LET T == Settled(P, jobs, o)
         IN /\ T \in PoolState /\ T.open = P.open /\ T.broken = P.broken /\ T.queue = P.queue
            /\ T.worker = P.worker /\ T.faults = P.faults
            /\ \A s \in Sources : T.outcome[s] =
                 IF s \in jobs /\ P.outcome[s] = "pending" THEN o ELSE P.outcome[s]
<1> DEFINE f == [s \in Sources |-> IF s \in jobs /\ P.outcome[s] = "pending" THEN o ELSE P.outcome[s]]
<1>1. f \in [Sources -> Outcome]
  BY PoolFields
<1>2. Settled(P, jobs, o) = [P EXCEPT !.outcome = f]
  BY DEF Settled
<1> HIDE DEF f
<1>3. LET T == [P EXCEPT !.outcome = f]
      IN /\ T \in PoolState /\ T.open = P.open /\ T.broken = P.broken /\ T.queue = P.queue
         /\ T.worker = P.worker /\ T.faults = P.faults /\ T.outcome = f
  BY <1>1 DEF PoolState
<1> QED BY <1>2, <1>3 DEF f

LEMMA TerminatedIs ==
  ASSUME NEW P \in PoolState, NEW A \in SUBSET Realm, NEW throw \in Throws(P, A)
  PROVE  LET T == Terminated(P, A, throw)
         IN /\ T \in PoolState /\ T.queue = P.queue /\ T.outcome = P.outcome
            /\ T.open = (P.open /\ throw = {}) /\ T.broken = (P.broken \/ throw # {})
            /\ \A w \in Realm : T.worker[w] =
                 IF w \in throw THEN [P.worker[w] EXCEPT !.pending = NoSource]
                 ELSE IF w \in A THEN NoWorker ELSE P.worker[w]
<1> DEFINE f == [w \in Realm |-> CASE w \in throw -> [P.worker[w] EXCEPT !.pending = NoSource]
                                   [] w \in A \ throw -> NoWorker
                                   [] OTHER -> P.worker[w]]
<1>1. ASSUME NEW w \in Realm
      PROVE  /\ f[w] \in Slot
             /\ f[w] = IF w \in throw THEN [P.worker[w] EXCEPT !.pending = NoSource]
                       ELSE IF w \in A THEN NoWorker ELSE P.worker[w]
  <2>1. P.worker[w] \in Slot
    BY PoolFields
  <2>2. [P.worker[w] EXCEPT !.pending = NoSource] \in Slot
    BY <2>1 DEF Slot
  <2> QED BY <2>1, <2>2, NoWorkerShape
<1>2. f \in [Realm -> Slot]
  BY <1>1
<1>3. P.faults - Cardinality(throw) \in 0..Faults
  BY PoolFields, SomeRealms, VerifyAssumption DEF Throws
<1>4. Terminated(P, A, throw) = [P EXCEPT !.faults = @ - Cardinality(throw), !.broken = @ \/ throw # {},
                                          !.open = @ /\ throw = {}, !.worker = f]
  BY DEF Terminated
<1> HIDE DEF f
<1>5. LET T == [P EXCEPT !.faults = @ - Cardinality(throw), !.broken = @ \/ throw # {},
                         !.open = @ /\ throw = {}, !.worker = f]
      IN /\ T \in PoolState /\ T.queue = P.queue /\ T.outcome = P.outcome
         /\ T.open = (P.open /\ throw = {}) /\ T.broken = (P.broken \/ throw # {}) /\ T.worker = f
  BY <1>2, <1>3 DEF PoolState
<1> QED BY <1>1, <1>4, <1>5

-----------------------------------------------------------------------------
(* close() *)

\* What a handler may not do to the pool of a preparation.
Steps(P, Q) ==
  /\ \A s \in Sources : Q.outcome[s] = "pending" => P.outcome[s] = "pending"
  /\ (Q.open => P.open) /\ (P.broken => Q.broken)

LEMMA StepsCompose ==
  ASSUME NEW P, NEW Q, NEW R, Steps(P, Q), Steps(Q, R)
  PROVE  Steps(P, R)
BY DEF Steps

LEMMA ClosedKeeps ==
  ASSUME NEW P, Shape(P), CountsAgree => \A s \in Sources : P.outcome[s] # "corrupt",
         NEW Q \in Closed(P), width \in Nat
  PROVE  Kept(Q) /\ Steps(P, Q) /\ ~Q.open /\ \A s \in Sources : Q.outcome[s] # "pending"
<1> DEFINE R == [P EXCEPT !.open = FALSE, !.queue = <<>>]
<1>1. /\ R \in PoolState /\ ~R.open /\ R.broken = P.broken /\ R.queue = <<>>
      /\ R.outcome = P.outcome /\ R.worker = P.worker
  <2>1. P \in PoolState /\ <<>> \in Seq(Sources)
    BY DEF Shape
  <2> QED BY <2>1 DEF PoolState
<1>2. PICK throw \in Throws(R, Slots(P)) : Q = Settled(Terminated(R, Slots(P), throw), Sources, "failed")
  <2>1. Slots(R) = Slots(P) /\ R.faults = P.faults
    BY <1>1 DEF Slots, Shape, PoolState
  <2>2. Throws(R, Slots(P)) = Throws(P, Slots(P))
    BY <2>1 DEF Throws
  <2> QED BY <2>2 DEF Closed
<1> HIDE DEF R
<1> DEFINE T == Terminated(R, Slots(P), throw)
<1>3. throw \in SUBSET Slots(P) /\ Slots(P) \in SUBSET Realm
  BY <1>2 DEF Throws, Slots
<1>4. /\ T \in PoolState /\ T.queue = R.queue /\ T.outcome = R.outcome
      /\ T.open = (R.open /\ throw = {}) /\ T.broken = (R.broken \/ throw # {})
      /\ \A w \in Realm : T.worker[w] =
           IF w \in throw THEN [R.worker[w] EXCEPT !.pending = NoSource]
           ELSE IF w \in Slots(P) THEN NoWorker ELSE R.worker[w]
  BY <1>1, <1>2, <1>3, TerminatedIs
<1> HIDE DEF T
<1>5. /\ Q \in PoolState /\ ~Q.open /\ Q.broken = (P.broken \/ throw # {}) /\ Q.queue = <<>>
      /\ \A s \in Sources : Q.outcome[s] = IF P.outcome[s] = "pending" THEN "failed" ELSE P.outcome[s]
      /\ \A w \in Realm : Q.worker[w] = IF w \in throw THEN [P.worker[w] EXCEPT !.pending = NoSource]
                                        ELSE NoWorker
  <2>1. "failed" \in Outcome /\ Q = Settled(T, Sources, "failed")
    BY <1>2 DEF Outcome, T
  <2>2. /\ Q \in PoolState /\ Q.open = T.open /\ Q.broken = T.broken /\ Q.queue = T.queue
        /\ Q.worker = T.worker
        /\ \A s \in Sources : Q.outcome[s] =
             IF s \in Sources /\ T.outcome[s] = "pending" THEN "failed" ELSE T.outcome[s]
    BY <1>4, <2>1, SettledIs
  <2>3. ASSUME NEW w \in Realm, w \notin Slots(P) PROVE P.worker[w] = NoWorker
    BY <2>3 DEF Slots, Shape, SlotShape
  <2> QED BY <1>1, <1>3, <1>4, <2>2, <2>3
<1>6. ASSUME NEW w \in Realm
      PROVE  /\ SlotShape(Q.worker[w]) /\ Q.worker[w].pending = NoSource
             /\ Q.worker[w].there => w \in throw
  <2>1. CASE w \in throw
    <3>1. P.worker[w] \in Slot /\ SlotShape(P.worker[w]) /\ P.worker[w].there
      BY <1>3, <2>1, PoolFields DEF Shape, Slots
    <3>2. Q.worker[w] = [P.worker[w] EXCEPT !.pending = NoSource]
      BY <1>5, <2>1
    <3> QED BY <2>1, <3>1, <3>2 DEF SlotShape, Slot
  <2>2. CASE w \notin throw
    BY <1>5, <2>2, NoWorkerShape
  <2> QED BY <2>1, <2>2
<1>7. Cardinality(Slots(Q)) <= width
  <2>1. Slots(Q) \in SUBSET Slots(P)
    BY <1>3, <1>6 DEF Slots
  <2>2. Cardinality(Slots(Q)) <= Cardinality(Slots(P))
    BY <1>3, <2>1, SomeRealms, FS_Subset
  <2>3. Cardinality(Slots(P)) <= width /\ Cardinality(Slots(P)) \in Nat /\ Cardinality(Slots(Q)) \in Nat
    BY <1>3, <2>1, SomeRealms DEF Shape
  <2> QED BY <2>2, <2>3
<1>8. Shape(Q)
  BY <1>5, <1>6, <1>7 DEF Shape
<1>9. \A s \in Sources : Q.outcome[s] # "pending"
  BY <1>5
<1>10. IsInjective(Q.queue) /\ \A s : ~Contains(Q.queue, s)
  BY <1>5 DEF IsInjective, Contains
<1>11. Places(Q)
  <2>1. \A s \in Sources : ~ (\E w \in Realm : Q.worker[w].pending = s)
    BY <1>6, VerifyAssumption
  <2> QED BY <1>6, <1>9, <1>10, <2>1 DEF Places
<1>12. Closing(Q)
  BY <1>5, <1>6 DEF Closing
<1>13. CountsAgree => \A s \in Sources : Q.outcome[s] # "corrupt"
  BY <1>5
<1>14. \A w \in Realm : SoundAt(Q, w)
  BY <1>5, <1>6 DEF SoundAt
<1>15. Steps(P, Q)
  BY <1>5 DEF Steps
<1> QED BY <1>5, <1>8, <1>9, <1>10, <1>11, <1>12, <1>13, <1>14, <1>15 DEF Kept, Core
-----------------------------------------------------------------------------
(* The head of the queue *)

LEMMA Queue ==
  ASSUME NEW q \in Seq(Sources), IsInjective(q), q # <<>>
  PROVE  /\ Head(q) \in Sources /\ Contains(q, Head(q)) /\ ~Contains(Tail(q), Head(q))
         /\ Tail(q) \in Seq(Sources) /\ IsInjective(Tail(q)) /\ Len(Tail(q)) = Len(q) - 1 /\ Len(q) \in Nat
         /\ \A s : s # Head(q) => (Contains(Tail(q), s) <=> Contains(q, s))
<1>1. /\ Len(q) \in Nat /\ Len(q) >= 1 /\ Head(q) = q[1] /\ q[1] \in Sources /\ DOMAIN q = 1..Len(q)
      /\ Tail(q) \in Seq(Sources) /\ Len(Tail(q)) = Len(q) - 1 /\ DOMAIN Tail(q) = 1..Len(Tail(q))
      /\ \A i \in 1..Len(Tail(q)) : i + 1 \in 1..Len(q) /\ Tail(q)[i] = q[i + 1]
  OBVIOUS
<1>2. \A i, j \in 1..Len(q) : q[i] = q[j] => i = j
  BY <1>1 DEF IsInjective
<1>3. ~Contains(Tail(q), Head(q))
  BY <1>1, <1>2 DEF Contains
<1>4. IsInjective(Tail(q))
  BY <1>1, <1>2 DEF IsInjective
<1>5. ASSUME NEW s, s # Head(q) PROVE Contains(Tail(q), s) <=> Contains(q, s)
  <2>1. ASSUME NEW i \in 1..Len(q), q[i] = s PROVE i - 1 \in 1..Len(Tail(q)) /\ Tail(q)[i - 1] = s
    <3>1. i # 1
      BY <1>1, <1>5, <2>1
    <3>2. i - 1 \in 1..Len(Tail(q)) /\ i - 1 + 1 = i
      BY <1>1, <3>1
    <3> QED BY <1>1, <2>1, <3>2
  <2> QED BY <1>1, <2>1 DEF Contains
<1>6. Contains(q, Head(q))
  BY <1>1 DEF Contains
<1> QED BY <1>1, <1>3, <1>4, <1>5, <1>6

LEMMA Enlisted ==
  ASSUME NEW q \in Seq(Sources), IsInjective(q), NEW s \in Sources, ~Contains(q, s)
  PROVE  /\ Append(q, s) \in Seq(Sources) /\ IsInjective(Append(q, s))
         /\ \A e : Contains(Append(q, s), e) <=> Contains(q, e) \/ e = s
<1>1. PICK n \in Nat : n = Len(q) /\ DOMAIN q = 1..n
  OBVIOUS
<1> DEFINE r == Append(q, s)
<1>2. /\ r \in Seq(Sources) /\ Len(r) = n + 1 /\ DOMAIN r = 1..(n + 1) /\ r[n + 1] = s
      /\ \A i \in 1..n : r[i] = q[i]
  BY <1>1
<1> HIDE DEF r
<1>3. \A i, j \in 1..n : q[i] = q[j] => i = j
  BY <1>1 DEF IsInjective
<1>4. \A i \in 1..n : q[i] # s
  BY <1>1 DEF Contains
<1>5. ASSUME NEW i \in 1..(n + 1), NEW j \in 1..(n + 1), r[i] = r[j] PROVE i = j
  <2>1. CASE i \in 1..n /\ j \in 1..n
    BY <1>2, <1>3, <1>5, <2>1
  <2>2. CASE i \notin 1..n \/ j \notin 1..n
    BY <1>2, <1>4, <1>5, <2>2
  <2> QED BY <2>1, <2>2
<1>6. IsInjective(r)
  BY <1>2, <1>5 DEF IsInjective
<1>7. ASSUME NEW e PROVE Contains(r, e) <=> Contains(q, e) \/ e = s
  <2>1. n + 1 \in 1..(n + 1) /\ 1..n \subseteq 1..(n + 1) /\ \A i \in 1..(n + 1) : i \in 1..n \/ i = n + 1
    OBVIOUS
  <2> QED BY <1>1, <1>2, <2>1 DEF Contains
<1> QED BY <1>2, <1>6, <1>7 DEF r

LEMMA Dropped ==
  ASSUME NEW q \in Seq(Sources), IsInjective(q), NEW k \in DOMAIN q
  PROVE  /\ RemoveAt(q, k) \in Seq(Sources) /\ IsInjective(RemoveAt(q, k))
         /\ ~Contains(RemoveAt(q, k), q[k])
         /\ \A e : e # q[k] => (Contains(RemoveAt(q, k), e) <=> Contains(q, e))
<1> DEFINE r == RemoveAt(q, k)
<1>1. PICK n \in Nat : n = Len(q) /\ DOMAIN q = 1..n /\ k \in 1..n
  OBVIOUS
<1>2. /\ r \in Seq(Sources) /\ Len(r) = n - 1 /\ DOMAIN r = 1..(n - 1)
      /\ \A i \in 1..(n - 1) : /\ i < k => i \in 1..n /\ r[i] = q[i]
                               /\ i >= k => i + 1 \in 1..n /\ r[i] = q[i + 1]
  BY <1>1, RemovedAt
<1> HIDE DEF r
<1>3. \A i, j \in 1..n : q[i] = q[j] => i = j
  BY <1>1 DEF IsInjective
<1> DEFINE At(i) == IF i < k THEN i ELSE i + 1
<1>4. \A i \in 1..(n - 1) : At(i) \in 1..n /\ At(i) # k /\ r[i] = q[At(i)]
  BY <1>1, <1>2
<1>5. \A i, j \in 1..(n - 1) : At(i) = At(j) => i = j
  BY <1>1
<1>6. \A i \in 1..n : i # k => \E j \in 1..(n - 1) : At(j) = i
  <2> SUFFICES ASSUME NEW i \in 1..n, i # k PROVE \E j \in 1..(n - 1) : At(j) = i
    OBVIOUS
  <2>1. CASE i < k
    <3>1. i \in 1..(n - 1) /\ At(i) = i
      BY <1>1, <2>1
    <3> QED BY <3>1
  <2>2. CASE i > k
    <3>1. i - 1 \in 1..(n - 1) /\ At(i - 1) = i
      BY <1>1, <2>2
    <3> QED BY <3>1
  <2> QED BY <1>1, <2>1, <2>2
<1> HIDE DEF At
<1>7. IsInjective(r)
  <2>1. ASSUME NEW i \in 1..(n - 1), NEW j \in 1..(n - 1), r[i] = r[j] PROVE i = j
    <3>1. At(i) \in 1..n /\ At(j) \in 1..n /\ q[At(i)] = q[At(j)]
      BY <1>4, <2>1
    <3>2. At(i) = At(j)
      BY <1>3, <3>1
    <3> QED BY <1>5, <3>2
  <2> QED BY <1>2, <2>1 DEF IsInjective
<1>8. ~Contains(r, q[k])
  BY <1>1, <1>2, <1>3, <1>4 DEF Contains
<1>9. ASSUME NEW e, e # q[k] PROVE Contains(r, e) <=> Contains(q, e)
  <2>1. ASSUME NEW j \in 1..(n - 1), r[j] = e PROVE Contains(q, e)
    BY <1>1, <1>4, <2>1 DEF Contains
  <2>2. ASSUME NEW i \in 1..n, q[i] = e PROVE Contains(r, e)
    <3>1. PICK j \in 1..(n - 1) : At(j) = i
      BY <1>6, <1>9, <2>2
    <3> QED BY <1>2, <1>4, <2>2, <3>1 DEF Contains
  <2> QED BY <1>1, <1>2, <2>1, <2>2 DEF Contains
<1> QED BY <1>2, <1>7, <1>8, <1>9 DEF r
-----------------------------------------------------------------------------
(* dispatch() *)

\* A slot that is quiet can take a job.
Quiet(v) ==
  v.pending = NoSource /\ JobFree(v) /\ v.toHost = <<>> /\ Acks(v.toWorker, Len(v.toWorker), v.generation)

LEMMA StartedShape ==
  ASSUME NEW v \in Slot, SlotShape(v), Quiet(v), NEW s \in Sources
  PROVE  LET u == Started(v, s)
         IN u \in Slot /\ SlotShape(u) /\ Sound(u) /\ u.there /\ u.pending = s
<1> DEFINE m == [type |-> "start", generation |-> v.generation + 1, source |-> s]
           q == Append(v.toWorker, m)
           u == [v EXCEPT !.there = TRUE, !.alive = TRUE, !.pending = s, !.generation = @ + 1,
                          !.last = 0, !.toWorker = q]
<1>1. v.generation \in Nat /\ v.toWorker \in Seq(WorkerMessage) /\ v.of \in Nat
  BY SlotFields
<1>2. m \in WorkerMessage /\ m.type = "start" /\ m.generation = v.generation + 1 /\ m.source = s
  BY <1>1 DEF WorkerMessage
<1> HIDE DEF m
<1>3. PICK n \in Nat : n = Len(v.toWorker)
  BY <1>1
<1>4. /\ q \in Seq(WorkerMessage) /\ Len(q) = n + 1 /\ q # <<>> /\ q[n + 1] = m
      /\ \A i \in 1..n : q[i] = v.toWorker[i]
  BY <1>1, <1>2, <1>3
<1> HIDE DEF q
<1>5. /\ u \in Slot /\ u.there /\ u.alive /\ u.pending = s /\ u.generation = v.generation + 1
      /\ u.last = 0 /\ u.toWorker = q /\ u.toHost = v.toHost /\ u.job = v.job /\ u.of = v.of
      /\ u.updates = v.updates /\ u.sent = v.sent /\ u.awaiting = v.awaiting
  <2>1. v.generation + 1 \in Nat /\ s \in Sources \cup {NoSource}
    BY <1>1
  <2>2. u \in Slot
    BY <1>4, <2>1 DEF Slot
  <2> QED BY <2>2 DEF Slot
<1>10. Started(v, s) = u
  BY DEF Started, q, m
<1> HIDE DEF u
<1>6. ASSUME NEW i \in 1..(n + 1) PROVE q[i].generation <= v.generation + 1
  <2>1. CASE i \in 1..n
    <3>1. v.toWorker[i].generation <= v.generation /\ v.toWorker[i] \in WorkerMessage
      BY <1>1, <1>3, <2>1 DEF SlotShape
    <3>2. v.toWorker[i].generation \in Nat
      BY <3>1 DEF WorkerMessage
    <3> QED BY <1>1, <1>4, <2>1, <3>1, <3>2
  <2>2. CASE i = n + 1
    BY <1>1, <1>2, <1>4, <2>2
  <2> QED BY <2>1, <2>2
<1>7. SlotShape(u)
  BY <1>1, <1>4, <1>5, <1>6 DEF SlotShape
<1>8. Acks(q, Len(q) - 1, u.generation - 1)
  <2>1. Len(q) - 1 = n /\ u.generation - 1 = v.generation
    BY <1>1, <1>4, <1>5
  <2> QED BY <1>3, <1>4, <2>1 DEF Acks, Quiet
<1>9. Fresh(u)
  <2>1. JobFree(u) /\ u.toHost = <<>> /\ u.pending # NoSource
    BY <1>5, VerifyAssumption DEF Quiet, JobFree
  <2>2. q[Len(q)] = m
    BY <1>3, <1>4
  <2> QED BY <1>2, <1>4, <1>5, <1>8, <2>1, <2>2 DEF Fresh
<1> QED BY <1>5, <1>7, <1>9, <1>10 DEF Sound

\* A Worker takes the first job.
LEMMA ServedKeeps ==
  ASSUME NEW P, Kept(P), Serves(P), width \in 0..MaxWidth
  PROVE  Kept(Served(P)) /\ Steps(P, Served(P)) /\ Len(Served(P).queue) = Len(P.queue) - 1
<1> DEFINE w == Min(IF Idle(P) # {} THEN Idle(P) ELSE Unused(P))
           v == P.worker[w]
           s == Head(P.queue)
           u == Started(v, s)
           Q == [P EXCEPT !.queue = Tail(@), !.worker[w] = u]
<1>1. /\ P \in PoolState /\ P.open /\ ~P.broken /\ P.queue # <<>> /\ P.queue \in Seq(Sources)
      /\ P.worker \in [Realm -> Slot] /\ IsInjective(P.queue)
  BY PoolFields DEF Kept, Core, Shape, Closing, Serves
<1>2. w \in Realm /\ v \in Slot /\ SlotShape(v) /\ Quiet(v) /\ (v.there \/ Cardinality(Slots(P)) < width)
  <2>1. Realm \in SUBSET Nat
    BY DEF Realm
  <2>2. CASE Idle(P) # {}
    <3>1. w \in Idle(P)
      BY <2>1, <2>2, MinOf DEF Idle, Slots
    <3>2. w \in Realm /\ v.there /\ v.pending = NoSource
      BY <3>1 DEF Idle, Slots
    <3>3. Sound(v)
      BY <1>1, <3>2 DEF Kept, SoundAt
    <3>4. Rests(v)
      BY <3>2, <3>3 DEF Sound, Fresh, Runs, Over
    <3> QED BY <1>1, <3>2, <3>4 DEF Kept, Core, Shape, Rests, Quiet
  <2>3. CASE Idle(P) = {}
    <3>1. Cardinality(Slots(P)) < width
      BY <2>3 DEF Serves
    <3>2. Unused(P) # {}
      <4>1. SUFFICES ASSUME Unused(P) = {} PROVE FALSE
        OBVIOUS
      <4>2. Slots(P) = Realm
        <5>1. ASSUME NEW x \in Realm, ~P.worker[x].there PROVE FALSE
          <6>1. P.worker[x] = NoWorker
            BY <5>1 DEF Kept, Core, Shape, SlotShape
          <6> QED BY <4>1, <5>1, <6>1, NoWorkerShape DEF Unused
        <5> QED BY <5>1 DEF Slots
      <4>3. Cardinality(Realm) = Realms
        BY VerifyAssumption, FS_Interval DEF Realm
      <4> QED BY <3>1, <4>2, <4>3, VerifyAssumption
    <3>3. w \in Unused(P)
      BY <2>1, <2>3, <3>2, MinOf DEF Unused
    <3>4. w \in Realm /\ v = NoWorker
      BY <3>3 DEF Unused, Kept, Core, Shape, SlotShape
    <3>5. Quiet(v)
      BY <3>4, NoWorkerShape DEF Quiet, Acks
    <3> QED BY <1>1, <3>1, <3>4, <3>5 DEF Kept, Core, Shape
  <2> QED BY <2>2, <2>3
<1>3. Served(P) = Q
  <2>1. Served(P) = StartJob(P, w)
    BY DEF Served
  <2> HIDE DEF w
  <2>2. StartJob(P, w) = Q
    BY DEF StartJob
  <2> QED BY <2>1, <2>2
<1> HIDE DEF w
<1>4. /\ s \in Sources /\ Contains(P.queue, s) /\ ~Contains(Tail(P.queue), s)
      /\ Tail(P.queue) \in Seq(Sources) /\ IsInjective(Tail(P.queue))
      /\ Len(Tail(P.queue)) = Len(P.queue) - 1 /\ Len(P.queue) \in Nat
      /\ \A e : e # s => (Contains(Tail(P.queue), e) <=> Contains(P.queue, e))
  BY <1>1, Queue
<1>5. u \in Slot /\ SlotShape(u) /\ Sound(u) /\ u.there /\ u.pending = s
  BY <1>2, <1>4, StartedShape
<1> HIDE DEF u, s
<1>6. /\ Q \in PoolState /\ Q.open /\ ~Q.broken /\ Q.queue = Tail(P.queue) /\ Q.outcome = P.outcome
      /\ Q.worker[w] = u /\ \A x \in Realm : x # w => Q.worker[x] = P.worker[x]
  BY <1>1, <1>2, <1>4, <1>5 DEF PoolState
<1> HIDE DEF Q
<1>7. \A x \in Realm : SlotShape(Q.worker[x]) /\ SoundAt(Q, x)
  <2>1. \A x \in Realm : SlotShape(P.worker[x]) /\ SoundAt(P, x)
    BY DEF Kept, Core, Shape
  <2> QED BY <1>1, <1>5, <1>6, <2>1 DEF SoundAt
<1>8. Cardinality(Slots(Q)) <= width
  <2>1. Slots(P) \in SUBSET Realm
    BY DEF Slots
  <2>2. Slots(Q) = Slots(P) \cup {w} /\ (w \in Slots(P) <=> v.there)
    BY <1>2, <1>5, <1>6 DEF Slots
  <2>3. Cardinality(Slots(P)) \in Nat /\ IsFiniteSet(Slots(P)) /\ Cardinality(Slots(P)) <= width
    BY <2>1, SomeRealms DEF Kept, Core, Shape
  <2>4. Cardinality(Slots(Q)) = IF w \in Slots(P) THEN Cardinality(Slots(P)) ELSE Cardinality(Slots(P)) + 1
    BY <2>2, <2>3, FS_AddElement
  <2> QED BY <1>2, <2>2, <2>3, <2>4
<1>9. Places(Q)
  <2>1. /\ \A x, y \in Realm : P.worker[x].pending = P.worker[y].pending
                                => x = y \/ P.worker[x].pending = NoSource
        /\ \A x \in Realm : ~Contains(P.queue, P.worker[x].pending)
        /\ \A e \in Sources : P.outcome[e] = "pending"
             <=> Contains(P.queue, e) \/ \E x \in Realm : P.worker[x].pending = e
    BY DEF Kept, Core, Places
  <2>2. \A x \in Realm : P.worker[x].pending # s
    BY <1>4, <2>1
  <2>3. v.pending = NoSource /\ s # NoSource
    BY <1>2, <1>4, VerifyAssumption DEF Quiet
  <2>4. \A x, y \in Realm : Q.worker[x].pending = Q.worker[y].pending
                             => x = y \/ Q.worker[x].pending = NoSource
    BY <1>5, <1>6, <2>1, <2>2
  <2>5. \A x \in Realm : ~Contains(Q.queue, Q.worker[x].pending)
    BY <1>4, <1>5, <1>6, <2>1, <2>2
  <2>6. ASSUME NEW e \in Sources
        PROVE  Q.outcome[e] = "pending"
                 <=> Contains(Q.queue, e) \/ \E x \in Realm : Q.worker[x].pending = e
    <3>1. CASE e = s
      BY <1>2, <1>4, <1>5, <1>6, <2>1, <3>1
    <3>2. CASE e # s
      <4>1. (\E x \in Realm : Q.worker[x].pending = e) <=> \E x \in Realm : P.worker[x].pending = e
        BY <1>2, <1>5, <1>6, <2>3, <3>2, VerifyAssumption
      <4> QED BY <1>4, <1>6, <2>1, <3>2, <4>1
    <3> QED BY <3>1, <3>2
  <2> QED BY <2>4, <2>5, <2>6 DEF Places
<1>10. Closing(Q)
  BY <1>6 DEF Closing
<1>11. CountsAgree => \A e \in Sources : Q.outcome[e] # "corrupt"
  BY <1>6 DEF Kept, Core
<1>12. Steps(P, Q)
  BY <1>1, <1>6 DEF Steps
<1> QED BY <1>3, <1>4, <1>6, <1>7, <1>8, <1>9, <1>10, <1>11, <1>12 DEF Kept, Core, Shape

\* A Worker that cannot be made fails the first job.
LEMMA UnconstructedKeeps ==
  ASSUME NEW P, Kept(P), P.queue # <<>>, P.faults > 0
  PROVE  Kept(Unconstructed(P)) /\ Steps(P, Unconstructed(P))
<1> DEFINE s == Head(P.queue)
           R == [P EXCEPT !.queue = Tail(@), !.faults = @ - 1]
           Q == Settled(R, {s}, "failed")
<1>1. /\ P \in PoolState /\ P.queue \in Seq(Sources) /\ IsInjective(P.queue) /\ P.faults \in 0..Faults
  BY PoolFields DEF Kept, Core, Shape
<1>2. /\ s \in Sources /\ Contains(P.queue, s) /\ ~Contains(Tail(P.queue), s)
      /\ Tail(P.queue) \in Seq(Sources) /\ IsInjective(Tail(P.queue))
      /\ \A e : e # s => (Contains(Tail(P.queue), e) <=> Contains(P.queue, e))
  BY <1>1, Queue
<1> HIDE DEF s
<1>3. /\ R \in PoolState /\ R.open = P.open /\ R.broken = P.broken /\ R.queue = Tail(P.queue)
      /\ R.outcome = P.outcome /\ R.worker = P.worker
  <2>1. P.faults - 1 \in 0..Faults
    BY <1>1, VerifyAssumption
  <2> QED BY <1>1, <1>2, <2>1 DEF PoolState
<1> HIDE DEF R
<1>4. /\ Q \in PoolState /\ Q.open = R.open /\ Q.broken = R.broken /\ Q.queue = R.queue
      /\ Q.worker = R.worker
      /\ \A e \in Sources : Q.outcome[e] =
           IF e \in {s} /\ R.outcome[e] = "pending" THEN "failed" ELSE R.outcome[e]
  BY <1>3, SettledIs DEF Outcome
<1>5. Unconstructed(P) = Q
  BY DEF Unconstructed, R, s
<1> HIDE DEF Q
<1>6. P.open
  BY <1>1 DEF Kept, Core, Closing
<1>7. Shape(Q) /\ IsInjective(Q.queue) /\ \A x \in Realm : SoundAt(Q, x)
  BY <1>2, <1>3, <1>4 DEF Kept, Core, Shape, Slots, SoundAt
<1>8. Places(Q)
  <2>1. /\ \A x, y \in Realm : P.worker[x].pending = P.worker[y].pending
                                => x = y \/ P.worker[x].pending = NoSource
        /\ \A x \in Realm : ~Contains(P.queue, P.worker[x].pending)
        /\ \A e \in Sources : P.outcome[e] = "pending"
             <=> Contains(P.queue, e) \/ \E x \in Realm : P.worker[x].pending = e
    BY DEF Kept, Core, Places
  <2>2. \A x \in Realm : ~Contains(Q.queue, P.worker[x].pending)
    BY <1>2, <1>3, <1>4, <2>1
  <2>3. ASSUME NEW e \in Sources
        PROVE  Q.outcome[e] = "pending"
                 <=> Contains(Q.queue, e) \/ \E x \in Realm : P.worker[x].pending = e
    BY <1>2, <1>3, <1>4, <2>1
  <2> QED BY <1>3, <1>4, <2>1, <2>2, <2>3 DEF Places
<1>9. Closing(Q)
  BY <1>3, <1>4, <1>6 DEF Kept, Core, Closing
<1>10. CountsAgree => \A e \in Sources : Q.outcome[e] # "corrupt"
  BY <1>3, <1>4 DEF Kept, Core
<1>11. Steps(P, Q)
  BY <1>3, <1>4 DEF Steps
<1> QED BY <1>5, <1>7, <1>8, <1>9, <1>10, <1>11 DEF Kept, Core
\* The loop, unfolded.
Loop(P) ==
  CHOOSE after : after = [n \in 0..Len(P.queue) |->
    IF n = 0 THEN P
    ELSE LET Q == after[n - 1] IN IF Serves(Q) THEN Served(Q) ELSE Q]

LEMMA DispatchedIs ==
  ASSUME NEW P, NEW Q \in Dispatched(P)
  PROVE  \/ Q = Loop(P)[Len(P.queue)]
         \/ \E n \in 0..Len(P.queue) : /\ Q = Unconstructed(Loop(P)[n])
                                       /\ Serves(Loop(P)[n]) /\ Loop(P)[n].faults > 0
BY DEF Dispatched, Loop

\* Every pass of the loop is defined by the one before.
LEMMA LoopIs ==
  ASSUME NEW P, Len(P.queue) \in Nat
  PROVE  /\ Loop(P)[0] = P
         /\ \A n \in 1..Len(P.queue) : LET Q == Loop(P)[n - 1]
                                       IN Loop(P)[n] = IF Serves(Q) THEN Served(Q) ELSE Q
<1> DEFINE N == Len(P.queue)
           Pass(Q) == IF Serves(Q) THEN Served(Q) ELSE Q
           Passes(f, n) == f = [k \in 0..n |-> IF k = 0 THEN P ELSE Pass(f[k - 1])]
           T == {n \in Nat : \E f : Passes(f, n)}
<1> HIDE DEF Pass
<1>1. 0 \in T
  <2>1. Passes([k \in 0..0 |-> P], 0)
    OBVIOUS
  <2> QED BY <2>1
<1>2. ASSUME NEW n \in T PROVE n + 1 \in T
  <2>1. PICK f : Passes(f, n)
    BY <1>2
  <2> DEFINE g == [k \in 0..(n + 1) |-> IF k = n + 1 THEN Pass(f[n]) ELSE f[k]]
  <2>2. g[n] = f[n] /\ n \in 0..(n + 1)
    OBVIOUS
  <2>3. ASSUME NEW k \in 0..(n + 1) PROVE g[k] = IF k = 0 THEN P ELSE Pass(g[k - 1])
    <3>1. CASE k = n + 1
      <4>1. k # 0 /\ k - 1 = n
        BY <3>1
      <4> QED BY <2>2, <3>1, <4>1
    <3>2. CASE k # n + 1
      <4>1. k \in 0..n /\ g[k] = f[k]
        BY <3>2
      <4>2. CASE k = 0
        BY <2>1, <4>1, <4>2
      <4>3. CASE k # 0
        <5>1. k - 1 \in 0..(n + 1) /\ k - 1 # n + 1
          BY <4>1, <4>3
        <5>2. g[k - 1] = f[k - 1]
          BY <5>1
        <5>3. f[k] = Pass(f[k - 1])
          BY <2>1, <4>1, <4>3
        <5> QED BY <4>1, <4>3, <5>2, <5>3
      <4> QED BY <4>2, <4>3
    <3> QED BY <3>1, <3>2
  <2>4. Passes(g, n + 1)
    <3>1. g = [k \in 0..(n + 1) |-> g[k]]
      OBVIOUS
    <3> HIDE DEF g
    <3>2. [k \in 0..(n + 1) |-> g[k]] = [k \in 0..(n + 1) |-> IF k = 0 THEN P ELSE Pass(g[k - 1])]
      BY <2>3
    <3> QED BY <3>1, <3>2
  <2>5. \E h : Passes(h, n + 1)
    <3> HIDE DEF g, Passes
    <3> QED BY <2>4
  <2>6. n + 1 \in Nat
    BY <1>2
  <2> QED BY <2>5, <2>6
<1>3. T = Nat
  <2> HIDE DEF T
  <2>1. T \in SUBSET Nat
    BY DEF T
  <2> QED BY <1>1, <1>2, <2>1, AllNumbers
<1>4. PICK f : Passes(f, N)
  <2>1. N \in T
    BY <1>3
  <2> QED BY <2>1
<1>5. Loop(P) = CHOOSE after : Passes(after, N)
  BY DEF Loop, Pass
<1>6. Passes(Loop(P), N)
  <2> HIDE DEF Passes
  <2> QED BY <1>4, <1>5
<1> HIDE DEF Passes
<1>7. Loop(P) = [k \in 0..N |-> IF k = 0 THEN P ELSE Pass(Loop(P)[k - 1])]
  BY <1>6 DEF Passes
<1>8. 0 \in 0..N /\ \A n \in 1..N : n \in 0..N /\ n # 0
  OBVIOUS
<1>9. ASSUME NEW k \in 0..N PROVE Loop(P)[k] = IF k = 0 THEN P ELSE Pass(Loop(P)[k - 1])
  BY <1>7
<1> QED BY <1>8, <1>9 DEF Pass

LEMMA DispatchedKeeps ==
  ASSUME NEW P, Kept(P), NEW Q \in Dispatched(P), width \in 0..MaxWidth
  PROVE  Kept(Q) /\ Steps(P, Q)
<1> DEFINE N == Len(P.queue)
           L == Loop(P)
           T == {n \in Nat : n <= N => Kept(L[n]) /\ Steps(P, L[n])}
<1>1. N \in Nat
  BY PoolFields DEF Kept, Core, Shape
<1>2. L[0] = P /\ \A n \in 1..N : L[n] = IF Serves(L[n - 1]) THEN Served(L[n - 1]) ELSE L[n - 1]
  BY <1>1, LoopIs
<1> HIDE DEF L, N
<1>3. 0 \in T
  BY <1>2 DEF Steps
<1>4. ASSUME NEW n \in T PROVE n + 1 \in T
  <2>1. n \in Nat /\ n + 1 \in Nat
    BY <1>4
  <2>2. SUFFICES ASSUME n + 1 <= N PROVE Kept(L[n + 1]) /\ Steps(P, L[n + 1])
    BY <2>1
  <2>3. n <= N /\ n + 1 \in 1..N /\ n + 1 - 1 = n
    BY <1>1, <2>1, <2>2
  <2>4. Kept(L[n]) /\ Steps(P, L[n])
    BY <1>4, <2>3
  <2>5. L[n + 1] = IF Serves(L[n]) THEN Served(L[n]) ELSE L[n]
    BY <1>2, <2>3
  <2>6. CASE Serves(L[n])
    <3>1. Kept(Served(L[n])) /\ Steps(L[n], Served(L[n]))
      BY <2>4, <2>6, ServedKeeps
    <3> QED BY <2>4, <2>5, <2>6, <3>1, StepsCompose
  <2>7. CASE ~Serves(L[n])
    BY <2>4, <2>5, <2>7
  <2> QED BY <2>6, <2>7
<1>5. T = Nat
  <2> HIDE DEF T
  <2>1. T \in SUBSET Nat
    BY DEF T
  <2> QED BY <1>3, <1>4, <2>1, AllNumbers
<1>6. \A n \in 0..N : Kept(L[n]) /\ Steps(P, L[n])
  BY <1>1, <1>5
<1>7. CASE Q = L[N]
  <2>1. N \in 0..N
    BY <1>1
  <2> QED BY <1>6, <1>7, <2>1
<1>8. CASE \E n \in 0..N : Q = Unconstructed(L[n]) /\ Serves(L[n]) /\ L[n].faults > 0
  <2>1. PICK n \in 0..N : Q = Unconstructed(L[n]) /\ Serves(L[n]) /\ L[n].faults > 0
    BY <1>8
  <2>2. Kept(L[n]) /\ Steps(P, L[n]) /\ L[n].queue # <<>>
    BY <1>6, <2>1 DEF Serves
  <2>3. Kept(Unconstructed(L[n])) /\ Steps(L[n], Unconstructed(L[n]))
    BY <2>1, <2>2, UnconstructedKeeps
  <2> QED BY <2>1, <2>2, <2>3, StepsCompose
<1> QED BY <1>7, <1>8, DispatchedIs DEF L, N
-----------------------------------------------------------------------------
(* The handlers of the pool *)

\* Only a number of faults is used up.
LEMMA FaultKeeps ==
  ASSUME NEW P, Kept(P), P.faults > 0
  PROVE  LET Q == [P EXCEPT !.faults = @ - 1]
         IN /\ Kept(Q) /\ Steps(P, Q) /\ Q.open = P.open /\ Q.broken = P.broken
            /\ Q.outcome = P.outcome /\ Q.worker = P.worker /\ Q.queue = P.queue
<1> DEFINE Q == [P EXCEPT !.faults = @ - 1]
<1>1. P \in PoolState /\ P.faults - 1 \in 0..Faults
  BY PoolFields, VerifyAssumption DEF Kept, Core, Shape
<1>2. /\ Q \in PoolState /\ Q.open = P.open /\ Q.broken = P.broken
      /\ Q.outcome = P.outcome /\ Q.worker = P.worker /\ Q.queue = P.queue
  BY <1>1 DEF PoolState
<1> HIDE DEF Q
<1>3. Kept(Q)
  BY <1>2 DEF Kept, Core, Shape, Slots, Places, Closing, SoundAt
<1>4. Steps(P, Q)
  BY <1>2 DEF Steps
<1> QED BY <1>2, <1>3, <1>4 DEF Q

\* A slot keeps its place in the pool.
LEMMA ChangedKeeps ==
  ASSUME NEW P, Core(P), NEW w \in Realm, NEW v \in Slot, SlotShape(v),
         v.there = P.worker[w].there, v.pending = P.worker[w].pending
  PROVE  LET Q == [P EXCEPT !.worker[w] = v]
         IN /\ Core(Q) /\ Q \in PoolState /\ Q.worker[w] = v /\ Q.broken = P.broken /\ Q.open = P.open
            /\ Q.outcome = P.outcome /\ Q.queue = P.queue /\ Q.faults = P.faults
            /\ \A x \in Realm : x # w => Q.worker[x] = P.worker[x]
            /\ \A x \in Realm : x # w /\ SoundAt(P, x) => SoundAt(Q, x)
<1> DEFINE Q == [P EXCEPT !.worker[w] = v]
<1>1. P \in PoolState /\ P.worker \in [Realm -> Slot]
  BY PoolFields DEF Core, Shape
<1>2. /\ Q \in PoolState /\ Q.open = P.open /\ Q.broken = P.broken /\ Q.faults = P.faults
      /\ Q.outcome = P.outcome /\ Q.queue = P.queue /\ Q.worker[w] = v
      /\ \A x \in Realm : x # w => Q.worker[x] = P.worker[x]
  BY <1>1 DEF PoolState
<1> HIDE DEF Q
<1>3. \A x \in Realm : /\ Q.worker[x].there = P.worker[x].there
                       /\ Q.worker[x].pending = P.worker[x].pending
  BY <1>2
<1>4. Slots(Q) = Slots(P)
  BY <1>3 DEF Slots
<1>5. Shape(Q)
  BY <1>2, <1>4 DEF Core, Shape
<1>6. Places(Q) /\ Closing(Q)
  BY <1>2, <1>3 DEF Core, Places, Closing
<1>7. Core(Q)
  BY <1>2, <1>5, <1>6 DEF Core
<1>8. \A x \in Realm : x # w /\ SoundAt(P, x) => SoundAt(Q, x)
  BY <1>2 DEF SoundAt
<1> QED BY <1>2, <1>7, <1>8 DEF Q

\* A job ends, and its slot is given up or kept; v is what the slot becomes.
LEMMA FreedKeeps ==
  ASSUME NEW P, Core(P), NEW w \in Running(P), NEW Q \in PoolState, NEW o \in Outcome \ {"pending"},
         o = "corrupt" => ~CountsAgree,
         \A x \in Realm : x # w => SoundAt(P, x) /\ Q.worker[x] = P.worker[x],
         Q.open = P.open, Q.broken = P.broken, Q.queue = P.queue,
         SlotShape(Q.worker[w]), Q.worker[w].pending = NoSource, SoundAt(Q, w),
         \A s \in Sources : Q.outcome[s] =
           IF s = P.worker[w].pending /\ P.outcome[s] = "pending" THEN o ELSE P.outcome[s],
         width \in Nat
  PROVE  Kept(Q) /\ Steps(P, Q) /\ Q.outcome[P.worker[w].pending] # "pending"
<1> DEFINE s == P.worker[w].pending
<1>1. /\ w \in Realm /\ P.worker[w].there /\ s # NoSource /\ P \in PoolState /\ s \in Sources
      /\ P.open /\ ~P.broken
  <2>1. w \in Realm /\ P.worker[w].there /\ s # NoSource /\ P \in PoolState
    BY DEF Running, Idle, Slots, Core, Shape
  <2>2. P.worker[w] \in Slot
    BY <2>1, PoolFields
  <2>3. s \in Sources
    BY <2>1, <2>2, SlotFields
  <2> QED BY <2>1, <2>3 DEF Core, Closing
<1> HIDE DEF s
<1>2. /\ \A x, y \in Realm : P.worker[x].pending = P.worker[y].pending
                              => x = y \/ P.worker[x].pending = NoSource
      /\ \A x \in Realm : ~Contains(P.queue, P.worker[x].pending)
      /\ \A e \in Sources : P.outcome[e] = "pending"
           <=> Contains(P.queue, e) \/ \E x \in Realm : P.worker[x].pending = e
  BY DEF Core, Places
<1>3. \A x \in Realm : SlotShape(Q.worker[x]) /\ SoundAt(Q, x)
  BY <1>1 DEF Core, Shape, SoundAt
<1>4. Cardinality(Slots(Q)) <= width
  <2>1. Slots(Q) \in SUBSET Slots(P) /\ Slots(P) \in SUBSET Realm
    BY <1>1 DEF Slots
  <2>2. /\ Cardinality(Slots(Q)) <= Cardinality(Slots(P))
        /\ Cardinality(Slots(P)) \in Nat /\ Cardinality(Slots(Q)) \in Nat
    BY <2>1, SomeRealms, FS_Subset
  <2> QED BY <2>2 DEF Core, Shape
<1>5. ~Contains(P.queue, NoSource)
  <2>1. P.queue \in Seq(Sources)
    BY <1>1, PoolFields
  <2>2. \A i \in 1..Len(P.queue) : P.queue[i] \in Sources
    BY <2>1
  <2> QED BY <2>2, VerifyAssumption DEF Contains
<1>6. \A x, y \in Realm : Q.worker[x].pending = Q.worker[y].pending
                           => x = y \/ Q.worker[x].pending = NoSource
  BY <1>2
<1>7. \A x \in Realm : ~Contains(Q.queue, Q.worker[x].pending)
  BY <1>2, <1>5
<1>8. ASSUME NEW e \in Sources
      PROVE  Q.outcome[e] = "pending"
               <=> Contains(Q.queue, e) \/ \E x \in Realm : Q.worker[x].pending = e
  <2>1. CASE e = s
    <3>1. \A x \in Realm : x # w => P.worker[x].pending # s
      BY <1>1, <1>2 DEF s
    <3>2. ~ \E x \in Realm : Q.worker[x].pending = s
      BY <1>1, <3>1
    <3>3. ~Contains(P.queue, s)
      BY <1>1, <1>2 DEF s
    <3> QED BY <2>1, <3>2, <3>3 DEF s
  <2>2. CASE e # s
    <3>1. e # NoSource
      BY VerifyAssumption
    <3>2. (\E x \in Realm : Q.worker[x].pending = e) <=> \E x \in Realm : P.worker[x].pending = e
      BY <2>2, <3>1 DEF s
    <3> QED BY <1>2, <2>2, <3>2 DEF s
  <2> QED BY <2>1, <2>2
<1>9. Places(Q)
  BY <1>6, <1>7, <1>8 DEF Places
<1>10. Closing(Q)
  BY <1>1 DEF Closing
<1>11. CountsAgree => \A e \in Sources : Q.outcome[e] # "corrupt"
  BY DEF Core
<1>12. Shape(Q) /\ IsInjective(Q.queue)
  BY <1>3, <1>4 DEF Core, Shape
<1>13. Steps(P, Q) /\ Q.outcome[s] # "pending"
  BY <1>1 DEF Steps, s
<1> QED BY <1>3, <1>9, <1>10, <1>11, <1>12, <1>13 DEF Kept, Core, s

LEMMA FinishedKeeps ==
  ASSUME NEW P, Core(P), NEW w \in Running(P), \A x \in Realm : x # w => SoundAt(P, x),
         NEW o \in {"failed", "corrupt"}, o = "corrupt" => ~CountsAgree,
         NEW Q \in Finished(P, w, o), width \in 0..MaxWidth
  PROVE  Kept(Q) /\ Steps(P, Q) /\ Q.outcome[P.worker[w].pending] # "pending"
<1> DEFINE s == P.worker[w].pending
<1>1. w \in Realm /\ P \in PoolState /\ o \in Outcome \ {"pending"} /\ width \in Nat
  BY VerifyAssumption DEF Running, Slots, Core, Shape, Outcome
<1>2. s \in Sources
  <2>1. P.worker[w] \in Slot /\ s # NoSource
    BY <1>1, PoolFields DEF Running, Idle
  <2> QED BY <2>1, SlotFields
<1>3. PICK throw \in Throws(P, {w}) :
        LET T == Settled(Terminated(P, {w}, throw), {s}, o)
        IN Q \in IF throw = {} THEN Dispatched(T) ELSE Closed(T)
  BY DEF Finished
<1> DEFINE R == Terminated(P, {w}, throw)
           T == Settled(R, {s}, o)
<1>4. /\ R \in PoolState /\ R.queue = P.queue /\ R.outcome = P.outcome
      /\ R.open = (P.open /\ throw = {}) /\ R.broken = (P.broken \/ throw # {})
      /\ \A x \in Realm : R.worker[x] =
           IF x \in throw THEN [P.worker[x] EXCEPT !.pending = NoSource]
           ELSE IF x \in {w} THEN NoWorker ELSE P.worker[x]
  <2>1. {w} \in SUBSET Realm
    BY <1>1
  <2> QED BY <1>1, <1>3, <2>1, TerminatedIs
<1> HIDE DEF R
<1>5. /\ T \in PoolState /\ T.open = R.open /\ T.broken = R.broken /\ T.queue = R.queue
      /\ T.worker = R.worker
      /\ \A e \in Sources : T.outcome[e] =
           IF e \in {s} /\ R.outcome[e] = "pending" THEN o ELSE R.outcome[e]
  BY <1>1, <1>4, SettledIs
<1> HIDE DEF T
<1>6. T.outcome[s] # "pending" /\ Steps(P, T) /\ (CountsAgree => \A e \in Sources : T.outcome[e] # "corrupt")
  BY <1>1, <1>2, <1>4, <1>5 DEF Steps, Core
<1>7. CASE throw = {}
  <2>1. Q \in Dispatched(T)
    BY <1>3, <1>7 DEF T, R
  <2>2. T.worker[w] = NoWorker /\ \A x \in Realm : x # w => T.worker[x] = P.worker[x]
    BY <1>1, <1>4, <1>5, <1>7
  <2>3. SlotShape(T.worker[w]) /\ T.worker[w].pending = NoSource /\ SoundAt(T, w)
    BY <2>2, NoWorkerShape DEF SoundAt
  <2>4. /\ T.open = P.open /\ T.broken = P.broken /\ T.queue = P.queue
        /\ \A e \in Sources : T.outcome[e] =
             IF e = P.worker[w].pending /\ P.outcome[e] = "pending" THEN o ELSE P.outcome[e]
    BY <1>1, <1>4, <1>5, <1>7, PoolFields
  <2>5. Kept(T)
    BY <1>1, <1>5, <2>2, <2>3, <2>4, FreedKeeps
  <2>6. Kept(Q) /\ Steps(T, Q)
    BY <2>1, <2>5, DispatchedKeeps
  <2> QED BY <1>2, <1>6, <2>6, StepsCompose DEF Steps
<1>8. CASE throw # {}
  <2>1. Q \in Closed(T)
    BY <1>3, <1>8 DEF T, R
  <2>2. Shape(T)
    <3>1. throw \in SUBSET {w}
      BY <1>3 DEF Throws
    <3>2. ASSUME NEW x \in Realm PROVE SlotShape(T.worker[x]) /\ (T.worker[x].there => P.worker[x].there)
      <4>1. P.worker[x] \in Slot /\ SlotShape(P.worker[x])
        BY <1>1, PoolFields DEF Core, Shape
      <4>2. CASE x \in throw
        <5>1. T.worker[x] = [P.worker[x] EXCEPT !.pending = NoSource] /\ P.worker[x].there
          BY <1>4, <1>5, <3>1, <4>2 DEF Running, Slots
        <5> QED BY <4>1, <5>1 DEF Slot, SlotShape
      <4>3. CASE x \notin throw
        BY <1>4, <1>5, <4>1, <4>3, NoWorkerShape
      <4> QED BY <4>2, <4>3
    <3>3. Slots(T) \in SUBSET Slots(P) /\ Slots(P) \in SUBSET Realm
      BY <3>2 DEF Slots
    <3>4. /\ Cardinality(Slots(T)) <= Cardinality(Slots(P))
          /\ Cardinality(Slots(P)) \in Nat /\ Cardinality(Slots(T)) \in Nat
      BY <3>3, SomeRealms, FS_Subset
    <3>5. Cardinality(Slots(T)) <= width
      BY <1>1, <3>4 DEF Core, Shape
    <3> QED BY <1>5, <3>2, <3>5 DEF Shape
  <2>3. Kept(Q) /\ Steps(T, Q)
    BY <1>1, <1>6, <2>1, <2>2, ClosedKeeps
  <2> QED BY <1>2, <1>6, <2>3, StepsCompose DEF Steps
<1> QED BY <1>7, <1>8

LEMMA CompletedKeeps ==
  ASSUME NEW P, Core(P), NEW w \in Running(P), \A x \in Realm : x # w => SoundAt(P, x),
         JobFree(P.worker[w]), P.worker[w].toHost = <<>>,
         Acks(P.worker[w].toWorker, Len(P.worker[w].toWorker), P.worker[w].generation),
         NEW Q \in Completed(P, w), width \in 0..MaxWidth
  PROVE  Kept(Q) /\ Steps(P, Q)
<1> DEFINE s == P.worker[w].pending
           v == [P.worker[w] EXCEPT !.pending = NoSource]
           R == [P EXCEPT !.worker[w].pending = NoSource]
           T == Settled(R, {s}, "complete")
<1>1. /\ w \in Realm /\ P \in PoolState /\ "complete" \in Outcome \ {"pending"} /\ width \in Nat
      /\ P.worker[w] \in Slot /\ SlotShape(P.worker[w]) /\ P.worker[w].there
      /\ P.worker \in [Realm -> Slot]
  BY VerifyAssumption, PoolFields DEF Running, Slots, Core, Shape, Outcome
<1>2. /\ v \in Slot /\ SlotShape(v) /\ Rests(v) /\ v.pending = NoSource
  BY <1>1 DEF Slot, SlotShape, Rests, JobFree
<1>3. R = [P EXCEPT !.worker[w] = v]
  OBVIOUS
<1> HIDE DEF v
<1>4. /\ R \in PoolState /\ R.open = P.open /\ R.broken = P.broken /\ R.queue = P.queue
      /\ R.outcome = P.outcome /\ R.worker[w] = v
      /\ \A x \in Realm : x # w => R.worker[x] = P.worker[x]
  BY <1>1, <1>2, <1>3 DEF PoolState
<1> HIDE DEF R
<1>5. /\ T \in PoolState /\ T.open = R.open /\ T.broken = R.broken /\ T.queue = R.queue
      /\ T.worker = R.worker
      /\ \A e \in Sources : T.outcome[e] =
           IF e \in {s} /\ R.outcome[e] = "pending" THEN "complete" ELSE R.outcome[e]
  BY <1>1, <1>4, SettledIs
<1>6. Q \in Dispatched(T)
  BY DEF Completed, T, R
<1> HIDE DEF T
<1>7. SoundAt(T, w)
  BY <1>2, <1>4, <1>5 DEF SoundAt, Sound
<1>8. /\ T.open = P.open /\ T.broken = P.broken /\ T.queue = P.queue
      /\ \A e \in Sources : T.outcome[e] =
           IF e = P.worker[w].pending /\ P.outcome[e] = "pending" THEN "complete" ELSE P.outcome[e]
  BY <1>4, <1>5
<1>9. \A x \in Realm : x # w => SoundAt(P, x) /\ T.worker[x] = P.worker[x]
  BY <1>4, <1>5
<1>10. Kept(T) /\ Steps(P, T)
  <2>1. SlotShape(T.worker[w]) /\ T.worker[w].pending = NoSource
    BY <1>2, <1>4, <1>5
  <2>2. "complete" # "corrupt"
    OBVIOUS
  <2> QED BY <1>1, <1>5, <1>7, <1>8, <1>9, <2>1, <2>2, FreedKeeps
<1> QED BY <1>6, <1>10, DispatchedKeeps, StepsCompose
LEMMA EnqueuedKeeps ==
  ASSUME NEW P, Kept(P), P.open, NEW s \in Sources, P.outcome[s] # "pending",
         NEW Q \in Enqueued(P, s), width \in 0..MaxWidth
  PROVE  /\ Kept(Q) /\ (P.broken => Q.broken)
         /\ \A e \in Sources : Q.outcome[e] = "pending" => P.outcome[e] = "pending" \/ e = s
<1> DEFINE R == [P EXCEPT !.queue = Append(@, s), !.outcome[s] = "pending"]
<1>1. /\ P \in PoolState /\ P.queue \in Seq(Sources) /\ IsInjective(P.queue)
      /\ P.outcome \in [Sources -> Outcome] /\ "pending" \in Outcome
  BY PoolFields DEF Kept, Core, Shape, Outcome
<1>2. /\ \A x, y \in Realm : P.worker[x].pending = P.worker[y].pending
                              => x = y \/ P.worker[x].pending = NoSource
      /\ \A x \in Realm : ~Contains(P.queue, P.worker[x].pending)
      /\ \A e \in Sources : P.outcome[e] = "pending"
           <=> Contains(P.queue, e) \/ \E x \in Realm : P.worker[x].pending = e
  BY DEF Kept, Core, Places
<1>3. ~Contains(P.queue, s) /\ \A x \in Realm : P.worker[x].pending # s
  BY <1>2
<1>4. /\ Append(P.queue, s) \in Seq(Sources) /\ IsInjective(Append(P.queue, s))
      /\ \A e : Contains(Append(P.queue, s), e) <=> Contains(P.queue, e) \/ e = s
  BY <1>1, <1>3, Enlisted
<1>5. /\ R \in PoolState /\ R.open = P.open /\ R.broken = P.broken /\ R.worker = P.worker
      /\ R.queue = Append(P.queue, s) /\ R.outcome[s] = "pending"
      /\ \A e \in Sources : e # s => R.outcome[e] = P.outcome[e]
  BY <1>1, <1>4 DEF PoolState
<1>6. Q \in Dispatched(R)
  BY DEF Enqueued
<1> HIDE DEF R
<1>7. Shape(R) /\ IsInjective(R.queue) /\ \A x \in Realm : SoundAt(R, x)
  BY <1>4, <1>5 DEF Kept, Core, Shape, Slots, SoundAt
<1>8. Places(R)
  <2>1. \A x \in Realm : ~Contains(R.queue, P.worker[x].pending)
    BY <1>2, <1>3, <1>4, <1>5
  <2>2. ASSUME NEW e \in Sources
        PROVE  R.outcome[e] = "pending"
                 <=> Contains(R.queue, e) \/ \E x \in Realm : P.worker[x].pending = e
    BY <1>2, <1>4, <1>5
  <2> QED BY <1>2, <1>5, <2>1, <2>2 DEF Places
<1>9. Closing(R)
  BY <1>5 DEF Kept, Core, Closing
<1>10. CountsAgree => \A e \in Sources : R.outcome[e] # "corrupt"
  BY <1>5 DEF Kept, Core
<1>11. Kept(R)
  BY <1>7, <1>8, <1>9, <1>10 DEF Kept, Core
<1>12. Kept(Q) /\ Steps(R, Q)
  BY <1>6, <1>11, DispatchedKeeps
<1> QED BY <1>5, <1>12 DEF Steps

LEMMA CancelledKeeps ==
  ASSUME NEW P, Kept(P), NEW s \in Sources, NEW Q \in Cancelled(P, s), width \in 0..MaxWidth
  PROVE  Kept(Q) /\ Steps(P, Q) /\ Q.outcome[s] # "pending"
<1>1. /\ P \in PoolState /\ P.queue \in Seq(Sources) /\ IsInjective(P.queue)
      /\ P.outcome \in [Sources -> Outcome] /\ "failed" \in Outcome
  BY PoolFields DEF Kept, Core, Shape, Outcome
<1>2. /\ \A x, y \in Realm : P.worker[x].pending = P.worker[y].pending
                              => x = y \/ P.worker[x].pending = NoSource
      /\ \A x \in Realm : ~Contains(P.queue, P.worker[x].pending)
      /\ \A e \in Sources : P.outcome[e] = "pending"
           <=> Contains(P.queue, e) \/ \E x \in Realm : P.worker[x].pending = e
  BY DEF Kept, Core, Places
<1>3. CASE P.outcome[s] # "pending"
  BY <1>3 DEF Cancelled, Steps
<1>4. CASE P.outcome[s] = "pending" /\ Contains(P.queue, s)
  <2> DEFINE k == CHOOSE k \in DOMAIN P.queue : P.queue[k] = s
             R == [P EXCEPT !.queue = RemoveAt(@, k)]
  <2>1. k \in DOMAIN P.queue /\ P.queue[k] = s
    BY <1>1, <1>4 DEF Contains
  <2>2. Q = Settled(R, {s}, "failed")
    BY <1>4 DEF Cancelled
  <2> HIDE DEF k
  <2>3. /\ RemoveAt(P.queue, k) \in Seq(Sources) /\ IsInjective(RemoveAt(P.queue, k))
        /\ ~Contains(RemoveAt(P.queue, k), s)
        /\ \A e : e # s => (Contains(RemoveAt(P.queue, k), e) <=> Contains(P.queue, e))
    BY <1>1, <2>1, Dropped
  <2>4. /\ R \in PoolState /\ R.open = P.open /\ R.broken = P.broken /\ R.worker = P.worker
        /\ R.queue = RemoveAt(P.queue, k) /\ R.outcome = P.outcome
    BY <1>1, <2>3 DEF PoolState
  <2> HIDE DEF R
  <2>5. /\ Q \in PoolState /\ Q.open = R.open /\ Q.broken = R.broken /\ Q.queue = R.queue
        /\ Q.worker = R.worker
        /\ \A e \in Sources : Q.outcome[e] =
             IF e \in {s} /\ R.outcome[e] = "pending" THEN "failed" ELSE R.outcome[e]
    BY <1>1, <2>2, <2>4, SettledIs
  <2>6. Shape(Q) /\ IsInjective(Q.queue) /\ \A x \in Realm : SoundAt(Q, x)
    BY <2>3, <2>4, <2>5 DEF Kept, Core, Shape, Slots, SoundAt
  <2>7. Places(Q)
    <3>1. \A x \in Realm : P.worker[x].pending # s
      BY <1>2, <1>4
    <3>2. \A x \in Realm : ~Contains(Q.queue, P.worker[x].pending)
      BY <1>2, <2>3, <2>4, <2>5, <3>1
    <3>3. ASSUME NEW e \in Sources
          PROVE  Q.outcome[e] = "pending"
                   <=> Contains(Q.queue, e) \/ \E x \in Realm : P.worker[x].pending = e
      BY <1>2, <2>3, <2>4, <2>5, <3>1
    <3> QED BY <1>2, <2>4, <2>5, <3>2, <3>3 DEF Places
  <2>8. P.open
    <3>1. P.queue # <<>>
      BY <1>4 DEF Contains
    <3> QED BY <1>1, <3>1, PoolFields DEF Kept, Core, Closing
  <2>9. Closing(Q)
    BY <2>4, <2>5, <2>8 DEF Kept, Core, Closing
  <2>10. CountsAgree => \A e \in Sources : Q.outcome[e] # "corrupt"
    BY <2>4, <2>5 DEF Kept, Core
  <2>11. Steps(P, Q) /\ Q.outcome[s] # "pending"
    BY <2>4, <2>5 DEF Steps
  <2> QED BY <2>6, <2>7, <2>9, <2>10, <2>11 DEF Kept, Core
<1>5. CASE P.outcome[s] = "pending" /\ ~Contains(P.queue, s)
  <2> DEFINE w == CHOOSE w \in Running(P) : P.worker[w].pending = s
  <2>1. \E x \in Running(P) : P.worker[x].pending = s
    <3>1. PICK x \in Realm : P.worker[x].pending = s
      BY <1>2, <1>5
    <3>2. s # NoSource
      BY VerifyAssumption
    <3>3. P.worker[x].there
      BY <3>1, <3>2, NoWorkerShape DEF Kept, Core, Shape, SlotShape
    <3> QED BY <3>1, <3>2, <3>3 DEF Running, Idle, Slots
  <2>2. w \in Running(P) /\ P.worker[w].pending = s
    BY <2>1
  <2>3. Q \in Finished(P, w, "failed")
    BY <1>5 DEF Cancelled
  <2> HIDE DEF w
  <2>4. Core(P) /\ \A x \in Realm : x # w => SoundAt(P, x)
    BY DEF Kept
  <2>5. Kept(Q) /\ Steps(P, Q) /\ Q.outcome[P.worker[w].pending] # "pending"
    BY <2>2, <2>3, <2>4, FinishedKeeps
  <2> QED BY <2>2, <2>5
<1> QED BY <1>3, <1>4, <1>5

LEMMA AllCancelledKeeps ==
  ASSUME NEW P, Kept(P), NEW Q \in AllCancelled(P), width \in 0..MaxWidth
  PROVE  Kept(Q) /\ Steps(P, Q) /\ \A s \in Sources : Q.outcome[s] # "pending"
<1> DEFINE P0 == [P EXCEPT !.queue = <<>>]
           R == Settled(P0, ToSet(P.queue), "failed")
<1>1. P \in PoolState /\ <<>> \in Seq(Sources) /\ "failed" \in Outcome /\ width \in Nat
  BY VerifyAssumption DEF Kept, Core, Shape, Outcome
<1>2. /\ P0 \in PoolState /\ P0.open = P.open /\ P0.broken = P.broken /\ P0.queue = <<>>
      /\ P0.worker = P.worker /\ P0.outcome = P.outcome
  BY <1>1 DEF PoolState
<1>3. PICK throw \in Throws(R, Running(R)) :
        LET T == Settled(Terminated(R, Running(R), throw), Sources, "failed")
        IN Q \in IF throw = {} THEN {T} ELSE Closed(T)
  BY DEF AllCancelled
<1> HIDE DEF P0
<1>4. /\ R \in PoolState /\ R.open = P.open /\ R.broken = P.broken /\ R.queue = <<>>
      /\ R.worker = P.worker
      /\ \A s \in Sources : R.outcome[s] =
           IF s \in ToSet(P.queue) /\ P.outcome[s] = "pending" THEN "failed" ELSE P.outcome[s]
  BY <1>1, <1>2, SettledIs
<1> DEFINE A == Running(R)
           U == Terminated(R, A, throw)
           T == Settled(U, Sources, "failed")
<1>5. Q \in IF throw = {} THEN {T} ELSE Closed(T)
  BY <1>3
<1> HIDE DEF R
<1>6. A \in SUBSET Realm /\ throw \in SUBSET A /\ throw \in Throws(R, A)
      /\ \A x \in Realm : x \in A <=> P.worker[x].there /\ P.worker[x].pending # NoSource
  BY <1>3, <1>4 DEF Throws, Running, Idle, Slots
<1> HIDE DEF A
<1>7. /\ U \in PoolState /\ U.queue = R.queue /\ U.outcome = R.outcome
      /\ U.open = (R.open /\ throw = {}) /\ U.broken = (R.broken \/ throw # {})
      /\ \A w \in Realm : U.worker[w] =
           IF w \in throw THEN [R.worker[w] EXCEPT !.pending = NoSource]
           ELSE IF w \in A THEN NoWorker ELSE R.worker[w]
  BY <1>4, <1>6, TerminatedIs
<1> HIDE DEF U
<1>8. /\ T \in PoolState /\ T.open = U.open /\ T.broken = U.broken /\ T.queue = U.queue
      /\ T.worker = U.worker
      /\ \A s \in Sources : T.outcome[s] =
           IF s \in Sources /\ U.outcome[s] = "pending" THEN "failed" ELSE U.outcome[s]
  BY <1>1, <1>7, SettledIs
<1> HIDE DEF T
<1>9. ASSUME NEW x \in Realm
      PROVE  /\ SlotShape(T.worker[x]) /\ (T.worker[x].there => P.worker[x].there)
             /\ T.worker[x].pending = NoSource
             /\ throw = {} => T.worker[x] = NoWorker \/ T.worker[x] = P.worker[x]
  <2>1. P.worker[x] \in Slot /\ SlotShape(P.worker[x])
    BY <1>1, PoolFields DEF Kept, Core, Shape
  <2>2. CASE x \in throw
    <3>1. T.worker[x] = [P.worker[x] EXCEPT !.pending = NoSource] /\ P.worker[x].there
      BY <1>4, <1>6, <1>7, <1>8, <2>2
    <3> QED BY <2>1, <2>2, <3>1 DEF Slot, SlotShape
  <2>3. CASE x \notin throw /\ x \in A
    BY <1>7, <1>8, <2>3, NoWorkerShape
  <2>4. CASE x \notin throw /\ x \notin A
    <3>1. T.worker[x] = P.worker[x]
      BY <1>4, <1>7, <1>8, <2>4
    <3>2. P.worker[x].pending = NoSource
      <4>1. CASE P.worker[x].there
        BY <1>6, <2>4, <4>1
      <4>2. CASE ~P.worker[x].there
        BY <2>1, <4>2, NoWorkerShape DEF SlotShape
      <4> QED BY <4>1, <4>2
    <3> QED BY <2>1, <3>1, <3>2
  <2> QED BY <1>6, <2>2, <2>3, <2>4
<1>10. Shape(T)
  <2>1. Slots(T) \in SUBSET Slots(P) /\ Slots(P) \in SUBSET Realm
    BY <1>9 DEF Slots
  <2>2. /\ Cardinality(Slots(T)) <= Cardinality(Slots(P))
        /\ Cardinality(Slots(P)) \in Nat /\ Cardinality(Slots(T)) \in Nat
    BY <2>1, SomeRealms, FS_Subset
  <2>3. Cardinality(Slots(T)) <= width
    BY <1>1, <2>2 DEF Kept, Core, Shape
  <2> QED BY <1>8, <1>9, <2>3 DEF Shape
<1>11. \A s \in Sources : T.outcome[s] # "pending" /\ (CountsAgree => T.outcome[s] # "corrupt")
  BY <1>4, <1>7, <1>8 DEF Kept, Core
<1>12. Steps(P, T)
  BY <1>4, <1>7, <1>8, <1>11 DEF Steps
<1>13. CASE throw = {}
  <2>1. Q = T
    BY <1>5, <1>13
  <2>2. T.queue = <<>> /\ T.open = P.open /\ T.broken = P.broken
    BY <1>4, <1>7, <1>8, <1>13, <1>1, PoolFields
  <2>3. IsInjective(T.queue) /\ \A s : ~Contains(T.queue, s)
    BY <2>2 DEF IsInjective, Contains
  <2>4. Places(T)
    <3>1. \A s \in Sources : ~ \E w \in Realm : T.worker[w].pending = s
      BY <1>9, VerifyAssumption
    <3> QED BY <1>9, <1>11, <2>3, <3>1 DEF Places
  <2>5. Closing(T)
    BY <1>9, <2>2 DEF Kept, Core, Closing
  <2>6. \A x \in Realm : SoundAt(T, x)
    BY <1>9, <1>13, <2>2, NoWorkerShape DEF Kept, SoundAt
  <2>7. Kept(T)
    BY <1>10, <1>11, <2>3, <2>4, <2>5, <2>6 DEF Kept, Core
  <2> QED BY <1>11, <1>12, <2>1, <2>7
<1>14. CASE throw # {}
  <2>1. Q \in Closed(T)
    BY <1>5, <1>14
  <2>2. Kept(Q) /\ Steps(T, Q) /\ \A s \in Sources : Q.outcome[s] # "pending"
    BY <1>1, <1>10, <1>11, <2>1, ClosedKeeps
  <2> QED BY <1>12, <2>2, StepsCompose
<1> QED BY <1>13, <1>14
-----------------------------------------------------------------------------
(* Messages to the host *)

LEMMA OneOrTwo ==
  ASSUME NEW S, NEW q \in Seq(S)
  PROVE  /\ Len(q) = 1 => q # <<>> /\ Head(q) = q[1] /\ Tail(q) = <<>> /\ q[1] \in S
         /\ Len(q) = 2 => /\ q # <<>> /\ Head(q) = q[1] /\ Len(Tail(q)) = 1 /\ Tail(q)[1] = q[2]
                          /\ q[1] \in S /\ q[2] \in S /\ Tail(q) \in Seq(S)
<1>1. ASSUME Len(q) = 1 PROVE q # <<>> /\ Head(q) = q[1] /\ Tail(q) = <<>> /\ q[1] \in S
  <2>1. q # <<>>
    BY <1>1
  <2>2. Tail(q) \in Seq(S) /\ Len(Tail(q)) = 0 /\ Head(q) = q[1] /\ q[1] \in S
    BY <1>1, <2>1, HeadAndTail
  <2>3. Tail(q) = <<>>
    BY <2>2, EmptySeq
  <2> QED BY <2>1, <2>2, <2>3
<1>2. ASSUME Len(q) = 2
      PROVE  /\ q # <<>> /\ Head(q) = q[1] /\ Len(Tail(q)) = 1 /\ Tail(q)[1] = q[2]
             /\ q[1] \in S /\ q[2] \in S /\ Tail(q) \in Seq(S)
  <2> DEFINE r == Tail(q)
  <2>1. q # <<>> /\ 1 \in 1..Len(q) /\ 2 \in 1..Len(q)
    BY <1>2
  <2>2. /\ r \in Seq(S) /\ Len(r) = 1 /\ Head(q) = q[1] /\ q[1] \in S
        /\ \A i \in 1..Len(r) : r[i] = q[i + 1]
    BY <1>2, <2>1, HeadAndTail
  <2>3. q[2] \in S
    BY <2>1
  <2> HIDE DEF r
  <2>4. r[1] = q[1 + 1]
    BY <2>2
  <2> QED BY <2>1, <2>2, <2>3, <2>4 DEF r
<1> QED BY <1>1, <1>2

\* The host answers progress, and the Worker waits for the answer or is done.
LEMMA AnsweredIs ==
  ASSUME NEW v \in Slot, SlotShape(v), v.there, NEW m \in HostMessage,
         m.type = "progress", m.generation = v.generation
  PROVE  LET u == Answered(v, m)
             a == [type |-> "ack", generation |-> m.generation, updates |-> m.updates]
         IN /\ u \in Slot /\ SlotShape(u) /\ u.there = v.there /\ u.pending = v.pending
            /\ u.job = v.job /\ u.of = v.of /\ u.generation = v.generation /\ u.updates = v.updates
            /\ u.sent = v.sent /\ u.awaiting = v.awaiting /\ u.last = m.updates
            /\ u.toHost = v.toHost /\ u.toWorker = Append(v.toWorker, a)
            /\ (Acks(v.toWorker, Len(v.toWorker), v.generation)
                  => Acks(u.toWorker, Len(u.toWorker), v.generation))
            /\ v.toWorker = <<>> => Len(u.toWorker) = 1 /\ u.toWorker[1] = a
<1> DEFINE a == [type |-> "ack", generation |-> m.generation, updates |-> m.updates]
           q == Append(v.toWorker, a)
           u == Answered(v, m)
<1>1. /\ v.generation \in Nat /\ v.toWorker \in Seq(WorkerMessage) /\ v.of \in Nat
  BY SlotFields
<1>2. m.generation \in Nat /\ m.updates \in Nat
  BY DEF HostMessage
<1>3. a \in WorkerMessage /\ a.type = "ack" /\ a.generation = v.generation
  BY <1>2 DEF WorkerMessage
<1>4. u = [v EXCEPT !.last = m.updates, !.toWorker = q]
  BY DEF Answered
<1> HIDE DEF a, u
<1>5. PICK n \in Nat : n = Len(v.toWorker)
  BY <1>1
<1>6. /\ q \in Seq(WorkerMessage) /\ Len(q) = n + 1 /\ q[n + 1] = a
      /\ \A i \in 1..n : q[i] = v.toWorker[i]
  BY <1>1, <1>3, <1>5
<1>7. v.toWorker = <<>> => Len(q) = 1 /\ q[1] = a
  BY <1>1, <1>3
<1> HIDE DEF q
<1>8. /\ u \in Slot /\ u.there = v.there /\ u.pending = v.pending /\ u.alive = v.alive
      /\ u.job = v.job /\ u.of = v.of /\ u.generation = v.generation /\ u.updates = v.updates
      /\ u.sent = v.sent /\ u.awaiting = v.awaiting /\ u.last = m.updates
      /\ u.toHost = v.toHost /\ u.toWorker = q
  BY <1>1, <1>2, <1>4, <1>6 DEF Slot
<1>9. ASSUME NEW i \in 1..(n + 1) PROVE i \in 1..n \/ q[i] = a
  BY <1>6
<1>10. \A i \in 1..Len(q) : q[i].generation <= v.generation
  BY <1>1, <1>3, <1>5, <1>6, <1>9 DEF SlotShape
<1>11. SlotShape(u)
  BY <1>8, <1>10 DEF SlotShape
<1>12. Acks(v.toWorker, Len(v.toWorker), v.generation) => Acks(q, Len(q), v.generation)
  BY <1>1, <1>3, <1>5, <1>6, <1>9 DEF Acks
<1> QED BY <1>7, <1>8, <1>11, <1>12 DEF u, q, a

LEMMA ReceivedKeeps ==
  ASSUME NEW P, Kept(P), NEW w \in Realm, P.worker[w].toHost # <<>>,
         NEW Q \in Received(P, w), width \in 0..MaxWidth
  PROVE  Kept(Q) /\ Steps(P, Q)
<1> DEFINE v == P.worker[w]
           m == Head(v.toHost)
           u == [v EXCEPT !.toHost = Tail(@)]
           R == [P EXCEPT !.worker[w] = u]
<1>1. /\ Core(P) /\ P \in PoolState /\ P.worker \in [Realm -> Slot] /\ v \in Slot /\ SlotShape(v)
      /\ v.toHost \in Seq(HostMessage) /\ m \in HostMessage /\ Tail(v.toHost) \in Seq(HostMessage)
      /\ v.updates \in Nat /\ v.sent \in Nat /\ v.sent <= v.updates /\ v.last \in Nat
  <2>1. Core(P) /\ P \in PoolState /\ SlotShape(v)
    BY DEF Kept, Core, Shape
  <2>2. P.worker \in [Realm -> Slot] /\ v \in Slot
    BY <2>1, PoolFields
  <2>3. v.toHost \in Seq(HostMessage) /\ v.updates \in Nat /\ v.sent \in Nat /\ v.last \in Nat
    BY <2>2, SlotFields
  <2>4. m \in HostMessage /\ Tail(v.toHost) \in Seq(HostMessage)
    BY <2>3, HeadAndTail
  <2> QED BY <2>1, <2>2, <2>3, <2>4 DEF SlotShape
<1>2. u \in Slot /\ SlotShape(u) /\ u.there = v.there /\ u.pending = v.pending
  <2>1. v.there
    BY <1>1 DEF SlotShape, NoWorker
  <2> QED BY <1>1, <2>1 DEF Slot, SlotShape
<1>3. R = [P EXCEPT !.worker[w].toHost = Tail(@)]
  OBVIOUS
<1> HIDE DEF u
<1>4. /\ Core(R) /\ R \in PoolState /\ R.worker[w] = u /\ R.broken = P.broken /\ R.open = P.open
      /\ R.outcome = P.outcome /\ R.queue = P.queue
      /\ \A x \in Realm : x # w => R.worker[x] = P.worker[x]
      /\ \A x \in Realm : x # w => SoundAt(R, x)
  <2>1. Core(P) /\ u.there = P.worker[w].there /\ u.pending = P.worker[w].pending
    BY <1>1, <1>2
  <2>2. \A x \in Realm : SoundAt(P, x)
    BY DEF Kept
  <2> QED BY <1>2, <2>1, <2>2, ChangedKeeps
<1> DEFINE acked == [R EXCEPT !.worker[w] = Answered(@, m)]
<1>5. Q \in IF ~v.there \/ v.pending = NoSource \/ m.generation # v.generation THEN {R}
            ELSE CASE m.type = "progress" ->
                        IF m.updates <= v.last \/ m.updates > Len(Work[v.pending])
                          THEN Finished(R, w, "corrupt") ELSE {acked}
                   [] m.type = "failure" -> Finished(R, w, m.kind)
                   [] OTHER -> IF m.counts = Expected[v.pending] THEN Completed(R, w)
                               ELSE Finished(R, w, "corrupt")
  BY <1>3 DEF Received
<1>6. /\ acked = [R EXCEPT !.worker[w] = Answered(u, m)] /\ u.toHost = Tail(v.toHost)
      /\ u.job = v.job /\ u.of = v.of /\ u.generation = v.generation /\ u.updates = v.updates
      /\ u.sent = v.sent /\ u.awaiting = v.awaiting /\ u.last = v.last /\ u.toWorker = v.toWorker
  BY <1>1, <1>4 DEF u, Slot
<1> HIDE DEF acked, R
<1>7. CASE ~v.there \/ v.pending = NoSource \/ m.generation # v.generation
  <2>1. Q = R
    BY <1>5, <1>7
  <2>2. ASSUME ~P.broken, v.there PROVE FALSE
    <3>1. Sound(v)
      BY <2>2 DEF Kept, SoundAt
    <3>2. CASE Runs(v)
      BY <1>1, <1>7, <2>2, <3>2, OneOrTwo DEF Runs, Reports
    <3>3. CASE Over(v)
      BY <1>1, <1>7, <2>2, <3>3, OneOrTwo DEF Over, Reports, Ends
    <3> QED BY <3>1, <3>2, <3>3 DEF Sound, Rests, Fresh
  <2>3. SoundAt(R, w)
    BY <1>2, <1>4, <2>2 DEF SoundAt
  <2> QED BY <1>4, <2>1, <2>3 DEF Kept, Steps
<1>8. CASE v.there /\ v.pending # NoSource /\ m.generation = v.generation
  <2>1. P.open /\ ~P.broken /\ Sound(v)
    BY <1>1, <1>8 DEF Kept, Core, Closing, SoundAt
  <2>2. w \in Running(R) /\ v.pending \in Sources
    BY <1>1, <1>2, <1>4, <1>8, SlotFields DEF Running, Idle, Slots
  <2>3. Steps(P, R)
    BY <1>4 DEF Steps
  <2>4. ASSUME NEW o \in {"failed", "corrupt"}, o = "corrupt" => ~CountsAgree, Q \in Finished(R, w, o)
        PROVE  Kept(Q) /\ Steps(P, Q)
    BY <1>4, <2>2, <2>3, <2>4, FinishedKeeps, StepsCompose
  <2>5. ASSUME CountsAgree PROVE Len(Work[v.pending]) \in Nat /\ Counts(v.pending) = Expected[v.pending]
    BY <2>2, <2>5 DEF CountsAgree
  <2>6. ASSUME Q = acked, Answered(u, m) \in Slot, SlotShape(Answered(u, m)),
               Answered(u, m).there = v.there, Answered(u, m).pending = v.pending, Sound(Answered(u, m))
        PROVE  Kept(Q) /\ Steps(P, Q)
    <3>1. /\ Core(Q) /\ Q.worker[w] = Answered(u, m) /\ Q.broken = P.broken /\ Q.open = P.open
          /\ Q.outcome = P.outcome
          /\ \A x \in Realm : x # w /\ SoundAt(R, x) => SoundAt(Q, x)
      <4> DEFINE n == Answered(u, m)
      <4>1. n \in Slot /\ SlotShape(n) /\ n.there = R.worker[w].there /\ n.pending = R.worker[w].pending
        BY <1>2, <1>4, <2>6
      <4>2. Q = [R EXCEPT !.worker[w] = n]
        BY <1>6, <2>6
      <4> DEFINE E == [R EXCEPT !.worker[w] = n]
      <4> HIDE DEF n, m
      <4>3. /\ Core(E) /\ E.worker[w] = n /\ E.broken = R.broken /\ E.open = R.open
            /\ E.outcome = R.outcome
            /\ \A x \in Realm : x # w /\ SoundAt(R, x) => SoundAt(E, x)
        <5>1. Core(R)
          BY <1>4
        <5> QED BY <4>1, <5>1, ChangedKeeps
      <4> HIDE DEF E
      <4>4. Q = E
        BY <4>2 DEF E
      <4> QED BY <1>4, <4>3, <4>4 DEF n
    <3> QED BY <1>4, <2>6, <3>1 DEF Kept, SoundAt, Steps
  <2>7. CASE Runs(v)
    <3>1. /\ m = v.toHost[1] /\ Len(v.toHost) = 1 /\ Tail(v.toHost) = <<>> /\ v.awaiting
          /\ m.type = "progress" /\ m.updates = v.sent /\ v.last < v.sent /\ v.toWorker = <<>>
      BY <1>1, <2>7, OneOrTwo DEF Runs, Reports
    <3>2. ~(m.updates <= v.last)
      BY <1>1, <3>1
    <3>3. CASE m.updates > Len(Work[v.pending])
      <4>1. ~CountsAgree
        <5>1. SUFFICES ASSUME CountsAgree PROVE FALSE
          OBVIOUS
        <5>2. v.updates <= Len(Work[v.pending]) /\ Len(Work[v.pending]) \in Nat
          BY <2>5, <2>7, <5>1 DEF Runs
        <5> QED BY <1>1, <3>1, <3>3, <5>2
      <4>2. Q \in Finished(R, w, "corrupt")
        BY <1>5, <1>8, <3>1, <3>3
      <4> QED BY <2>4, <4>1, <4>2
    <3>4. CASE ~(m.updates > Len(Work[v.pending]))
      <4>1. Q = acked
        BY <1>5, <1>8, <3>1, <3>2, <3>4
      <4> DEFINE n == Answered(u, m)
                 a == [type |-> "ack", generation |-> m.generation, updates |-> m.updates]
      <4>2. /\ n \in Slot /\ SlotShape(n) /\ n.there = v.there /\ n.pending = v.pending
            /\ n.job = v.job /\ n.of = v.of /\ n.generation = v.generation /\ n.updates = v.updates
            /\ n.sent = v.sent /\ n.awaiting = v.awaiting /\ n.last = m.updates
            /\ n.toHost = u.toHost /\ Len(n.toWorker) = 1 /\ n.toWorker[1] = a
        <5>1. u \in Slot /\ SlotShape(u) /\ u.there /\ m \in HostMessage
          BY <1>1, <1>2, <1>8
        <5>2. m.type = "progress" /\ m.generation = u.generation /\ u.toWorker = <<>>
          BY <1>6, <1>8, <3>1
        <5> HIDE DEF m
        <5>3. /\ n \in Slot /\ SlotShape(n) /\ n.there = u.there /\ n.pending = u.pending
              /\ n.job = u.job /\ n.of = u.of /\ n.generation = u.generation /\ n.updates = u.updates
              /\ n.sent = u.sent /\ n.awaiting = u.awaiting /\ n.last = m.updates
              /\ n.toHost = u.toHost /\ Len(n.toWorker) = 1 /\ n.toWorker[1] = a
          BY <5>1, <5>2, AnsweredIs
        <5> QED BY <1>2, <1>6, <5>3
      <4> HIDE DEF n
      <4>3. Runs(n)
        BY <1>6, <1>8, <2>7, <3>1, <4>2 DEF Runs
      <4> QED BY <2>6, <4>1, <4>2, <4>3 DEF n, Sound
    <3> QED BY <3>3, <3>4
  <2>8. CASE Over(v) /\ Len(v.toHost) = 1
    <3>1. m = v.toHost[1] /\ Tail(v.toHost) = <<>> /\ Ends(v, m)
      BY <1>1, <2>8, OneOrTwo DEF Over
    <3>2. CASE m.type = "failure" /\ m.kind = "failed"
      BY <1>5, <1>8, <2>4, <3>2
    <3>3. CASE m.type = "complete" /\ m.counts = Counts(v.pending)
      <4>1. CASE m.counts = Expected[v.pending]
        <5>1. Q \in Completed(R, w)
          BY <1>5, <1>8, <3>3, <4>1
        <5>2. /\ u.toHost = <<>> /\ u.toWorker = v.toWorker /\ u.generation = v.generation
              /\ u.job = v.job /\ u.updates = v.updates /\ u.sent = v.sent /\ u.awaiting = v.awaiting
          BY <1>1, <3>1 DEF u, Slot
        <5>3. JobFree(u) /\ Acks(u.toWorker, Len(u.toWorker), u.generation)
          BY <2>8, <5>2 DEF Over, JobFree
        <5>4. Kept(Q) /\ Steps(R, Q)
          BY <1>4, <2>2, <5>1, <5>2, <5>3, CompletedKeeps
        <5> QED BY <2>3, <5>4, StepsCompose
      <4>2. CASE m.counts # Expected[v.pending]
        <5>1. Q \in Finished(R, w, "corrupt")
          BY <1>5, <1>8, <3>3, <4>2
        <5>2. ~CountsAgree
          BY <2>5, <3>3, <4>2
        <5> QED BY <2>4, <5>1, <5>2
      <4> QED BY <4>1, <4>2
    <3> QED BY <3>1, <3>2, <3>3 DEF Ends
  <2>9. CASE Over(v) /\ Len(v.toHost) = 2
    <3>1. /\ m = v.toHost[1] /\ Len(Tail(v.toHost)) = 1 /\ Tail(v.toHost)[1] = v.toHost[2]
          /\ m.type = "progress" /\ v.last < m.updates /\ Ends(v, v.toHost[2])
          /\ CountsAgree => m.updates <= Len(Work[v.pending])
      BY <1>1, <2>9, OneOrTwo DEF Over, Reports
    <3>2. m.updates \in Nat
      BY <1>1, <3>1 DEF HostMessage
    <3>3. ~(m.updates <= v.last)
      BY <1>1, <3>1, <3>2
    <3>4. CASE m.updates > Len(Work[v.pending])
      <4>1. ~CountsAgree
        BY <2>5, <3>1, <3>2, <3>4
      <4>2. Q \in Finished(R, w, "corrupt")
        BY <1>5, <1>8, <3>1, <3>4
      <4> QED BY <2>4, <4>1, <4>2
    <3>5. CASE ~(m.updates > Len(Work[v.pending]))
      <4>1. Q = acked
        BY <1>5, <1>8, <3>1, <3>3, <3>5
      <4> DEFINE n == Answered(u, m)
      <4>2. /\ n \in Slot /\ SlotShape(n) /\ n.there = v.there /\ n.pending = v.pending
            /\ n.job = v.job /\ n.of = v.of /\ n.generation = v.generation /\ n.updates = v.updates
            /\ n.sent = v.sent /\ n.awaiting = v.awaiting /\ n.last = m.updates
            /\ n.toHost = u.toHost /\ Acks(n.toWorker, Len(n.toWorker), v.generation)
        <5>1. u \in Slot /\ SlotShape(u) /\ u.there /\ m \in HostMessage
          BY <1>1, <1>2, <1>8
        <5>2. m.type = "progress" /\ m.generation = u.generation
          BY <1>6, <1>8, <3>1
        <5>3. Acks(u.toWorker, Len(u.toWorker), u.generation)
          BY <1>6, <2>9 DEF Over
        <5> HIDE DEF m
        <5>4. /\ n \in Slot /\ SlotShape(n) /\ n.there = u.there /\ n.pending = u.pending
              /\ n.job = u.job /\ n.of = u.of /\ n.generation = u.generation /\ n.updates = u.updates
              /\ n.sent = u.sent /\ n.awaiting = u.awaiting /\ n.last = m.updates
              /\ n.toHost = u.toHost /\ Acks(n.toWorker, Len(n.toWorker), u.generation)
          BY <5>1, <5>2, <5>3, AnsweredIs
        <5> QED BY <1>2, <1>6, <5>4
      <4> HIDE DEF n
      <4>3. Ends(n, n.toHost[1]) /\ Len(n.toHost) = 1
        BY <1>6, <3>1, <4>2 DEF Ends
      <4>4. JobFree(n) /\ n.pending # NoSource
        BY <1>8, <2>9, <4>2 DEF Over, JobFree
      <4>5. Acks(n.toWorker, Len(n.toWorker), n.generation)
        BY <4>2
      <4>6. Over(n)
        BY <4>3, <4>4, <4>5 DEF Over
      <4> QED BY <2>6, <4>1, <4>2, <4>6 DEF n, Sound
    <3> QED BY <3>4, <3>5
  <2>10. Runs(v) \/ Over(v)
    BY <1>8, <2>1 DEF Sound, Rests, Fresh
  <2> QED BY <2>7, <2>8, <2>9, <2>10 DEF Over
<1> QED BY <1>7, <1>8
-----------------------------------------------------------------------------
(* The steps of a Worker *)

LEMMA WorkerKeeps ==
  ASSUME NEW P, Kept(P), NEW w \in Realm, NEW v \in Slot, SlotShape(v),
         v.there = P.worker[w].there, v.pending = P.worker[w].pending, ~P.broken => Sound(v)
  PROVE  LET Q == [P EXCEPT !.worker[w] = v] IN Kept(Q) /\ Steps(P, Q)
<1> DEFINE Q == [P EXCEPT !.worker[w] = v]
<1>1. Core(P) /\ \A x \in Realm : SoundAt(P, x)
  BY DEF Kept
<1>2. /\ Core(Q) /\ Q.worker[w] = v /\ Q.broken = P.broken /\ Q.open = P.open
      /\ Q.outcome = P.outcome
      /\ \A x \in Realm : x # w /\ SoundAt(P, x) => SoundAt(Q, x)
  BY <1>1, ChangedKeeps
<1> HIDE DEF Q
<1>3. SoundAt(Q, w)
  BY <1>2 DEF SoundAt
<1>4. Kept(Q)
  BY <1>1, <1>2, <1>3 DEF Kept
<1>5. Steps(P, Q)
  BY <1>2 DEF Steps
<1> QED BY <1>4, <1>5 DEF Q

LEMMA PostIs ==
  ASSUME NEW v \in Slot, NEW m \in HostMessage
  PROVE  LET u == Post(v, m)
         IN /\ u \in Slot /\ u.there = v.there /\ u.pending = v.pending /\ u.generation = v.generation
            /\ u.last = v.last /\ u.alive = v.alive /\ u.hung = v.hung /\ u.job = v.job /\ u.of = v.of
            /\ u.updates = v.updates /\ u.sent = v.sent /\ u.awaiting = v.awaiting
            /\ u.toWorker = v.toWorker
            /\ v.toHost = <<>> => Len(u.toHost) = 1 /\ u.toHost[1] = m
            /\ Len(v.toHost) = 1 => /\ Len(u.toHost) = 2 /\ u.toHost[2] = m
                                    /\ u.toHost[1] = v.toHost[1]
<1> DEFINE q == Append(v.toHost, m)
<1>1. v.toHost \in Seq(HostMessage)
  BY SlotFields
<1>2. PICK n \in Nat : n = Len(v.toHost)
  BY <1>1
<1>3. /\ q \in Seq(HostMessage) /\ Len(q) = n + 1 /\ q[n + 1] = m
      /\ \A i \in 1..n : q[i] = v.toHost[i]
  BY <1>1, <1>2
<1>4. Post(v, m) = [v EXCEPT !.toHost = q]
  BY DEF Post
<1> HIDE DEF q
<1> DEFINE u == [v EXCEPT !.toHost = q]
<1>5. /\ u \in Slot /\ u.there = v.there /\ u.pending = v.pending /\ u.generation = v.generation
      /\ u.last = v.last /\ u.alive = v.alive /\ u.hung = v.hung /\ u.job = v.job /\ u.of = v.of
      /\ u.updates = v.updates /\ u.sent = v.sent /\ u.awaiting = v.awaiting
      /\ u.toWorker = v.toWorker /\ u.toHost = q
  BY <1>3 DEF Slot
<1>6. v.toHost = <<>> => Len(q) = 1 /\ q[1] = m
  BY <1>2, <1>3
<1>7. Len(v.toHost) = 1 => Len(q) = 2 /\ q[2] = m /\ q[1] = v.toHost[1]
  BY <1>2, <1>3
<1> HIDE DEF u
<1> QED BY <1>4, <1>5, <1>6, <1>7 DEF u

LEMMA ClearIs ==
  ASSUME NEW v \in Slot
  PROVE  LET u == Clear(v)
         IN /\ u \in Slot /\ u.there = v.there /\ u.pending = v.pending /\ u.generation = v.generation
            /\ u.last = v.last /\ u.alive = v.alive /\ u.of = 0 /\ u.sent = 0 /\ u.updates = 0
            /\ JobFree(u) /\ u.toWorker = v.toWorker /\ u.toHost = v.toHost
BY DEF Clear, Slot, JobFree

LEMMA PostProgressIs ==
  ASSUME NEW v \in Slot, SlotShape(v), v.there
  PROVE  LET u == PostProgress(v)
         IN /\ u \in Slot /\ SlotShape(u) /\ u.there = v.there /\ u.pending = v.pending
            /\ u.generation = v.generation /\ u.last = v.last /\ u.job = v.job /\ u.of = v.of
            /\ u.updates = v.updates /\ u.sent = v.updates /\ u.awaiting /\ u.toWorker = v.toWorker
            /\ v.toHost = <<>> => /\ Len(u.toHost) = 1 /\ u.toHost[1].type = "progress"
                                  /\ u.toHost[1].generation = v.of /\ u.toHost[1].updates = v.updates
<1> DEFINE m == [type |-> "progress", generation |-> v.of, updates |-> v.updates]
           n == Post(v, m)
           u == [n EXCEPT !.sent = v.updates, !.awaiting = TRUE]
<1>1. v.of \in Nat /\ v.updates \in Nat
  BY SlotFields
<1>2. m \in HostMessage /\ m.type = "progress" /\ m.generation = v.of /\ m.updates = v.updates
  BY <1>1 DEF HostMessage
<1> HIDE DEF m
<1>3. /\ n \in Slot /\ n.there = v.there /\ n.pending = v.pending /\ n.generation = v.generation
      /\ n.last = v.last /\ n.alive = v.alive /\ n.job = v.job /\ n.of = v.of /\ n.updates = v.updates
      /\ n.toWorker = v.toWorker
      /\ v.toHost = <<>> => Len(n.toHost) = 1 /\ n.toHost[1] = m
  BY <1>2, PostIs
<1> HIDE DEF n
<1>4. /\ u \in Slot /\ u.there = n.there /\ u.pending = n.pending /\ u.generation = n.generation
      /\ u.last = n.last /\ u.alive = n.alive /\ u.job = n.job /\ u.of = n.of /\ u.updates = n.updates
      /\ u.toWorker = n.toWorker /\ u.toHost = n.toHost /\ u.sent = v.updates /\ u.awaiting
  BY <1>1, <1>3 DEF Slot
<1>5. PostProgress(v) = u
  BY DEF PostProgress, n, m
<1> HIDE DEF u
<1>6. SlotShape(u)
  BY <1>1, <1>3, <1>4 DEF SlotShape
<1> QED BY <1>2, <1>3, <1>4, <1>5, <1>6

LEMMA FailJobIs ==
  ASSUME NEW v \in Slot, SlotShape(v), v.there, NEW k \in {"failed", "corrupt"}
  PROVE  LET u == FailJob(v, k)
         IN /\ u \in Slot /\ SlotShape(u) /\ u.there = v.there /\ u.pending = v.pending
            /\ u.generation = v.generation /\ u.last = v.last /\ JobFree(u) /\ u.toWorker = v.toWorker
            /\ v.toHost = <<>> => /\ Len(u.toHost) = 1 /\ u.toHost[1].type = "failure"
                                  /\ u.toHost[1].generation = v.of /\ u.toHost[1].kind = k
            /\ Len(v.toHost) = 1 => /\ Len(u.toHost) = 2 /\ u.toHost[1] = v.toHost[1]
                                    /\ u.toHost[2].type = "failure"
                                    /\ u.toHost[2].generation = v.of /\ u.toHost[2].kind = k
<1> DEFINE m == [type |-> "failure", generation |-> v.of, kind |-> k]
           n == Post(v, m)
           u == Clear(n)
<1>1. v.of \in Nat
  BY SlotFields
<1>2. m \in HostMessage /\ m.type = "failure" /\ m.generation = v.of /\ m.kind = k
  BY <1>1 DEF HostMessage
<1> HIDE DEF m
<1>3. /\ n \in Slot /\ n.there = v.there /\ n.pending = v.pending /\ n.generation = v.generation
      /\ n.last = v.last /\ n.alive = v.alive /\ n.toWorker = v.toWorker
      /\ v.toHost = <<>> => Len(n.toHost) = 1 /\ n.toHost[1] = m
      /\ Len(v.toHost) = 1 => Len(n.toHost) = 2 /\ n.toHost[2] = m /\ n.toHost[1] = v.toHost[1]
  BY <1>2, PostIs
<1> HIDE DEF n
<1>4. /\ u \in Slot /\ u.there = n.there /\ u.pending = n.pending /\ u.generation = n.generation
      /\ u.last = n.last /\ u.alive = n.alive /\ u.of = 0 /\ u.sent = 0 /\ u.updates = 0
      /\ JobFree(u) /\ u.toWorker = n.toWorker /\ u.toHost = n.toHost
  BY <1>3, ClearIs
<1>5. FailJob(v, k) = u
  BY DEF FailJob, n, m
<1> HIDE DEF u
<1>6. SlotShape(u)
  <2>1. u.generation \in Nat
    BY <1>4, SlotFields
  <2> QED BY <1>3, <1>4, <2>1 DEF SlotShape
<1> QED BY <1>2, <1>3, <1>4, <1>5, <1>6
\* What a Worker does with a message, as in TakeMessage.
Taken(x) ==
  LET m == Head(x.toWorker)
      v == [x EXCEPT !.toWorker = Tail(@)]
      acked == [v EXCEPT !.awaiting = FALSE]
  IN IF m.type = "start"
       THEN IF v.job # NoSource
              THEN Post(v, [type |-> "failure", generation |-> m.generation, kind |-> "corrupt"])
              ELSE [v EXCEPT !.job = m.source, !.of = m.generation]
     ELSE IF v.job = NoSource \/ m.generation # v.of THEN v
     ELSE IF ~v.awaiting \/ m.updates # v.sent THEN FailJob(v, "corrupt")
     ELSE IF v.updates > v.sent THEN PostProgress(acked) ELSE acked

LEMMA TakenKeeps ==
  ASSUME NEW x \in Slot, SlotShape(x), x.there, x.toWorker # <<>>
  PROVE  /\ Taken(x) \in Slot /\ SlotShape(Taken(x))
         /\ Taken(x).there = x.there /\ Taken(x).pending = x.pending
         /\ Sound(x) => Sound(Taken(x))
<1> DEFINE m == Head(x.toWorker)
           v == [x EXCEPT !.toWorker = Tail(@)]
           acked == [v EXCEPT !.awaiting = FALSE]
           q == Tail(x.toWorker)
<1>1. /\ x.toWorker \in Seq(WorkerMessage) /\ m \in WorkerMessage /\ m = x.toWorker[1]
      /\ x.generation \in Nat /\ x.updates \in Nat /\ x.sent \in Nat /\ x.of \in Nat /\ x.last \in Nat
      /\ x.toHost \in Seq(HostMessage) /\ x.awaiting \in BOOLEAN
  BY SlotFields, HeadAndTail
<1>2. PICK n \in Nat : /\ n + 1 = Len(x.toWorker) /\ q \in Seq(WorkerMessage) /\ Len(q) = n
                       /\ \A i \in 1..n : i + 1 \in 1..(n + 1) /\ q[i] = x.toWorker[i + 1]
  <2>1. /\ Len(x.toWorker) \in Nat /\ Len(x.toWorker) >= 1 /\ q \in Seq(WorkerMessage)
        /\ Len(q) = Len(x.toWorker) - 1
        /\ \A i \in 1..Len(q) : i + 1 \in 1..Len(x.toWorker) /\ q[i] = x.toWorker[i + 1]
    BY <1>1, HeadAndTail
  <2>2. Len(x.toWorker) - 1 \in Nat /\ Len(x.toWorker) - 1 + 1 = Len(x.toWorker)
    BY <2>1
  <2> QED BY <2>1, <2>2
<1>3. /\ m.generation \in Nat /\ m.generation <= x.generation
      /\ m.type \in {"start", "ack"} /\ (m.type = "start" => m.source \in Sources)
  <2>1. 1 \in 1..Len(x.toWorker)
    BY <1>2
  <2> QED BY <1>1, <2>1 DEF SlotShape, WorkerMessage
<1>4. v = [x EXCEPT !.toWorker = q]
  OBVIOUS
<1>5. \A g, k : k \in Nat /\ k >= 1 /\ k <= n + 1 /\ Acks(x.toWorker, k, g) => m.type = "ack" /\ m.generation <= g /\ Acks(q, k - 1, g)
  <2> SUFFICES ASSUME NEW g, NEW k \in Nat, k >= 1, k <= n + 1, Acks(x.toWorker, k, g)
               PROVE  m.type = "ack" /\ m.generation <= g /\ Acks(q, k - 1, g)
    OBVIOUS
  <2>1. \A i \in 1..k : x.toWorker[i].type = "ack" /\ x.toWorker[i].generation <= g
    BY DEF Acks
  <2>2. m.type = "ack" /\ m.generation <= g
    BY <1>1, <2>1
  <2>3. ASSUME NEW i \in 1..(k - 1) PROVE q[i].type = "ack" /\ q[i].generation <= g
    <3>1. i \in 1..n /\ i + 1 \in 1..k /\ q[i] = x.toWorker[i + 1]
      BY <1>2
    <3> QED BY <2>1, <3>1
  <2> QED BY <2>2, <2>3 DEF Acks
<1>6. /\ v \in Slot /\ v.there /\ v.pending = x.pending /\ v.generation = x.generation /\ v.last = x.last
      /\ v.alive = x.alive /\ v.hung = x.hung /\ v.job = x.job /\ v.of = x.of /\ v.updates = x.updates
      /\ v.sent = x.sent /\ v.awaiting = x.awaiting /\ v.toHost = x.toHost /\ v.toWorker = q
  <2> HIDE DEF q, v
  <2> QED BY <1>1, <1>2, <1>4 DEF Slot
<1>7. SlotShape(v)
  <2>1. \A i \in 1..n : q[i].generation <= x.generation
    BY <1>2 DEF SlotShape
  <2> QED BY <1>2, <1>6, <2>1 DEF SlotShape
<1>8. /\ acked \in Slot /\ acked.there /\ acked.pending = v.pending /\ acked.generation = v.generation
      /\ acked.last = v.last /\ acked.alive = v.alive /\ acked.job = v.job /\ acked.of = v.of
      /\ acked.updates = v.updates /\ acked.sent = v.sent /\ ~acked.awaiting
      /\ acked.toHost = v.toHost /\ acked.toWorker = v.toWorker
  <2> HIDE DEF v
  <2> QED BY <1>6 DEF Slot
<1>9. Taken(x) = IF m.type = "start"
                   THEN IF v.job # NoSource
                          THEN Post(v, [type |-> "failure", generation |-> m.generation, kind |-> "corrupt"])
                          ELSE [v EXCEPT !.job = m.source, !.of = m.generation]
                 ELSE IF v.job = NoSource \/ m.generation # v.of THEN v
                 ELSE IF ~v.awaiting \/ m.updates # v.sent THEN FailJob(v, "corrupt")
                 ELSE IF v.updates > v.sent THEN PostProgress(acked) ELSE acked
  BY DEF Taken
<1> HIDE DEF acked, v, m, q
<1>10. SlotShape(acked)
  BY <1>6, <1>7, <1>8 DEF SlotShape
<1>11. ASSUME Sound(x)
       PROVE  /\ m.type = "start" => /\ Fresh(x) /\ n = 0 /\ m.generation = x.generation
                                     /\ m.source = x.pending
              /\ m.type = "ack" /\ x.job # NoSource =>
                   /\ Runs(x) /\ n = 0 /\ x.awaiting /\ m.generation = x.of /\ m.updates = x.sent
                   /\ x.toHost = <<>> /\ x.last = x.sent
  <2>1. CASE Rests(x)
    BY <1>1, <1>2, <1>5, <2>1 DEF Rests, JobFree
  <2>2. CASE Fresh(x)
    <3>1. CASE n = 0
      BY <1>1, <1>2, <2>2, <3>1 DEF Fresh, JobFree
    <3>2. CASE n # 0
      <4>1. n >= 1 /\ n <= n + 1 /\ Acks(x.toWorker, n, x.generation - 1)
        BY <1>2, <2>2, <3>2 DEF Fresh
      <4>2. m.type = "ack"
        BY <1>5, <4>1
      <4> QED BY <2>2, <4>2 DEF Fresh, JobFree
    <3> QED BY <3>1, <3>2
  <2>3. CASE Runs(x)
    BY <1>1, <1>2, <2>3 DEF Runs
  <2>4. CASE Over(x)
    BY <1>1, <1>2, <1>5, <2>4 DEF Over, JobFree
  <2> QED BY <1>11, <2>1, <2>2, <2>3, <2>4 DEF Sound
<1>12. CASE m.type = "start" /\ v.job # NoSource
  <2> DEFINE f == [type |-> "failure", generation |-> m.generation, kind |-> "corrupt"]
             u == Post(v, f)
  <2>1. f \in HostMessage
    BY <1>3 DEF HostMessage
  <2> HIDE DEF f
  <2>2. /\ u \in Slot /\ u.there = v.there /\ u.pending = v.pending /\ u.generation = v.generation
        /\ u.alive = v.alive /\ u.of = v.of /\ u.updates = v.updates /\ u.sent = v.sent
        /\ u.toWorker = v.toWorker
    BY <1>6, <2>1, PostIs
  <2>3. Taken(x) = u
    BY <1>9, <1>12 DEF f
  <2> HIDE DEF u
  <2>4. SlotShape(u)
    BY <1>6, <1>7, <2>2 DEF SlotShape
  <2>5. ~Sound(x)
    BY <1>6, <1>11, <1>12 DEF Fresh, JobFree
  <2> QED BY <1>6, <2>2, <2>3, <2>4, <2>5
<1>13. CASE m.type = "start" /\ v.job = NoSource
  <2> DEFINE u == [v EXCEPT !.job = m.source, !.of = m.generation]
  <2>1. /\ u \in Slot /\ u.there = v.there /\ u.pending = v.pending /\ u.generation = v.generation
        /\ u.alive = v.alive /\ u.of = m.generation /\ u.updates = v.updates /\ u.sent = v.sent
        /\ u.toWorker = v.toWorker /\ u.toHost = v.toHost /\ u.job = m.source /\ u.last = v.last
        /\ u.awaiting = v.awaiting
    BY <1>3, <1>6, <1>13 DEF Slot
  <2>2. Taken(x) = u
    BY <1>9, <1>13
  <2> HIDE DEF u
  <2>3. SlotShape(u)
    BY <1>3, <1>6, <1>7, <2>1 DEF SlotShape
  <2>4. ASSUME Sound(x) PROVE Runs(u)
    <3>1. Fresh(x) /\ n = 0 /\ m.generation = x.generation /\ m.source = x.pending
      BY <1>11, <1>13, <2>4
    <3>2. q = <<>>
      BY <1>2, <3>1, EmptySeq
    <3>3. CountsAgree => u.updates <= Len(Work[u.job])
      <4>1. u.updates = 0 /\ u.job \in Sources
        BY <1>3, <1>6, <1>13, <2>1, <3>1 DEF Fresh, JobFree
      <4> QED BY <4>1 DEF CountsAgree
    <3> QED BY <1>6, <2>1, <3>1, <3>2, <3>3 DEF Fresh, JobFree, Runs
  <2> QED BY <1>6, <2>1, <2>2, <2>3, <2>4 DEF Sound
<1>14. CASE m.type = "ack" /\ (v.job = NoSource \/ m.generation # v.of)
  <2>1. Taken(x) = v
    BY <1>9, <1>14
  <2>2. ASSUME Sound(x) PROVE Sound(v)
    <3>1. x.job = NoSource
      BY <1>6, <1>11, <1>14, <2>2
    <3>2. CASE Rests(x)
      <4>1. Acks(q, n, x.generation)
        <5>1. Acks(x.toWorker, n + 1, x.generation) /\ n + 1 >= 1 /\ n + 1 - 1 = n /\ n + 1 \in Nat
          BY <1>2, <3>2 DEF Rests
        <5> QED BY <1>5, <5>1
      <4> QED BY <1>2, <1>6, <3>2, <4>1 DEF Rests, JobFree, Sound
    <3>3. CASE Fresh(x)
      <4>1. n # 0
        BY <1>1, <1>2, <1>14, <3>3 DEF Fresh
      <4>2. Acks(q, n - 1, x.generation - 1)
        <5>1. Acks(x.toWorker, n, x.generation - 1) /\ n >= 1 /\ n <= n + 1
          BY <1>2, <3>3, <4>1 DEF Fresh
        <5> QED BY <1>5, <5>1
      <4>3. q # <<>> /\ q[n] = x.toWorker[n + 1]
        BY <1>2, <4>1
      <4> QED BY <1>2, <1>6, <3>3, <4>2, <4>3 DEF Fresh, JobFree, Sound
    <3>4. CASE Over(x)
      <4>1. Acks(q, n, x.generation)
        <5>1. Acks(x.toWorker, n + 1, x.generation) /\ n + 1 >= 1 /\ n + 1 - 1 = n /\ n + 1 \in Nat
          BY <1>2, <3>4 DEF Over
        <5> QED BY <1>5, <5>1
      <4> QED BY <1>2, <1>6, <3>4, <4>1 DEF Over, JobFree, Sound, Ends, Reports
    <3> QED BY <2>2, <3>1, <3>2, <3>3, <3>4 DEF Sound, Runs
  <2> QED BY <1>6, <1>7, <2>1, <2>2
<1>15. CASE m.type = "ack" /\ v.job # NoSource /\ m.generation = v.of /\ (~v.awaiting \/ m.updates # v.sent)
  <2> DEFINE u == FailJob(v, "corrupt")
  <2>1. Taken(x) = u
    BY <1>9, <1>15
  <2>2. u \in Slot /\ SlotShape(u) /\ u.there = v.there /\ u.pending = v.pending
    BY <1>6, <1>7, FailJobIs
  <2>3. ~Sound(x)
    BY <1>6, <1>11, <1>15
  <2> HIDE DEF u
  <2> QED BY <1>6, <2>1, <2>2, <2>3
<1>16. CASE m.type = "ack" /\ v.job # NoSource /\ m.generation = v.of /\ v.awaiting /\ m.updates = v.sent
  <2>1. ASSUME Sound(x)
        PROVE  /\ Runs(x) /\ n = 0 /\ x.awaiting /\ x.toHost = <<>> /\ x.last = x.sent /\ q = <<>>
    BY <1>2, <1>6, <1>11, <1>16, <2>1, EmptySeq
  <2>2. CASE v.updates > v.sent
    <3> DEFINE u == PostProgress(acked)
    <3>1. Taken(x) = u
      BY <1>9, <1>16, <2>2
    <3>2. /\ u \in Slot /\ SlotShape(u) /\ u.there = acked.there /\ u.pending = acked.pending
          /\ u.generation = acked.generation /\ u.last = acked.last /\ u.job = acked.job /\ u.of = acked.of
          /\ u.updates = acked.updates /\ u.sent = acked.updates /\ u.awaiting /\ u.toWorker = acked.toWorker
          /\ acked.toHost = <<>> => /\ Len(u.toHost) = 1 /\ u.toHost[1].type = "progress"
                                    /\ u.toHost[1].generation = acked.of
                                    /\ u.toHost[1].updates = acked.updates
      BY <1>8, <1>10, PostProgressIs
    <3> HIDE DEF u
    <3>3. ASSUME Sound(x) PROVE Runs(u)
      BY <1>1, <1>6, <1>8, <2>1, <2>2, <3>2, <3>3 DEF Runs, Reports
    <3> QED BY <1>6, <1>8, <3>1, <3>2, <3>3 DEF Sound
  <2>3. CASE ~(v.updates > v.sent)
    <3>1. Taken(x) = acked
      BY <1>9, <1>16, <2>3
    <3>2. ASSUME Sound(x) PROVE Runs(acked)
      BY <1>6, <1>8, <2>1, <3>2 DEF Runs
    <3> QED BY <1>6, <1>8, <1>10, <3>1, <3>2 DEF Sound
  <2> QED BY <2>2, <2>3
<1>17. m.type \in {"start", "ack"}
  BY <1>3
<1> QED BY <1>12, <1>13, <1>14, <1>15, <1>16, <1>17
\* A slot of a Worker that is alive.
LEMMA AliveSlot ==
  ASSUME NEW P, Kept(P), NEW w \in Realm, P.worker[w].alive
  PROVE  /\ P \in PoolState /\ P.worker \in [Realm -> Slot] /\ P.worker[w] \in Slot /\ SlotShape(P.worker[w])
         /\ P.worker[w].there /\ (~P.broken => Sound(P.worker[w]))
<1>1. P \in PoolState /\ SlotShape(P.worker[w])
  BY DEF Kept, Core, Shape
<1>2. P.worker \in [Realm -> Slot] /\ P.worker[w] \in Slot
  BY <1>1, PoolFields
<1>3. P.worker[w].there
  BY <1>1, NoWorkerShape DEF SlotShape
<1> QED BY <1>1, <1>2, <1>3 DEF Kept, SoundAt

LEMMA TakeMessageKeeps ==
  ASSUME Kept(pool), NEW w \in Realm, TakeMessage(w)
  PROVE  Kept(pool') /\ Steps(pool, pool') /\ UNCHANGED <<stored, width>>
<1> DEFINE x == pool.worker[w]
           u == Taken(x)
<1>1. x.alive /\ x.toWorker # <<>> /\ Becomes(w, u)
  BY DEF TakeMessage, Works, Taken
<1>2. x \in Slot /\ SlotShape(x) /\ x.there /\ (~pool.broken => Sound(x))
  BY <1>1, AliveSlot
<1>3. u \in Slot /\ SlotShape(u) /\ u.there = x.there /\ u.pending = x.pending /\ (Sound(x) => Sound(u))
  <2> HIDE DEF x
  <2> QED BY <1>1, <1>2, TakenKeeps
<1>4. pool' = [pool EXCEPT !.worker[w] = u] /\ UNCHANGED <<stored, width>>
  BY <1>1 DEF Becomes
<1> HIDE DEF u
<1>5. Kept([pool EXCEPT !.worker[w] = u]) /\ Steps(pool, [pool EXCEPT !.worker[w] = u])
  BY <1>2, <1>3, WorkerKeeps
<1> QED BY <1>4, <1>5

LEMMA UpdateKeeps ==
  ASSUME Kept(pool), NEW w \in Realm, Update(w)
  PROVE  Kept(pool') /\ Steps(pool, pool') /\ UNCHANGED <<stored, width>>
<1> DEFINE x == pool.worker[w]
           v == [x EXCEPT !.updates = @ + 1]
           u == IF v.awaiting THEN v ELSE PostProgress(v)
<1>1. x.alive /\ x.job # NoSource /\ x.updates < Len(Work[x.job]) /\ Becomes(w, u)
  BY DEF Update, Works
<1>2. x \in Slot /\ SlotShape(x) /\ x.there /\ (~pool.broken => Sound(x))
  BY <1>1, AliveSlot
<1>3. pool' = [pool EXCEPT !.worker[w] = u] /\ UNCHANGED <<stored, width>>
  BY <1>1 DEF Becomes
<1>4. /\ x.updates \in Nat /\ x.sent \in Nat /\ x.last \in Nat /\ x.sent <= x.updates
      /\ x.job \in Sources
  BY <1>1, <1>2, SlotFields DEF SlotShape
<1> HIDE DEF x
<1>5. /\ v \in Slot /\ v.there /\ v.pending = x.pending /\ v.generation = x.generation /\ v.last = x.last
      /\ v.alive = x.alive /\ v.job = x.job /\ v.of = x.of /\ v.updates = x.updates + 1
      /\ v.sent = x.sent /\ v.awaiting = x.awaiting /\ v.toHost = x.toHost /\ v.toWorker = x.toWorker
  <2>1. x \in Slot /\ x.there /\ x.updates + 1 \in Nat
    BY <1>2, <1>4
  <2> QED BY <2>1 DEF Slot
<1> HIDE DEF v
<1>6. SlotShape(v)
  BY <1>2, <1>4, <1>5 DEF SlotShape
<1>7. ASSUME ~pool.broken
      PROVE  Runs(x) /\ (CountsAgree => v.updates <= Len(Work[v.job]))
  <2>1. Runs(x)
    BY <1>1, <1>2, <1>7 DEF Sound, Rests, Fresh, Over, JobFree
  <2>2. CountsAgree => Len(Work[x.job]) \in Nat
    BY <1>4 DEF CountsAgree
  <2> QED BY <1>1, <1>4, <1>5, <2>1, <2>2
<1>8. CASE x.awaiting
  <2>1. u = v
    BY <1>5, <1>8
  <2>2. ~pool.broken => Runs(v)
    BY <1>5, <1>7, <1>8 DEF Runs, Reports
  <2> HIDE DEF u
  <2>3. Kept([pool EXCEPT !.worker[w] = v]) /\ Steps(pool, [pool EXCEPT !.worker[w] = v])
    BY <1>2, <1>5, <1>6, <2>2, WorkerKeeps DEF x, Sound
  <2> QED BY <1>3, <2>1, <2>3
<1>9. CASE ~x.awaiting
  <2> DEFINE n == PostProgress(v)
  <2>1. u = n
    BY <1>5, <1>9
  <2>2. /\ n \in Slot /\ SlotShape(n) /\ n.there = v.there /\ n.pending = v.pending
        /\ n.generation = v.generation /\ n.last = v.last /\ n.job = v.job /\ n.of = v.of
        /\ n.updates = v.updates /\ n.sent = v.updates /\ n.awaiting /\ n.toWorker = v.toWorker
        /\ v.toHost = <<>> => /\ Len(n.toHost) = 1 /\ n.toHost[1].type = "progress"
                              /\ n.toHost[1].generation = v.of /\ n.toHost[1].updates = v.updates
    BY <1>5, <1>6, PostProgressIs
  <2> HIDE DEF u, n
  <2>3. ASSUME ~pool.broken PROVE Runs(n)
    <3>1. x.toHost = <<>> /\ x.toWorker = <<>> /\ x.last = x.sent
      BY <1>7, <1>9, <2>3 DEF Runs
    <3>2. n.last < n.sent
      BY <1>4, <1>5, <2>2, <3>1
    <3> QED BY <1>5, <1>7, <2>2, <2>3, <3>1, <3>2 DEF Runs, Reports
  <2>4. Kept([pool EXCEPT !.worker[w] = n]) /\ Steps(pool, [pool EXCEPT !.worker[w] = n])
    BY <1>2, <1>5, <2>2, <2>3, WorkerKeeps DEF x, Sound
  <2> QED BY <1>3, <2>1, <2>4
<1>10. x.awaiting \in BOOLEAN
  BY <1>2, SlotFields
<1> QED BY <1>8, <1>9, <1>10

LEMMA FinishJobKeeps ==
  ASSUME Kept(pool), NEW w \in Realm, FinishJob(w)
  PROVE  Kept(pool') /\ Steps(pool, pool') /\ UNCHANGED <<stored, width>>
<1> DEFINE x == pool.worker[w]
           v == Clear(x)
           m == [type |-> "complete", generation |-> x.of, counts |-> Counts(x.job)]
           u == Post(v, m)
<1>1. x.alive /\ x.job # NoSource /\ Becomes(w, u)
  BY DEF FinishJob, Works
<1>2. x \in Slot /\ SlotShape(x) /\ x.there /\ (~pool.broken => Sound(x))
  BY <1>1, AliveSlot
<1>3. pool' = [pool EXCEPT !.worker[w] = u] /\ UNCHANGED <<stored, width>>
  BY <1>1 DEF Becomes
<1>4. /\ x.updates \in Nat /\ x.sent \in Nat /\ x.last \in Nat /\ x.sent <= x.updates
      /\ x.job \in Sources /\ x.of \in Nat /\ x.generation \in Nat
  BY <1>1, <1>2, SlotFields DEF SlotShape
<1> HIDE DEF x
<1>5. m \in HostMessage /\ m.type = "complete" /\ m.generation = x.of /\ m.counts = Counts(x.job)
  BY <1>4 DEF HostMessage
<1>6. /\ v \in Slot /\ v.there = x.there /\ v.pending = x.pending /\ v.generation = x.generation
      /\ v.last = x.last /\ v.alive = x.alive /\ v.of = 0 /\ v.sent = 0 /\ v.updates = 0
      /\ JobFree(v) /\ v.toWorker = x.toWorker /\ v.toHost = x.toHost
  BY <1>2, ClearIs
<1> HIDE DEF v, m
<1>7. /\ u \in Slot /\ u.there = v.there /\ u.pending = v.pending /\ u.generation = v.generation
      /\ u.last = v.last /\ u.alive = v.alive /\ u.hung = v.hung /\ u.job = v.job /\ u.of = v.of
      /\ u.updates = v.updates /\ u.sent = v.sent /\ u.awaiting = v.awaiting
      /\ u.toWorker = v.toWorker
      /\ v.toHost = <<>> => Len(u.toHost) = 1 /\ u.toHost[1] = m
      /\ Len(v.toHost) = 1 => Len(u.toHost) = 2 /\ u.toHost[2] = m /\ u.toHost[1] = v.toHost[1]
  BY <1>5, <1>6, PostIs
<1> HIDE DEF u
<1>8. SlotShape(u)
  BY <1>2, <1>4, <1>6, <1>7 DEF SlotShape
<1>9. ASSUME ~pool.broken PROVE Over(u)
  <2>1. Runs(x)
    BY <1>1, <1>2, <1>9 DEF Sound, Rests, Fresh, Over, JobFree
  <2>2. Ends(u, m)
    BY <1>5, <1>6, <1>7, <2>1 DEF Ends, Runs
  <2>3. JobFree(u) /\ u.pending # NoSource
    BY <1>6, <1>7, <2>1 DEF JobFree, Runs
  <2>4. Acks(u.toWorker, Len(u.toWorker), u.generation)
    <3>1. CASE x.toWorker = <<>>
      BY <1>6, <1>7, <3>1 DEF Acks
    <3>2. CASE Len(x.toWorker) = 1 /\ x.toWorker[1].type = "ack" /\ x.toWorker[1].generation = x.generation
      BY <1>4, <1>6, <1>7, <3>2 DEF Acks
    <3> QED BY <2>1, <3>1, <3>2 DEF Runs
  <2>5. CASE x.toHost = <<>>
    BY <1>6, <1>7, <2>2, <2>3, <2>4, <2>5 DEF Over
  <2>6. CASE Len(x.toHost) = 1 /\ Reports(x, x.toHost[1], x.sent)
    <3>1. Reports(u, u.toHost[1], u.toHost[1].updates) /\ u.toHost[1].updates = x.sent
      BY <1>6, <1>7, <2>6 DEF Reports
    <3>2. CountsAgree => u.toHost[1].updates <= Len(Work[u.pending])
      <4>1. CountsAgree => Len(Work[x.job]) \in Nat /\ x.updates <= Len(Work[x.job])
        BY <1>4, <2>1 DEF CountsAgree, Runs
      <4>2. u.pending = x.job
        BY <1>6, <1>7, <2>1 DEF Runs
      <4> QED BY <1>4, <3>1, <4>1, <4>2
    <3>3. Len(u.toHost) = 2 /\ u.toHost[2] = m
      BY <1>6, <1>7, <2>6
    <3> QED BY <2>2, <2>3, <2>4, <3>1, <3>2, <3>3 DEF Over
  <2> QED BY <2>1, <2>5, <2>6 DEF Runs
<1>10. Kept([pool EXCEPT !.worker[w] = u]) /\ Steps(pool, [pool EXCEPT !.worker[w] = u])
  BY <1>2, <1>6, <1>7, <1>8, <1>9, WorkerKeeps DEF x, Sound
<1> QED BY <1>3, <1>10

LEMMA BreakDownKeeps ==
  ASSUME Kept(pool), NEW w \in Realm, BreakDown(w)
  PROVE  Kept(pool') /\ Steps(pool, pool') /\ UNCHANGED <<stored, width>>
<1> DEFINE x == pool.worker[w]
           f == FailJob(x, "failed")
           h == [x EXCEPT !.hung = TRUE]
           P == [pool EXCEPT !.faults = @ - 1]
<1>1. /\ x.alive /\ x.job # NoSource /\ pool.faults > 0 /\ UNCHANGED <<stored, width>>
  BY DEF BreakDown, Works
<1>2. PICK u \in {f, h} : pool' = [pool EXCEPT !.worker[w] = u, !.faults = @ - 1]
  BY DEF BreakDown
<1>3. /\ x \in Slot /\ SlotShape(x) /\ x.there /\ (~pool.broken => Sound(x))
      /\ pool \in PoolState
  BY <1>1, AliveSlot
<1>4. /\ Kept(P) /\ Steps(pool, P) /\ P.broken = pool.broken /\ P.worker = pool.worker
  BY <1>1, FaultKeeps
<1>5. pool' = [P EXCEPT !.worker[w] = u]
  BY <1>2, <1>3 DEF PoolState
<1> HIDE DEF P, x
<1>6. /\ f \in Slot /\ SlotShape(f) /\ f.there = x.there /\ f.pending = x.pending
      /\ f.generation = x.generation /\ f.last = x.last /\ JobFree(f) /\ f.toWorker = x.toWorker
      /\ x.toHost = <<>> => /\ Len(f.toHost) = 1 /\ f.toHost[1].type = "failure"
                            /\ f.toHost[1].generation = x.of /\ f.toHost[1].kind = "failed"
      /\ Len(x.toHost) = 1 => /\ Len(f.toHost) = 2 /\ f.toHost[1] = x.toHost[1]
                              /\ f.toHost[2].type = "failure"
                              /\ f.toHost[2].generation = x.of /\ f.toHost[2].kind = "failed"
  BY <1>3, FailJobIs
<1> HIDE DEF f
<1>7. /\ h \in Slot /\ SlotShape(h) /\ h.there = x.there /\ h.pending = x.pending
      /\ (Sound(x) => Sound(h))
  <2>1. /\ h \in Slot /\ h.there = x.there /\ h.pending = x.pending /\ h.generation = x.generation
        /\ h.last = x.last /\ h.alive = x.alive /\ h.job = x.job /\ h.of = x.of /\ h.updates = x.updates
        /\ h.sent = x.sent /\ h.awaiting = x.awaiting /\ h.toHost = x.toHost /\ h.toWorker = x.toWorker
    BY <1>3 DEF Slot
  <2> HIDE DEF h
  <2>2. SlotShape(h)
    BY <1>3, <2>1 DEF SlotShape
  <2>3. /\ Rests(x) => Rests(h)
        /\ Fresh(x) => Fresh(h)
        /\ Runs(x) => Runs(h)
        /\ Over(x) => Over(h)
    BY <2>1 DEF Rests, Fresh, Runs, Over, JobFree, Ends, Reports
  <2> QED BY <2>1, <2>2, <2>3 DEF Sound
<1> HIDE DEF h
<1>8. ASSUME ~pool.broken PROVE Over(f)
  <2>1. Runs(x)
    BY <1>1, <1>3, <1>8 DEF Sound, Rests, Fresh, Over, JobFree, x
  <2>2. JobFree(f) /\ f.pending # NoSource
    BY <1>6, <2>1 DEF Runs
  <2>3. Acks(f.toWorker, Len(f.toWorker), f.generation)
    <3>1. x.generation \in Nat
      BY <1>3, SlotFields
    <3>2. CASE x.toWorker = <<>>
      BY <1>6, <3>2 DEF Acks
    <3>3. CASE Len(x.toWorker) = 1 /\ x.toWorker[1].type = "ack" /\ x.toWorker[1].generation = x.generation
      BY <1>6, <3>1, <3>3 DEF Acks
    <3> QED BY <2>1, <3>2, <3>3 DEF Runs
  <2>4. CASE x.toHost = <<>>
    BY <1>6, <2>1, <2>2, <2>3, <2>4 DEF Over, Ends, Runs
  <2>5. CASE Len(x.toHost) = 1 /\ Reports(x, x.toHost[1], x.sent)
    <3>1. Reports(f, f.toHost[1], f.toHost[1].updates) /\ f.toHost[1].updates = x.sent
      BY <1>6, <2>5 DEF Reports
    <3>2. CountsAgree => f.toHost[1].updates <= Len(Work[f.pending])
      <4>1. x.sent \in Nat /\ x.updates \in Nat /\ x.sent <= x.updates /\ x.job \in Sources
        BY <1>1, <1>3, SlotFields DEF SlotShape, x
      <4>2. CountsAgree => Len(Work[x.job]) \in Nat /\ x.updates <= Len(Work[x.job])
        BY <2>1, <4>1 DEF CountsAgree, Runs
      <4>3. f.pending = x.job
        BY <1>6, <2>1 DEF Runs
      <4> QED BY <3>1, <4>1, <4>2, <4>3
    <3>3. Len(f.toHost) = 2 /\ Ends(f, f.toHost[2])
      BY <1>6, <2>1, <2>5 DEF Ends, Runs
    <3> QED BY <2>2, <2>3, <3>1, <3>2, <3>3 DEF Over
  <2> QED BY <2>1, <2>4, <2>5 DEF Runs
<1>9. u \in Slot /\ SlotShape(u) /\ u.there = x.there /\ u.pending = x.pending /\ (~pool.broken => Sound(u))
  BY <1>2, <1>3, <1>6, <1>7, <1>8 DEF Sound
<1>10. Kept([P EXCEPT !.worker[w] = u]) /\ Steps(P, [P EXCEPT !.worker[w] = u])
  BY <1>4, <1>9, WorkerKeeps DEF x
<1> QED BY <1>1, <1>4, <1>5, <1>10, StepsCompose
LEMMA ReceiveKeeps ==
  ASSUME Kept(pool), width \in 0..MaxWidth, NEW w \in Realm, Receive(w)
  PROVE  Kept(pool') /\ Steps(pool, pool') /\ UNCHANGED <<stored, width>>
<1>1. pool.worker[w].toHost # <<>> /\ pool' \in Received(pool, w) /\ UNCHANGED <<stored, width>>
  BY DEF Receive
<1> QED BY <1>1, ReceivedKeeps

LEMMA WatchdogKeeps ==
  ASSUME Kept(pool), width \in 0..MaxWidth, NEW w \in Realm, Watchdog(w)
  PROVE  Kept(pool') /\ Steps(pool, pool') /\ UNCHANGED <<stored, width>>
<1> DEFINE P == [pool EXCEPT !.faults = @ - 1]
<1>1. /\ w \in Running(pool) /\ UNCHANGED <<stored, width>>
      /\ \/ pool' \in Finished(pool, w, "failed")
         \/ pool.faults > 0 /\ pool' \in Finished(P, w, "failed")
  BY DEF Watchdog
<1>2. CASE pool' \in Finished(pool, w, "failed")
  <2>1. Core(pool) /\ \A x \in Realm : x # w => SoundAt(pool, x)
    BY DEF Kept
  <2> QED BY <1>1, <1>2, <2>1, FinishedKeeps
<1>3. CASE pool.faults > 0 /\ pool' \in Finished(P, w, "failed")
  <2>1. Kept(P) /\ Steps(pool, P) /\ P.worker = pool.worker
    BY <1>3, FaultKeeps
  <2>2. pool' \in Finished(P, w, "failed")
    BY <1>3
  <2> HIDE DEF P
  <2>3. Core(P) /\ (\A x \in Realm : x # w => SoundAt(P, x)) /\ w \in Running(P)
    BY <1>1, <2>1 DEF Kept, Running, Idle, Slots
  <2>4. Kept(pool') /\ Steps(P, pool')
    BY <2>2, <2>3, FinishedKeeps
  <2> QED BY <1>1, <2>1, <2>4, StepsCompose
<1> QED BY <1>1, <1>2, <1>3

LEMMA HostKeeps ==
  ASSUME Kept(pool), width \in 0..MaxWidth, Workers
  PROVE  /\ Kept(pool') /\ Steps(pool, pool') /\ UNCHANGED <<stored, width>>
         /\ \E w \in Realm : pool.worker[w].there
<1>1. PICK w \in Realm : WorkerSteps(w) \/ PoolSteps(w)
  BY DEF Workers
<1>2. Kept(pool') /\ Steps(pool, pool') /\ UNCHANGED <<stored, width>>
  BY <1>1, TakeMessageKeeps, UpdateKeeps, FinishJobKeeps, BreakDownKeeps, ReceiveKeeps, WatchdogKeeps
     DEF WorkerSteps, PoolSteps
<1>3. pool.worker[w] # NoWorker
  <2>1. WorkerSteps(w) => pool.worker[w].alive
    BY DEF WorkerSteps, TakeMessage, Update, FinishJob, BreakDown, Works
  <2>2. Receive(w) => pool.worker[w].toHost # <<>>
    BY DEF Receive
  <2>3. Watchdog(w) => pool.worker[w].there
    BY DEF Watchdog, Running, Slots
  <2> QED BY <1>1, <2>1, <2>2, <2>3, NoWorkerShape DEF PoolSteps
<1>4. pool.worker[w].there
  BY <1>3 DEF Kept, Core, Shape, SlotShape
<1> QED BY <1>2, <1>4

LEMMA EmptyKept ==
  ASSUME NEW f \in 0..Faults, width \in 0..MaxWidth, NEW o \in BOOLEAN
  PROVE  LET P == [EmptyPool EXCEPT !.open = o, !.faults = f]
         IN /\ Kept(P) /\ P.open = o /\ ~P.broken /\ (\A s \in Sources : P.outcome[s] = "none")
            /\ \A w \in Realm : P.worker[w] = NoWorker
<1> DEFINE P == [EmptyPool EXCEPT !.open = o, !.faults = f]
<1>1. /\ P \in PoolState /\ P.open = o /\ ~P.broken /\ P.queue = <<>>
      /\ P.outcome = [s \in Sources |-> "none"] /\ P.worker = [w \in Realm |-> NoWorker]
  <2>1. [w \in Realm |-> NoWorker] \in [Realm -> Slot] /\ [s \in Sources |-> "none"] \in [Sources -> Outcome]
    BY NoWorkerShape DEF Outcome
  <2>2. <<>> \in Seq(Sources)
    OBVIOUS
  <2> QED BY <2>1, <2>2 DEF PoolState, EmptyPool
<1> HIDE DEF P
<1>2. (\A s \in Sources : P.outcome[s] = "none") /\ \A w \in Realm : P.worker[w] = NoWorker
  BY <1>1
<1>3. Slots(P) = {}
  BY <1>2, NoWorkerShape DEF Slots
<1>4. Shape(P)
  <2>1. Cardinality(Slots(P)) <= width
    BY <1>3, FS_EmptySet, VerifyAssumption
  <2> QED BY <1>1, <1>2, <2>1, NoWorkerShape DEF Shape
<1>5. IsInjective(P.queue) /\ \A s : ~Contains(P.queue, s)
  BY <1>1 DEF IsInjective, Contains
<1>6. Places(P)
  <2>1. \A w \in Realm : P.worker[w].pending = NoSource
    BY <1>2, NoWorkerShape
  <2>2. \A s \in Sources : ~ \E w \in Realm : P.worker[w].pending = s
    BY <2>1, VerifyAssumption
  <2> QED BY <1>2, <1>5, <2>1, <2>2 DEF Places
<1>7. Closing(P)
  BY <1>1, <1>2, NoWorkerShape DEF Closing
<1>8. \A w \in Realm : SoundAt(P, w)
  BY <1>2, NoWorkerShape DEF SoundAt
<1>9. Kept(P)
  BY <1>2, <1>4, <1>5, <1>6, <1>7, <1>8 DEF Kept, Core
<1> QED BY <1>1, <1>2, <1>9 DEF P

LEMMA NewPoolKeeps ==
  ASSUME NEW P, Kept(P), ~P.open, ~P.broken, width \in 0..MaxWidth
  PROVE  /\ Kept(NewPool(P)) /\ NewPool(P).open /\ ~NewPool(P).broken
         /\ \A s \in Sources : NewPool(P).outcome[s] # "pending"
<1>1. P.faults \in 0..Faults /\ \A w \in Realm : P.worker[w] = NoWorker
  BY PoolFields DEF Kept, Core, Shape, Closing, SlotShape
<1>2. \A w \in Realm : [P.worker[w] EXCEPT !.there = FALSE] = NoWorker
  <2>1. [NoWorker EXCEPT !.there = FALSE] = NoWorker
    BY NoWorkerShape DEF Slot
  <2> QED BY <1>1, <2>1
<1>3. NewPool(P) = [EmptyPool EXCEPT !.open = TRUE, !.faults = P.faults]
  <2>1. [w \in Realm |-> [P.worker[w] EXCEPT !.there = FALSE]] = [w \in Realm |-> NoWorker]
    BY <1>2
  <2>2. NewPool(P) = [EmptyPool EXCEPT !.open = TRUE, !.faults = P.faults, !.worker = [w \in Realm |-> NoWorker]]
    BY <2>1 DEF NewPool
  <2> DEFINE W == [w \in Realm |-> NoWorker]
             R == [EmptyPool EXCEPT !.open = TRUE, !.faults = P.faults]
  <2>3. R.worker = W
    BY DEF EmptyPool
  <2>4. R \in PoolState
    BY <1>1, EmptyKept DEF Kept, Core, Shape
  <2>5. NewPool(P) = [R EXCEPT !.worker = W]
    BY <2>2
  <2> HIDE DEF W, R
  <2>6. [R EXCEPT !.worker = W] = R
    BY <2>3, <2>4 DEF PoolState
  <2> QED BY <2>5, <2>6 DEF R
<1> QED BY <1>1, <1>3, EmptyKept
-----------------------------------------------------------------------------
(* The preparations *)

LEMMA Numbers == NoSession \notin Sessions /\ \A p \in Sessions : Wanted[p] \subseteq Sources
BY SessionAssumption DEF NoSession, Sessions

\* A step of the pool alone.
LEMMA PoolMoves ==
  ASSUME Inv, Kept(pool'), Steps(pool, pool'), claim = NoSession => ~pool'.open /\ ~pool'.broken,
         UNCHANGED <<stored, width, session, task, lock, claim, epochs>>,
         aborted' \in [Sessions -> BOOLEAN]
  PROVE  Inv'
<1>1. SessionType'
  BY DEF Inv, SessionType
<1>2. LocksHeld'
  BY DEF Inv, LocksHeld
<1>3. Phases'
  BY DEF Inv, Phases, Steps
<1>4. Claims'
  BY DEF Inv, Claims, Steps
<1>5. Kept(pool)'
  BY DEF Kept, Core, Shape, SoundAt, Places, Closing
<1> QED BY <1>1, <1>2, <1>3, <1>4, <1>5 DEF Inv

LEMMA KeptPrimed == ASSUME Kept(pool'), width' = width PROVE Kept(pool)'
BY DEF Kept, Core, Shape, SoundAt, Places, Closing

\* A source of a preparation moves on.
LEMMA TaskIs ==
  ASSUME SessionType, NEW p \in Sessions, NEW s \in Wanted[p], NEW pc, Goes(p, s, pc),
         pc \in {"idle", "locking", "charging", "ready", "failed"} \cup Locked
  PROVE  /\ DOMAIN task' = Sessions /\ task'[p][s] = pc
         /\ \A q \in Sessions : task'[q] \in
              [Wanted[q] -> {"idle", "locking", "charging", "ready", "failed"} \cup Locked]
         /\ \A q \in Sessions : \A e \in Wanted[q] : q # p \/ e # s => task'[q][e] = task[q][e]
<1>1. task' = [task EXCEPT ![p] = [task[p] EXCEPT ![s] = pc]]
  BY DEF Goes
<1>2. DOMAIN task = Sessions /\ task[p] \in
        [Wanted[p] -> {"idle", "locking", "charging", "ready", "failed"} \cup Locked]
  BY DEF SessionType
<1>3. DOMAIN task' = Sessions /\ task'[p] = [task[p] EXCEPT ![s] = pc]
      /\ \A q \in Sessions : q # p => task'[q] = task[q]
  BY <1>1, <1>2
<1>4. task'[p][s] = pc /\ \A e \in Wanted[p] : e # s => task'[p][e] = task[p][e]
  BY <1>2, <1>3
<1>5. task'[p] \in [Wanted[p] -> {"idle", "locking", "charging", "ready", "failed"} \cup Locked]
  BY <1>2, <1>3
<1>6. ASSUME NEW q \in Sessions
      PROVE  task'[q] \in [Wanted[q] -> {"idle", "locking", "charging", "ready", "failed"} \cup Locked]
  BY <1>3, <1>5 DEF SessionType
<1>7. ASSUME NEW q \in Sessions, NEW e \in Wanted[q], q # p \/ e # s PROVE task'[q][e] = task[q][e]
  BY <1>3, <1>4, <1>7
<1> QED BY <1>3, <1>4, <1>6, <1>7

LEMMA TaskKeeps ==
  ASSUME Inv, NEW p \in Sessions, NEW s \in Wanted[p], NEW pc, Goes(p, s, pc),
         pc \in {"idle", "locking", "charging", "ready", "failed"} \cup Locked,
         session[p] = "preparing",
         Kept(pool'), pool.broken => pool'.broken, claim = NoSession => ~pool'.open /\ ~pool'.broken,
         \A e \in Sources : pool'.outcome[e] = "pending" =>
           pool.outcome[e] = "pending" \/ (e = s /\ pc = "verifying"),
         pc = "verifying" => claim = p,
         task[p][s] = "verifying" => pool'.outcome[s] # "pending",
         stored' \in [Sources -> {"none", "good", "bad"}],
         \A e \in Sources : stored'[e] = stored[e] \/ stored'[e] = "good",
         pc \in {"verified", "charging", "ready"} => stored'[s] = "good",
         lock' \in [Sources -> Sessions \cup {NoSession}],
         \A e \in Sources : e # s => lock'[e] = lock[e],
         \A q \in Sessions : q # p => (lock'[s] = q <=> lock[s] = q),
         lock'[s] = p <=> pc \in Locked,
         UNCHANGED <<width, session, aborted, claim, epochs>>
  PROVE  Inv'
<1>1. /\ DOMAIN task' = Sessions /\ task'[p][s] = pc
      /\ \A q \in Sessions : task'[q] \in
           [Wanted[q] -> {"idle", "locking", "charging", "ready", "failed"} \cup Locked]
      /\ \A q \in Sessions : \A e \in Wanted[q] : q # p \/ e # s => task'[q][e] = task[q][e]
  BY TaskIs DEF Inv
<1>2. SessionType'
  BY <1>1 DEF Inv, SessionType
<1>3. LocksHeld'
  <2> SUFFICES ASSUME NEW q \in Sessions, NEW e \in Sources
               PROVE  lock'[e] = q <=> e \in Wanted[q] /\ task'[q][e] \in Locked
    BY DEF LocksHeld
  <2>1. lock[e] = q <=> e \in Wanted[q] /\ task[q][e] \in Locked
    BY DEF Inv, LocksHeld
  <2>2. CASE q = p /\ e = s
    BY <1>1, <2>2
  <2>3. CASE q # p /\ e = s
    BY <1>1, <2>1, <2>3
  <2>4. CASE e # s
    BY <1>1, <2>1, <2>4
  <2> QED BY <2>2, <2>3, <2>4
<1>4. Phases'
  <2> SUFFICES ASSUME NEW q \in Sessions
               PROVE  /\ session[q] # "preparing" =>
                           \A e \in Wanted[q] : task'[q][e] \notin Busy
                      /\ session[q] \in {"ready", "open"} =>
                           q \notin epochs /\ \A e \in Wanted[q] : task'[q][e] = "ready"
                      /\ \A e \in Wanted[q] :
                           task'[q][e] \in {"verified", "charging", "ready"} => stored'[e] = "good"
                      /\ claim = q => \/ session[q] \in {"preparing", "leaving"}
                                      \/ pool'.broken /\ session[q] = "failed"
    BY DEF Phases
  <2>1. /\ session[q] # "preparing" =>
             \A e \in Wanted[q] : task[q][e] \notin Busy
        /\ session[q] \in {"ready", "open"} =>
             q \notin epochs /\ \A e \in Wanted[q] : task[q][e] = "ready"
        /\ \A e \in Wanted[q] :
             task[q][e] \in {"verified", "charging", "ready"} => stored[e] = "good"
        /\ claim = q => \/ session[q] \in {"preparing", "leaving"}
                        \/ pool.broken /\ session[q] = "failed"
    BY DEF Inv, Phases
  <2>2. session[q] # "preparing" => \A e \in Wanted[q] : task'[q][e] = task[q][e]
    BY <1>1
  <2>3. ASSUME NEW e \in Wanted[q], task'[q][e] \in {"verified", "charging", "ready"}
        PROVE  stored'[e] = "good"
    <3>1. e \in Sources
      BY Numbers
    <3>2. CASE q = p /\ e = s
      BY <1>1, <2>3, <3>2
    <3>3. CASE q # p \/ e # s
      BY <1>1, <2>1, <2>3, <3>1, <3>3
    <3> QED BY <3>2, <3>3
  <2>4. session[q] \in {"ready", "open"} => session[q] # "preparing"
    OBVIOUS
  <2> QED BY <2>1, <2>2, <2>3, <2>4
<1>5. Claims'
  <2>1. claim = NoSession => ~pool'.open /\ ~pool'.broken
    OBVIOUS
  <2>2. ASSUME NEW q \in Sessions, NEW e \in Wanted[q], task'[q][e] = "verifying" PROVE claim = q
    BY <1>1, <2>2 DEF Inv, Claims
  <2>3. ASSUME NEW e \in Sources, pool'.outcome[e] = "pending"
        PROVE  claim # NoSession /\ e \in Wanted[claim] /\ task'[claim][e] = "verifying"
    <3>1. CASE e = s /\ pc = "verifying"
      BY <1>1, <3>1, Numbers
    <3>2. CASE ~(e = s /\ pc = "verifying")
      <4>1. pool.outcome[e] = "pending"
        BY <2>3, <3>2
      <4>2. claim # NoSession /\ e \in Wanted[claim] /\ task[claim][e] = "verifying" /\ claim \in Sessions
        BY <4>1 DEF Inv, Claims, SessionType
      <4>3. claim # p \/ e # s
        BY <2>3, <4>2
      <4> QED BY <1>1, <4>2, <4>3
    <3> QED BY <3>1, <3>2
  <2> QED BY <2>1, <2>2, <2>3 DEF Claims
<1>6. Kept(pool)'
  BY KeptPrimed
<1> QED BY <1>2, <1>3, <1>4, <1>5, <1>6 DEF Inv

\* What holds of a source that a preparation works on.
LEMMA Working ==
  ASSUME Inv, NEW p \in Sessions, NEW s \in Wanted[p]
  PROVE  /\ s \in Sources /\ p # NoSession /\ Kept(pool) /\ width \in 0..MaxWidth
         /\ task[p][s] \in Busy => session[p] = "preparing"
         /\ lock[s] = p <=> task[p][s] \in Locked
         /\ lock[s] \in Sessions \cup {NoSession}
         /\ task[p][s] \in {"verified", "charging", "ready"} => stored[s] = "good"
         /\ task[p][s] = "verifying" => claim = p
         /\ pool.outcome[s] = "pending" /\ claim = p => task[p][s] = "verifying"
         /\ claim = NoSession => ~pool.open /\ ~pool.broken
BY Numbers DEF Inv, SessionType, LocksHeld, Phases, Claims

\* A source moves on and keeps its lock; the pool moves, or does not.
LEMMA TaskSteps ==
  ASSUME Inv, NEW p \in Sessions, NEW s \in Wanted[p], NEW pc, Goes(p, s, pc),
         pc \in {"idle", "locking", "charging", "ready", "failed"} \cup (Locked \ {"verifying"}),
         pc \in Locked <=> task[p][s] \in Locked, session[p] = "preparing",
         Kept(pool'), Steps(pool, pool'), claim = NoSession => ~pool'.open /\ ~pool'.broken,
         task[p][s] = "verifying" => pool'.outcome[s] # "pending",
         pc \in {"verified", "charging", "ready"} => stored[s] = "good",
         UNCHANGED <<stored, width, session, aborted, lock, claim, epochs>>
  PROVE  Inv'
<1>1. lock[s] = p <=> pc \in Locked
  BY Working
<1>2. stored \in [Sources -> {"none", "good", "bad"}] /\ lock \in [Sources -> Sessions \cup {NoSession}]
  BY DEF Inv, SessionType
<1>3. /\ pool.broken => pool'.broken
      /\ \A e \in Sources : pool'.outcome[e] = "pending" => pool.outcome[e] = "pending"
  BY DEF Steps
<1>4. pc # "verifying" /\ pc \in {"idle", "locking", "charging", "ready", "failed"} \cup Locked
  BY DEF Locked
<1> QED BY <1>1, <1>2, <1>3, <1>4, TaskKeeps

LEMMA StaysKept ==
  ASSUME Inv
  PROVE  Kept(pool) /\ Steps(pool, pool) /\ (claim = NoSession => ~pool.open /\ ~pool.broken)
BY DEF Inv, Claims, Steps

LEMMA FaultSteps ==
  ASSUME Inv, Fault
  PROVE  /\ Kept(pool') /\ Steps(pool, pool') /\ pool'.outcome = pool.outcome
         /\ claim = NoSession => ~pool'.open /\ ~pool'.broken
<1>1. Kept(pool) /\ pool.faults > 0 /\ (claim = NoSession => ~pool.open /\ ~pool.broken)
  BY StaysKept DEF Fault
<1>2. pool' = [pool EXCEPT !.faults = @ - 1]
  BY DEF Fault
<1> QED BY <1>1, <1>2, FaultKeeps

LEMMA StartTaskKeeps ==
  ASSUME Inv, NEW p \in Sessions, NEW s \in Wanted[p], StartTask(p, s)
  PROVE  Inv'
<1>1. PICK pc \in {"failed", "locking"} : Goes(p, s, pc)
  BY DEF StartTask
<1>2. /\ session[p] = "preparing" /\ task[p][s] = "idle"
      /\ UNCHANGED <<pool, stored, width, session, aborted, lock, claim, epochs>>
  BY DEF StartTask, Under
<1>3. Kept(pool') /\ Steps(pool, pool') /\ (claim = NoSession => ~pool'.open /\ ~pool'.broken)
  BY <1>2, StaysKept
<1>4. task[p][s] \notin Locked /\ pc \notin Locked
  BY <1>2 DEF Locked
<1> QED BY <1>1, <1>2, <1>3, <1>4, TaskSteps

LEMMA GiveUpKeeps ==
  ASSUME Inv, NEW p \in Sessions, NEW s \in Wanted[p], GiveUp(p, s)
  PROVE  Inv'
<1>1. /\ Goes(p, s, "failed") /\ task[p][s] \in {"locking", "charging"}
      /\ UNCHANGED <<pool, stored, width, session, aborted, lock, claim, epochs>>
  BY DEF GiveUp, Under
<1>2. session[p] = "preparing"
  BY <1>1, Working DEF Busy
<1>3. Kept(pool') /\ Steps(pool, pool') /\ (claim = NoSession => ~pool'.open /\ ~pool'.broken)
  BY <1>1, StaysKept
<1>4. task[p][s] \notin Locked /\ "failed" \notin Locked /\ task[p][s] # "verifying"
  BY <1>1 DEF Locked
<1> QED BY <1>1, <1>2, <1>3, <1>4, TaskSteps

LEMMA GrantKeeps ==
  ASSUME Inv, NEW p \in Sessions, NEW s \in Wanted[p], Grant(p, s)
  PROVE  Inv'
<1>1. Goes(p, s, "looking")
  BY DEF Grant
<1>2. /\ task[p][s] = "locking" /\ lock[s] = NoSession /\ lock' = [lock EXCEPT ![s] = p]
      /\ UNCHANGED <<pool, stored, width, session, aborted, claim, epochs>>
  BY DEF Grant, Under
<1>3. session[p] = "preparing" /\ s \in Sources /\ p # NoSession
  BY <1>2, Working DEF Busy
<1>4. Kept(pool') /\ Steps(pool, pool') /\ (claim = NoSession => ~pool'.open /\ ~pool'.broken)
  BY <1>2, StaysKept
<1>5. "looking" \in Locked
  BY DEF Locked
<1>6. stored \in [Sources -> {"none", "good", "bad"}] /\ lock \in [Sources -> Sessions \cup {NoSession}]
  BY DEF Inv, SessionType
<1>7. lock' \in [Sources -> Sessions \cup {NoSession}] /\ lock'[s] = p
      /\ \A e \in Sources : e # s => lock'[e] = lock[e]
  BY <1>2, <1>3, <1>6
<1>8. \A q \in Sessions : q # p => (lock'[s] = q <=> lock[s] = q)
  BY <1>2, <1>7, Numbers
<1>9. /\ pool.broken => pool'.broken
      /\ \A e \in Sources : pool'.outcome[e] = "pending" => pool.outcome[e] = "pending"
  BY <1>2
<1> QED BY <1>1, <1>2, <1>3, <1>4, <1>5, <1>6, <1>7, <1>8, <1>9, TaskKeeps

LEMMA InterruptKeeps ==
  ASSUME Inv, NEW p \in Sessions, NEW s \in Wanted[p], Interrupt(p, s)
  PROVE  Inv'
<1>1. /\ Goes(p, s, "failing") /\ task[p][s] \in {"looking", "verifying", "local", "cold"}
      /\ UNCHANGED <<stored, width, session, aborted, lock, claim, epochs>>
      /\ IF task[p][s] = "verifying" THEN pool' \in Cancelled(pool, s) ELSE pool' = pool
  BY DEF Interrupt, Under
<1>2. task[p][s] \in Locked /\ "failing" \in Locked
  BY <1>1 DEF Locked
<1>3. session[p] = "preparing" /\ s \in Sources
  BY <1>2, Working DEF Busy
<1>4. /\ Kept(pool') /\ Steps(pool, pool') /\ (claim = NoSession => ~pool'.open /\ ~pool'.broken)
      /\ task[p][s] = "verifying" => pool'.outcome[s] # "pending"
  <2>1. CASE task[p][s] = "verifying"
    <3>1. claim = p /\ p # NoSession /\ Kept(pool) /\ width \in 0..MaxWidth
      BY <2>1, Working
    <3>2. pool' \in Cancelled(pool, s)
      BY <1>1, <2>1
    <3> QED BY <1>3, <3>1, <3>2, CancelledKeeps
  <2>2. CASE task[p][s] # "verifying"
    <3>1. pool' = pool
      BY <1>1, <2>2
    <3> QED BY <2>2, <3>1, StaysKept
  <2> QED BY <2>1, <2>2
<1> QED BY <1>1, <1>2, <1>3, <1>4, TaskSteps

LEMMA LookKeeps ==
  ASSUME Inv, NEW p \in Sessions, NEW s \in Wanted[p], Look(p, s)
  PROVE  Inv'
<1>1. /\ task[p][s] = "looking" /\ task[p][s] \in Locked /\ task[p][s] # "verifying"
      /\ UNCHANGED <<stored, width, session, aborted, lock, claim, epochs>>
  BY DEF Look, Under, Locked
<1>2. session[p] = "preparing" /\ s \in Sources /\ lock[s] = p
  BY <1>1, Working DEF Busy
<1>3. {"failing", "cold", "local", "verifying"} \subseteq Locked
  BY DEF Locked
<1>4. ASSUME NEW pc \in {"failing", "cold", "local"}, Goes(p, s, pc), pool' = pool \/ Fault PROVE Inv'
  <2>1. Kept(pool') /\ Steps(pool, pool') /\ (claim = NoSession => ~pool'.open /\ ~pool'.broken)
    BY <1>4, StaysKept, FaultSteps
  <2> QED BY <1>1, <1>2, <1>3, <1>4, <2>1, TaskSteps
<1>5. ASSUME Warm(p), pool.open, Goes(p, s, "verifying"), pool' \in Enqueued(pool, s) PROVE Inv'
  <2>1. claim = p /\ claim # NoSession /\ pool.outcome[s] # "pending" /\ Kept(pool) /\ width \in 0..MaxWidth
    BY <1>1, <1>5, Working DEF Warm
  <2>2. /\ Kept(pool') /\ (pool.broken => pool'.broken)
        /\ \A e \in Sources : pool'.outcome[e] = "pending" => pool.outcome[e] = "pending" \/ e = s
    BY <1>2, <1>5, <2>1, EnqueuedKeeps
  <2>3. stored \in [Sources -> {"none", "good", "bad"}] /\ lock \in [Sources -> Sessions \cup {NoSession}]
    BY DEF Inv, SessionType
  <2>4. "verifying" \in {"idle", "locking", "charging", "ready", "failed"} \cup Locked
    BY <1>3
  <2> QED BY <1>1, <1>2, <1>3, <1>5, <2>1, <2>2, <2>3, <2>4, TaskKeeps
<1>6. \/ \E pc \in {"failing", "cold", "local"} : Goes(p, s, pc) /\ (pool' = pool \/ Fault)
      \/ Warm(p) /\ pool.open /\ Goes(p, s, "verifying") /\ pool' \in Enqueued(pool, s)
  BY DEF Look
<1> QED BY <1>4, <1>5, <1>6

LEMMA JobSettlesKeeps ==
  ASSUME Inv, NEW p \in Sessions, NEW s \in Wanted[p], JobSettles(p, s)
  PROVE  Inv'
<1>1. PICK pc \in {"verified", "failing"} : Goes(p, s, pc) /\ (pc = "verified" => stored[s] = "good")
  BY DEF JobSettles
<1>2. /\ task[p][s] = "verifying" /\ pool.outcome[s] # "pending"
      /\ UNCHANGED <<pool, stored, width, session, aborted, lock, claim, epochs>>
  BY DEF JobSettles, Under
<1>3. task[p][s] \in Locked /\ pc \in Locked
  BY <1>2 DEF Locked
<1>4. session[p] = "preparing"
  BY <1>3, Working DEF Busy
<1>5. Kept(pool') /\ Steps(pool, pool') /\ (claim = NoSession => ~pool'.open /\ ~pool'.broken)
  BY <1>2, StaysKept
<1> QED BY <1>1, <1>2, <1>3, <1>4, <1>5, TaskSteps

LEMMA VerifyLocallyKeeps ==
  ASSUME Inv, NEW p \in Sessions, NEW s \in Wanted[p], VerifyLocally(p, s)
  PROVE  Inv'
<1>1. PICK pc \in {"verified", "failing"} :
        Goes(p, s, pc) /\ (pc = "verified" => stored[s] = "good") /\ (pool' = pool \/ Fault)
  BY DEF VerifyLocally
<1>2. task[p][s] = "local" /\ UNCHANGED <<stored, width, session, aborted, lock, claim, epochs>>
  BY DEF VerifyLocally, Under
<1>3. task[p][s] \in Locked /\ pc \in Locked
  BY <1>2 DEF Locked
<1>4. session[p] = "preparing"
  BY <1>3, Working DEF Busy
<1>5. Kept(pool') /\ Steps(pool, pool') /\ (claim = NoSession => ~pool'.open /\ ~pool'.broken)
  BY <1>1, StaysKept, FaultSteps
<1> QED BY <1>1, <1>2, <1>3, <1>4, <1>5, TaskSteps

LEMMA InstallKeeps ==
  ASSUME Inv, NEW p \in Sessions, NEW s \in Wanted[p], Install(p, s)
  PROVE  Inv'
<1>1. task[p][s] = "cold" /\ UNCHANGED <<width, session, aborted, lock, claim, epochs>>
  BY DEF Install, Under
<1>2. task[p][s] \in Locked /\ {"verified", "failing"} \subseteq Locked
  BY <1>1 DEF Locked
<1>3. session[p] = "preparing" /\ s \in Sources /\ lock[s] = p
  BY <1>2, Working DEF Busy
<1>4. CASE Goes(p, s, "failing") /\ (pool' = pool \/ Fault) /\ stored' = stored
  <2>1. Kept(pool') /\ Steps(pool, pool') /\ (claim = NoSession => ~pool'.open /\ ~pool'.broken)
    BY <1>4, StaysKept, FaultSteps
  <2> QED BY <1>1, <1>2, <1>3, <1>4, <2>1, TaskSteps
<1>5. CASE Goes(p, s, "verified") /\ pool' = pool /\ stored' = [stored EXCEPT ![s] = "good"]
  <2>1. stored \in [Sources -> {"none", "good", "bad"}] /\ lock \in [Sources -> Sessions \cup {NoSession}]
    BY DEF Inv, SessionType
  <2>2. stored' \in [Sources -> {"none", "good", "bad"}] /\ stored'[s] = "good"
        /\ \A e \in Sources : stored'[e] = stored[e] \/ stored'[e] = "good"
    BY <1>3, <1>5, <2>1
  <2>3. Kept(pool') /\ (claim = NoSession => ~pool'.open /\ ~pool'.broken)
    BY <1>5, StaysKept
  <2>4. "verified" \in {"idle", "locking", "charging", "ready", "failed"} \cup Locked
    BY <1>2
  <2>5. /\ pool.broken => pool'.broken
        /\ \A e \in Sources : pool'.outcome[e] = "pending" => pool.outcome[e] = "pending"
    BY <1>5
  <2> QED BY <1>1, <1>2, <1>3, <1>5, <2>1, <2>2, <2>3, <2>4, <2>5, TaskKeeps
<1>6. \/ Goes(p, s, "failing") /\ (pool' = pool \/ Fault) /\ stored' = stored
      \/ Goes(p, s, "verified") /\ pool' = pool /\ stored' = [stored EXCEPT ![s] = "good"]
  BY DEF Install
<1> QED BY <1>4, <1>5, <1>6

LEMMA ChargeKeeps ==
  ASSUME Inv, NEW p \in Sessions, NEW s \in Wanted[p], Charge(p, s)
  PROVE  Inv'
<1>1. PICK pc \in {"ready", "failed"} : Goes(p, s, pc) /\ (pool' = pool \/ Fault)
  BY DEF Charge
<1>2. task[p][s] = "charging" /\ UNCHANGED <<stored, width, session, aborted, lock, claim, epochs>>
  BY DEF Charge, Under
<1>3. task[p][s] \notin Locked /\ pc \notin Locked
  BY <1>2 DEF Locked
<1>4. session[p] = "preparing" /\ stored[s] = "good"
  BY <1>2, Working DEF Busy
<1>5. Kept(pool') /\ Steps(pool, pool') /\ (claim = NoSession => ~pool'.open /\ ~pool'.broken)
  BY <1>1, StaysKept, FaultSteps
<1> QED BY <1>1, <1>2, <1>3, <1>4, <1>5, TaskSteps

LEMMA UnlockKeeps ==
  ASSUME Inv, NEW p \in Sessions, NEW s \in Wanted[p], Unlock(p, s)
  PROVE  Inv'
<1>1. PICK pc \in {"charging", "failed"} : Goes(p, s, pc) /\ (pc = "charging" => task[p][s] = "verified")
  BY DEF Unlock, Under
<1>2. /\ task[p][s] \in {"verified", "failing"} /\ lock' = [lock EXCEPT ![s] = NoSession]
      /\ pool' = pool \/ (claim = p /\ pool' \in Closed(pool))
      /\ UNCHANGED <<stored, width, session, aborted, claim, epochs>>
  BY DEF Unlock, Warm
<1>3. task[p][s] \in Locked /\ pc \notin Locked /\ pc # "verifying" /\ task[p][s] # "verifying"
  BY <1>2 DEF Locked
<1>4. /\ session[p] = "preparing" /\ s \in Sources /\ lock[s] = p /\ p # NoSession
      /\ width \in 0..MaxWidth /\ Kept(pool)
      /\ pc = "charging" => stored[s] = "good"
  BY <1>1, <1>3, Working DEF Busy
<1>5. Kept(pool') /\ Steps(pool, pool') /\ (claim = NoSession => ~pool'.open /\ ~pool'.broken)
  <2>1. CASE pool' = pool
    BY <2>1, StaysKept
  <2>2. CASE claim = p /\ pool' \in Closed(pool)
    <3>1. width \in Nat /\ Shape(pool) /\ (CountsAgree => \A e \in Sources : pool.outcome[e] # "corrupt")
      BY <1>4, VerifyAssumption DEF Kept, Core
    <3> QED BY <1>4, <2>2, <3>1, ClosedKeeps
  <2> QED BY <1>2, <2>1, <2>2
<1>6. stored \in [Sources -> {"none", "good", "bad"}] /\ lock \in [Sources -> Sessions \cup {NoSession}]
  BY DEF Inv, SessionType
<1>7. lock' \in [Sources -> Sessions \cup {NoSession}] /\ lock'[s] = NoSession
      /\ \A e \in Sources : e # s => lock'[e] = lock[e]
  BY <1>2, <1>4, <1>6
<1>8. \A q \in Sessions : q # p => (lock'[s] = q <=> lock[s] = q)
  BY <1>4, <1>7, Numbers
<1>9. /\ pool.broken => pool'.broken
      /\ \A e \in Sources : pool'.outcome[e] = "pending" => pool.outcome[e] = "pending"
  BY <1>5 DEF Steps
<1>10. pc \in {"idle", "locking", "charging", "ready", "failed"} \cup Locked
  OBVIOUS
<1> QED BY <1>1, <1>2, <1>3, <1>4, <1>5, <1>6, <1>7, <1>8, <1>9, <1>10, TaskKeeps

-----------------------------------------------------------------------------
\* A preparation moves on.
LEMMA SessionKeeps ==
  ASSUME Inv, NEW p \in Sessions, NEW pc \in Preparation \cup {"idle", "open", "failed"},
         session' = [session EXCEPT ![p] = pc],
         Kept(pool'), pool.broken => pool'.broken,
         pc # "preparing" => \A s \in Wanted[p] : task[p][s] \notin Busy,
         pc \in {"ready", "open"} => p \notin epochs' /\ \A s \in Wanted[p] : task[p][s] = "ready",
         epochs' \subseteq epochs \cup {p},
         claim' \in {claim, p, NoSession},
         claim' = p => pc \in {"preparing", "leaving"} \/ (pool'.broken /\ pc = "failed"),
         Claims', UNCHANGED <<stored, width, task, aborted, lock>>
  PROVE  Inv'
<1>1. session' \in [Sessions -> Preparation \cup {"idle", "open", "failed"}] /\ session'[p] = pc
      /\ \A q \in Sessions : q # p => session'[q] = session[q]
  BY DEF Inv, SessionType
<1>2. SessionType'
  BY <1>1 DEF Inv, SessionType
<1>3. LocksHeld'
  BY DEF Inv, LocksHeld
<1>4. Phases'
  <2> SUFFICES ASSUME NEW q \in Sessions
               PROVE  /\ session'[q] # "preparing" =>
                           \A e \in Wanted[q] : task[q][e] \notin Busy
                      /\ session'[q] \in {"ready", "open"} =>
                           q \notin epochs' /\ \A e \in Wanted[q] : task[q][e] = "ready"
                      /\ \A e \in Wanted[q] :
                           task[q][e] \in {"verified", "charging", "ready"} => stored[e] = "good"
                      /\ claim' = q => \/ session'[q] \in {"preparing", "leaving"}
                                       \/ pool'.broken /\ session'[q] = "failed"
    BY DEF Phases
  <2>1. /\ session[q] # "preparing" =>
             \A e \in Wanted[q] : task[q][e] \notin Busy
        /\ session[q] \in {"ready", "open"} =>
             q \notin epochs /\ \A e \in Wanted[q] : task[q][e] = "ready"
        /\ \A e \in Wanted[q] :
             task[q][e] \in {"verified", "charging", "ready"} => stored[e] = "good"
        /\ claim = q => \/ session[q] \in {"preparing", "leaving"}
                        \/ pool.broken /\ session[q] = "failed"
    BY DEF Inv, Phases
  <2>2. CASE q = p
    BY <1>1, <2>1, <2>2
  <2>3. CASE q # p
    <3>1. claim' = q => claim = q
      BY <2>3, Numbers
    <3> QED BY <1>1, <2>1, <2>3, <3>1
  <2> QED BY <2>2, <2>3
<1>5. Kept(pool)'
  BY KeptPrimed
<1> QED BY <1>2, <1>3, <1>4, <1>5 DEF Inv

LEMMA OpenKeeps ==
  ASSUME Inv, NEW p \in Sessions, Open(p)
  PROVE  Inv'
<1>1. /\ session[p] = "idle" /\ session' = [session EXCEPT ![p] = "preparing"]
      /\ epochs' = epochs \cup {p} /\ UNCHANGED <<stored, width, task, aborted, lock>>
      /\ \/ claim = NoSession /\ claim' = p /\ pool' = NewPool(pool)
         \/ UNCHANGED <<claim, pool>>
  BY DEF Open
<1>2. Kept(pool) /\ width \in 0..MaxWidth /\ (claim = NoSession => ~pool.open /\ ~pool.broken)
  BY StaysKept DEF Inv, SessionType
<1>3. CASE claim = NoSession /\ claim' = p /\ pool' = NewPool(pool)
  <2>1. Kept(pool') /\ ~pool.broken /\ \A s \in Sources : pool'.outcome[s] # "pending"
    BY <1>2, <1>3, NewPoolKeeps
  <2>2. \A q \in Sessions : \A s \in Wanted[q] : task[q][s] # "verifying"
    BY <1>3, Numbers DEF Inv, Claims
  <2>3. Claims'
    BY <1>1, <1>3, <2>1, <2>2, Numbers DEF Claims
  <2> QED BY <1>1, <1>3, <2>1, <2>3, SessionKeeps DEF Preparation
<1>4. CASE UNCHANGED <<claim, pool>>
  <2>1. Claims'
    BY <1>1, <1>4 DEF Inv, Claims
  <2> QED BY <1>1, <1>2, <1>4, <2>1, SessionKeeps DEF Preparation
<1> QED BY <1>1, <1>3, <1>4

LEMMA AbortKeeps ==
  ASSUME Inv, NEW p \in Sessions, Abort(p)
  PROVE  Inv'
<1>1. /\ aborted' = [aborted EXCEPT ![p] = TRUE] /\ pool.faults > 0
      /\ UNCHANGED <<stored, width, session, task, lock, claim, epochs>>
  BY DEF Abort
<1> DEFINE P == [pool EXCEPT !.faults = @ - 1]
<1>2. pool' \in IF claim = p THEN AllCancelled(P) ELSE {P}
  BY DEF Abort, Warm
<1>3. Kept(P) /\ Steps(pool, P) /\ P.open = pool.open /\ P.broken = pool.broken
  BY <1>1, StaysKept, FaultKeeps
<1> HIDE DEF P
<1>4. aborted' \in [Sessions -> BOOLEAN] /\ width \in 0..MaxWidth
  BY <1>1 DEF Inv, SessionType
<1>5. CASE claim = p
  <2>1. pool' \in AllCancelled(P)
    BY <1>2, <1>5
  <2>2. Kept(pool') /\ Steps(P, pool')
    BY <1>3, <1>4, <2>1, AllCancelledKeeps
  <2>3. Steps(pool, pool')
    BY <1>3, <2>2, StepsCompose
  <2> QED BY <1>1, <1>4, <1>5, <2>2, <2>3, Numbers, PoolMoves
<1>6. CASE claim # p
  <2>1. pool' = P
    BY <1>2, <1>6
  <2>2. claim = NoSession => ~pool'.open /\ ~pool'.broken
    BY <1>3, <2>1, StaysKept
  <2> QED BY <1>1, <1>3, <1>4, <2>1, <2>2, PoolMoves
<1> QED BY <1>5, <1>6

LEMMA LeaveKeeps ==
  ASSUME Inv, NEW p \in Sessions, Leave(p)
  PROVE  Inv'
<1>1. /\ session[p] = "preparing" /\ session' = [session EXCEPT ![p] = "leaving"]
      /\ epochs' \subseteq epochs /\ UNCHANGED <<stored, width, task, aborted, lock, claim>>
      /\ Prepared(p) \/ Tasks(p, {"idle", "ready", "failed"}) = Wanted[p]
  BY DEF Leave
<1>2. \A s \in Wanted[p] : task[p][s] \notin Busy
  BY <1>1 DEF Prepared, Tasks, Busy, Locked
<1>3. /\ Kept(pool') /\ Steps(pool, pool') /\ pool'.outcome = pool.outcome
      /\ claim = NoSession => ~pool'.open /\ ~pool'.broken
  <2>1. CASE UNCHANGED pool
    BY <2>1, StaysKept
  <2>2. CASE Fault
    BY <2>2, FaultSteps
  <2> QED BY <2>1, <2>2 DEF Leave
<1>4. Claims'
  BY <1>1, <1>3 DEF Inv, Claims
<1>5. pool.broken => pool'.broken
  BY <1>3 DEF Steps
<1> QED BY <1>1, <1>2, <1>3, <1>4, <1>5, SessionKeeps DEF Preparation

\* A pool that is not open has no job that waits to be settled.
LEMMA NothingPending ==
  ASSUME NEW P, Kept(P), ~P.open
  PROVE  \A s \in Sources : P.outcome[s] # "pending"
<1>1. P.queue = <<>> /\ \A w \in Realm : P.worker[w].pending = NoSource
  BY DEF Kept, Core, Closing
<1>2. \A s \in Sources : ~Contains(P.queue, s)
  BY <1>1 DEF Contains
<1>3. \A s \in Sources : ~ \E w \in Realm : P.worker[w].pending = s
  BY <1>1, VerifyAssumption
<1> QED BY <1>2, <1>3 DEF Kept, Core, Places

LEMMA CloseWarmKeeps ==
  ASSUME Inv, NEW p \in Sessions, CloseWarm(p)
  PROVE  Inv'
<1>1. session[p] = "leaving" /\ UNCHANGED <<stored, width, task, aborted, lock, epochs>>
  BY DEF CloseWarm
<1>2. \A s \in Wanted[p] : task[p][s] \notin Busy /\ task[p][s] # "verifying"
  BY <1>1 DEF Inv, Phases, Busy, Locked
<1>3. Kept(pool) /\ width \in 0..MaxWidth /\ width \in Nat
  BY VerifyAssumption DEF Inv, SessionType
<1>4. CASE claim = p
  <2>1. /\ pool' \in (IF pool.open THEN Closed(pool) ELSE {pool})
        /\ claim' = (IF pool'.broken THEN claim ELSE NoSession)
        /\ session' = [session EXCEPT ![p] = IF pool'.broken THEN "failed" ELSE "left"]
    BY <1>4 DEF CloseWarm, Warm
  <2>2. Kept(pool') /\ Steps(pool, pool') /\ ~pool'.open
    <3>1. Shape(pool) /\ (CountsAgree => \A s \in Sources : pool.outcome[s] # "corrupt")
      BY <1>3 DEF Kept, Core
    <3> QED BY <1>3, <2>1, <3>1, ClosedKeeps, StaysKept
  <2>3. \A s \in Sources : pool'.outcome[s] # "pending"
    BY <2>2, NothingPending
  <2>4. \A q \in Sessions : \A s \in Wanted[q] : task[q][s] # "verifying"
    BY <1>2, <1>4 DEF Inv, Claims
  <2>5. Claims'
    BY <1>1, <1>4, <2>1, <2>2, <2>3, <2>4, Numbers DEF Claims
  <2>6. PICK pc \in {"failed", "left"} : /\ pc = (IF pool'.broken THEN "failed" ELSE "left")
                                         /\ session' = [session EXCEPT ![p] = pc]
    BY <2>1
  <2>7. claim' \in {claim, p, NoSession} /\ (claim' = p => pool'.broken /\ pc = "failed")
    BY <1>4, <2>1, <2>6, Numbers
  <2>8. pool.broken => pool'.broken
    BY <2>2 DEF Steps
  <2> QED BY <1>1, <1>2, <2>2, <2>5, <2>6, <2>7, <2>8, SessionKeeps DEF Preparation
<1>5. CASE claim # p
  <2>1. session' = [session EXCEPT ![p] = "left"] /\ UNCHANGED <<pool, claim>>
    BY <1>5 DEF CloseWarm, Warm
  <2>2. Claims'
    BY <1>1, <2>1 DEF Inv, Claims
  <2> QED BY <1>1, <1>2, <1>3, <1>5, <2>1, <2>2, SessionKeeps DEF Preparation
<1> QED BY <1>4, <1>5

\* What a preparation that left holds.
LEMMA LeftHolds ==
  ASSUME Inv, NEW p \in Sessions, session[p] \in {"left", "ready"}
  PROVE  claim # p /\ \A s \in Wanted[p] : task[p][s] \notin Busy
<1>1. session[p] \notin {"preparing", "leaving", "failed"}
  OBVIOUS
<1> QED BY <1>1 DEF Inv, Phases

LEMMA AnnounceKeeps ==
  ASSUME Inv, NEW p \in Sessions, Announce(p)
  PROVE  Inv'
<1>1. PICK pc \in {"ready", "failed"} : /\ session' = [session EXCEPT ![p] = pc]
                                        /\ pc = "ready" => Prepared(p) /\ p \notin epochs
  BY DEF Announce
<1>2. session[p] = "left" /\ UNCHANGED <<pool, stored, width, task, aborted, lock, claim, epochs>>
  BY DEF Announce
<1>3. claim # p /\ \A s \in Wanted[p] : task[p][s] \notin Busy
  BY <1>2, LeftHolds
<1>4. pc = "ready" => \A s \in Wanted[p] : task[p][s] = "ready"
  BY <1>1 DEF Prepared, Tasks
<1>5. Claims' /\ Kept(pool')
  BY <1>2 DEF Inv, Claims
<1> QED BY <1>1, <1>2, <1>3, <1>4, <1>5, SessionKeeps DEF Preparation

LEMMA HandOverKeeps ==
  ASSUME Inv, NEW p \in Sessions, HandOver(p)
  PROVE  Inv'
<1>1. PICK pc \in {"open", "failed"} : session' = [session EXCEPT ![p] = pc]
  BY DEF HandOver
<1>2. session[p] = "ready" /\ UNCHANGED <<pool, stored, width, task, aborted, lock, claim, epochs>>
  BY DEF HandOver
<1>3. claim # p /\ \A s \in Wanted[p] : task[p][s] \notin Busy
  BY <1>2, LeftHolds
<1>4. p \notin epochs /\ \A s \in Wanted[p] : task[p][s] = "ready"
  BY <1>2 DEF Inv, Phases
<1>5. Claims' /\ Kept(pool')
  BY <1>2 DEF Inv, Claims
<1> QED BY <1>1, <1>2, <1>3, <1>4, <1>5, SessionKeeps DEF Preparation

LEMMA WorkersKeep ==
  ASSUME Inv, Host
  PROVE  Inv'
<1>1. Workers /\ UNCHANGED <<session, task, aborted, lock, claim, epochs>>
  BY DEF Host
<1>2. Kept(pool) /\ width \in 0..MaxWidth /\ aborted \in [Sessions -> BOOLEAN]
  BY DEF Inv, SessionType
<1>3. /\ Kept(pool') /\ Steps(pool, pool') /\ UNCHANGED <<stored, width>>
      /\ \E w \in Realm : pool.worker[w].there
  BY <1>1, <1>2, HostKeeps
<1>4. claim # NoSession
  BY <1>3 DEF Inv, Claims, Kept, Core, Closing
<1> QED BY <1>1, <1>2, <1>3, <1>4, PoolMoves

-----------------------------------------------------------------------------
(* The invariant *)

LEMMA InitInv == Init => Inv
<1> SUFFICES ASSUME Init PROVE Inv
  OBVIOUS
<1>1. SessionType
  BY SessionAssumption DEF Init, SessionType, Preparation, Sessions, NoSession
<1>2. pool = [EmptyPool EXCEPT !.open = FALSE, !.faults = Faults]
  <2> DEFINE P == EmptyPool
  <2>1. [w \in Realm |-> NoWorker] \in [Realm -> Slot] /\ [s \in Sources |-> "none"] \in [Sources -> Outcome]
    BY NoWorkerShape DEF Outcome
  <2>2. <<>> \in Seq(Sources) /\ Faults \in 0..Faults
    BY VerifyAssumption
  <2>3. P \in PoolState /\ P.open = FALSE /\ P.faults = Faults
    BY <2>1, <2>2 DEF PoolState, EmptyPool
  <2>4. pool = P
    BY DEF Init
  <2> HIDE DEF P
  <2>5. P = [P EXCEPT !.open = FALSE, !.faults = Faults]
    BY <2>3 DEF PoolState
  <2> QED BY <2>4, <2>5 DEF P
<1>3. Faults \in 0..Faults /\ width \in 0..MaxWidth
  BY VerifyAssumption DEF Init
<1>4. Kept(pool) /\ ~pool.open /\ ~pool.broken /\ \A s \in Sources : pool.outcome[s] = "none"
  BY <1>2, <1>3, EmptyKept
<1>5. \A p \in Sessions : \A s \in Wanted[p] : task[p][s] = "idle"
  BY DEF Init
<1>6. LocksHeld
  BY <1>5, Numbers DEF Init, LocksHeld, Locked
<1>7. Phases
  BY <1>5, Numbers DEF Init, Phases, Busy, Locked
<1>8. Claims
  BY <1>4, <1>5 DEF Init, Claims
<1> QED BY <1>1, <1>4, <1>6, <1>7, <1>8 DEF Inv

LEMMA NextInv == Inv /\ [Next]_vars => Inv'
<1> SUFFICES ASSUME Inv, [Next]_vars PROVE Inv'
  OBVIOUS
<1>1. CASE UNCHANGED vars
  <2>1. Kept(pool') /\ UNCHANGED <<width, stored, session, task, aborted, lock, claim, epochs, pool>>
    BY <1>1, StaysKept DEF vars
  <2>2. Kept(pool)'
    BY <2>1, KeptPrimed
  <2> QED BY <2>1, <2>2 DEF Inv, SessionType, LocksHeld, Phases, Claims
<1>2. CASE Host
  BY <1>2, WorkersKeep
<1>3. CASE \E p \in Sessions : Open(p) \/ Abort(p) \/ Prepare(p)
  <2>1. PICK p \in Sessions : Open(p) \/ Abort(p) \/ Prepare(p)
    BY <1>3
  <2>2. CASE Open(p)
    BY <2>2, OpenKeeps
  <2>3. CASE Abort(p)
    BY <2>3, AbortKeeps
  <2>4. CASE Leave(p) \/ CloseWarm(p) \/ Announce(p) \/ HandOver(p)
    BY <2>4, LeaveKeeps, CloseWarmKeeps, AnnounceKeeps, HandOverKeeps
  <2>5. ASSUME NEW s \in Wanted[p],
               \/ StartTask(p, s) \/ Grant(p, s) \/ GiveUp(p, s) \/ Interrupt(p, s) \/ Look(p, s)
               \/ JobSettles(p, s) \/ VerifyLocally(p, s) \/ Install(p, s) \/ Unlock(p, s) \/ Charge(p, s)
        PROVE  Inv'
    BY <2>5, StartTaskKeeps, GrantKeeps, GiveUpKeeps, InterruptKeeps, LookKeeps, JobSettlesKeeps,
       VerifyLocallyKeeps, InstallKeeps, UnlockKeeps, ChargeKeeps
  <2> QED BY <2>1, <2>2, <2>3, <2>4, <2>5 DEF Prepare
<1> QED BY <1>1, <1>2, <1>3 DEF Next

\* A job of a Worker belongs to the preparation with the claim, under its lock.
LEMMA JobsUnderLock ==
  ASSUME Inv, NEW w \in Realm, pool.worker[w].job # NoSource, ~pool.broken
  PROVE  claim # NoSession /\ lock[pool.worker[w].job] = claim
<1> DEFINE v == pool.worker[w]
<1>1. v \in Slot /\ SlotShape(v) /\ SoundAt(pool, w)
  BY PoolFields DEF Inv, Kept, Core, Shape
<1>2. v.there
  BY <1>1, NoWorkerShape DEF SlotShape, NoWorker
<1>3. Sound(v)
  BY <1>1, <1>2 DEF SoundAt
<1>4. v.job = v.pending /\ v.pending \in Sources
  BY <1>1, <1>3, SlotFields DEF Sound, Rests, Fresh, Runs, Over, JobFree
<1>5. pool.outcome[v.job] = "pending"
  BY <1>4 DEF Inv, Kept, Core, Places
<1>6. claim # NoSession /\ v.job \in Wanted[claim] /\ task[claim][v.job] = "verifying" /\ claim \in Sessions
  BY <1>4, <1>5 DEF Inv, Claims, SessionType
<1>7. lock[v.job] = claim
  BY <1>4, <1>6 DEF Inv, LocksHeld, Locked
<1> QED BY <1>6, <1>7

LEMMA AliveWithin ==
  ASSUME Inv
  PROVE  Cardinality({w \in Realm : pool.worker[w].alive}) <= width
<1>1. \A w \in Realm : SlotShape(pool.worker[w])
  BY DEF Inv, Kept, Core, Shape
<1>2. \A w \in Realm : pool.worker[w].alive <=> pool.worker[w].there
  BY <1>1, NoWorkerShape DEF SlotShape
<1>3. {w \in Realm : pool.worker[w].alive} = Slots(pool)
  BY <1>2 DEF Slots
<1> QED BY <1>3 DEF Inv, Kept, Core, Shape

LEMMA InvImplies ==
  Inv => TypeOK /\ VerifyUnderLock /\ ReadyComplete /\ (CountsAgree => ProtocolExact)
<1> SUFFICES ASSUME Inv PROVE TypeOK /\ VerifyUnderLock /\ ReadyComplete /\ (CountsAgree => ProtocolExact)
  OBVIOUS
<1>1. TypeOK
  <2>1. pool \in PoolState /\ IsInjective(pool.queue) /\ \A w \in Realm : SlotShape(pool.worker[w])
    BY DEF Inv, Kept, Core, Shape
  <2>2. ASSUME NEW w \in Realm
        PROVE  LET v == pool.worker[w]
               IN /\ {v.there, v.alive, v.hung, v.awaiting} \subseteq BOOLEAN /\ (v.there => v.alive)
                  /\ {v.pending, v.job} \subseteq Sources \cup {NoSource}
                  /\ v.sent <= v.updates /\ v.of <= v.generation
    <3>1. pool.worker[w] \in Slot /\ SlotShape(pool.worker[w])
      BY <2>1, PoolFields
    <3> QED BY <3>1, SlotFields DEF SlotShape
  <2>3. /\ {pool.open, pool.broken} \subseteq BOOLEAN /\ pool.faults \in 0..Faults
        /\ pool.queue \in Seq(Sources) /\ IsInjective(pool.queue)
        /\ pool.outcome \in [Sources -> {"none", "pending", "complete", "failed", "corrupt"}]
    BY <2>1, PoolFields DEF Outcome
  <2> QED BY <2>2, <2>3 DEF TypeOK, Inv, SessionType
<1>2. VerifyUnderLock
  BY JobsUnderLock, AliveWithin DEF VerifyUnderLock
<1>3. ReadyComplete
  <2> SUFFICES ASSUME NEW p \in Sessions, session[p] \in {"ready", "open"}
               PROVE  /\ \A s \in Wanted[p] : task[p][s] = "ready" /\ stored[s] = "good" /\ lock[s] # p
                      /\ claim # p /\ p \notin epochs
                      /\ claim = NoSession => \A w \in Realm : ~pool.worker[w].alive
    BY DEF ReadyComplete
  <2>1. /\ session[p] \notin {"preparing", "leaving", "failed"}
        /\ \A s \in Wanted[p] : task[p][s] = "ready" /\ stored[s] = "good"
        /\ claim # p /\ p \notin epochs
    BY DEF Inv, Phases
  <2>2. \A s \in Wanted[p] : lock[s] # p
    BY <2>1, Numbers DEF Inv, LocksHeld, Locked
  <2>3. claim = NoSession => \A w \in Realm : ~pool.worker[w].there
    BY DEF Inv, Claims, Kept, Core, Closing
  <2>4. \A w \in Realm : ~pool.worker[w].there => ~pool.worker[w].alive
    BY NoWorkerShape DEF Inv, Kept, Core, Shape, SlotShape
  <2> QED BY <2>1, <2>2, <2>3, <2>4
<1>4. CountsAgree => ProtocolExact
  BY DEF ProtocolExact, Inv, Kept, Core
<1> QED BY <1>1, <1>2, <1>3, <1>4

\* Every reachable state satisfies the inductive invariant: each slot of the
\* pool is in step with its Worker (Sound), a job that is not settled is in the
\* queue or in one slot (Places), and its source is under the lock of the
\* preparation that holds the warm claim (Claims, LocksHeld).
THEOREM InvHolds == Spec => []Inv
<1>1. Init => Inv
  BY InitInv
<1>2. Inv /\ [Next]_vars => Inv'
  BY NextInv
<1> QED BY <1>1, <1>2, PTL DEF Spec

\* The variables of the preparations, of the pool and of its Workers keep their
\* types, and no source is queued twice in the pool.
THEOREM TypeCorrect == Spec => []TypeOK
<1>1. Inv => TypeOK
  BY InvImplies
<1> QED BY <1>1, InvHolds, PTL

\* sparse-store.ts:378: no Worker of a pool that terminates its Workers reads a
\* source whose lock its preparation does not hold, and never are more Workers
\* alive than the funded width, whichever preparations come and go, whatever
\* fails, is aborted or hangs.
THEOREM VerifyAlwaysUnderLock == Spec => []VerifyUnderLock
<1>1. Inv => VerifyUnderLock
  BY InvImplies
<1> QED BY <1>1, InvHolds, PTL

\* engine-web-sparse-verify-worker.ts:80: if the indexes are valid, no order of starts,
\* progress, acknowledgements, failures and completions makes either side take the
\* other's message for corruption.
THEOREM ProtocolAlwaysExact == ASSUME IndexesValid PROVE Spec => []ProtocolExact
<1>1. CountsAgree
  BY CountsAlwaysAgree
<1>2. Inv => ProtocolExact
  BY <1>1, InvImplies
<1> QED BY <1>2, InvHolds, PTL

\* sparse-store.ts:510: a preparation that is ready has every source verified, and
\* has released its locks, its epoch and the warm claim, and its Workers are gone.
THEOREM ReadyAlwaysComplete == Spec => []ReadyComplete
<1>1. Inv => ReadyComplete
  BY InvImplies
<1> QED BY <1>1, InvHolds, PTL

=============================================================================
