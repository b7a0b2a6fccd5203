------------------------- MODULE FlacWorkerPoolProofs -------------------------
(***************************************************************************)
(* What FlacWorkerPool keeps for every set of jobs and holders and every    *)
(* limit.  The handlers are operators on the pool's state p, and so is the *)
(* invariant: Continue is proved once for all of them.                     *)
(***************************************************************************)
EXTENDS FlacWorkerPool, FiniteSetTheorems, FunctionTheorems, SequenceTheorems,
        WellFoundedInduction, TLAPS

(* The lesser of two numbers, induction over numbers, and segments of a queue. *)

\* The smaller of two numbers, and the larger.
LEMMA MinMax ==
  ASSUME NEW a \in Int, NEW b \in Int
  PROVE  /\ Min({a, b}) = IF a <= b THEN a ELSE b
         /\ Max({a, b}) = IF a <= b THEN b ELSE a
<1>1. \A x \in {a, b} : (\A y \in {a, b} : x <= y) => x = IF a <= b THEN a ELSE b
  OBVIOUS
<1>2. \E x \in {a, b} : \A y \in {a, b} : x <= y
  <2>1. CASE a <= b BY <2>1
  <2>2. CASE b <= a BY <2>2
  <2> QED BY <2>1, <2>2
<1>3. \A x \in {a, b} : (\A y \in {a, b} : x >= y) => x = IF a <= b THEN b ELSE a
  OBVIOUS
<1>4. \E x \in {a, b} : \A y \in {a, b} : x >= y
  <2>1. CASE a <= b BY <2>1
  <2>2. CASE b <= a BY <2>2
  <2> QED BY <2>1, <2>2
<1>5. Min({a, b}) = CHOOSE x \in {a, b} : \A y \in {a, b} : x <= y
  BY DEF Min
<1>6. Max({a, b}) = CHOOSE x \in {a, b} : \A y \in {a, b} : x >= y
  BY DEF Max
<1> QED
  BY <1>1, <1>2, <1>3, <1>4, <1>5, <1>6

LEMMA LeastNumber ==
  ASSUME NEW T \in SUBSET Nat, T # {}
  PROVE  \E n \in T : \A m \in T : n <= m
<1> DEFINE R == {ss \in Nat \X Nat : ss[1] < ss[2]}
<1>1. IsWellFoundedOn(R, Nat)
  BY NatLessThanWellFounded DEF OpToRel
<1>2. \E n \in T : \A m \in T : ~ (<<m, n>> \in R)
  <2> HIDE DEF R
  <2> QED BY <1>1, WFMin
<1>3. PICK n \in T : \A m \in T : ~ (<<m, n>> \in R)
  BY <1>2
<1>4. ASSUME NEW m \in T PROVE n <= m
  <2>1. n \in Nat /\ m \in Nat BY <1>3
  <2>2. ~ (<<m, n>> \in R) BY <1>3
  <2>3. m < n => <<m, n>> \in R BY <2>1
  <2> QED BY <2>1, <2>2, <2>3
<1> QED BY <1>4

LEMMA AllNumbers ==
  ASSUME NEW T \in SUBSET Nat, 0 \in T, \A n \in T : n + 1 \in T
  PROVE  T = Nat
<1> DEFINE B == Nat \ T
<1>1. CASE B # {}
  <2>1. PICK n \in B : \A m \in B : n <= m
    BY <1>1, LeastNumber
  <2>2. n # 0 /\ n \in Nat BY <2>1
  <2>3. n - 1 \in Nat /\ n - 1 \notin B BY <2>1, <2>2
  <2>4. n - 1 + 1 = n BY <2>2
  <2> QED BY <2>1, <2>2, <2>3, <2>4
<1> QED BY <1>1

Distinct(q) == \A i, j \in 1..Len(q) : q[i] = q[j] => i = j

Cut(q, a, b) == SubSeq(q, a + 1, b)

Between(q, a, b) == {q[i] : i \in a + 1..b}

LEMMA Segment ==
  ASSUME NEW S, NEW q \in Seq(S), Distinct(q),
         NEW a \in Nat, NEW b \in Nat, a <= b, b <= Len(q)
  PROVE  /\ Cut(q, a, b) \in Seq(S) /\ Len(Cut(q, a, b)) = b - a
         /\ \A i \in 1..b - a : Cut(q, a, b)[i] = q[a + i]
         /\ ToSet(Cut(q, a, b)) = Between(q, a, b)
         /\ IsFiniteSet(Between(q, a, b)) /\ Cardinality(Between(q, a, b)) = b - a
<1> DEFINE P == a + 1..b
           V == {q[i] : i \in P}
           f == [i \in P |-> q[i]]
           t == SubSeq(q, a + 1, b)
<1>1. t \in Seq(S) /\ Len(t) = b - a /\ \A i \in 1..b - a : t[i] = q[a + i]
  <2>1. /\ a + 1 \in Int /\ b \in Int /\ \A i \in a + 1..b : i \in 1..Len(q)
    OBVIOUS
  <2>2. t = [i \in 1..b - a |-> q[a + i]]
    OBVIOUS
  <2>3. \A i \in 1..b - a : q[a + i] \in S
    OBVIOUS
  <2>4. b - a \in Nat
    OBVIOUS
  <2> QED BY <2>2, <2>3, <2>4
<1>2. P \subseteq 1..Len(q)
  OBVIOUS
<1>3. ToSet(t) = V
  <2>1. DOMAIN t = 1..b - a BY <1>1
  <2>2. \A i \in 1..b - a : a + i \in P OBVIOUS
  <2>3. \A i \in P : i - a \in 1..b - a /\ a + (i - a) = i OBVIOUS
  <2>4. ASSUME NEW i \in P PROVE \E k \in 1..b - a : t[k] = q[i] BY <1>1, <2>3
  <2>5. ASSUME NEW k \in 1..b - a PROVE \E i \in P : t[k] = q[i] BY <1>1, <2>2
  <2>6. ToSet(t) = {t[k] : k \in 1..b - a} BY <2>1 DEF ToSet
  <2> HIDE DEF P, t
  <2>7. \A v \in ToSet(t) : v \in V BY <2>5, <2>6
  <2>8. \A v \in V : v \in ToSet(t)
    <3> SUFFICES ASSUME NEW i \in P PROVE q[i] \in ToSet(t) OBVIOUS
    <3>1. PICK k \in 1..b - a : t[k] = q[i] BY <2>4
    <3> QED BY <2>6, <3>1
  <2> QED BY <2>7, <2>8
<1>4. IsFiniteSet(P) /\ Cardinality(P) = b - a
  <2>1. IsFiniteSet(P) /\ Cardinality(P) = IF a + 1 > b THEN 0 ELSE b - (a + 1) + 1
    BY FS_Interval
  <2> QED BY <2>1
<1>5. ExistsBijection(P, V)
  <2>1. ASSUME NEW i \in P, NEW j \in P, f[i] = f[j] PROVE i = j
    BY <1>2, <2>1 DEF Distinct
  <2>2. f \in Injection(P, V)
    BY <2>1 DEF Injection, IsInjective
  <2>3. f \in Surjection(P, V)
    BY <2>2 DEF Surjection, Injection
  <2> QED BY <2>2, <2>3 DEF ExistsBijection, Bijection
<1> HIDE DEF V
<1>6. IsFiniteSet(V) /\ Cardinality(V) = b - a
  <2> HIDE DEF P
  <2> QED BY <1>4, <1>5, FS_Bijection
<1>7. t = Cut(q, a, b) /\ V = Between(q, a, b)
  BY DEF V, Cut, Between
<1> HIDE DEF t, P
<1> QED BY <1>1, <1>3, <1>6, <1>7

-----------------------------------------------------------------------------
Places == {"new"} \cup Waits \cup Runs \cup Settled

PoolState ==
  [pc : [Jobs -> Places], pending : Seq(Jobs), worker : [Jobs -> Jobs \cup {None, Idle}],
   constructing : SUBSET Jobs, activeJobs : Int, closing : BOOLEAN,
   holder : [Holders -> {"new", "held", "noop", "releasing", "released"}],
   leases : SUBSET Jobs, admQueue : Seq(Jobs),
   module : {"none", "loading", "doomed", "cached"}, owners : SUBSET Jobs]

\* A queue holds every member of S once.
Queue(q, S) ==
  /\ \A i \in 1..Len(q) : q[i] \in S
  /\ \A j \in S : \E i \in 1..Len(q) : q[i] = j
  /\ \A i, k \in 1..Len(q) : q[i] = q[k] => i = k

At(p, place) == {j \in Jobs : p.pc[j] = place}

Queues(p) ==
  /\ Queue(p.pending, At(p, "queued")) /\ Queue(p.admQueue, At(p, "admission"))
  /\ p.closing => p.pending = <<>>

Building == {"module", "ready", "admission", "admitted", "rejected"}

\* The one-shot jobs are apart from the slots and those that build them.
Paths(p, one) ==
  /\ one \subseteq Jobs
  /\ \A j \in one : /\ p.pc[j] \in {"admission", "admitted"} \cup Runs \cup Settled
                    /\ j \notin p.constructing /\ p.worker[j] = None
  /\ \A j \in p.constructing : p.pc[j] \in Building \cup Runs \cup Settled
  /\ \A j \in Jobs \ one : p.pc[j] \in Building => j \in p.constructing
  /\ \A s \in Jobs : p.worker[s] # None => p.pc[s] \in Runs \cup Settled

Leased(p, one) ==
  /\ p.leases = Slots(p.worker) \cup {j \in one : p.pc[j] \in Runs} \cup At(p, "admitted")
  /\ Cardinality(p.leases) <= Limit

Running(p, one) == {j \in Jobs \ one : p.pc[j] \in Runs}

Realms(p, one) ==
  /\ \A j \in Running(p, one) : \E s \in Jobs : p.worker[s] = j
  /\ \A s \in Jobs : p.worker[s] \in Jobs => p.worker[s] \in Running(p, one)
  /\ \A s, u \in Jobs : p.worker[s] = p.worker[u] /\ p.worker[s] \in Jobs => s = u
  /\ p.activeJobs = Cardinality(Running(p, one))

Coherent(p, one) == p \in PoolState /\ Paths(p, one) /\ Queues(p) /\ Leased(p, one) /\ Realms(p, one)

Held == {h \in Holders : holder[h] = "held"}

PoolInv ==
  /\ Coherent(Now, oneShot) /\ NoLostWakeup
  /\ aborted \subseteq Jobs
  /\ retentions \in Nat /\ retentions = Cardinality(Held)

-----------------------------------------------------------------------------
(* Queues that lose some of their members. *)

\* Without keeps the order and takes nothing else.
LEMMA WithoutQueue ==
  ASSUME NEW q \in Seq(Jobs), NEW W, Queue(q, W), NEW S
  PROVE  Without(q, S) \in Seq(Jobs) /\ Queue(Without(q, S), W \ S)
<1> DEFINE next(g, n) == IF n = 0 THEN <<>>
                         ELSE IF q[n] \in S THEN g[n - 1] ELSE Append(g[n - 1], q[n])
           whole(g) == [n \in 0..Len(q) |-> next(g, n)]
           kept == CHOOSE g : g = whole(g)
<1>1. Len(q) \in Nat /\ \A i \in 1..Len(q) : q[i] \in Jobs
  OBVIOUS
<1>2. \E g : g = whole(g)
  <2> DEFINE Upto(n) == \E g \in [0..n -> Seq(Jobs)] : \A m \in 0..n : g[m] = next(g, m)
             T == {n \in Nat : n <= Len(q) => Upto(n)}
  <2>1. Upto(0)
    <3> DEFINE g == [m \in 0..0 |-> <<>>]
    <3>1. g \in [0..0 -> Seq(Jobs)] /\ \A m \in 0..0 : g[m] = next(g, m)
      OBVIOUS
    <3> QED BY <3>1
  <2>2. ASSUME NEW n \in Nat, n + 1 <= Len(q), Upto(n) PROVE Upto(n + 1)
    <3>1. PICK g \in [0..n -> Seq(Jobs)] : \A m \in 0..n : g[m] = next(g, m)
      BY <2>2
    <3> DEFINE h == [m \in 0..n + 1 |-> IF m <= n THEN g[m] ELSE next(g, n + 1)]
    <3>2. n + 1 \in 1..Len(q) /\ n + 1 # 0 /\ n \in 0..n /\ (n + 1) - 1 = n
      BY <1>1, <2>2
    <3>3. next(g, n + 1) \in Seq(Jobs)
      BY <1>1, <3>2
    <3>4. h \in [0..n + 1 -> Seq(Jobs)]
      <4> HIDE DEF next
      <4> QED BY <3>3
    <3>5. \A m \in 0..n : h[m] = g[m] /\ (m # 0 => m - 1 \in 0..n)
      OBVIOUS
    <3>6. \A m \in 0..n : next(h, m) = next(g, m)
      <4> SUFFICES ASSUME NEW m \in 0..n PROVE next(h, m) = next(g, m) OBVIOUS
      <4>1. m # 0 => h[m - 1] = g[m - 1] BY <3>5
      <4> HIDE DEF h
      <4> QED BY <4>1
    <3>7. next(h, n + 1) = next(g, n + 1) /\ h[n + 1] = next(g, n + 1)
      <4>1. h[n] = g[n] BY <3>2, <3>5
      <4>2. h[n + 1] = next(g, n + 1) OBVIOUS
      <4> HIDE DEF h
      <4> QED BY <3>2, <4>1, <4>2
    <3> HIDE DEF h, next
    <3>8. \A m \in 0..n + 1 : h[m] = next(h, m)
      <4>1. \A m \in 0..n + 1 : m \in 0..n \/ m = n + 1 OBVIOUS
      <4> QED BY <3>1, <3>5, <3>6, <3>7, <4>1
    <3> QED BY <3>4, <3>8
  <2> HIDE DEF Upto
  <2>3. T = Nat
    <3>1. 0 \in T BY <2>1
    <3>2. ASSUME NEW n \in T PROVE n + 1 \in T BY <1>1, <2>2, <3>2
    <3> HIDE DEF T
    <3>3. T \subseteq Nat BY DEF T
    <3> QED BY <3>1, <3>2, <3>3, AllNumbers
  <2>4. Upto(Len(q))
    BY <1>1, <2>3
  <2>5. PICK g \in [0..Len(q) -> Seq(Jobs)] : \A m \in 0..Len(q) : g[m] = next(g, m)
    BY <2>4 DEF Upto
  <2>6. g = whole(g)
    <3> HIDE DEF next
    <3> QED BY <2>5
  <2> QED BY <2>6
<1>3. kept = whole(kept)
  <2> HIDE DEF whole
  <2> QED BY <1>2
<1>4. Without(q, S) = kept[Len(q)]
  BY DEF Without
<1> HIDE DEF kept
<1>5. /\ kept[0] = <<>>
      /\ \A n \in Nat : n + 1 <= Len(q) =>
           kept[n + 1] = IF q[n + 1] \in S THEN kept[n] ELSE Append(kept[n], q[n + 1])
  <2>1. \A n \in 0..Len(q) : kept[n] = next(kept, n)
    <3> HIDE DEF next
    <3> QED BY <1>3
  <2>2. ASSUME NEW n \in Nat, n + 1 <= Len(q)
        PROVE  kept[n + 1] = IF q[n + 1] \in S THEN kept[n] ELSE Append(kept[n], q[n + 1])
    <3>1. n + 1 \in 0..Len(q) /\ n + 1 # 0 /\ (n + 1) - 1 = n BY <1>1, <2>2
    <3> QED BY <2>1, <3>1
  <2>3. kept[0] = <<>> BY <1>1, <2>1
  <2> QED BY <2>2, <2>3
<1> HIDE DEF next, whole
<1> DEFINE Good(n) ==
      /\ kept[n] \in Seq(Jobs)
      /\ \A i \in 1..Len(kept[n]) : kept[n][i] \notin S /\ \E m \in 1..n : q[m] = kept[n][i]
      /\ \A m \in 1..n : q[m] \notin S => \E i \in 1..Len(kept[n]) : kept[n][i] = q[m]
      /\ \A i, k \in 1..Len(kept[n]) : kept[n][i] = kept[n][k] => i = k
    T == {n \in Nat : n <= Len(q) => Good(n)}
<1>6. Good(0)
  BY <1>5
<1>7. ASSUME NEW n \in Nat, n + 1 <= Len(q), Good(n) PROVE Good(n + 1)
  <2>1. n + 1 \in 1..Len(q) /\ q[n + 1] \in Jobs
    BY <1>1, <1>7
  <2>2. CASE q[n + 1] \in S
    <3>1. kept[n + 1] = kept[n] BY <1>5, <1>7, <2>2
    <3>2. \A m \in 1..n + 1 : m \in 1..n \/ m = n + 1 OBVIOUS
    <3>3. \A m \in 1..n : m \in 1..n + 1 OBVIOUS
    <3> QED BY <1>7, <2>2, <3>1, <3>2, <3>3
  <2>3. CASE q[n + 1] \notin S
    <3> DEFINE a == kept[n]
               b == kept[n + 1]
    <3>1. b = Append(a, q[n + 1]) BY <1>5, <1>7, <2>3
    <3>2. /\ a \in Seq(Jobs) /\ Len(a) \in Nat
          /\ \A i \in 1..Len(a) : a[i] \notin S /\ \E m \in 1..n : q[m] = a[i]
          /\ \A m \in 1..n : q[m] \notin S => \E i \in 1..Len(a) : a[i] = q[m]
          /\ \A i, k \in 1..Len(a) : a[i] = a[k] => i = k
      BY <1>7
    <3> HIDE DEF a, b
    <3>3. /\ b \in Seq(Jobs) /\ Len(b) = Len(a) + 1 /\ b[Len(a) + 1] = q[n + 1]
          /\ \A i \in 1..Len(a) : b[i] = a[i]
      BY <2>1, <3>1, <3>2
    <3>4. \A i \in 1..Len(b) : i \in 1..Len(a) \/ i = Len(a) + 1
      BY <3>2, <3>3
    <3>5. \A m \in 1..n : m \in 1..n + 1 /\ m \in 1..Len(q) /\ m # n + 1 /\ n + 1 \in 1..n + 1
      BY <1>1, <1>7
    <3>6. \A m \in 1..n : q[m] # q[n + 1]
      BY <2>1, <3>5 DEF Queue
    <3>7. \A i \in 1..Len(b) : b[i] \notin S /\ \E m \in 1..n + 1 : q[m] = b[i]
      <4>1. ASSUME NEW i \in 1..Len(a) PROVE b[i] \notin S /\ \E m \in 1..n + 1 : q[m] = b[i]
        BY <3>2, <3>3, <3>5
      <4>2. n + 1 \in 1..n + 1 OBVIOUS
      <4> QED BY <2>3, <3>3, <3>4, <4>1, <4>2
    <3>8. \A m \in 1..n + 1 : q[m] \notin S => \E i \in 1..Len(b) : b[i] = q[m]
      <4>1. ASSUME NEW m \in 1..n, q[m] \notin S PROVE \E i \in 1..Len(b) : b[i] = q[m]
        <5>1. PICK i \in 1..Len(a) : a[i] = q[m] BY <3>2, <4>1
        <5>2. i \in 1..Len(b) BY <3>2, <3>3
        <5> QED BY <3>3, <5>1, <5>2
      <4>2. Len(a) + 1 \in 1..Len(b) BY <3>2, <3>3
      <4>3. \A m \in 1..n + 1 : m \in 1..n \/ m = n + 1 OBVIOUS
      <4> QED BY <3>3, <4>1, <4>2, <4>3
    <3>9. \A i, k \in 1..Len(b) : b[i] = b[k] => i = k
      <4>1. \A i \in 1..Len(a) : b[i] # q[n + 1] BY <3>2, <3>3, <3>6
      <4> QED BY <3>2, <3>3, <3>4, <4>1
    <3> QED BY <3>3, <3>7, <3>8, <3>9 DEF b
  <2> QED BY <2>2, <2>3
<1> HIDE DEF Good
<1>8. T = Nat
  <2>1. 0 \in T BY <1>6
  <2>2. ASSUME NEW n \in T PROVE n + 1 \in T BY <1>1, <1>7, <2>2
  <2> HIDE DEF T
  <2>3. T \subseteq Nat BY DEF T
  <2> QED BY <2>1, <2>2, <2>3, AllNumbers
<1>9. Good(Len(q))
  BY <1>1, <1>8
<1>10. \A j \in W : \E m \in 1..Len(q) : q[m] = j
  BY DEF Queue
<1> DEFINE r == kept[Len(q)]
<1>11. /\ r \in Seq(Jobs)
       /\ \A i \in 1..Len(r) : r[i] \notin S /\ \E m \in 1..Len(q) : q[m] = r[i]
       /\ \A m \in 1..Len(q) : q[m] \notin S => \E i \in 1..Len(r) : r[i] = q[m]
       /\ \A i, k \in 1..Len(r) : r[i] = r[k] => i = k
  BY <1>9 DEF Good
<1> HIDE DEF r
<1>12. \A i \in 1..Len(r) : r[i] \in W \ S
  BY <1>11 DEF Queue
<1>13. \A j \in W \ S : \E i \in 1..Len(r) : r[i] = j
  BY <1>10, <1>11
<1> QED
  BY <1>4, <1>11, <1>12, <1>13 DEF Queue, r

LEMMA AppendQueue ==
  ASSUME NEW q \in Seq(Jobs), NEW W, Queue(q, W), NEW j \in Jobs, j \notin W
  PROVE  Append(q, j) \in Seq(Jobs) /\ Queue(Append(q, j), W \cup {j})
<1> DEFINE b == Append(q, j)
<1>1. /\ Len(q) \in Nat /\ b \in Seq(Jobs) /\ Len(b) = Len(q) + 1 /\ b[Len(q) + 1] = j
      /\ \A i \in 1..Len(q) : b[i] = q[i] /\ i \in 1..Len(b)
  OBVIOUS
<1> HIDE DEF b
<1>2. (\A i \in 1..Len(b) : i \in 1..Len(q) \/ i = Len(q) + 1) /\ Len(q) + 1 \in 1..Len(b)
  BY <1>1
<1>3. \A i \in 1..Len(q) : b[i] \in W /\ b[i] # j
  BY <1>1 DEF Queue
<1>4. \A i \in 1..Len(b) : b[i] \in W \cup {j}
  BY <1>1, <1>2, <1>3
<1>5. \A k \in W \cup {j} : \E i \in 1..Len(b) : b[i] = k
  BY <1>1, <1>2 DEF Queue
<1>6. \A i, k \in 1..Len(b) : b[i] = b[k] => i = k
  BY <1>1, <1>2, <1>3 DEF Queue
<1> QED BY <1>1, <1>4, <1>5, <1>6 DEF Queue, b

\* A queue is served from its front, in two segments.
Split(q, W, m, n) ==
  LET A == ToSet(Cut(q, 0, m))
      B == ToSet(Cut(q, m, n))
      r == Cut(q, n, Len(q))
  IN  /\ A \subseteq W /\ B \subseteq W /\ A \cap B = {} /\ A = {q[i] : i \in 1..m}
      /\ IsFiniteSet(A) /\ Cardinality(A) = m
      /\ IsFiniteSet(B) /\ Cardinality(B) = n - m
      /\ r \in Seq(Jobs) /\ (r = <<>> <=> n = Len(q)) /\ Queue(r, W \ (A \cup B))

LEMMA SplitQueue ==
  ASSUME NEW q \in Seq(Jobs), NEW W, Queue(q, W),
         NEW m \in Nat, NEW n \in Nat, m <= n, n <= Len(q)
  PROVE  Split(q, W, m, n)
<1> DEFINE A == ToSet(Cut(q, 0, m))
           B == ToSet(Cut(q, m, n))
           r == Cut(q, n, Len(q))
<1>1. Len(q) \in Nat /\ \A i, j \in 1..Len(q) : q[i] = q[j] => i = j
  BY DEF Queue
<1> DEFINE Whole(a, b) ==
      /\ Cut(q, a, b) \in Seq(Jobs) /\ Len(Cut(q, a, b)) = b - a
      /\ \A i \in 1..b - a : Cut(q, a, b)[i] = q[a + i]
      /\ ToSet(Cut(q, a, b)) = Between(q, a, b)
      /\ IsFiniteSet(Between(q, a, b)) /\ Cardinality(Between(q, a, b)) = b - a
<1>0. ASSUME NEW a \in Nat, NEW b \in Nat, a <= b, b <= Len(q) PROVE Whole(a, b)
  <2>1. Distinct(q) BY <1>1 DEF Distinct
  <2> QED BY <2>1, <1>0, Segment
<1>2. A = {q[i] : i \in 1..m} /\ IsFiniteSet(A) /\ Cardinality(A) = m
  <2>1. 0 \in Nat /\ 0 <= m /\ m <= Len(q) BY <1>1
  <2>2. /\ ToSet(Cut(q, 0, m)) = Between(q, 0, m)
        /\ IsFiniteSet(Between(q, 0, m)) /\ Cardinality(Between(q, 0, m)) = m - 0
    BY <1>0, <2>1
  <2>3. 0 + 1 = 1 /\ m - 0 = m
    OBVIOUS
  <2>4. Between(q, 0, m) = {q[i] : i \in 1..m}
    BY <2>3 DEF Between
  <2> QED BY <2>2, <2>3, <2>4
<1>3. B = {q[i] : i \in m + 1..n} /\ IsFiniteSet(B) /\ Cardinality(B) = n - m
  <2>1. /\ ToSet(Cut(q, m, n)) = Between(q, m, n)
        /\ IsFiniteSet(Between(q, m, n)) /\ Cardinality(Between(q, m, n)) = n - m
    BY <1>0
  <2> QED BY <2>1 DEF Between
<1>4. r \in Seq(Jobs) /\ Len(r) = Len(q) - n /\ \A i \in 1..Len(q) - n : r[i] = q[n + i]
  <2>1. Len(q) <= Len(q) BY <1>1
  <2>2. /\ Cut(q, n, Len(q)) \in Seq(Jobs) /\ Len(Cut(q, n, Len(q))) = Len(q) - n
        /\ \A i \in 1..Len(q) - n : Cut(q, n, Len(q))[i] = q[n + i]
    BY <1>0, <1>1, <2>1
  <2> QED BY <2>2
<1>5. \A i \in 1..m : i \in 1..Len(q) /\ i \notin m + 1..n
  BY <1>1
<1>6. \A i \in m + 1..n : i \in 1..Len(q)
  BY <1>1
<1>7. A \subseteq W /\ B \subseteq W /\ A \cap B = {}
  <2>1. A \subseteq W BY <1>2, <1>5 DEF Queue
  <2>2. B \subseteq W BY <1>3, <1>6 DEF Queue
  <2>3. ASSUME NEW v \in A, v \in B PROVE FALSE
    <3>1. PICK i \in 1..m : v = q[i] BY <1>2
    <3>2. PICK k \in m + 1..n : v = q[k] BY <1>3, <2>3
    <3> QED BY <1>1, <1>5, <1>6, <3>1, <3>2
  <2> QED BY <2>1, <2>2, <2>3
<1>8. r = <<>> <=> n = Len(q)
  <2>1. r = <<>> <=> Len(r) = 0 BY <1>4, EmptySeq
  <2> QED BY <1>1, <1>4, <2>1
<1>9. Queue(r, W \ (A \cup B))
  <2>1. \A i \in 1..Len(r) : n + i \in 1..Len(q) /\ n + i \notin 1..m /\ n + i \notin m + 1..n /\ r[i] = q[n + i]
    BY <1>1, <1>4
  <2>2. ASSUME NEW i \in 1..Len(r) PROVE r[i] \in W /\ r[i] \notin A /\ r[i] \notin B
    <3>1. r[i] \in W BY <2>1 DEF Queue
    <3>2. ASSUME NEW k \in 1..m PROVE r[i] # q[k] BY <1>1, <1>5, <2>1
    <3>3. ASSUME NEW k \in m + 1..n PROVE r[i] # q[k] BY <1>1, <1>6, <2>1
    <3> QED BY <1>2, <1>3, <3>1, <3>2, <3>3
  <2>3. ASSUME NEW j \in W \ (A \cup B) PROVE \E i \in 1..Len(r) : r[i] = j
    <3>1. PICK k \in 1..Len(q) : q[k] = j BY <2>3 DEF Queue
    <3>2. k \notin 1..m /\ k \notin m + 1..n BY <1>2, <1>3, <2>3, <3>1
    <3>3. k - n \in 1..Len(r) /\ n + (k - n) = k /\ k - n \in 1..Len(q) - n BY <1>1, <1>4, <3>2
    <3> QED BY <1>4, <3>1, <3>3
  <2>4. ASSUME NEW i \in 1..Len(r), NEW k \in 1..Len(r), r[i] = r[k] PROVE i = k
    <3>1. n + i = n + k BY <1>1, <2>1, <2>4
    <3> QED BY <1>1, <1>4, <3>1
  <2> QED BY <2>2, <2>3, <2>4 DEF Queue
<1> HIDE DEF A, B, r
<1>10. /\ A \subseteq W /\ B \subseteq W /\ A \cap B = {} /\ A = {q[i] : i \in 1..m}
       /\ IsFiniteSet(A) /\ Cardinality(A) = m
       /\ IsFiniteSet(B) /\ Cardinality(B) = n - m
       /\ r \in Seq(Jobs) /\ (r = <<>> <=> n = Len(q)) /\ Queue(r, W \ (A \cup B))
  BY <1>2, <1>3, <1>4, <1>7, <1>8, <1>9
<1> QED BY <1>10 DEF A, B, r, Split

-----------------------------------------------------------------------------
(* Continue: whom it grants, hands to an idle realm, and builds for. *)

Serves(p, G, R, B) ==
  /\ G \subseteq At(p, "admission") /\ R \subseteq At(p, "queued") /\ B \subseteq At(p, "queued")
  /\ R \cap B = {}
  /\ leases' = p.leases \cup G /\ Cardinality(leases') <= Limit
  /\ admQueue' \in Seq(Jobs) /\ Queue(admQueue', At(p, "admission") \ G)
  /\ pending' \in Seq(Jobs) /\ Queue(pending', At(p, "queued") \ (R \cup B))
  /\ worker' \in [Jobs -> Jobs \cup {None, Idle}]
  /\ \A s \in Jobs : worker'[s] = p.worker[s] \/ (p.worker[s] = Idle /\ worker'[s] \in R)
  /\ \A j \in R : \E s \in Jobs : worker'[s] = j
  /\ \A s, u \in Jobs : worker'[s] = worker'[u] /\ worker'[s] \in R => s = u
  /\ activeJobs' = p.activeJobs + Cardinality(R)
  /\ constructing' = p.constructing \cup B
  /\ pc' \in [Jobs -> Places]
  /\ \A j \in Jobs : /\ j \in G => pc'[j] = "admitted"
                     /\ j \in R => pc'[j] = "working"
                     /\ j \in B => pc'[j] \in {"module", "ready"}
                     /\ j \notin G \cup R \cup B => pc'[j] = p.pc[j]
  /\ closing' = p.closing
  /\ holder' \in [Holders -> {"new", "held", "noop", "releasing", "released"}]
  /\ \A h \in Holders : \/ holder'[h] = p.holder[h]
                        \/ /\ p.holder[h] = "releasing" /\ holder'[h] = "released"
                           /\ p.closing /\ Drained(p)
  /\ owners' \subseteq Jobs /\ module' \in {"none", "loading", "doomed", "cached"}
  /\ p.closing => R = {} /\ B = {}
  /\ pending' # <<>> =>
       /\ ~p.closing /\ \A s \in Jobs : worker'[s] # Idle
       /\ Cardinality(Slots(p.worker)) + Cardinality(p.constructing) + Cardinality(B) >= Limit

LEMMA ContinueServes ==
  ASSUME NEW p, NEW one, Coherent(p, one), Continue(p)
  PROVE  \E G, R, B \in SUBSET Jobs : Serves(p, G, R, B)
<1> DEFINE g == Min({Len(p.admQueue), Limit - Cardinality(p.leases)})
           G == ToSet(SubSeq(p.admQueue, 1, g))
           idle == {s \in Jobs : p.worker[s] = Idle}
           room == Limit - Cardinality(Slots(p.worker)) - Cardinality(p.constructing)
           r == IF p.closing THEN 0 ELSE Min({Len(p.pending), Cardinality(idle)})
           b == IF p.closing \/ room < 0 THEN 0 ELSE Min({Len(p.pending) - r, room})
           R == ToSet(SubSeq(p.pending, 1, r))
           B == ToSet(SubSeq(p.pending, r + 1, r + b))
           loads == HasLoader /\ p.module # "cached"
<1>1. /\ leases' = p.leases \cup G
      /\ admQueue' = SubSeq(p.admQueue, g + 1, Len(p.admQueue))
      /\ \E taken \in [1..r -> idle] :
           /\ \A i, k \in 1..r : i # k => taken[i] # taken[k]
           /\ worker' = [s \in Jobs |-> IF \E i \in 1..r : taken[i] = s
                                        THEN p.pending[CHOOSE i \in 1..r : taken[i] = s]
                                        ELSE p.worker[s]]
      /\ activeJobs' = p.activeJobs + r
      /\ constructing' = p.constructing \cup B
      /\ pending' = SubSeq(p.pending, r + b + 1, Len(p.pending))
      /\ owners' = IF loads THEN p.owners \cup B ELSE p.owners
      /\ module' = IF loads /\ B # {} /\ p.module = "none" THEN "loading" ELSE p.module
      /\ pc' = [j \in Jobs |-> IF j \in G THEN "admitted"
                               ELSE IF j \in R THEN "working"
                               ELSE IF j \in B THEN (IF loads THEN "module" ELSE "ready")
                               ELSE p.pc[j]]
      /\ closing' = p.closing
      /\ holder' = IF p.closing /\ Drained(p)
                   THEN [h \in Holders |-> IF p.holder[h] = "releasing" THEN "released" ELSE p.holder[h]]
                   ELSE p.holder
  <2>1. AdmitAndDrain(p)
    BY DEF Continue
  <2> QED BY <2>1 DEF AdmitAndDrain
<1>2. /\ p.pc \in [Jobs -> Places] /\ p.pending \in Seq(Jobs) /\ p.admQueue \in Seq(Jobs)
      /\ p.worker \in [Jobs -> Jobs \cup {None, Idle}] /\ p.leases \subseteq Jobs
      /\ p.constructing \subseteq Jobs /\ p.closing \in BOOLEAN /\ p.activeJobs \in Int
      /\ p.holder \in [Holders -> {"new", "held", "noop", "releasing", "released"}]
      /\ p.module \in {"none", "loading", "doomed", "cached"} /\ p.owners \subseteq Jobs
  BY DEF Coherent, PoolState
<1>3. /\ Queue(p.pending, At(p, "queued")) /\ Queue(p.admQueue, At(p, "admission"))
      /\ Cardinality(p.leases) <= Limit
      /\ \A s \in Jobs : p.worker[s] \in Jobs => p.pc[p.worker[s]] \in Runs
  BY DEF Coherent, Queues, Leased, Realms, Running
<1>4. /\ IsFiniteSet(Jobs) /\ Limit \in Nat /\ Idle \notin Jobs /\ None \notin Jobs /\ None # Idle
      /\ IsFiniteSet(p.leases) /\ Cardinality(p.leases) \in Nat
      /\ IsFiniteSet(idle) /\ Cardinality(idle) \in Nat
      /\ Cardinality(Slots(p.worker)) \in Nat /\ Cardinality(p.constructing) \in Nat
  <2>1. IsFiniteSet(Jobs) /\ Limit \in Nat /\ Idle \notin Jobs /\ None \notin Jobs /\ None # Idle
    BY PoolAssumption
  <2>2. ASSUME NEW S \in SUBSET Jobs PROVE IsFiniteSet(S) /\ Cardinality(S) \in Nat
    BY <2>1, FS_Subset, FS_CardinalityType
  <2>3. idle \in SUBSET Jobs /\ Slots(p.worker) \in SUBSET Jobs
    BY DEF Slots
  <2> HIDE DEF idle
  <2> QED BY <1>2, <2>1, <2>2, <2>3
<1>5. PICK la \in Nat, lp \in Nat : la = Len(p.admQueue) /\ lp = Len(p.pending)
  BY <1>2
<1>6. PICK cl \in Nat, ci \in Nat, cs \in Nat, cc \in Nat :
        /\ cl = Cardinality(p.leases) /\ ci = Cardinality(idle)
        /\ cs = Cardinality(Slots(p.worker)) /\ cc = Cardinality(p.constructing)
  BY <1>4
<1>7. g \in Nat /\ g <= la /\ g + cl <= Limit
  <2>1. g = IF la <= Limit - cl THEN la ELSE Limit - cl
    <3>1. la \in Int /\ Limit - cl \in Int BY <1>4
    <3> QED BY <1>5, <1>6, <3>1, MinMax
  <2> HIDE DEF g
  <2> QED BY <1>3, <1>4, <1>6, <2>1
<1>8. /\ r \in Nat /\ r <= lp /\ r <= ci /\ (p.closing => r = 0)
      /\ ~p.closing /\ r # lp => r = ci
  <2>1. Min({lp, ci}) = IF lp <= ci THEN lp ELSE ci
    <3>1. lp \in Int /\ ci \in Int OBVIOUS
    <3> QED BY <3>1, MinMax
  <2>2. r = IF p.closing THEN 0 ELSE IF lp <= ci THEN lp ELSE ci
    BY <1>5, <1>6, <2>1
  <2> HIDE DEF r
  <2> QED BY <1>2, <2>2
<1>9. /\ b \in Nat /\ r + b <= lp /\ (p.closing => b = 0)
      /\ ~p.closing /\ r + b # lp => cs + cc + b >= Limit
  <2> DEFINE rm == Limit - cs - cc
  <2> HIDE DEF r
  <2>1. Min({lp - r, rm}) = IF lp - r <= rm THEN lp - r ELSE rm
    <3>1. lp - r \in Int /\ rm \in Int BY <1>4, <1>8
    <3> HIDE DEF rm
    <3> QED BY <3>1, MinMax
  <2>2. b = IF p.closing \/ rm < 0 THEN 0 ELSE IF lp - r <= rm THEN lp - r ELSE rm
    BY <1>5, <1>6, <2>1
  <2> HIDE DEF b
  <2> QED BY <1>2, <1>4, <1>8, <2>2
<1> HIDE DEF g, r, b
<1>10. /\ G \subseteq At(p, "admission") /\ IsFiniteSet(G) /\ Cardinality(G) = g
       /\ admQueue' \in Seq(Jobs) /\ Queue(admQueue', At(p, "admission") \ G)
  <2> DEFINE E == ToSet(SubSeq(p.admQueue, g + 1, g))
             q == SubSeq(p.admQueue, g + 1, Len(p.admQueue))
  <2>1. g <= g /\ g <= Len(p.admQueue)
    BY <1>5, <1>7
  <2>2. /\ G \subseteq At(p, "admission") /\ IsFiniteSet(G) /\ Cardinality(G) = g
        /\ IsFiniteSet(E) /\ Cardinality(E) = g - g
        /\ q \in Seq(Jobs) /\ Queue(q, At(p, "admission") \ (G \cup E))
    <3> DEFINE W == At(p, "admission")
               GG == G
               EE == E
               qq == q
    <3> HIDE DEF W, GG, EE, qq
    <3>1. Queue(p.admQueue, W) /\ GG = ToSet(Cut(p.admQueue, 0, g))
          /\ EE = ToSet(Cut(p.admQueue, g, g)) /\ qq = Cut(p.admQueue, g, Len(p.admQueue))
      BY <1>3 DEF W, GG, EE, qq, Cut
    <3>2. /\ GG \subseteq W /\ IsFiniteSet(GG) /\ Cardinality(GG) = g
          /\ IsFiniteSet(EE) /\ Cardinality(EE) = g - g
          /\ qq \in Seq(Jobs) /\ Queue(qq, W \ (GG \cup EE))
      <4>1. Split(p.admQueue, W, g, g)
        BY <1>2, <1>7, <2>1, <3>1, SplitQueue
      <4> QED BY <3>1, <4>1 DEF Split
    <3> QED BY <3>2 DEF W, GG, EE, qq
  <2> HIDE DEF G, E, q
  <2>3. g - g = 0
    BY <1>7
  <2>4. E = {}
    BY <2>2, <2>3, FS_EmptySet
  <2>5. admQueue' = q
    BY <1>1 DEF q
  <2> QED BY <2>2, <2>4, <2>5
<1>11. /\ R \subseteq At(p, "queued") /\ B \subseteq At(p, "queued") /\ R \cap B = {}
       /\ R = {p.pending[i] : i \in 1..r}
       /\ Cardinality(R) = r /\ IsFiniteSet(B) /\ Cardinality(B) = b /\ IsFiniteSet(R)
       /\ pending' \in Seq(Jobs) /\ (pending' = <<>> <=> r + b = lp)
       /\ Queue(pending', At(p, "queued") \ (R \cup B))
  <2> DEFINE W == At(p, "queued")
             n == r + b
             RR == R
             BB == B
             q == SubSeq(p.pending, n + 1, Len(p.pending))
  <2>1. n \in Nat /\ r <= n /\ n <= Len(p.pending) /\ n - r = b
    BY <1>5, <1>8, <1>9
  <2>2. Queue(p.pending, W) /\ RR = ToSet(Cut(p.pending, 0, r))
        /\ BB = ToSet(Cut(p.pending, r, n)) /\ q = Cut(p.pending, n, Len(p.pending))
    BY <1>3 DEF Cut
  <2>3. pending' = q
    BY <1>1
  <2> HIDE DEF W, n, RR, BB, q
  <2>4. /\ RR \subseteq W /\ BB \subseteq W /\ RR \cap BB = {} /\ RR = {p.pending[i] : i \in 1..r}
        /\ IsFiniteSet(RR) /\ Cardinality(RR) = r
        /\ IsFiniteSet(BB) /\ Cardinality(BB) = n - r
        /\ q \in Seq(Jobs) /\ (q = <<>> <=> n = Len(p.pending)) /\ Queue(q, W \ (RR \cup BB))
    <3>1. Split(p.pending, W, r, n)
      BY <1>2, <1>8, <2>1, <2>2, SplitQueue
    <3> QED BY <2>2, <3>1 DEF Split
  <2>5. RR = R /\ BB = B /\ W = At(p, "queued") /\ n = r + b
    BY DEF RR, BB, W, n
  <2> HIDE DEF R, B
  <2> QED BY <1>5, <2>1, <2>3, <2>4, <2>5
<1> HIDE DEF G, R, B
<1>12. PICK taken \in [1..r -> idle] :
         /\ \A i, k \in 1..r : i # k => taken[i] # taken[k]
         /\ worker' = [s \in Jobs |-> IF \E i \in 1..r : taken[i] = s
                                      THEN p.pending[CHOOSE i \in 1..r : taken[i] = s]
                                      ELSE p.worker[s]]
  BY <1>1
<1>13. ASSUME NEW i \in 1..r
       PROVE  taken[i] \in Jobs /\ p.worker[taken[i]] = Idle /\ worker'[taken[i]] = p.pending[i]
  <2>1. taken[i] \in idle
    BY <1>12
  <2>2. (CHOOSE k \in 1..r : taken[k] = taken[i]) = i
    BY <1>12
  <2> QED BY <1>12, <2>1, <2>2
<1>14. ASSUME NEW s \in Jobs
       PROVE  \/ \E i \in 1..r : taken[i] = s
              \/ (\A i \in 1..r : taken[i] # s) /\ worker'[s] = p.worker[s]
  BY <1>12
<1>15. /\ \A s \in Jobs : worker'[s] = p.worker[s] \/ (p.worker[s] = Idle /\ worker'[s] \in R)
       /\ \A j \in R : \E s \in Jobs : worker'[s] = j
  BY <1>11, <1>13, <1>14
<1>16. R \subseteq Jobs /\ B \subseteq Jobs /\ G \subseteq Jobs
  BY <1>10, <1>11 DEF At
<1>17. worker' \in [Jobs -> Jobs \cup {None, Idle}]
  <2>1. DOMAIN worker' = Jobs /\ worker' = [s \in Jobs |-> worker'[s]]
    BY <1>12
  <2>2. \A s \in Jobs : worker'[s] \in Jobs \cup {None, Idle}
    BY <1>2, <1>15, <1>16
  <2> QED BY <2>1, <2>2
<1>18. ASSUME NEW s \in Jobs, NEW u \in Jobs, worker'[s] = worker'[u], worker'[s] \in R
       PROVE  s = u
  <2>1. \A v \in Jobs : p.worker[v] \notin R
    BY <1>3, <1>11, <1>16 DEF At, Runs
  <2>2. PICK i \in 1..r : taken[i] = s
    BY <1>14, <1>18, <2>1
  <2>3. PICK k \in 1..r : taken[k] = u
    BY <1>14, <1>18, <2>1
  <2>4. p.pending[i] = p.pending[k]
    BY <1>13, <1>18, <2>2, <2>3
  <2>5. i \in 1..Len(p.pending) /\ k \in 1..Len(p.pending)
    BY <1>5, <1>8
  <2>6. i = k
    BY <1>3, <2>4, <2>5 DEF Queue
  <2> QED BY <2>2, <2>3, <2>6
<1>19. ASSUME pending' # <<>>
       PROVE  ~p.closing /\ (\A s \in Jobs : worker'[s] # Idle) /\ cs + cc + b >= Limit
  <2>1. r + b # lp
    BY <1>11, <1>19
  <2>2. ~p.closing
    <3>1. p.closing => p.pending = <<>>
      BY DEF Coherent, Queues
    <3>2. p.closing => lp = 0
      BY <1>5, <3>1
    <3> QED BY <1>8, <1>9, <2>1, <3>2
  <2>3. cs + cc + b >= Limit
    BY <1>9, <2>1, <2>2
  <2>4. r = ci
    BY <1>8, <1>9, <2>1, <2>2
  <2>5. taken \in Injection(1..r, idle)
    BY <1>12 DEF Injection, IsInjective
  <2>6. IsFiniteSet(idle) /\ Cardinality(1..r) = Cardinality(idle)
    <3>1. Cardinality(1..r) = IF 1 > r THEN 0 ELSE r - 1 + 1
      BY <1>8, FS_Interval
    <3>2. Cardinality(1..r) = r
      BY <1>8, <3>1
    <3> QED BY <1>4, <1>6, <2>4, <3>2
  <2>7. taken \in Surjection(1..r, idle)
    <3> HIDE DEF idle
    <3> QED BY <2>5, <2>6, FS_Injection
  <2>8. ASSUME NEW s \in Jobs PROVE worker'[s] # Idle
    <3>1. CASE p.worker[s] = Idle
      <4>1. PICK i \in 1..r : taken[i] = s
        BY <2>7, <3>1 DEF Surjection
      <4>2. worker'[s] \in R
        BY <1>11, <1>13, <4>1
      <4> QED BY <1>4, <1>16, <4>2
    <3>2. CASE p.worker[s] # Idle
      BY <1>15, <3>2
    <3> QED BY <3>1, <3>2
  <2> QED BY <2>2, <2>3, <2>8
<1>20. /\ pc' \in [Jobs -> Places]
       /\ \A j \in Jobs : /\ j \in G => pc'[j] = "admitted"
                          /\ j \in R => pc'[j] = "working"
                          /\ j \in B => pc'[j] \in {"module", "ready"}
                          /\ j \notin G \cup R \cup B => pc'[j] = p.pc[j]
  <2>1. ASSUME NEW j \in Jobs
        PROVE  pc'[j] = IF j \in G THEN "admitted"
                        ELSE IF j \in R THEN "working"
                        ELSE IF j \in B THEN (IF loads THEN "module" ELSE "ready")
                        ELSE p.pc[j]
    BY <1>1
  <2>2. G \cap (R \cup B) = {}
    BY <1>10, <1>11 DEF At
  <2>3. DOMAIN pc' = Jobs /\ pc' = [j \in Jobs |-> pc'[j]]
    BY <1>1
  <2> HIDE DEF loads
  <2>4. \A j \in Jobs : pc'[j] \in Places
    BY <1>2, <2>1 DEF Places, Waits, Runs
  <2>5. pc' \in [Jobs -> Places]
    BY <2>3, <2>4
  <2> QED BY <1>11, <2>1, <2>2, <2>5
<1>21. leases' = p.leases \cup G /\ Cardinality(leases') <= Limit
  <2>1. leases' = p.leases \cup G
    BY <1>1
  <2>2. IsFiniteSet(p.leases \cap G) /\ Cardinality(p.leases \cap G) \in Nat
    BY <1>4, FS_Intersection, FS_CardinalityType
  <2>3. Cardinality(p.leases \cup G) = Cardinality(p.leases) + Cardinality(G) - Cardinality(p.leases \cap G)
    BY <1>4, <1>10, FS_Union
  <2> DEFINE x == Cardinality(p.leases \cap G)
             y == Cardinality(p.leases \cup G)
  <2>4. x \in Nat /\ y = cl + g - x
    BY <1>6, <1>10, <2>2, <2>3
  <2> HIDE DEF x, y
  <2>5. y <= Limit
    BY <1>4, <1>7, <2>4
  <2> QED BY <2>1, <2>5 DEF y
<1>22. /\ holder' \in [Holders -> {"new", "held", "noop", "releasing", "released"}]
       /\ \A h \in Holders : \/ holder'[h] = p.holder[h]
                             \/ /\ p.holder[h] = "releasing" /\ holder'[h] = "released"
                                /\ p.closing /\ Drained(p)
  BY <1>1, <1>2
<1>23. owners' \subseteq Jobs /\ module' \in {"none", "loading", "doomed", "cached"}
  BY <1>1, <1>2, <1>16
<1>24. p.closing => R = {} /\ B = {}
  BY <1>8, <1>9, <1>11, FS_EmptySet
<1>25. activeJobs' = p.activeJobs + Cardinality(R) /\ constructing' = p.constructing \cup B /\ closing' = p.closing
  BY <1>1, <1>11
<1>26. pending' # <<>> =>
         /\ ~p.closing /\ \A s \in Jobs : worker'[s] # Idle
         /\ Cardinality(Slots(p.worker)) + Cardinality(p.constructing) + Cardinality(B) >= Limit
  BY <1>6, <1>11, <1>19
<1>27. Serves(p, G, R, B)
  BY <1>10, <1>11, <1>15, <1>17, <1>18, <1>20, <1>21, <1>22, <1>23, <1>24, <1>25, <1>26 DEF Serves
<1> QED BY <1>16, <1>27

LEMMA ServesKeepsPaths ==
  ASSUME NEW p, NEW one, Coherent(p, one),
         NEW G \in SUBSET Jobs, NEW R \in SUBSET Jobs, NEW B \in SUBSET Jobs, Serves(p, G, R, B)
  PROVE  /\ Now' \in PoolState /\ Paths(Now', one)
         /\ Slots(worker') = Slots(p.worker)
         /\ \A j \in Jobs : pc'[j] \in Runs <=> p.pc[j] \in Runs \/ j \in R
<1>1. /\ p.pc \in [Jobs -> Places] /\ p.worker \in [Jobs -> Jobs \cup {None, Idle}]
      /\ p.leases \subseteq Jobs /\ p.constructing \subseteq Jobs /\ p.closing \in BOOLEAN
      /\ p.activeJobs \in Int
  BY DEF Coherent, PoolState
<1>2. /\ \A j \in G : p.pc[j] = "admission"
      /\ \A j \in R : p.pc[j] = "queued"
      /\ \A j \in B : p.pc[j] = "queued"
  BY DEF Serves, At
<1>3. /\ pc' \in [Jobs -> Places]
      /\ \A j \in Jobs : /\ j \in G => pc'[j] = "admitted"
                         /\ j \in R => pc'[j] = "working"
                         /\ j \in B => pc'[j] \in {"module", "ready"}
                         /\ j \notin G \cup R \cup B => pc'[j] = p.pc[j]
      /\ worker' \in [Jobs -> Jobs \cup {None, Idle}]
      /\ \A s \in Jobs : worker'[s] = p.worker[s] \/ (p.worker[s] = Idle /\ worker'[s] \in R)
      /\ constructing' = p.constructing \cup B
  BY DEF Serves
<1>4. /\ IsFiniteSet(R) /\ Cardinality(R) \in Nat /\ None \notin Jobs /\ Idle # None
  BY PoolAssumption, FS_Subset, FS_CardinalityType
<1>5. Now' \in PoolState
  <2>1. /\ leases' \subseteq Jobs /\ constructing' \subseteq Jobs /\ activeJobs' \in Int /\ closing' \in BOOLEAN
    BY <1>1, <1>4 DEF Serves
  <2>2. /\ pending' \in Seq(Jobs) /\ admQueue' \in Seq(Jobs)
        /\ holder' \in [Holders -> {"new", "held", "noop", "releasing", "released"}]
        /\ owners' \subseteq Jobs /\ module' \in {"none", "loading", "doomed", "cached"}
    BY DEF Serves
  <2> QED BY <1>3, <2>1, <2>2 DEF Now, PoolState
<1>6. Slots(worker') = Slots(p.worker)
  BY <1>3, <1>4 DEF Slots
<1>7. \A j \in Jobs : pc'[j] \in Runs <=> p.pc[j] \in Runs \/ j \in R
  BY <1>2, <1>3 DEF Runs
<1>8. Paths(Now', one)
  <2>1. /\ one \subseteq Jobs
        /\ \A j \in one : /\ p.pc[j] \in {"admission", "admitted"} \cup Runs \cup Settled
                          /\ j \notin p.constructing /\ p.worker[j] = None
        /\ \A j \in p.constructing : p.pc[j] \in Building \cup Runs \cup Settled
        /\ \A j \in Jobs \ one : p.pc[j] \in Building => j \in p.constructing
        /\ \A s \in Jobs : p.worker[s] # None => p.pc[s] \in Runs \cup Settled
    BY DEF Coherent, Paths
  <2>2. ASSUME NEW j \in one
        PROVE  pc'[j] \in {"admission", "admitted"} \cup Runs \cup Settled /\ j \notin constructing' /\ worker'[j] = None
    BY <1>2, <1>3, <1>4, <2>1 DEF Runs, Settled
  <2>3. ASSUME NEW j \in constructing' PROVE pc'[j] \in Building \cup Runs \cup Settled
    BY <1>1, <1>2, <1>3, <2>1 DEF Building, Runs, Settled
  <2>4. ASSUME NEW j \in Jobs \ one, pc'[j] \in Building PROVE j \in constructing'
    BY <1>2, <1>3, <2>1, <2>4 DEF Building
  <2>5. ASSUME NEW s \in Jobs, worker'[s] # None PROVE pc'[s] \in Runs \cup Settled
    <3>1. p.worker[s] # None
      BY <1>3, <1>4, <2>5
    <3> QED BY <1>2, <1>3, <2>1, <3>1 DEF Runs, Settled
  <2> QED BY <2>1, <2>2, <2>3, <2>4, <2>5 DEF Paths, Now
<1> QED BY <1>5, <1>6, <1>7, <1>8

LEMMA ServesKeepsRealms ==
  ASSUME NEW p, NEW one, Coherent(p, one),
         NEW G \in SUBSET Jobs, NEW R \in SUBSET Jobs, NEW B \in SUBSET Jobs, Serves(p, G, R, B)
  PROVE  Queues(Now') /\ Leased(Now', one) /\ Realms(Now', one)
<1>1. /\ p.pc \in [Jobs -> Places] /\ p.worker \in [Jobs -> Jobs \cup {None, Idle}]
      /\ p.constructing \subseteq Jobs
  BY DEF Coherent, PoolState
<1>2. /\ \A j \in G : p.pc[j] = "admission"
      /\ \A j \in R : p.pc[j] = "queued"
      /\ \A j \in B : p.pc[j] = "queued"
  BY DEF Serves, At
<1>3. /\ \A j \in Jobs : /\ j \in G => pc'[j] = "admitted"
                         /\ j \in R => pc'[j] = "working"
                         /\ j \in B => pc'[j] \in {"module", "ready"}
                         /\ j \notin G \cup R \cup B => pc'[j] = p.pc[j]
      /\ \A s \in Jobs : worker'[s] = p.worker[s] \/ (p.worker[s] = Idle /\ worker'[s] \in R)
  BY DEF Serves
<1>4. /\ IsFiniteSet(Jobs) /\ IsFiniteSet(R) /\ None \notin Jobs /\ Idle \notin Jobs /\ Idle # None
  BY PoolAssumption, FS_Subset
<1>5. /\ Slots(worker') = Slots(p.worker)
      /\ \A j \in Jobs : pc'[j] \in Runs <=> p.pc[j] \in Runs \/ j \in R
  BY ServesKeepsPaths
<1>6. \A j \in one : j \in Jobs /\ p.pc[j] # "queued"
  BY DEF Coherent, Paths, Runs, Settled
<1>7. Queues(Now')
  <2>1. /\ Queue(admQueue', At(p, "admission") \ G)
        /\ Queue(pending', At(p, "queued") \ (R \cup B)) /\ pending' \in Seq(Jobs)
    BY DEF Serves
  <2>2. At(p, "admission") \ G = {j \in Jobs : pc'[j] = "admission"}
    BY <1>2, <1>3 DEF At
  <2>3. At(p, "queued") \ (R \cup B) = {j \in Jobs : pc'[j] = "queued"}
    BY <1>2, <1>3 DEF At
  <2>4. closing' => pending' = <<>>
    BY DEF Serves
  <2>5. At(Now', "queued") = {j \in Jobs : pc'[j] = "queued"} /\ At(Now', "admission") = {j \in Jobs : pc'[j] = "admission"}
    BY DEF At, Now
  <2>6. Now.pending' = pending' /\ Now.admQueue' = admQueue' /\ Now.closing' = closing'
    BY DEF Now
  <2> HIDE DEF Now
  <2> QED BY <2>1, <2>2, <2>3, <2>4, <2>5, <2>6 DEF Queues
<1>8. Leased(Now', one)
  <2>1. /\ p.leases = Slots(p.worker) \cup {j \in one : p.pc[j] \in Runs} \cup At(p, "admitted")
    BY DEF Coherent, Leased
  <2>2. leases' = p.leases \cup G /\ Cardinality(leases') <= Limit
    BY DEF Serves
  <2>3. {j \in one : pc'[j] \in Runs} = {j \in one : p.pc[j] \in Runs}
    BY <1>2, <1>5, <1>6
  <2>4. {j \in Jobs : pc'[j] = "admitted"} = At(p, "admitted") \cup G
    BY <1>2, <1>3 DEF At
  <2>5. leases' = Slots(worker') \cup {j \in one : pc'[j] \in Runs} \cup {j \in Jobs : pc'[j] = "admitted"}
    BY <1>5, <2>1, <2>2, <2>3, <2>4
  <2> QED BY <2>2, <2>5 DEF Leased, Now, At
<1>9. Realms(Now', one)
  <2>1. /\ \A j \in Running(p, one) : \E s \in Jobs : p.worker[s] = j
        /\ \A s \in Jobs : p.worker[s] \in Jobs => p.worker[s] \in Running(p, one)
        /\ \A s, u \in Jobs : p.worker[s] = p.worker[u] /\ p.worker[s] \in Jobs => s = u
        /\ p.activeJobs = Cardinality(Running(p, one))
    BY DEF Coherent, Realms
  <2>2. /\ \A j \in R : \E s \in Jobs : worker'[s] = j
        /\ \A s, u \in Jobs : worker'[s] = worker'[u] /\ worker'[s] \in R => s = u
        /\ activeJobs' = p.activeJobs + Cardinality(R)
    BY DEF Serves
  <2> DEFINE Q == {j \in Jobs \ one : pc'[j] \in Runs}
  <2>3. Q = Running(p, one) \cup R /\ Running(p, one) \cap R = {}
    BY <1>2, <1>5, <1>6 DEF Running, Runs
  <2>4. ASSUME NEW j \in Q PROVE \E s \in Jobs : worker'[s] = j
    <3>1. CASE j \in R
      BY <2>2, <3>1
    <3>2. CASE j \in Running(p, one)
      <4>1. PICK s \in Jobs : p.worker[s] = j
        BY <2>1, <3>2
      <4>2. p.worker[s] # Idle
        BY <1>4, <4>1
      <4> QED BY <1>3, <4>1, <4>2
    <3> QED BY <2>3, <3>1, <3>2
  <2>5. ASSUME NEW s \in Jobs, worker'[s] \in Jobs PROVE worker'[s] \in Q
    BY <1>3, <2>1, <2>3, <2>5
  <2>6. ASSUME NEW s \in Jobs, NEW u \in Jobs, worker'[s] = worker'[u], worker'[s] \in Jobs PROVE s = u
    <3>1. CASE worker'[s] \in R
      BY <2>2, <2>6, <3>1
    <3>2. CASE worker'[s] \notin R
      <4>1. p.worker[s] = worker'[s] /\ p.worker[u] = worker'[u]
        BY <1>3, <2>6, <3>2
      <4> QED BY <2>1, <2>6, <4>1
    <3> QED BY <3>1, <3>2
  <2>7. activeJobs' = Cardinality(Q)
    <3>1. IsFiniteSet(Running(p, one)) /\ Cardinality(Running(p, one)) \in Nat /\ Cardinality(R) \in Nat
      <4>1. Running(p, one) \in SUBSET Jobs BY DEF Running
      <4> QED BY <1>4, <4>1, FS_Subset, FS_CardinalityType
    <3>2. Cardinality(Q) = Cardinality(Running(p, one)) + Cardinality(R) - Cardinality({})
      <4> HIDE DEF Q
      <4> QED BY <1>4, <2>3, <3>1, FS_Union
    <3> HIDE DEF Q
    <3>3. Cardinality({}) = 0 BY FS_EmptySet
    <3> QED BY <2>1, <2>2, <3>1, <3>2, <3>3
  <2>8. Running(Now', one) = Q /\ Now.worker' = worker' /\ Now.activeJobs' = activeJobs'
    BY DEF Running, Now
  <2> HIDE DEF Q, Now
  <2> QED BY <2>4, <2>5, <2>6, <2>7, <2>8 DEF Realms
<1> QED BY <1>7, <1>8, <1>9

LEMMA ServesWakes ==
  ASSUME NEW p, NEW one, Coherent(p, one),
         NEW G \in SUBSET Jobs, NEW R \in SUBSET Jobs, NEW B \in SUBSET Jobs, Serves(p, G, R, B)
  PROVE  NoLostWakeup'
<1> SUFFICES ASSUME pending' # <<>>
             PROVE  /\ ~closing' /\ \A s \in Jobs : worker'[s] # Idle
                    /\ Cardinality(Slots(worker')) + Cardinality(constructing') >= Limit
  BY DEF NoLostWakeup
<1>1. /\ ~p.closing /\ \A s \in Jobs : worker'[s] # Idle
      /\ Cardinality(Slots(p.worker)) + Cardinality(p.constructing) + Cardinality(B) >= Limit
      /\ closing' = p.closing /\ constructing' = p.constructing \cup B
  BY DEF Serves
<1>2. Slots(worker') = Slots(p.worker)
  BY ServesKeepsPaths
<1>3. p.constructing \cap B = {}
  BY DEF Serves, At, Coherent, Paths, Building, Runs, Settled
<1>4. IsFiniteSet(p.constructing) /\ IsFiniteSet(B) /\ Cardinality(p.constructing) \in Nat
      /\ Cardinality(B) \in Nat /\ Cardinality(Slots(p.worker)) \in Nat /\ Limit \in Nat
  <2>1. p.constructing \in SUBSET Jobs /\ Slots(p.worker) \in SUBSET Jobs
    BY DEF Coherent, PoolState, Slots
  <2> QED BY <2>1, PoolAssumption, FS_Subset, FS_CardinalityType
<1>5. Cardinality(constructing') = Cardinality(p.constructing) + Cardinality(B) - Cardinality({})
  BY <1>1, <1>3, <1>4, FS_Union
<1>6. Cardinality({}) = 0
  BY FS_EmptySet
<1>7. Cardinality(constructing') = Cardinality(p.constructing) + Cardinality(B)
  BY <1>4, <1>5, <1>6
<1>8. Cardinality(Slots(worker')) + Cardinality(constructing') >= Limit
  BY <1>1, <1>2, <1>4, <1>7
<1> QED BY <1>1, <1>8

\* What a step that ends with Continue says of the epoch and its holders.
Ends(p) ==
  /\ closing' = p.closing
  /\ p.closing => worker' = p.worker /\ constructing' = p.constructing /\ pending' = <<>>
  /\ \A h \in Holders : \/ holder'[h] = p.holder[h]
                        \/ /\ p.holder[h] = "releasing" /\ holder'[h] = "released"
                           /\ p.closing /\ Drained(p)

LEMMA ContinueKeeps ==
  ASSUME NEW p, NEW one, Coherent(p, one), Continue(p)
  PROVE  Coherent(Now', one) /\ NoLostWakeup' /\ Ends(p)
<1>1. PICK G \in SUBSET Jobs, R \in SUBSET Jobs, B \in SUBSET Jobs : Serves(p, G, R, B)
  BY ContinueServes
<1>2. Coherent(Now', one)
  BY <1>1, ServesKeepsPaths, ServesKeepsRealms DEF Coherent
<1>3. NoLostWakeup'
  BY <1>1, ServesWakes
<1>4. Ends(p)
  <2>1. /\ closing' = p.closing /\ constructing' = p.constructing \cup B
        /\ p.closing => R = {} /\ B = {}
        /\ worker' \in [Jobs -> Jobs \cup {None, Idle}]
        /\ \A s \in Jobs : worker'[s] = p.worker[s] \/ (p.worker[s] = Idle /\ worker'[s] \in R)
        /\ pending' # <<>> => ~p.closing
        /\ \A h \in Holders : \/ holder'[h] = p.holder[h]
                              \/ /\ p.holder[h] = "releasing" /\ holder'[h] = "released"
                                 /\ p.closing /\ Drained(p)
    BY <1>1 DEF Serves
  <2>2. p.worker \in [Jobs -> Jobs \cup {None, Idle}]
    BY DEF Coherent, PoolState
  <2>3. p.closing => worker' = p.worker
    BY <2>1, <2>2
  <2> QED BY <2>1, <2>3 DEF Ends
<1> QED BY <1>2, <1>3, <1>4

-----------------------------------------------------------------------------
(* The state r a handler leaves behind, when job j moved from its place in p to y. *)

Moved(p, r, j, y) == r \in PoolState /\ r.pc = [p.pc EXCEPT ![j] = y]

LEMMA MovedAt ==
  ASSUME NEW p \in PoolState, NEW r, NEW j \in Jobs, NEW y, Moved(p, r, j, y), NEW x
  PROVE  At(r, x) = (At(p, x) \ {j}) \cup (IF x = y THEN {j} ELSE {})
<1>1. p.pc \in [Jobs -> Places]
  BY DEF PoolState
<1> QED BY <1>1 DEF Moved, At

LEMMA MovedPaths ==
  ASSUME NEW p, NEW one, Coherent(p, one), NEW r, NEW j \in Jobs, NEW y, Moved(p, r, j, y),
         NEW two, two = one \/ two = one \cup {j},
         r.constructing \cup {j} = p.constructing \cup {j},
         \A s \in Jobs \ {j} : r.worker[s] # None => p.worker[s] # None,
         j \in two => /\ y \in {"admission", "admitted"} \cup Runs \cup Settled
                      /\ j \notin r.constructing /\ r.worker[j] = None,
         j \in r.constructing => y \in Building \cup Runs \cup Settled,
         y \in Building => j \in r.constructing \cup two,
         r.worker[j] # None => y \in Runs \cup Settled
  PROVE  Paths(r, two)
<1>1. /\ p.pc \in [Jobs -> Places] /\ p.worker \in [Jobs -> Jobs \cup {None, Idle}]
      /\ p.constructing \subseteq Jobs /\ r.constructing \subseteq Jobs
  BY DEF Coherent, PoolState, Moved
<1>2. /\ one \subseteq Jobs
      /\ \A k \in one : /\ p.pc[k] \in {"admission", "admitted"} \cup Runs \cup Settled
                        /\ k \notin p.constructing /\ p.worker[k] = None
      /\ \A k \in p.constructing : p.pc[k] \in Building \cup Runs \cup Settled
      /\ \A k \in Jobs \ one : p.pc[k] \in Building => k \in p.constructing
      /\ \A s \in Jobs : p.worker[s] # None => p.pc[s] \in Runs \cup Settled
  BY DEF Coherent, Paths
<1>3. r.pc[j] = y /\ \A k \in Jobs \ {j} : r.pc[k] = p.pc[k]
  BY <1>1 DEF Moved
<1>4. \A k \in Jobs \ {j} : k \in r.constructing <=> k \in p.constructing
  OBVIOUS
<1>5. \A k \in Jobs \ {j} : k \in two <=> k \in one
  OBVIOUS
<1>6. two \subseteq Jobs
  BY <1>2
<1>7. ASSUME NEW k \in two
      PROVE  r.pc[k] \in {"admission", "admitted"} \cup Runs \cup Settled /\ k \notin r.constructing /\ r.worker[k] = None
  <2>1. CASE k = j BY <1>3, <1>7, <2>1
  <2>2. CASE k # j BY <1>2, <1>3, <1>4, <1>5, <1>6, <1>7, <2>2
  <2> QED BY <2>1, <2>2
<1>8. ASSUME NEW k \in r.constructing PROVE r.pc[k] \in Building \cup Runs \cup Settled
  <2>1. CASE k = j BY <1>3, <1>8, <2>1
  <2>2. CASE k # j BY <1>1, <1>2, <1>3, <1>4, <1>8, <2>2
  <2> QED BY <2>1, <2>2
<1>9. ASSUME NEW k \in Jobs \ two, r.pc[k] \in Building PROVE k \in r.constructing
  <2>1. CASE k = j BY <1>3, <1>9, <2>1
  <2>2. CASE k # j BY <1>2, <1>3, <1>4, <1>5, <1>9, <2>2
  <2> QED BY <2>1, <2>2
<1>10. ASSUME NEW s \in Jobs, r.worker[s] # None PROVE r.pc[s] \in Runs \cup Settled
  <2>1. CASE s = j BY <1>3, <1>10, <2>1
  <2>2. CASE s # j BY <1>2, <1>3, <1>10, <2>2
  <2> QED BY <2>1, <2>2
<1> QED BY <1>6, <1>7, <1>8, <1>9, <1>10 DEF Paths

\* The job is in no queue, before or after.
LEMMA MovedQueues ==
  ASSUME NEW p, NEW one, Coherent(p, one), NEW r, NEW j \in Jobs, NEW y, Moved(p, r, j, y),
         {p.pc[j], y} \cap {"queued", "admission"} = {},
         r.pending = p.pending, r.admQueue = p.admQueue, r.closing = p.closing
  PROVE  Queues(r)
<1>1. p \in PoolState /\ Queues(p)
  BY DEF Coherent
<1>2. At(r, "queued") = At(p, "queued") /\ At(r, "admission") = At(p, "admission")
  <2>1. /\ At(r, "queued") = (At(p, "queued") \ {j}) \cup (IF "queued" = y THEN {j} ELSE {})
        /\ At(r, "admission") = (At(p, "admission") \ {j}) \cup (IF "admission" = y THEN {j} ELSE {})
    BY <1>1, MovedAt
  <2>2. j \notin At(p, "queued") /\ j \notin At(p, "admission") /\ y # "queued" /\ y # "admission"
    BY DEF At
  <2> QED BY <2>1, <2>2
<1> QED BY <1>1, <1>2 DEF Queues

\* The job has no realm, before or after.
LEMMA MovedRealms ==
  ASSUME NEW p, NEW one, Coherent(p, one), NEW r, NEW j \in Jobs, NEW y, Moved(p, r, j, y),
         NEW two, two = one \/ two = one \cup {j},
         j \in two \/ (p.pc[j] \notin Runs /\ y \notin Runs), p.pc[j] \in Runs => j \in one,
         r.worker = p.worker, r.activeJobs = p.activeJobs
  PROVE  Realms(r, two)
<1>1. p.pc \in [Jobs -> Places] /\ Realms(p, one)
  BY DEF Coherent, PoolState
<1>2. Running(r, two) = Running(p, one)
  BY <1>1 DEF Running, Moved
<1> QED BY <1>1, <1>2 DEF Realms

\* The job has no reservation, before or after.
LEMMA MovedUnleased ==
  ASSUME NEW p, NEW one, Coherent(p, one), NEW r, NEW j \in Jobs, NEW y, Moved(p, r, j, y),
         NEW two, two = one \/ two = one \cup {j},
         p.pc[j] # "admitted", y # "admitted", j \in two => p.pc[j] \notin Runs /\ y \notin Runs,
         r.worker = p.worker, r.leases = p.leases
  PROVE  Leased(r, two)
<1>1. p.pc \in [Jobs -> Places] /\ Leased(p, one) /\ p \in PoolState
  BY DEF Coherent, PoolState
<1>2. At(r, "admitted") = At(p, "admitted")
  BY <1>1, MovedAt DEF At
<1>3. {k \in two : r.pc[k] \in Runs} = {k \in one : p.pc[k] \in Runs}
  <2>1. one \subseteq Jobs
    BY DEF Coherent, Paths
  <2> QED BY <1>1, <2>1 DEF Moved
<1> QED BY <1>1, <1>2, <1>3 DEF Leased

-----------------------------------------------------------------------------
(* What the handlers leave behind, one lemma for each kind of step. *)

\* Letting go of the module load, or naming another state of the holders,
\* disturbs none of it.
LEMMA SideCoherent ==
  ASSUME NEW p, NEW one, Coherent(p, one), NEW r \in PoolState,
         r.pc = p.pc, r.pending = p.pending, r.worker = p.worker, r.constructing = p.constructing,
         r.activeJobs = p.activeJobs, r.closing = p.closing, r.leases = p.leases, r.admQueue = p.admQueue
  PROVE  Coherent(r, one)
<1>1. At(r, "queued") = At(p, "queued") /\ At(r, "admission") = At(p, "admission") /\ At(r, "admitted") = At(p, "admitted")
  BY DEF At
<1>2. Running(r, one) = Running(p, one)
  BY DEF Running
<1>3. Paths(r, one)
  BY DEF Coherent, Paths
<1>4. Queues(r)
  BY <1>1 DEF Coherent, Queues
<1>5. Leased(r, one)
  BY <1>1 DEF Coherent, Leased
<1>6. Realms(r, one)
  BY <1>2 DEF Coherent, Realms
<1> QED BY <1>3, <1>4, <1>5, <1>6 DEF Coherent

LEMMA DisownedFields ==
  ASSUME NEW p \in PoolState, NEW S
  PROVE  /\ Disowned(p, S) \in PoolState
         /\ Disowned(p, S).pc = p.pc /\ Disowned(p, S).pending = p.pending
         /\ Disowned(p, S).worker = p.worker /\ Disowned(p, S).constructing = p.constructing
         /\ Disowned(p, S).activeJobs = p.activeJobs /\ Disowned(p, S).closing = p.closing
         /\ Disowned(p, S).leases = p.leases /\ Disowned(p, S).admQueue = p.admQueue
         /\ Disowned(p, S).holder = p.holder
<1> DEFINE o == p.owners \ S
           m == IF p.module = "loading" /\ p.owners \ S = {} THEN "doomed" ELSE p.module
<1>1. Disowned(p, S) = [p EXCEPT !.owners = o, !.module = m]
  BY DEF Disowned
<1>2. o \subseteq Jobs /\ m \in {"none", "loading", "doomed", "cached"}
  BY DEF PoolState
<1> HIDE DEF o, m
<1>3. [p EXCEPT !.owners = o, !.module = m] \in PoolState
  BY <1>2 DEF PoolState
<1> QED BY <1>1, <1>3 DEF PoolState

LEMMA DisownedCoherent ==
  ASSUME NEW p, NEW one, Coherent(p, one), NEW S
  PROVE  Coherent(Disowned(p, S), one) /\ Disowned(p, S).closing = p.closing /\ Disowned(p, S).holder = p.holder
<1>1. p \in PoolState
  BY DEF Coherent
<1> DEFINE r == Disowned(p, S)
<1>2. /\ r \in PoolState /\ r.pc = p.pc /\ r.pending = p.pending /\ r.worker = p.worker
      /\ r.constructing = p.constructing /\ r.activeJobs = p.activeJobs /\ r.closing = p.closing
      /\ r.leases = p.leases /\ r.admQueue = p.admQueue /\ r.holder = p.holder
  BY <1>1, DisownedFields
<1> HIDE DEF r
<1>3. Coherent(r, one)
  BY <1>2, SideCoherent
<1> QED BY <1>2, <1>3 DEF r

\* A job gives up before it waits, or its module does.
LEMMA GivesUp ==
  ASSUME NEW p, NEW one, Coherent(p, one), NEW r, NEW j \in Jobs, NEW y, Moved(p, r, j, y),
         \/ p.pc[j] = "new" /\ y = "failed"
         \/ p.pc[j] = "module" /\ y = "rejected",
         r.pending = p.pending, r.worker = p.worker, r.constructing = p.constructing,
         r.activeJobs = p.activeJobs, r.closing = p.closing, r.leases = p.leases, r.admQueue = p.admQueue
  PROVE  Coherent(r, one)
<1>1. j \notin one /\ (p.pc[j] = "module" => j \in p.constructing) /\ p.worker[j] = None
  BY DEF Coherent, Paths, Runs, Settled, Building
<1>2. j \notin p.constructing \/ p.pc[j] = "module"
  BY DEF Coherent, Paths, Runs, Settled, Building
<1>3. Paths(r, one)
  BY <1>1, <1>2, MovedPaths DEF Runs, Settled, Building
<1>4. Queues(r)
  BY MovedQueues
<1>5. Leased(r, one)
  BY <1>1, MovedUnleased
<1>6. Realms(r, one)
  BY <1>1, MovedRealms DEF Runs
<1> QED BY <1>3, <1>4, <1>5, <1>6 DEF Coherent, Moved

\* #constructNew fails and lets go of everything.
LEMMA UnbuiltCoherent ==
  ASSUME NEW p, NEW one, Coherent(p, one), NEW r, NEW j \in Jobs \ one, Moved(p, r, j, "failed"),
         p.pc[j] \in {"ready", "rejected", "admitted"},
         r.pending = p.pending, r.worker = p.worker, r.constructing = p.constructing \ {j},
         r.activeJobs = p.activeJobs, r.closing = p.closing, r.leases = p.leases \ {j}, r.admQueue = p.admQueue
  PROVE  Coherent(r, one)
<1>1. p.worker[j] = None /\ p \in PoolState /\ p.pc \in [Jobs -> Places] /\ p.leases \subseteq Jobs
  BY DEF Coherent, Paths, Runs, Settled, PoolState
<1>2. Paths(r, one)
  <2>1. j \in p.constructing
    BY DEF Coherent, Paths, Building
  <2> QED BY <1>1, <2>1, MovedPaths DEF Runs, Settled, Building
<1>3. Queues(r)
  BY MovedQueues
<1>4. Leased(r, one)
  <2>1. /\ p.leases = Slots(p.worker) \cup {k \in one : p.pc[k] \in Runs} \cup At(p, "admitted")
        /\ Cardinality(p.leases) <= Limit /\ one \subseteq Jobs
    BY DEF Coherent, Leased, Paths
  <2>2. At(r, "admitted") = At(p, "admitted") \ {j}
    BY <1>1 DEF At, Moved
  <2>3. {k \in one : r.pc[k] \in Runs} = {k \in one : p.pc[k] \in Runs}
    BY <1>1, <2>1 DEF Moved
  <2>4. j \notin Slots(p.worker) /\ j \notin one
    BY <1>1 DEF Slots
  <2>5. r.leases = Slots(r.worker) \cup {k \in one : r.pc[k] \in Runs} \cup At(r, "admitted")
    BY <2>1, <2>2, <2>3, <2>4
  <2>6. IsFiniteSet(p.leases) /\ Cardinality(p.leases) \in Nat
    BY <1>1, PoolAssumption, FS_Subset, FS_CardinalityType
  <2>7. Cardinality(r.leases) <= Cardinality(p.leases) /\ Cardinality(r.leases) \in Nat
    BY <2>6, FS_Subset, FS_CardinalityType
  <2>8. Limit \in Nat
    BY PoolAssumption
  <2>9. Cardinality(r.leases) <= Limit
    BY <2>1, <2>6, <2>7, <2>8
  <2> QED BY <2>5, <2>9 DEF Leased
<1>5. Realms(r, one)
  BY MovedRealms DEF Runs
<1> QED BY <1>2, <1>3, <1>4, <1>5 DEF Coherent, Moved

\* run() in a retained epoch.
LEMMA QueuedCoherent ==
  ASSUME NEW p, NEW one, Coherent(p, one), NEW r, NEW j \in Jobs, Moved(p, r, j, "queued"),
         p.pc[j] = "new", ~p.closing, r.pending = Append(p.pending, j),
         r.worker = p.worker, r.constructing = p.constructing,
         r.activeJobs = p.activeJobs, r.closing = p.closing, r.leases = p.leases, r.admQueue = p.admQueue
  PROVE  Coherent(r, one)
<1>1. /\ j \notin one /\ p.worker[j] = None /\ j \notin p.constructing /\ p \in PoolState
  BY DEF Coherent, Paths, Runs, Settled, Building
<1>2. Paths(r, one)
  BY <1>1, MovedPaths DEF Building
<1>3. Queues(r)
  <2>1. p.pending \in Seq(Jobs) /\ Queue(p.pending, At(p, "queued")) /\ Queue(p.admQueue, At(p, "admission"))
    BY DEF Coherent, Queues, PoolState
  <2>2. j \notin At(p, "queued") /\ j \notin At(p, "admission")
    BY DEF At
  <2>3. /\ At(r, "queued") = (At(p, "queued") \ {j}) \cup (IF "queued" = "queued" THEN {j} ELSE {})
        /\ At(r, "admission") = (At(p, "admission") \ {j}) \cup (IF "admission" = "queued" THEN {j} ELSE {})
    BY <1>1, MovedAt
  <2>4. At(r, "queued") = At(p, "queued") \cup {j} /\ At(r, "admission") = At(p, "admission")
    BY <2>2, <2>3
  <2>5. Queue(r.pending, At(r, "queued"))
    BY <2>1, <2>2, <2>4, AppendQueue
  <2> QED BY <2>1, <2>4, <2>5 DEF Queues
<1>4. Leased(r, one)
  BY <1>1, MovedUnleased
<1>5. Realms(r, one)
  BY <1>1, MovedRealms DEF Runs
<1> QED BY <1>2, <1>3, <1>4, <1>5 DEF Coherent, Moved

\* BoundedStemAdmission.acquire for a job without a reservation.
Acquired(p, r, j, y, one, two) ==
  /\ Moved(p, r, j, y)
  /\ \/ p.pc[j] = "new" /\ two = one \cup {j}
     \/ p.pc[j] = "ready" /\ two = one
  /\ r.pending = p.pending /\ r.worker = p.worker /\ r.constructing = p.constructing
  /\ r.activeJobs = p.activeJobs /\ r.closing = p.closing
  /\ \/ /\ y = "admitted" /\ Cardinality(p.leases) < Limit
        /\ r.leases = p.leases \cup {j} /\ r.admQueue = p.admQueue
     \/ /\ y = "admission" /\ r.leases = p.leases /\ r.admQueue = Append(p.admQueue, j)

LEMMA AcquireCoherent ==
  ASSUME NEW p, NEW one, Coherent(p, one), NEW r, NEW j \in Jobs, NEW y, NEW two,
         Acquired(p, r, j, y, one, two)
  PROVE  Coherent(r, two)
<1> USE DEF Acquired
<1>1. /\ j \notin one /\ p.worker[j] = None /\ p \in PoolState
      /\ p.pc \in [Jobs -> Places] /\ p.leases \subseteq Jobs
      /\ p.pc[j] = "new" => j \notin p.constructing
      /\ p.pc[j] = "ready" => j \in p.constructing
  BY DEF Coherent, Paths, Runs, Settled, Building, PoolState
<1>2. Paths(r, two)
  BY <1>1, MovedPaths DEF Building
<1>3. Queues(r)
  <2>1. /\ p.admQueue \in Seq(Jobs) /\ Queue(p.pending, At(p, "queued")) /\ Queue(p.admQueue, At(p, "admission"))
        /\ p.closing => p.pending = <<>>
    BY DEF Coherent, Queues, PoolState
  <2>2. j \notin At(p, "queued") /\ j \notin At(p, "admission")
    BY DEF At
  <2>3. /\ At(r, "queued") = (At(p, "queued") \ {j}) \cup (IF "queued" = y THEN {j} ELSE {})
        /\ At(r, "admission") = (At(p, "admission") \ {j}) \cup (IF "admission" = y THEN {j} ELSE {})
    BY <1>1, MovedAt
  <2>4. At(r, "queued") = At(p, "queued")
    BY <2>2, <2>3
  <2>5. Queue(r.admQueue, At(r, "admission"))
    <3>1. CASE y = "admitted"
      <4>1. At(r, "admission") = At(p, "admission") BY <2>2, <2>3, <3>1
      <4> QED BY <2>1, <3>1, <4>1
    <3>2. CASE y = "admission"
      <4>1. At(r, "admission") = At(p, "admission") \cup {j} BY <2>2, <2>3, <3>2
      <4>2. Queue(Append(p.admQueue, j), At(p, "admission") \cup {j}) BY <2>1, <2>2, AppendQueue
      <4>3. r.admQueue = Append(p.admQueue, j) BY <3>2
      <4> QED BY <4>1, <4>2, <4>3
    <3> QED BY <3>1, <3>2
  <2> QED BY <2>1, <2>4, <2>5 DEF Queues
<1>4. Leased(r, two)
  <2>1. CASE y = "admission"
    BY <1>1, <2>1, MovedUnleased DEF Runs
  <2>2. CASE y = "admitted"
    <3>1. /\ p.leases = Slots(p.worker) \cup {k \in one : p.pc[k] \in Runs} \cup At(p, "admitted")
          /\ one \subseteq Jobs
      BY DEF Coherent, Leased, Paths
    <3>2. At(r, "admitted") = At(p, "admitted") \cup {j}
      BY <1>1, <2>2 DEF At, Moved
    <3>3. {k \in two : r.pc[k] \in Runs} = {k \in one : p.pc[k] \in Runs}
      BY <1>1, <2>2, <3>1 DEF Moved, Runs
    <3>4. r.leases = Slots(r.worker) \cup {k \in two : r.pc[k] \in Runs} \cup At(r, "admitted")
      BY <2>2, <3>1, <3>2, <3>3
    <3>5. IsFiniteSet(p.leases) /\ Cardinality(p.leases) \in Nat /\ Limit \in Nat
      BY <1>1, PoolAssumption, FS_Subset, FS_CardinalityType
    <3>6. r.leases = p.leases \cup {j} /\ Cardinality(p.leases) < Limit
      BY <2>2
    <3>7. Cardinality(p.leases \cup {j}) <= Cardinality(p.leases) + 1
      <4>1. Cardinality(p.leases \cup {j}) = IF j \in p.leases THEN Cardinality(p.leases) ELSE Cardinality(p.leases) + 1
        BY <3>5, FS_AddElement
      <4> QED BY <3>5, <4>1
    <3>8. Cardinality(p.leases \cup {j}) \in Nat
      BY <3>5, FS_AddElement, FS_CardinalityType
    <3>9. Cardinality(r.leases) <= Limit
      BY <3>5, <3>6, <3>7, <3>8
    <3> QED BY <3>4, <3>9 DEF Leased
  <2> QED BY <2>1, <2>2
<1>5. Realms(r, two)
  BY <1>1, MovedRealms DEF Runs
<1> QED BY <1>2, <1>3, <1>4, <1>5 DEF Coherent, Moved

\* A job leaves the queue it waits in.
LEMMA LeavesQueue ==
  ASSUME NEW p, NEW one, Coherent(p, one), NEW r, NEW j \in Jobs, NEW y, Moved(p, r, j, y),
         \/ /\ p.pc[j] = "queued" /\ y = "failed"
            /\ r.pending = Without(p.pending, {j}) /\ r.admQueue = p.admQueue
         \/ /\ p.pc[j] = "admission" /\ y = IF j \in one THEN "failed" ELSE "rejected"
            /\ r.pending = p.pending /\ r.admQueue = Without(p.admQueue, {j}),
         r.worker = p.worker, r.constructing = p.constructing,
         r.activeJobs = p.activeJobs, r.closing = p.closing, r.leases = p.leases
  PROVE  Coherent(r, one)
<1>1. /\ p \in PoolState /\ p.pc \in [Jobs -> Places] /\ p.worker[j] = None
      /\ p.pc[j] = "queued" => j \notin p.constructing /\ j \notin one
      /\ p.pc[j] = "admission" /\ j \notin one => j \in p.constructing
      /\ p.pc[j] = "admission" /\ j \in one => j \notin p.constructing
  BY DEF Coherent, Paths, Runs, Settled, Building, PoolState
<1>2. y \in {"failed", "rejected"} /\ p.pc[j] \in {"queued", "admission"}
  OBVIOUS
<1>3. Paths(r, one)
  BY <1>1, MovedPaths DEF Building, Settled
<1>4. Queues(r)
  <2>1. /\ p.admQueue \in Seq(Jobs) /\ Queue(p.pending, At(p, "queued")) /\ Queue(p.admQueue, At(p, "admission"))
        /\ p.pending \in Seq(Jobs) /\ (p.closing => p.pending = <<>>)
    BY DEF Coherent, Queues, PoolState
  <2>2. /\ At(r, "queued") = (At(p, "queued") \ {j}) \cup (IF "queued" = y THEN {j} ELSE {})
        /\ At(r, "admission") = (At(p, "admission") \ {j}) \cup (IF "admission" = y THEN {j} ELSE {})
    BY <1>1, MovedAt
  <2>3. At(r, "queued") = At(p, "queued") \ {j} /\ At(r, "admission") = At(p, "admission") \ {j}
    BY <1>2, <2>2
  <2>4. CASE p.pc[j] = "queued"
    <3>1. r.pending = Without(p.pending, {j}) /\ r.admQueue = p.admQueue
      BY <2>4
    <3>2. Queue(r.pending, At(r, "queued"))
      BY <2>1, <2>3, <3>1, WithoutQueue
    <3>3. Queue(r.admQueue, At(r, "admission"))
      <4>1. At(r, "admission") = At(p, "admission") BY <2>3, <2>4 DEF At
      <4> QED BY <2>1, <3>1, <4>1
    <3>4. p.closing => r.pending = <<>>
      <4>1. ~p.closing
        <5>1. j \in At(p, "queued") BY <2>4 DEF At
        <5>2. \E i \in 1..Len(p.pending) : p.pending[i] = j BY <2>1, <5>1 DEF Queue
        <5>3. p.pending # <<>>
          <6>1. Len(<<>>) = 0 BY EmptySeq
          <6> QED BY <5>2, <6>1
        <5> QED BY <2>1, <5>3
      <4> QED BY <4>1
    <3> QED BY <3>2, <3>3, <3>4 DEF Queues
  <2>5. CASE p.pc[j] = "admission"
    <3>1. r.pending = p.pending /\ r.admQueue = Without(p.admQueue, {j})
      BY <2>5
    <3>2. Queue(r.admQueue, At(r, "admission"))
      BY <2>1, <2>3, <3>1, WithoutQueue
    <3>3. At(r, "queued") = At(p, "queued")
      BY <2>3, <2>5 DEF At
    <3> QED BY <2>1, <3>1, <3>2, <3>3 DEF Queues
  <2> QED BY <1>2, <2>4, <2>5
<1>5. Leased(r, one)
  BY <1>2, MovedUnleased DEF Runs
<1>6. Realms(r, one)
  BY <1>2, MovedRealms DEF Runs
<1> QED BY <1>3, <1>4, <1>5, <1>6 DEF Coherent, Moved

\* #constructNew has its Worker.
LEMMA ConstructCoherent ==
  ASSUME NEW p, NEW one, Coherent(p, one), NEW r, NEW j \in Jobs \ one, Moved(p, r, j, "working"),
         p.pc[j] = "admitted", r.worker = [p.worker EXCEPT ![j] = j], r.activeJobs = p.activeJobs + 1,
         r.pending = p.pending, r.constructing = p.constructing,
         r.closing = p.closing, r.leases = p.leases, r.admQueue = p.admQueue
  PROVE  Coherent(r, one)
<1>1. /\ p \in PoolState /\ p.pc \in [Jobs -> Places] /\ p.worker[j] = None
      /\ p.worker \in [Jobs -> Jobs \cup {None, Idle}] /\ j \in p.constructing
  BY DEF Coherent, Paths, Runs, Settled, Building, PoolState
<1>2. /\ IsFiniteSet(Jobs) /\ None \notin Jobs /\ Idle \notin Jobs
  BY PoolAssumption
<1>3. r.worker[j] = j /\ \A s \in Jobs \ {j} : r.worker[s] = p.worker[s]
  BY <1>1
<1>4. Paths(r, one)
  BY <1>1, <1>3, MovedPaths DEF Building, Runs
<1>5. Queues(r)
  BY MovedQueues
<1>6. Leased(r, one)
  <2>1. /\ p.leases = Slots(p.worker) \cup {k \in one : p.pc[k] \in Runs} \cup At(p, "admitted")
        /\ Cardinality(p.leases) <= Limit /\ one \subseteq Jobs
    BY DEF Coherent, Leased, Paths
  <2>2. At(r, "admitted") = At(p, "admitted") \ {j} /\ j \in At(p, "admitted")
    BY <1>1 DEF At, Moved
  <2>3. {k \in one : r.pc[k] \in Runs} = {k \in one : p.pc[k] \in Runs}
    BY <1>1, <2>1 DEF Moved
  <2>4. Slots(r.worker) = Slots(p.worker) \cup {j}
    BY <1>2, <1>3 DEF Slots
  <2>5. r.leases = Slots(r.worker) \cup {k \in one : r.pc[k] \in Runs} \cup At(r, "admitted")
    BY <2>1, <2>2, <2>3, <2>4
  <2> QED BY <2>1, <2>5 DEF Leased
<1>7. Realms(r, one)
  <2>1. /\ \A k \in Running(p, one) : \E s \in Jobs : p.worker[s] = k
        /\ \A s \in Jobs : p.worker[s] \in Jobs => p.worker[s] \in Running(p, one)
        /\ \A s, u \in Jobs : p.worker[s] = p.worker[u] /\ p.worker[s] \in Jobs => s = u
        /\ p.activeJobs = Cardinality(Running(p, one))
    BY DEF Coherent, Realms
  <2>2. Running(r, one) = Running(p, one) \cup {j} /\ j \notin Running(p, one)
    BY <1>1 DEF Running, Moved, Runs
  <2>3. ASSUME NEW k \in Running(r, one) PROVE \E s \in Jobs : r.worker[s] = k
    <3>1. CASE k = j BY <1>3, <3>1
    <3>2. CASE k # j
      <4>1. PICK s \in Jobs : p.worker[s] = k BY <2>1, <2>2, <3>2
      <4>2. k \in Jobs BY DEF Running
      <4>3. s # j BY <1>1, <1>2, <4>1, <4>2
      <4> QED BY <1>3, <4>1, <4>3
    <3> QED BY <3>1, <3>2
  <2>4. ASSUME NEW s \in Jobs, r.worker[s] \in Jobs PROVE r.worker[s] \in Running(r, one)
    BY <1>3, <2>1, <2>2, <2>4
  <2>5. ASSUME NEW s \in Jobs, NEW u \in Jobs, r.worker[s] = r.worker[u], r.worker[s] \in Jobs PROVE s = u
    BY <1>3, <2>1, <2>2, <2>5
  <2>6. r.activeJobs = Cardinality(Running(r, one))
    <3>1. IsFiniteSet(Running(p, one))
      BY <1>2, FS_Subset DEF Running
    <3>2. Cardinality(Running(p, one) \cup {j}) = Cardinality(Running(p, one)) + 1
      BY <2>2, <3>1, FS_AddElement
    <3> QED BY <2>1, <2>2, <3>2
  <2> QED BY <2>3, <2>4, <2>5, <2>6 DEF Realms
<1> QED BY <1>4, <1>5, <1>6, <1>7 DEF Coherent, Moved

\* #runOneShot has its Worker.
LEMMA StartOneShotCoherent ==
  ASSUME NEW p, NEW one, Coherent(p, one), NEW r, NEW j \in one, j \in Jobs, Moved(p, r, j, "working"),
         p.pc[j] = "admitted", r.worker = p.worker, r.activeJobs = p.activeJobs,
         r.pending = p.pending, r.constructing = p.constructing,
         r.closing = p.closing, r.leases = p.leases, r.admQueue = p.admQueue
  PROVE  Coherent(r, one)
<1>1. /\ p \in PoolState /\ p.pc \in [Jobs -> Places] /\ p.worker[j] = None /\ j \notin p.constructing
  BY DEF Coherent, Paths, PoolState
<1>2. Paths(r, one)
  BY <1>1, MovedPaths DEF Building, Runs
<1>3. Queues(r)
  BY MovedQueues
<1>4. Leased(r, one)
  <2>1. /\ p.leases = Slots(p.worker) \cup {k \in one : p.pc[k] \in Runs} \cup At(p, "admitted")
        /\ Cardinality(p.leases) <= Limit /\ one \subseteq Jobs
    BY DEF Coherent, Leased, Paths
  <2>2. At(r, "admitted") = At(p, "admitted") \ {j} /\ j \in At(p, "admitted")
    BY <1>1 DEF At, Moved
  <2>3. {k \in one : r.pc[k] \in Runs} = {k \in one : p.pc[k] \in Runs} \cup {j}
    BY <1>1, <2>1 DEF Moved, Runs
  <2>4. r.leases = Slots(r.worker) \cup {k \in one : r.pc[k] \in Runs} \cup At(r, "admitted")
    BY <2>1, <2>2, <2>3
  <2> QED BY <2>1, <2>4 DEF Leased
<1>5. Realms(r, one)
  BY MovedRealms DEF Runs
<1> QED BY <1>2, <1>3, <1>4, <1>5 DEF Coherent, Moved

\* A one-shot job gives up its reservation, with or without having had a Worker.
LEMMA FinishCoherent ==
  ASSUME NEW p, NEW one, Coherent(p, one), NEW r, NEW j \in one, j \in Jobs,
         NEW y \in Settled, Moved(p, r, j, y),
         p.pc[j] \in {"admitted"} \cup Runs, r.worker = p.worker, r.activeJobs = p.activeJobs,
         r.pending = p.pending, r.constructing = p.constructing,
         r.closing = p.closing, r.leases = p.leases \ {j}, r.admQueue = p.admQueue
  PROVE  Coherent(r, one)
<1>1. /\ p \in PoolState /\ p.pc \in [Jobs -> Places] /\ p.worker[j] = None /\ j \notin p.constructing
      /\ p.leases \subseteq Jobs
  BY DEF Coherent, Paths, PoolState
<1>2. Paths(r, one)
  BY <1>1, MovedPaths DEF Building, Settled
<1>3. Queues(r)
  BY MovedQueues DEF Settled, Runs
<1>4. Leased(r, one)
  <2>1. /\ p.leases = Slots(p.worker) \cup {k \in one : p.pc[k] \in Runs} \cup At(p, "admitted")
        /\ Cardinality(p.leases) <= Limit /\ one \subseteq Jobs
    BY DEF Coherent, Leased, Paths
  <2>2. At(r, "admitted") = At(p, "admitted") \ {j}
    BY <1>1 DEF At, Moved, Settled
  <2>3. {k \in one : r.pc[k] \in Runs} = {k \in one : p.pc[k] \in Runs} \ {j}
    BY <1>1, <2>1 DEF Moved, Runs, Settled
  <2>4. j \notin Slots(p.worker)
    BY <1>1 DEF Slots
  <2>5. r.leases = Slots(r.worker) \cup {k \in one : r.pc[k] \in Runs} \cup At(r, "admitted")
    BY <2>1, <2>2, <2>3, <2>4
  <2>6. IsFiniteSet(p.leases) /\ Cardinality(p.leases) \in Nat /\ Limit \in Nat
    BY <1>1, PoolAssumption, FS_Subset, FS_CardinalityType
  <2>7. Cardinality(r.leases) <= Cardinality(p.leases) /\ Cardinality(r.leases) \in Nat
    BY <2>6, FS_Subset, FS_CardinalityType
  <2>8. Cardinality(r.leases) <= Limit
    BY <2>1, <2>6, <2>7
  <2> QED BY <2>5, <2>8 DEF Leased
<1>5. Realms(r, one)
  BY MovedRealms DEF Runs, Settled
<1> QED BY <1>2, <1>3, <1>4, <1>5 DEF Coherent, Moved

\* #execute settles: the realm u of job j is idle, or gone with its reservation.
Ran(p, r, j, u, y) ==
  /\ y \in Settled /\ Moved(p, r, j, y)
  /\ \/ r.worker = [p.worker EXCEPT ![u] = Idle] /\ r.leases = p.leases
     \/ r.worker = [p.worker EXCEPT ![u] = None] /\ r.leases = p.leases \ {u}
  /\ r.activeJobs = p.activeJobs - 1 /\ r.pending = p.pending /\ r.constructing = p.constructing
  /\ r.closing = p.closing /\ r.admQueue = p.admQueue

LEMMA ExecuteCoherent ==
  ASSUME NEW p, NEW one, Coherent(p, one), NEW r, NEW j \in Jobs \ one, p.pc[j] \in Runs,
         NEW u \in Jobs, p.worker[u] = j, NEW y, Ran(p, r, j, u, y)
  PROVE  Coherent(r, one)
<1> USE DEF Ran
<1>1. /\ p \in PoolState /\ p.pc \in [Jobs -> Places] /\ p.leases \subseteq Jobs
      /\ p.worker \in [Jobs -> Jobs \cup {None, Idle}]
  BY DEF Coherent, PoolState
<1>2. IsFiniteSet(Jobs) /\ Limit \in Nat /\ None \notin Jobs /\ Idle \notin Jobs /\ None # Idle
  BY PoolAssumption
<1>3. r.worker[u] \in {None, Idle} /\ \A s \in Jobs \ {u} : r.worker[s] = p.worker[s]
  BY <1>1
<1>4. u \notin one /\ p.pc[u] \in Runs \cup Settled /\ p.worker[u] # None
  BY <1>2 DEF Coherent, Paths
<1>5. Paths(r, one)
  <2>1. \A s \in Jobs : r.worker[s] # None => p.worker[s] # None
    BY <1>3, <1>4
  <2>2. j \in p.constructing => y \in Building \cup Runs \cup Settled
    OBVIOUS
  <2>3. y \notin Building
    BY DEF Building, Settled
  <2> QED BY <2>1, <2>2, <2>3, MovedPaths
<1>6. Queues(r)
  BY MovedQueues DEF Settled, Runs
<1>7. Leased(r, one)
  <2>1. /\ p.leases = Slots(p.worker) \cup {k \in one : p.pc[k] \in Runs} \cup At(p, "admitted")
        /\ Cardinality(p.leases) <= Limit /\ one \subseteq Jobs
    BY DEF Coherent, Leased, Paths
  <2>2. At(r, "admitted") = At(p, "admitted")
    BY <1>1 DEF At, Moved, Settled, Runs
  <2>3. {k \in one : r.pc[k] \in Runs} = {k \in one : p.pc[k] \in Runs}
    BY <1>1, <2>1 DEF Moved
  <2>4. u \notin At(p, "admitted") /\ u \notin {k \in one : p.pc[k] \in Runs} /\ u \in Slots(p.worker)
    BY <1>4 DEF At, Runs, Settled, Slots
  <2>5. IsFiniteSet(p.leases) /\ Cardinality(p.leases) \in Nat
    BY <1>1, <1>2, FS_Subset, FS_CardinalityType
  <2>6. CASE r.worker = [p.worker EXCEPT ![u] = Idle] /\ r.leases = p.leases
    <3>1. Slots(r.worker) = Slots(p.worker)
      BY <1>1, <1>2, <1>4, <2>6 DEF Slots
    <3> QED BY <2>1, <2>2, <2>3, <2>6, <3>1 DEF Leased
  <2>7. CASE r.worker = [p.worker EXCEPT ![u] = None] /\ r.leases = p.leases \ {u}
    <3>1. Slots(r.worker) = Slots(p.worker) \ {u}
      BY <1>1, <1>2, <1>4, <2>7 DEF Slots
    <3>2. r.leases = Slots(r.worker) \cup {k \in one : r.pc[k] \in Runs} \cup At(r, "admitted")
      BY <2>1, <2>2, <2>3, <2>4, <2>7, <3>1
    <3>3. p.leases \ {u} \in SUBSET p.leases
      OBVIOUS
    <3>4. Cardinality(p.leases \ {u}) <= Cardinality(p.leases) /\ Cardinality(p.leases \ {u}) \in Nat
      BY <2>5, <3>3, FS_Subset, FS_CardinalityType
    <3>5. Cardinality(r.leases) <= Limit
      BY <1>2, <2>1, <2>5, <2>7, <3>4
    <3> QED BY <3>2, <3>5 DEF Leased
  <2> QED BY <2>6, <2>7
<1>8. Realms(r, one)
  <2>1. /\ \A k \in Running(p, one) : \E s \in Jobs : p.worker[s] = k
        /\ \A s \in Jobs : p.worker[s] \in Jobs => p.worker[s] \in Running(p, one)
        /\ \A s, v \in Jobs : p.worker[s] = p.worker[v] /\ p.worker[s] \in Jobs => s = v
        /\ p.activeJobs = Cardinality(Running(p, one)) /\ p.activeJobs \in Int
    BY DEF Coherent, Realms, PoolState
  <2>2. Running(r, one) = Running(p, one) \ {j} /\ j \in Running(p, one)
    BY <1>1 DEF Running, Moved, Runs, Settled
  <2>3. ASSUME NEW k \in Running(r, one) PROVE \E s \in Jobs : r.worker[s] = k
    <3>1. PICK s \in Jobs : p.worker[s] = k BY <2>1, <2>2
    <3>2. s # u BY <2>2, <3>1
    <3> QED BY <1>3, <3>1, <3>2
  <2>4. ASSUME NEW s \in Jobs, r.worker[s] \in Jobs
        PROVE  s # u /\ r.worker[s] = p.worker[s] /\ r.worker[s] \in Running(r, one)
    <3>1. s # u BY <1>2, <1>3, <2>4
    <3>2. r.worker[s] = p.worker[s] BY <1>3, <3>1
    <3>3. p.worker[s] # j BY <2>1, <3>1
    <3> QED BY <2>1, <2>2, <2>4, <3>1, <3>2, <3>3
  <2>5. ASSUME NEW s \in Jobs, NEW v \in Jobs, r.worker[s] = r.worker[v], r.worker[s] \in Jobs PROVE s = v
    <3>1. r.worker[s] = p.worker[s] /\ r.worker[v] = p.worker[v] BY <2>4, <2>5
    <3>2. p.worker[s] = p.worker[v] /\ p.worker[s] \in Jobs BY <2>5, <3>1
    <3> QED BY <2>1, <3>2
  <2>6. r.activeJobs = Cardinality(Running(r, one))
    <3>1. IsFiniteSet(Running(p, one))
      BY <1>2, FS_Subset DEF Running
    <3>2. Cardinality(Running(p, one) \ {j}) = Cardinality(Running(p, one)) - 1
      BY <2>2, <3>1, FS_RemoveElement
    <3> QED BY <2>1, <2>2, <3>2
  <2> QED BY <2>3, <2>4, <2>5, <2>6 DEF Realms
<1> QED BY <1>5, <1>6, <1>7, <1>8 DEF Coherent, Moved

\* #constructNew returns.
LEMMA UnwindCoherent ==
  ASSUME NEW p, NEW one, Coherent(p, one), NEW r \in PoolState, NEW j \in Jobs, p.pc[j] \in Settled,
         r.pc = p.pc, r.pending = p.pending, r.worker = p.worker, r.constructing = p.constructing \ {j},
         r.activeJobs = p.activeJobs, r.closing = p.closing, r.leases = p.leases, r.admQueue = p.admQueue
  PROVE  Coherent(r, one)
<1>1. At(r, "queued") = At(p, "queued") /\ At(r, "admission") = At(p, "admission") /\ At(r, "admitted") = At(p, "admitted")
  BY DEF At
<1>2. Running(r, one) = Running(p, one)
  BY DEF Running
<1>3. Paths(r, one)
  BY DEF Coherent, Paths, Settled, Building
<1>4. Queues(r)
  BY <1>1 DEF Coherent, Queues
<1>5. Leased(r, one)
  BY <1>1 DEF Coherent, Leased
<1>6. Realms(r, one)
  BY <1>2 DEF Coherent, Realms
<1> QED BY <1>3, <1>4, <1>5, <1>6 DEF Coherent

\* The module load settles.
LEMMA LoadSettlesCoherent ==
  ASSUME NEW p, NEW one, Coherent(p, one), NEW r \in PoolState,
         \A k \in Jobs : r.pc[k] = p.pc[k] \/ (p.pc[k] = "module" /\ r.pc[k] \in {"ready", "rejected"}),
         r.pending = p.pending, r.worker = p.worker, r.constructing = p.constructing,
         r.activeJobs = p.activeJobs, r.closing = p.closing, r.leases = p.leases, r.admQueue = p.admQueue
  PROVE  Coherent(r, one)
<1>1. At(r, "queued") = At(p, "queued") /\ At(r, "admission") = At(p, "admission") /\ At(r, "admitted") = At(p, "admitted")
  BY DEF At
<1>2. \A k \in Jobs : r.pc[k] \in Runs <=> p.pc[k] \in Runs
  BY DEF Runs
<1>3. one \subseteq Jobs /\ p.constructing \subseteq Jobs
  BY DEF Coherent, Paths, PoolState
<1>4. Running(r, one) = Running(p, one)
  BY <1>2 DEF Running
<1>5. Paths(r, one)
  BY <1>3 DEF Coherent, Paths, Runs, Settled, Building
<1>6. Queues(r)
  BY <1>1 DEF Coherent, Queues
<1>7. Leased(r, one)
  <2>1. {k \in one : r.pc[k] \in Runs} = {k \in one : p.pc[k] \in Runs}
    BY <1>2, <1>3
  <2> QED BY <1>1, <2>1 DEF Coherent, Leased
<1>8. Realms(r, one)
  BY <1>4 DEF Coherent, Realms
<1> QED BY <1>5, <1>6, <1>7, <1>8 DEF Coherent

\* #beginClose.
Closed(p, r, waiting, idle) ==
  /\ r \in PoolState /\ waiting \subseteq Jobs /\ idle \subseteq Jobs
  /\ \A j \in Jobs : j \in waiting <=> j \in p.constructing /\ p.pc[j] = "admission"
  /\ \A s \in Jobs : s \in idle <=> p.worker[s] = Idle
  /\ \A j \in Jobs : r.pc[j] = IF j \in waiting THEN "rejected"
                              ELSE IF p.pc[j] = "queued" THEN "failed" ELSE p.pc[j]
  /\ r.pending = <<>> /\ r.admQueue = Without(p.admQueue, waiting)
  /\ \A s \in Jobs : r.worker[s] = IF s \in idle THEN None ELSE p.worker[s]
  /\ r.leases = p.leases \ idle
  /\ r.constructing = p.constructing /\ r.activeJobs = p.activeJobs

LEMMA BeginCloseCoherent ==
  ASSUME NEW p, NEW one, Coherent(p, one), NEW r, NEW waiting, NEW idle, Closed(p, r, waiting, idle)
  PROVE  Coherent(r, one)
<1> USE DEF Closed
<1>1. /\ p.pc \in [Jobs -> Places] /\ p.leases \subseteq Jobs /\ p.constructing \subseteq Jobs
      /\ p.worker \in [Jobs -> Jobs \cup {None, Idle}] /\ p.admQueue \in Seq(Jobs)
  BY DEF Coherent, PoolState
<1>2. IsFiniteSet(Jobs) /\ Limit \in Nat /\ None \notin Jobs /\ Idle \notin Jobs /\ None # Idle
  BY PoolAssumption
<1>3. /\ one \subseteq Jobs
      /\ \A j \in one : /\ p.pc[j] \in {"admission", "admitted"} \cup Runs \cup Settled
                        /\ j \notin p.constructing /\ p.worker[j] = None
      /\ \A j \in p.constructing : p.pc[j] \in Building \cup Runs \cup Settled
      /\ \A j \in Jobs \ one : p.pc[j] \in Building => j \in p.constructing
      /\ \A s \in Jobs : p.worker[s] # None => p.pc[s] \in Runs \cup Settled
  BY DEF Coherent, Paths
<1>4. \A j \in Jobs : \/ r.pc[j] = p.pc[j] /\ p.pc[j] # "queued" /\ j \notin waiting
                      \/ p.pc[j] = "queued" /\ r.pc[j] = "failed" /\ j \notin waiting
                      \/ p.pc[j] = "admission" /\ r.pc[j] = "rejected" /\ j \in waiting /\ j \in p.constructing
  OBVIOUS
<1>5. \A j \in Jobs : r.pc[j] \in Runs <=> p.pc[j] \in Runs
  BY <1>4 DEF Runs
<1>6. Paths(r, one)
  <2>1. ASSUME NEW j \in one
        PROVE  r.pc[j] \in {"admission", "admitted"} \cup Runs \cup Settled /\ j \notin r.constructing /\ r.worker[j] = None
    BY <1>3, <1>4 DEF Runs, Settled
  <2>2. ASSUME NEW j \in p.constructing PROVE r.pc[j] \in Building \cup Runs \cup Settled
    BY <1>1, <1>3, <1>4 DEF Building, Runs, Settled
  <2>3. ASSUME NEW j \in Jobs \ one, r.pc[j] \in Building PROVE j \in p.constructing
    BY <1>3, <1>4, <2>3 DEF Building
  <2>4. ASSUME NEW s \in Jobs, r.worker[s] # None PROVE r.pc[s] \in Runs \cup Settled
    <3>1. p.worker[s] # None BY <2>4
    <3> QED BY <1>3, <1>4, <3>1 DEF Runs, Settled
  <2> QED BY <1>3, <2>1, <2>2, <2>3, <2>4 DEF Paths
<1>7. Queues(r)
  <2>1. At(r, "queued") = {} /\ At(r, "admission") = At(p, "admission") \ waiting
    BY <1>4 DEF At
  <2>2. Queue(p.admQueue, At(p, "admission"))
    BY DEF Coherent, Queues
  <2>3. Queue(Without(p.admQueue, waiting), At(p, "admission") \ waiting)
    BY <1>1, <2>2, WithoutQueue
  <2>4. Queue(<<>>, {})
    <3>1. 1..Len(<<>>) = {} BY EmptySeq
    <3> QED BY <3>1 DEF Queue
  <2> QED BY <2>1, <2>3, <2>4 DEF Queues
<1>8. Leased(r, one)
  <2>1. /\ p.leases = Slots(p.worker) \cup {k \in one : p.pc[k] \in Runs} \cup At(p, "admitted")
        /\ Cardinality(p.leases) <= Limit
    BY DEF Coherent, Leased
  <2>2. At(r, "admitted") = At(p, "admitted") /\ {k \in one : r.pc[k] \in Runs} = {k \in one : p.pc[k] \in Runs}
    BY <1>3, <1>4, <1>5 DEF At
  <2>3. Slots(r.worker) = Slots(p.worker) \ idle
    BY <1>2 DEF Slots
  <2>4. idle \cap At(p, "admitted") = {} /\ idle \cap {k \in one : p.pc[k] \in Runs} = {}
    BY <1>2, <1>3 DEF At, Runs, Settled
  <2>5. r.leases = Slots(r.worker) \cup {k \in one : r.pc[k] \in Runs} \cup At(r, "admitted")
    BY <2>1, <2>2, <2>3, <2>4
  <2>6. IsFiniteSet(p.leases) /\ Cardinality(p.leases) \in Nat
    BY <1>1, <1>2, FS_Subset, FS_CardinalityType
  <2>7. Cardinality(r.leases) <= Cardinality(p.leases) /\ Cardinality(r.leases) \in Nat
    <3>1. r.leases \in SUBSET p.leases OBVIOUS
    <3> QED BY <2>6, <3>1, FS_Subset, FS_CardinalityType
  <2>8. Cardinality(r.leases) <= Limit
    BY <1>2, <2>1, <2>6, <2>7
  <2> QED BY <2>5, <2>8 DEF Leased
<1>9. Realms(r, one)
  <2>1. Running(r, one) = Running(p, one)
    BY <1>5 DEF Running
  <2>2. \A s \in Jobs : /\ p.worker[s] \in Jobs => r.worker[s] = p.worker[s]
                        /\ r.worker[s] \in Jobs => r.worker[s] = p.worker[s]
    BY <1>2
  <2>3. /\ \A k \in Running(p, one) : \E s \in Jobs : p.worker[s] = k
        /\ \A s \in Jobs : p.worker[s] \in Jobs => p.worker[s] \in Running(p, one)
        /\ \A s, v \in Jobs : p.worker[s] = p.worker[v] /\ p.worker[s] \in Jobs => s = v
        /\ p.activeJobs = Cardinality(Running(p, one))
    BY DEF Coherent, Realms
  <2>4. ASSUME NEW k \in Running(p, one) PROVE \E s \in Jobs : r.worker[s] = k
    <3>1. k \in Jobs BY DEF Running
    <3> QED BY <2>2, <2>3, <3>1
  <2>5. \A s, v \in Jobs : r.worker[s] = r.worker[v] /\ r.worker[s] \in Jobs => s = v
    BY <2>2, <2>3
  <2>6. \A s \in Jobs : r.worker[s] \in Jobs => r.worker[s] \in Running(p, one)
    BY <2>2, <2>3
  <2> QED BY <2>1, <2>3, <2>4, <2>5, <2>6 DEF Realms
<1> QED BY <1>6, <1>7, <1>8, <1>9 DEF Coherent

-----------------------------------------------------------------------------
(* The steps. *)

\* A step of the epoch: no new realm once it is over, and nothing is left when
\* a release is reported.
EpochStep ==
  /\ closing /\ closing' => Slots(worker') \subseteq Slots(worker)
  /\ \A h \in Holders : holder[h] = "releasing" /\ holder'[h] = "released" =>
       Slots(worker') = {} /\ constructing' = {} /\ pending' = <<>>

HeldIn(p) == {h \in Holders : p.holder[h] = "held"}

LEMMA NowTypes ==
  ASSUME PoolInv
  PROVE  /\ Now \in PoolState /\ Coherent(Now, oneShot) /\ oneShot \subseteq Jobs
         /\ pc \in [Jobs -> Places] /\ pending \in Seq(Jobs) /\ worker \in [Jobs -> Jobs \cup {None, Idle}]
         /\ constructing \subseteq Jobs /\ activeJobs \in Int /\ closing \in BOOLEAN
         /\ holder \in [Holders -> {"new", "held", "noop", "releasing", "released"}]
         /\ leases \subseteq Jobs /\ admQueue \in Seq(Jobs)
         /\ module \in {"none", "loading", "doomed", "cached"} /\ owners \subseteq Jobs
         /\ aborted \subseteq Jobs
<1>1. Coherent(Now, oneShot) /\ Now \in PoolState /\ aborted \subseteq Jobs /\ Paths(Now, oneShot)
  BY DEF PoolInv, Coherent
<1>2. oneShot \subseteq Jobs
  BY <1>1 DEF Paths
<1> QED BY <1>1, <1>2 DEF Now, PoolState

\* A handler that left p behind.
LEMMA HandsOver ==
  ASSUME PoolInv, NEW p, Coherent(p, oneShot'), Continue(p), aborted' \subseteq Jobs,
         retentions' \in Nat, retentions' = Cardinality(HeldIn(p)),
         closing /\ p.closing => Slots(p.worker) \subseteq Slots(worker),
         \A h \in Holders : holder[h] = "releasing" => p.holder[h] = "releasing"
  PROVE  PoolInv' /\ EpochStep
<1>1. Coherent(Now', oneShot') /\ NoLostWakeup' /\ Ends(p)
  BY ContinueKeeps
<1>2. /\ closing' = p.closing
      /\ p.closing => worker' = p.worker /\ constructing' = p.constructing /\ pending' = <<>>
      /\ \A h \in Holders : \/ holder'[h] = p.holder[h]
                            \/ /\ p.holder[h] = "releasing" /\ holder'[h] = "released"
                               /\ p.closing /\ Drained(p)
  BY <1>1 DEF Ends
<1>3. Held' = HeldIn(p)
  BY <1>2 DEF Held, HeldIn
<1>4. PoolInv'
  BY <1>1, <1>3 DEF PoolInv
<1>5. EpochStep
  <2>1. closing /\ closing' => Slots(worker') \subseteq Slots(worker)
    BY <1>2
  <2>2. ASSUME NEW h \in Holders, holder[h] = "releasing", holder'[h] = "released"
        PROVE  Slots(worker') = {} /\ constructing' = {} /\ pending' = <<>>
    <3>1. p.closing /\ Drained(p)
      BY <1>2, <2>2
    <3> QED BY <1>2, <3>1 DEF Drained
  <2> QED BY <2>1, <2>2 DEF EpochStep
<1> QED BY <1>4, <1>5

\* The same for a handler that is none of an epoch's callers'.
LEMMA HandsOn ==
  ASSUME PoolInv, NEW p, Coherent(p, oneShot'), Continue(p), aborted' \subseteq Jobs,
         retentions' = retentions, p.holder = holder,
         closing /\ p.closing => Slots(p.worker) \subseteq Slots(worker)
  PROVE  PoolInv' /\ EpochStep
<1>1. retentions \in Nat /\ retentions = Cardinality(Held) /\ Held = HeldIn(p)
  BY DEF PoolInv, Held, HeldIn
<1> QED BY <1>1, HandsOver

LEMMA RetainKeeps ==
  ASSUME PoolInv, NEW h \in Holders, Retain(h)
  PROVE  PoolInv' /\ EpochStep
<1>1. /\ Now \in PoolState /\ Coherent(Now, oneShot) /\ holder \in [Holders -> {"new", "held", "noop", "releasing", "released"}]
      /\ closing \in BOOLEAN
  BY NowTypes
<1>2. /\ UNCHANGED <<pc, aborted, oneShot, pending, worker, constructing, activeJobs,
                     leases, admQueue, module, owners>>
      /\ holder[h] = "new"
      /\ \/ holder' = [holder EXCEPT ![h] = "noop"] /\ UNCHANGED <<retentions, closing>>
         \/ /\ holder' = [holder EXCEPT ![h] = "held"] /\ retentions' = retentions + 1
            /\ closing' = FALSE
  BY DEF Retain
<1>3. Now' \in PoolState
  BY <1>1, <1>2 DEF Now, PoolState
<1>4. Coherent(Now', oneShot')
  <2> DEFINE p == Now
             r == Now'
  <2>1. /\ r.pc = p.pc /\ r.pending = p.pending /\ r.worker = p.worker /\ r.constructing = p.constructing
        /\ r.activeJobs = p.activeJobs /\ r.leases = p.leases /\ r.admQueue = p.admQueue
        /\ r.closing => p.closing
    BY <1>2 DEF Now
  <2>2. oneShot' = oneShot
    BY <1>2
  <2> HIDE DEF p, r
  <2>3. Coherent(p, oneShot) /\ r \in PoolState
    BY <1>1, <1>3 DEF p, r
  <2>4. At(r, "queued") = At(p, "queued") /\ At(r, "admission") = At(p, "admission") /\ At(r, "admitted") = At(p, "admitted")
    BY <2>1 DEF At
  <2>5. Running(r, oneShot) = Running(p, oneShot)
    BY <2>1 DEF Running
  <2>6. Paths(r, oneShot) /\ Queues(r) /\ Leased(r, oneShot) /\ Realms(r, oneShot)
    BY <2>1, <2>3, <2>4, <2>5 DEF Coherent, Paths, Queues, Leased, Realms
  <2>7. Coherent(r, oneShot)
    BY <2>3, <2>6 DEF Coherent
  <2> QED BY <2>2, <2>7 DEF r
<1>5. NoLostWakeup'
  <2>1. NoLostWakeup BY DEF PoolInv
  <2>2. closing' => closing BY <1>2
  <2> QED BY <1>2, <2>1, <2>2 DEF NoLostWakeup, Slots
<1>6. retentions' \in Nat /\ retentions' = Cardinality(Held')
  <2>1. retentions \in Nat /\ retentions = Cardinality(Held)
    BY DEF PoolInv
  <2>2. IsFiniteSet(Held) /\ h \notin Held
    BY <1>2, PoolAssumption, FS_Subset DEF Held
  <2>3. CASE holder' = [holder EXCEPT ![h] = "noop"] /\ UNCHANGED <<retentions, closing>>
    <3>1. Held' = Held BY <1>1, <1>2, <2>3 DEF Held
    <3> QED BY <2>1, <2>3, <3>1
  <2>4. CASE holder' = [holder EXCEPT ![h] = "held"] /\ retentions' = retentions + 1
    <3>1. Held' = Held \cup {h} BY <1>1, <1>2, <2>4 DEF Held
    <3>2. Cardinality(Held \cup {h}) = Cardinality(Held) + 1 BY <2>2, FS_AddElement
    <3> QED BY <2>1, <2>4, <3>1, <3>2
  <2> QED BY <1>2, <2>3, <2>4
<1>7. aborted' \subseteq Jobs
  BY <1>2, NowTypes
<1>8. EpochStep
  <2>1. worker' = worker BY <1>2
  <2>2. \A g \in Holders : holder[g] = "releasing" => holder'[g] = "releasing" BY <1>1, <1>2
  <2> QED BY <2>1, <2>2 DEF EpochStep, Slots
<1> QED BY <1>4, <1>5, <1>6, <1>7, <1>8 DEF PoolInv

LEMMA ReleaseKeeps ==
  ASSUME PoolInv, NEW h \in Holders, Release(h)
  PROVE  PoolInv' /\ EpochStep
<1> USE NowTypes
<1>1. retentions \in Nat /\ retentions = Cardinality(Held) /\ IsFiniteSet(Held)
  BY PoolAssumption, FS_Subset DEF PoolInv, Held
<1>2. CASE holder[h] = "noop"
  <2>1. /\ holder' = [holder EXCEPT ![h] = "released"]
        /\ UNCHANGED <<pc, aborted, oneShot, pending, worker, constructing, activeJobs,
                       retentions, closing, leases, admQueue, module, owners>>
    BY <1>2 DEF Release
  <2>2. Held' = Held
    BY <1>2, <2>1 DEF Held
  <2>3. Now' \in PoolState
    BY <2>1 DEF Now, PoolState
  <2>4. Coherent(Now', oneShot')
    <3> DEFINE p == Now
               r == Now'
    <3>1. /\ r.pc = p.pc /\ r.pending = p.pending /\ r.worker = p.worker /\ r.constructing = p.constructing
          /\ r.activeJobs = p.activeJobs /\ r.closing = p.closing /\ r.leases = p.leases /\ r.admQueue = p.admQueue
          /\ r \in PoolState /\ Coherent(p, oneShot) /\ oneShot' = oneShot
      BY <2>1, <2>3 DEF Now
    <3> HIDE DEF p, r
    <3>2. Coherent(r, oneShot)
      BY <3>1, SideCoherent
    <3> QED BY <3>1, <3>2 DEF r
  <2>5. NoLostWakeup'
    BY <2>1 DEF PoolInv, NoLostWakeup, Slots
  <2>6. EpochStep
    <3>1. \A g \in Holders : holder[g] = "releasing" => holder'[g] = "releasing" BY <1>2, <2>1
    <3> QED BY <2>1, <3>1 DEF EpochStep, Slots
  <2>7. PoolInv'
    BY <1>1, <2>1, <2>2, <2>4, <2>5 DEF PoolInv
  <2> QED BY <2>6, <2>7
<1>3. CASE holder[h] = "held"
  <2>1. /\ retentions' = retentions - 1 /\ aborted' = aborted /\ oneShot' = oneShot
        /\ IF retentions = 1 THEN Continue(BeginClose([Now EXCEPT !.holder[h] = "releasing"]))
                             ELSE Continue([Now EXCEPT !.holder[h] = "released"])
    BY <1>3 DEF Release
  <2>2. h \in Held /\ Cardinality(Held \ {h}) = Cardinality(Held) - 1 /\ IsFiniteSet(Held \ {h})
    BY <1>1, <1>3, FS_RemoveElement DEF Held
  <2>3. retentions' \in Nat /\ retentions' = Cardinality(Held \ {h})
    <3>1. Cardinality(Held \ {h}) \in Nat BY <2>2, FS_CardinalityType
    <3> QED BY <1>1, <2>1, <2>2, <3>1
  <2>4. ASSUME NEW y \in {"releasing", "released"}, NEW q, q = [Now EXCEPT !.holder[h] = y]
        PROVE  /\ Coherent(q, oneShot) /\ HeldIn(q) = Held \ {h}
               /\ \A g \in Holders : holder[g] = "releasing" => q.holder[g] = "releasing"
               /\ q.closing = closing /\ q.worker = worker /\ q.pc = pc /\ q.constructing = constructing
               /\ q \in PoolState
    <3>1. q \in PoolState
      BY <2>4 DEF Now, PoolState
    <3>2. /\ q.pc = pc /\ q.pending = pending /\ q.worker = worker /\ q.constructing = constructing
          /\ q.activeJobs = activeJobs /\ q.closing = closing /\ q.leases = leases /\ q.admQueue = admQueue
          /\ q.holder = [holder EXCEPT ![h] = y]
      BY <2>4 DEF Now
    <3>3. Coherent(q, oneShot)
      <4> DEFINE p == Now
      <4>1. /\ q.pc = p.pc /\ q.pending = p.pending /\ q.worker = p.worker /\ q.constructing = p.constructing
            /\ q.activeJobs = p.activeJobs /\ q.closing = p.closing /\ q.leases = p.leases /\ q.admQueue = p.admQueue
            /\ Coherent(p, oneShot)
        BY <3>2 DEF Now
      <4> HIDE DEF p
      <4> QED BY <3>1, <4>1, SideCoherent
    <3>4. HeldIn(q) = Held \ {h} /\ \A g \in Holders : holder[g] = "releasing" => q.holder[g] = "releasing"
      BY <1>3, <3>2 DEF HeldIn, Held
    <3> QED BY <3>1, <3>2, <3>3, <3>4
  <2>5. CASE retentions # 1
    <3>1. PICK q : q = [Now EXCEPT !.holder[h] = "released"]
      OBVIOUS
    <3>2. /\ Coherent(q, oneShot) /\ HeldIn(q) = Held \ {h} /\ q.worker = worker
          /\ \A g \in Holders : holder[g] = "releasing" => q.holder[g] = "releasing"
      BY <2>4, <3>1
    <3>3. Continue(q)
      BY <2>1, <2>5, <3>1
    <3> QED BY <2>1, <2>3, <3>2, <3>3, HandsOver
  <2>6. CASE retentions = 1
    <3>1. PICK q : q = [Now EXCEPT !.holder[h] = "releasing"]
      OBVIOUS
    <3>2. /\ Coherent(q, oneShot) /\ HeldIn(q) = Held \ {h} /\ q \in PoolState
          /\ \A g \in Holders : holder[g] = "releasing" => q.holder[g] = "releasing"
          /\ q.worker = worker /\ q.pc = pc /\ q.constructing = constructing
      BY <2>4, <3>1
    <3> DEFINE idle == {s \in Jobs : worker[s] = Idle}
               waiting == {j \in constructing : pc[j] = "admission"}
               queued == {j \in Jobs : pc[j] = "queued"}
               c == [j \in Jobs |-> IF j \in waiting THEN "rejected"
                                    ELSE IF j \in queued THEN "failed" ELSE q.pc[j]]
               w == [s \in Jobs |-> IF s \in idle THEN None ELSE q.worker[s]]
               a == Without(q.admQueue, waiting)
               l == q.leases \ idle
               r == [q EXCEPT !.closing = TRUE, !.pending = <<>>, !.admQueue = a,
                              !.worker = w, !.leases = l, !.pc = c]
    <3>3. BeginClose(q) = Disowned(r, constructing)
      BY DEF BeginClose
    <3>4. /\ c \in [Jobs -> Places] /\ w \in [Jobs -> Jobs \cup {None, Idle}] /\ a \in Seq(Jobs)
          /\ l \subseteq Jobs
      <4>1. a \in Seq(Jobs)
        <5>1. q.admQueue \in Seq(Jobs) /\ Queue(q.admQueue, At(q, "admission"))
          BY <3>2 DEF Coherent, Queues, PoolState
        <5> HIDE DEF waiting
        <5> QED BY <5>1, WithoutQueue
      <4>2. l \subseteq Jobs
        BY <3>2 DEF PoolState
      <4>3. c \in [Jobs -> Places]
        BY <3>2 DEF Places, Waits, Settled
      <4>4. w \in [Jobs -> Jobs \cup {None, Idle}]
        BY <3>2
      <4> QED BY <4>1, <4>2, <4>3, <4>4
    <3> HIDE DEF c, w, a, l
    <3>5. /\ r \in PoolState /\ r.pc = c /\ r.pending = <<>> /\ r.admQueue = a /\ r.worker = w /\ r.leases = l
          /\ r.constructing = q.constructing /\ r.activeJobs = q.activeJobs /\ r.closing = TRUE
          /\ r.holder = q.holder
      <4>1. <<>> \in Seq(Jobs) OBVIOUS
      <4> QED BY <3>2, <3>4, <4>1 DEF PoolState
    <3> HIDE DEF r
    <3>6. /\ waiting \in SUBSET Jobs /\ idle \in SUBSET Jobs
          /\ \A j \in Jobs : j \in waiting <=> j \in q.constructing /\ q.pc[j] = "admission"
          /\ \A s \in Jobs : s \in idle <=> q.worker[s] = Idle
      BY <3>2
    <3>7. \A j \in Jobs : c[j] = IF j \in waiting THEN "rejected"
                               ELSE IF q.pc[j] = "queued" THEN "failed" ELSE q.pc[j]
      BY <3>2 DEF c
    <3>8. /\ a = Without(q.admQueue, waiting) /\ l = q.leases \ idle
          /\ \A s \in Jobs : w[s] = IF s \in idle THEN None ELSE q.worker[s]
      BY DEF a, w, l
    <3>9. Coherent(r, oneShot)
      <4> HIDE DEF waiting, idle
      <4>1. /\ \A j \in Jobs : r.pc[j] = IF j \in waiting THEN "rejected"
                                      ELSE IF q.pc[j] = "queued" THEN "failed" ELSE q.pc[j]
            /\ \A s \in Jobs : r.worker[s] = IF s \in idle THEN None ELSE q.worker[s]
            /\ r.pending = <<>> /\ r.admQueue = Without(q.admQueue, waiting)
            /\ r.leases = q.leases \ idle
            /\ r.constructing = q.constructing /\ r.activeJobs = q.activeJobs
        BY <3>5, <3>7, <3>8
      <4>2. Closed(q, r, waiting, idle)
        BY <3>5, <3>6, <4>1 DEF Closed
      <4> QED BY <3>2, <4>2, BeginCloseCoherent
    <3> DEFINE p == Disowned(r, constructing)
    <3>10. Coherent(p, oneShot) /\ p.worker = w /\ p.holder = q.holder
      BY <3>5, <3>9, DisownedCoherent, DisownedFields
    <3>11. Slots(w) \subseteq Slots(worker)
      BY <3>2, <3>8 DEF Slots
    <3>12. Continue(p)
      BY <2>1, <2>6, <3>1, <3>3
    <3> HIDE DEF p
    <3>13. HeldIn(p) = Held \ {h} /\ \A g \in Holders : holder[g] = "releasing" => p.holder[g] = "releasing"
      BY <3>2, <3>10 DEF HeldIn
    <3> QED BY <2>1, <2>3, <3>10, <3>11, <3>12, <3>13, HandsOver
  <2> QED BY <2>5, <2>6
<1> QED BY <1>2, <1>3 DEF Release

\* The handlers edit Now; these are the fields they leave alone.
LEMMA NowFields ==
  /\ Now.pc = pc /\ Now.pending = pending /\ Now.worker = worker /\ Now.constructing = constructing
  /\ Now.activeJobs = activeJobs /\ Now.closing = closing /\ Now.holder = holder
  /\ Now.leases = leases /\ Now.admQueue = admQueue /\ Now.module = module /\ Now.owners = owners
BY DEF Now

\* What acquire() leaves behind: a reservation, or a place in the queue for one.
AcquiresOne(r, j, y) ==
  /\ Moved(Now, r, j, y) /\ r.pending = pending /\ r.worker = worker
  /\ r.constructing = constructing /\ r.activeJobs = activeJobs /\ r.closing = closing
  /\ r.holder = holder
  /\ \/ /\ y = "admitted" /\ Cardinality(leases) < Limit
        /\ r.leases = leases \cup {j} /\ r.admQueue = admQueue
     \/ /\ y = "admission" /\ r.leases = leases /\ r.admQueue = Append(admQueue, j)

LEMMA AcquireFields ==
  ASSUME PoolInv, NEW j \in Jobs
  PROVE  \E y \in {"admitted", "admission"} : AcquiresOne(Acquire(Now, j), j, y)
<1> USE NowTypes, NowFields
<1> DEFINE r == Acquire(Now, j)
<1>1. CASE Cardinality(leases) < Limit
  <2> DEFINE a == leases \cup {j}
  <2>1. r = [Now EXCEPT !.pc[j] = "admitted", !.leases = a] /\ a = leases \cup {j}
    BY <1>1 DEF Acquire
  <2> HIDE DEF a, r
  <2>2. /\ Moved(Now, r, j, "admitted") /\ r.pending = pending /\ r.worker = worker
        /\ r.constructing = constructing /\ r.activeJobs = activeJobs /\ r.closing = closing
        /\ r.holder = holder /\ r.leases = a /\ r.admQueue = admQueue
    BY <2>1 DEF Now, Moved, PoolState, Places, Waits
  <2>3. AcquiresOne(r, j, "admitted")
    BY <1>1, <2>1, <2>2 DEF AcquiresOne
  <2> QED BY <2>3 DEF r
<1>2. CASE ~(Cardinality(leases) < Limit)
  <2> DEFINE a == Append(admQueue, j)
  <2>1. r = [Now EXCEPT !.pc[j] = "admission", !.admQueue = Append(@, j)]
    BY <1>2 DEF Acquire
  <2>2. /\ r = [Now EXCEPT !.pc[j] = "admission", !.admQueue = a] /\ a \in Seq(Jobs)
        /\ a = Append(admQueue, j)
    BY <2>1 DEF Now
  <2> HIDE DEF a, r
  <2>3. /\ Moved(Now, r, j, "admission") /\ r.pending = pending /\ r.worker = worker
        /\ r.constructing = constructing /\ r.activeJobs = activeJobs /\ r.closing = closing
        /\ r.holder = holder /\ r.leases = leases /\ r.admQueue = a
    BY <2>2 DEF Now, Moved, PoolState, Places, Waits
  <2>4. AcquiresOne(r, j, "admission")
    BY <2>2, <2>3 DEF AcquiresOne
  <2> QED BY <2>4 DEF r
<1> QED BY <1>1, <1>2

LEMMA SubmitKeeps ==
  ASSUME PoolInv, NEW j \in Jobs, Submit(j)
  PROVE  PoolInv' /\ EpochStep
<1> USE NowTypes, NowFields
<1>1. pc[j] = "new" /\ aborted' = aborted /\ retentions' = retentions
  BY DEF Submit
<1>2. CASE Continue(Fail(Now, j)) /\ UNCHANGED oneShot
  <2> DEFINE r == Fail(Now, j)
  <2>1. /\ Moved(Now, r, j, "failed") /\ r.pending = pending /\ r.worker = worker
        /\ r.constructing = constructing /\ r.activeJobs = activeJobs /\ r.closing = closing
        /\ r.leases = leases /\ r.admQueue = admQueue /\ r.holder = holder
    BY DEF Now, Fail, Moved, PoolState, Places, Settled
  <2> HIDE DEF r
  <2>2. Coherent(r, oneShot)
    <3> DEFINE p == Now
    <3>1. /\ p.pc[j] = "new" /\ Coherent(p, oneShot) /\ Moved(p, r, j, "failed")
          /\ r.pending = p.pending /\ r.worker = p.worker /\ r.constructing = p.constructing
          /\ r.activeJobs = p.activeJobs /\ r.closing = p.closing
          /\ r.leases = p.leases /\ r.admQueue = p.admQueue
      BY <1>1, <2>1
    <3> HIDE DEF p
    <3> QED BY <3>1, GivesUp
  <2>3. Continue(r) /\ oneShot' = oneShot
    BY <1>2 DEF r
  <2> QED BY <1>1, <2>1, <2>2, <2>3, HandsOn
<1>3. CASE /\ ~closing /\ UNCHANGED oneShot
           /\ Continue([Now EXCEPT !.pc[j] = "queued", !.pending = Append(@, j)])
  <2> DEFINE a == Append(pending, j)
             r == [Now EXCEPT !.pc[j] = "queued", !.pending = Append(@, j)]
  <2>0. r = [Now EXCEPT !.pc[j] = "queued", !.pending = a] /\ a \in Seq(Jobs)
    BY DEF Now
  <2> HIDE DEF a
  <2>1. /\ Moved(Now, r, j, "queued") /\ r.pending = a /\ r.worker = worker
        /\ r.constructing = constructing /\ r.activeJobs = activeJobs /\ r.closing = closing
        /\ r.leases = leases /\ r.admQueue = admQueue /\ r.holder = holder
    <3> HIDE DEF r
    <3> QED BY <2>0 DEF Now, Moved, PoolState, Places, Waits
  <2>2. Continue(r) /\ oneShot' = oneShot
    BY <1>3
  <2> HIDE DEF r
  <2>3. Coherent(r, oneShot)
    <3>1. a = Append(Now.pending, j) /\ Now.pc[j] = "new" /\ ~Now.closing
      BY <1>1, <1>3 DEF a
    <3> QED BY <2>1, <3>1, QueuedCoherent
  <2> QED BY <1>1, <2>1, <2>2, <2>3, HandsOn
<1>4. CASE Continue(Acquire(Now, j)) /\ oneShot' = oneShot \cup {j}
  <2> DEFINE r == Acquire(Now, j)
  <2>1. PICK y \in {"admitted", "admission"} : AcquiresOne(r, j, y)
    BY AcquireFields
  <2>2. Continue(r) /\ oneShot' = oneShot \cup {j}
    BY <1>4
  <2> HIDE DEF r
  <2>3. Coherent(r, oneShot')
    <3> DEFINE p == Now
               two == oneShot'
    <3>1. /\ p.pc[j] = "new" /\ two = oneShot \cup {j} /\ Coherent(p, oneShot) /\ Moved(p, r, j, y)
          /\ r.pending = p.pending /\ r.worker = p.worker /\ r.constructing = p.constructing
          /\ r.activeJobs = p.activeJobs /\ r.closing = p.closing
          /\ \/ /\ y = "admitted" /\ Cardinality(p.leases) < Limit
                /\ r.leases = p.leases \cup {j} /\ r.admQueue = p.admQueue
             \/ /\ y = "admission" /\ r.leases = p.leases /\ r.admQueue = Append(p.admQueue, j)
      BY <1>1, <2>1, <2>2 DEF AcquiresOne
    <3> HIDE DEF p, two
    <3>2. Acquired(p, r, j, y, oneShot, two)
      BY <3>1 DEF Acquired
    <3>3. Coherent(r, two)
      BY <3>1, <3>2, AcquireCoherent
    <3> QED BY <3>3 DEF two
  <2>4. r.holder = holder /\ r.worker = worker
    BY <2>1 DEF AcquiresOne
  <2> QED BY <1>1, <2>2, <2>3, <2>4, HandsOn
<1> QED BY <1>2, <1>3, <1>4 DEF Submit

LEMMA DisownsOn ==
  ASSUME PoolInv, NEW r, Coherent(r, oneShot), NEW S, Continue(Disowned(r, S)),
         UNCHANGED <<oneShot, retentions>>, aborted' \subseteq Jobs,
         r.holder = holder, closing /\ r.closing => Slots(r.worker) \subseteq Slots(worker)
  PROVE  PoolInv' /\ EpochStep
<1> DEFINE p == Disowned(r, S)
<1>1. Coherent(p, oneShot) /\ p.closing = r.closing /\ p.holder = r.holder /\ p.worker = r.worker
  <2>1. r \in PoolState
    BY DEF Coherent
  <2> QED BY <2>1, DisownedCoherent, DisownedFields
<1> HIDE DEF p
<1>2. Continue(p) /\ oneShot' = oneShot /\ retentions' = retentions
  BY DEF p
<1> QED BY <1>1, <1>2, HandsOn

LEMMA AbortKeeps ==
  ASSUME PoolInv, NEW j \in Jobs, Abort(j)
  PROVE  PoolInv' /\ EpochStep
<1> USE NowTypes, NowFields
<1>1. aborted' = aborted \cup {j} /\ aborted' \subseteq Jobs /\ oneShot' = oneShot /\ retentions' = retentions
  BY DEF Abort
<1>2. CASE pc[j] = "queued"
  <2> DEFINE a == Without(pending, {j})
             r == Fail([Now EXCEPT !.pending = Without(@, {j})], j)
  <2>1. a \in Seq(Jobs)
    <3>1. Queue(pending, At(Now, "queued"))
      BY DEF Coherent, Queues
    <3> QED BY <3>1, WithoutQueue
  <2>2. r = [Now EXCEPT !.pending = a, !.pc[j] = "failed"]
    BY DEF Now, Fail
  <2>3. Continue(r) /\ a = Without(pending, {j})
    BY <1>2 DEF Abort
  <2> HIDE DEF r, a
  <2>4. /\ Moved(Now, r, j, "failed") /\ r.pending = a /\ r.worker = worker
        /\ r.constructing = constructing /\ r.activeJobs = activeJobs /\ r.closing = closing
        /\ r.leases = leases /\ r.admQueue = admQueue /\ r.holder = holder
    BY <2>1, <2>2 DEF Now, Moved, PoolState, Places, Settled
  <2>5. Coherent(r, oneShot)
    BY <1>2, <2>3, <2>4, LeavesQueue
  <2> QED BY <1>1, <2>3, <2>4, <2>5, HandsOn
<1>3. CASE pc[j] = "module"
  <2>1. Continue(Disowned(Now, {j}))
    BY <1>3 DEF Abort
  <2> QED BY <1>1, <2>1, DisownsOn
<1>4. CASE pc[j] = "admission"
  <2> DEFINE a == Without(admQueue, {j})
             y == IF j \in oneShot THEN "failed" ELSE "rejected"
             r == [Now EXCEPT !.admQueue = Without(@, {j}),
                              !.pc[j] = IF j \in oneShot THEN "failed" ELSE "rejected"]
  <2>1. a \in Seq(Jobs)
    <3>1. Queue(admQueue, At(Now, "admission"))
      BY DEF Coherent, Queues
    <3> QED BY <3>1, WithoutQueue
  <2>2. r = [Now EXCEPT !.admQueue = a, !.pc[j] = y]
    BY DEF Now
  <2>3. Continue(r) /\ a = Without(admQueue, {j})
    BY <1>4 DEF Abort
  <2>4. y \in Places /\ y = IF j \in oneShot THEN "failed" ELSE "rejected"
    BY DEF Places, Waits, Settled
  <2> HIDE DEF r, a, y
  <2>5. /\ Moved(Now, r, j, y) /\ r.pending = pending /\ r.worker = worker
        /\ r.constructing = constructing /\ r.activeJobs = activeJobs /\ r.closing = closing
        /\ r.leases = leases /\ r.admQueue = a /\ r.holder = holder
    BY <2>1, <2>2, <2>4 DEF Now, Moved, PoolState
  <2>6. Coherent(r, oneShot)
    <3> DEFINE p == Now
    <3>1. /\ p.pc[j] = "admission" /\ Coherent(p, oneShot) /\ Moved(p, r, j, y)
          /\ y = (IF j \in oneShot THEN "failed" ELSE "rejected")
          /\ r.pending = p.pending /\ r.admQueue = Without(p.admQueue, {j})
          /\ r.worker = p.worker /\ r.constructing = p.constructing
          /\ r.activeJobs = p.activeJobs /\ r.closing = p.closing /\ r.leases = p.leases
      BY <1>4, <2>3, <2>4, <2>5
    <3> HIDE DEF p
    <3> QED BY <3>1, LeavesQueue
  <2> QED BY <1>1, <2>3, <2>5, <2>6, HandsOn
<1>5. CASE UNCHANGED poolVars
  <2>1. UNCHANGED <<pc, pending, worker, constructing, activeJobs, closing, holder,
                    leases, admQueue, module, owners, oneShot, retentions>>
    BY <1>1, <1>5 DEF poolVars
  <2>2. Now' = Now
    BY <2>1 DEF Now
  <2>3. Coherent(Now', oneShot')
    BY <2>1, <2>2
  <2>4. NoLostWakeup' /\ Held' = Held
    BY <2>1 DEF PoolInv, NoLostWakeup, Slots, Held
  <2>5. EpochStep
    BY <2>1 DEF EpochStep
  <2> QED BY <1>1, <2>1, <2>3, <2>4, <2>5 DEF PoolInv
<1> QED BY <1>2, <1>3, <1>4, <1>5 DEF Abort

LEMMA ModuleTimeoutKeeps ==
  ASSUME PoolInv, NEW j \in Jobs, ModuleTimeout(j)
  PROVE  PoolInv' /\ EpochStep
<1> USE NowTypes, NowFields
<1> DEFINE r == [Now EXCEPT !.pc[j] = "rejected"]
<1>1. /\ pc[j] = "module" /\ Continue(Disowned(r, {j})) /\ aborted' = aborted
      /\ oneShot' = oneShot /\ retentions' = retentions
  BY DEF ModuleTimeout
<1>2. /\ Moved(Now, r, j, "rejected") /\ r.pending = pending /\ r.worker = worker
      /\ r.constructing = constructing /\ r.activeJobs = activeJobs /\ r.closing = closing
      /\ r.leases = leases /\ r.admQueue = admQueue /\ r.holder = holder
  BY DEF Now, Moved, PoolState, Places, Waits
<1> HIDE DEF r
<1>3. Coherent(r, oneShot)
  BY <1>1, <1>2, GivesUp
<1> QED BY <1>1, <1>2, <1>3, DisownsOn

LEMMA LoadSettlesKeeps ==
  ASSUME PoolInv, NEW ok \in BOOLEAN, LoadSettles(ok)
  PROVE  PoolInv' /\ EpochStep
<1> USE NowTypes, NowFields
<1> DEFINE m == IF ok THEN "cached" ELSE "none"
           c == [j \in Jobs |-> IF pc[j] # "module" THEN pc[j]
                                ELSE IF ok /\ j \in owners THEN "ready" ELSE "rejected"]
           r == [Now EXCEPT !.module = m, !.owners = {}, !.pc = c]
           q == [Now EXCEPT
                  !.module = IF ok THEN "cached" ELSE "none", !.owners = {},
                  !.pc = [j \in Jobs |-> IF @[j] # "module" THEN @[j]
                                         ELSE IF ok /\ j \in owners THEN "ready" ELSE "rejected"]]
<1>1. Continue(q) /\ aborted' = aborted /\ oneShot' = oneShot /\ retentions' = retentions
  BY DEF LoadSettles
<1>2. q = r
  BY DEF Now
<1>3. m \in {"none", "loading", "doomed", "cached"} /\ c \in [Jobs -> Places]
  BY DEF Places, Waits
<1>4. ASSUME NEW k \in Jobs PROVE c[k] = pc[k] \/ (pc[k] = "module" /\ c[k] \in {"ready", "rejected"})
  <2>1. c[k] = IF pc[k] # "module" THEN pc[k] ELSE IF ok /\ k \in owners THEN "ready" ELSE "rejected"
    OBVIOUS
  <2> HIDE DEF c
  <2>2. CASE pc[k] # "module" BY <2>1, <2>2
  <2>3. CASE pc[k] = "module" BY <2>1, <2>3
  <2> QED BY <2>2, <2>3
<1> HIDE DEF q, c, m
<1>5. /\ r \in PoolState /\ r.pc = c /\ r.pending = pending /\ r.worker = worker
      /\ r.constructing = constructing /\ r.activeJobs = activeJobs /\ r.closing = closing
      /\ r.leases = leases /\ r.admQueue = admQueue /\ r.holder = holder
  BY <1>3 DEF Now, PoolState
<1> HIDE DEF r
<1>6. Coherent(r, oneShot)
  BY <1>4, <1>5, LoadSettlesCoherent
<1> QED BY <1>1, <1>2, <1>5, <1>6, HandsOn

LEMMA UnbuiltOn ==
  ASSUME PoolInv, NEW j \in Jobs \ oneShot, pc[j] \in {"ready", "rejected", "admitted"},
         Continue(Unbuilt(j)), UNCHANGED <<aborted, oneShot, retentions>>
  PROVE  PoolInv' /\ EpochStep
<1> USE NowTypes, NowFields
<1> DEFINE r == [Fail(Now, j) EXCEPT !.constructing = @ \ {j}, !.leases = @ \ {j}]
           p == Now
<1>1. Continue(Disowned(r, {j})) /\ aborted' = aborted /\ oneShot' = oneShot /\ retentions' = retentions
  BY DEF Unbuilt
<1>2. /\ Moved(p, r, j, "failed") /\ r.pending = p.pending /\ r.worker = p.worker
      /\ r.constructing = p.constructing \ {j} /\ r.activeJobs = p.activeJobs /\ r.closing = p.closing
      /\ r.leases = p.leases \ {j} /\ r.admQueue = p.admQueue /\ r.holder = p.holder
  BY DEF Now, Fail, Moved, PoolState, Places, Settled
<1>3. r.worker = worker /\ r.holder = holder
  BY <1>2
<1>4. p.pc[j] \in {"ready", "rejected", "admitted"} /\ Coherent(p, oneShot)
  OBVIOUS
<1> HIDE DEF r, p
<1>5. Coherent(r, oneShot)
  BY <1>2, <1>4, UnbuiltCoherent
<1> QED BY <1>1, <1>3, <1>5, DisownsOn

\* The jobs whose place shows that they are not one-shot.
LEMMA Retained ==
  ASSUME PoolInv, NEW j \in Jobs, pc[j] \in {"ready", "rejected", "module"}
  PROVE  j \notin oneShot
BY NowFields DEF PoolInv, Coherent, Paths, Runs, Settled

LEMMA ReadyKeeps ==
  ASSUME PoolInv, NEW j \in Jobs, Ready(j)
  PROVE  PoolInv' /\ EpochStep
<1> USE NowTypes, NowFields
<1>1. pc[j] = "ready" /\ UNCHANGED <<aborted, oneShot, retentions>> /\ j \notin oneShot
  BY Retained DEF Ready
<1>2. CASE j \in aborted \/ closing
  <2>1. Continue(Unbuilt(j))
    BY <1>2 DEF Ready
  <2> QED BY <1>1, <2>1, UnbuiltOn
<1>3. CASE ~(j \in aborted \/ closing)
  <2> DEFINE r == Acquire(Now, j)
             p == Now
  <2>1. Continue(r)
    BY <1>3 DEF Ready
  <2>2. PICK y \in {"admitted", "admission"} : AcquiresOne(r, j, y)
    BY AcquireFields
  <2>3. /\ r.worker = worker /\ r.holder = holder
        /\ p.pc[j] = "ready" /\ Coherent(p, oneShot)
    BY <1>1, <2>2 DEF AcquiresOne
  <2>4. Acquired(p, r, j, y, oneShot, oneShot)
    <3> HIDE DEF r
    <3> QED BY <2>2, <2>3 DEF Acquired, AcquiresOne
  <2> HIDE DEF r, p
  <2>5. Coherent(r, oneShot)
    BY <2>3, <2>4, AcquireCoherent
  <2> QED BY <1>1, <2>1, <2>3, <2>5, HandsOn
<1> QED BY <1>2, <1>3

LEMMA RejectedKeeps ==
  ASSUME PoolInv, NEW j \in Jobs, Rejected(j)
  PROVE  PoolInv' /\ EpochStep
<1>1. pc[j] = "rejected" /\ UNCHANGED <<aborted, oneShot, retentions>> /\ j \notin oneShot /\ Continue(Unbuilt(j))
  BY Retained DEF Rejected
<1> QED BY <1>1, UnbuiltOn

LEMMA ConstructKeeps ==
  ASSUME PoolInv, NEW j \in Jobs, NEW made \in BOOLEAN, Construct(j, made)
  PROVE  PoolInv' /\ EpochStep
<1> USE NowTypes, NowFields
<1>1. pc[j] = "admitted" /\ j \notin oneShot /\ UNCHANGED <<aborted, oneShot, retentions>>
  BY DEF Construct
<1>2. CASE j \in aborted \/ closing \/ ~made
  <2>1. Continue(Unbuilt(j))
    BY <1>2 DEF Construct
  <2> QED BY <1>1, <2>1, UnbuiltOn
<1>3. CASE ~(j \in aborted \/ closing \/ ~made)
  <2> DEFINE r == [Now EXCEPT !.pc[j] = "working", !.worker[j] = j, !.activeJobs = @ + 1]
             w == [worker EXCEPT ![j] = j]
             n == activeJobs + 1
             p == Now
  <2>0. r = [Now EXCEPT !.pc[j] = "working", !.worker = w, !.activeJobs = n]
    BY DEF Now
  <2>1. Continue(r) /\ ~closing
    BY <1>3 DEF Construct
  <2>2. /\ Moved(p, r, j, "working") /\ r.pending = p.pending /\ r.worker = [p.worker EXCEPT ![j] = j]
        /\ r.constructing = p.constructing /\ r.activeJobs = p.activeJobs + 1 /\ r.closing = p.closing
        /\ r.leases = p.leases /\ r.admQueue = p.admQueue /\ r.holder = p.holder
    <3>1. w \in [Jobs -> Jobs \cup {None, Idle}] /\ n \in Int
      OBVIOUS
    <3>2. w = [p.worker EXCEPT ![j] = j] /\ n = p.activeJobs + 1
      OBVIOUS
    <3> HIDE DEF r, w, n
    <3>3. /\ Moved(p, r, j, "working") /\ r.pending = p.pending /\ r.worker = w
          /\ r.constructing = p.constructing /\ r.activeJobs = n /\ r.closing = p.closing
          /\ r.leases = p.leases /\ r.admQueue = p.admQueue /\ r.holder = p.holder
      BY <2>0, <3>1 DEF Now, Moved, PoolState, Places, Runs
    <3> QED BY <3>2, <3>3
  <2>3. p.pc[j] = "admitted" /\ Coherent(p, oneShot) /\ r.holder = holder
    BY <1>1, <2>2
  <2> HIDE DEF r, p
  <2>4. Coherent(r, oneShot)
    BY <1>1, <2>2, <2>3, ConstructCoherent
  <2> QED BY <1>1, <2>1, <2>3, <2>4, HandsOn
<1> QED BY <1>2, <1>3

LEMMA StartOneShotKeeps ==
  ASSUME PoolInv, NEW j \in Jobs, NEW made \in BOOLEAN, StartOneShot(j, made)
  PROVE  PoolInv' /\ EpochStep
<1> USE NowTypes, NowFields
<1> DEFINE p == Now
<1>1. pc[j] = "admitted" /\ j \in oneShot /\ UNCHANGED <<aborted, oneShot, retentions>>
  BY DEF StartOneShot
<1>2. p.pc[j] = "admitted" /\ Coherent(p, oneShot) /\ p.holder = holder /\ p.worker = worker
  BY <1>1
<1>3. CASE j \in aborted \/ ~made
  <2> DEFINE r == [Fail(Now, j) EXCEPT !.leases = @ \ {j}]
  <2>1. Continue(r)
    BY <1>3 DEF StartOneShot
  <2>2. /\ Moved(p, r, j, "failed") /\ r.pending = p.pending /\ r.worker = p.worker
        /\ r.constructing = p.constructing /\ r.activeJobs = p.activeJobs /\ r.closing = p.closing
        /\ r.leases = p.leases \ {j} /\ r.admQueue = p.admQueue /\ r.holder = p.holder
    BY DEF Now, Fail, Moved, PoolState, Places, Settled
  <2> HIDE DEF r, p
  <2>3. "failed" \in Settled
    BY DEF Settled
  <2>4. Coherent(r, oneShot)
    BY <1>1, <1>2, <2>2, <2>3, FinishCoherent
  <2> QED BY <1>1, <1>2, <2>1, <2>2, <2>4, HandsOn
<1>4. CASE ~(j \in aborted \/ ~made)
  <2> DEFINE r == [Now EXCEPT !.pc[j] = "working"]
  <2>1. Continue(r)
    BY <1>4 DEF StartOneShot
  <2>2. /\ Moved(p, r, j, "working") /\ r.pending = p.pending /\ r.worker = p.worker
        /\ r.constructing = p.constructing /\ r.activeJobs = p.activeJobs /\ r.closing = p.closing
        /\ r.leases = p.leases /\ r.admQueue = p.admQueue /\ r.holder = p.holder
    BY DEF Now, Moved, PoolState, Places, Runs
  <2> HIDE DEF r, p
  <2>3. Coherent(r, oneShot)
    BY <1>1, <1>2, <2>2, StartOneShotCoherent
  <2> QED BY <1>1, <1>2, <2>1, <2>2, <2>3, HandsOn
<1> QED BY <1>3, <1>4

LEMMA WorkDoneKeeps ==
  ASSUME PoolInv, NEW j \in Jobs, WorkDone(j)
  PROVE  PoolInv' /\ EpochStep
<1> USE NowTypes, NowFields
<1> DEFINE p == Now
           r == Now'
<1>1. /\ pc[j] = "working" /\ pc' = [pc EXCEPT ![j] = "residual"]
      /\ UNCHANGED <<aborted, oneShot, pending, worker, constructing, activeJobs, retentions,
                     closing, holder, leases, admQueue, module, owners>>
  BY DEF WorkDone
<1>2. /\ Moved(p, r, j, "residual") /\ r.pending = p.pending /\ r.worker = p.worker
      /\ r.constructing = p.constructing /\ r.activeJobs = p.activeJobs /\ r.closing = p.closing
      /\ r.leases = p.leases /\ r.admQueue = p.admQueue
  BY <1>1 DEF Now, Moved, PoolState, Places, Runs
<1>3. p.pc[j] = "working" /\ Coherent(p, oneShot)
  BY <1>1
<1> HIDE DEF p, r
<1>4. Coherent(r, oneShot)
  <2>1. p \in PoolState /\ p.pc \in [Jobs -> Places] /\ Paths(p, oneShot) /\ Leased(p, oneShot) /\ Realms(p, oneShot)
    BY <1>3 DEF Coherent, PoolState
  <2>2. \A k \in Jobs : r.pc[k] \in Runs <=> p.pc[k] \in Runs
    BY <1>2, <1>3, <2>1 DEF Moved, Runs
  <2>3. Paths(r, oneShot)
    <3>1. "residual" \in Runs /\ "residual" \notin Building /\ p.pc[j] \in Runs
      BY <1>3 DEF Runs, Building
    <3>2. r.pc[j] = "residual" /\ \A k \in Jobs \ {j} : r.pc[k] = p.pc[k]
      BY <1>2, <2>1 DEF Moved
    <3>3. r.constructing = p.constructing /\ r.worker = p.worker /\ r.constructing \subseteq Jobs
      BY <1>2 DEF Moved, PoolState
    <3> QED BY <2>1, <3>1, <3>2, <3>3 DEF Paths
  <2>4. Queues(r)
    BY <1>2, <1>3, MovedQueues
  <2>5. Leased(r, oneShot)
    <3>1. At(r, "admitted") = At(p, "admitted")
      BY <1>2, <1>3, <2>1 DEF At, Moved
    <3>2. {k \in oneShot : r.pc[k] \in Runs} = {k \in oneShot : p.pc[k] \in Runs}
      BY <2>1, <2>2 DEF Paths
    <3> QED BY <1>2, <2>1, <3>1, <3>2 DEF Leased
  <2>6. Realms(r, oneShot)
    <3>1. Running(r, oneShot) = Running(p, oneShot)
      BY <2>2 DEF Running
    <3> QED BY <1>2, <2>1, <3>1 DEF Realms
  <2> QED BY <1>2, <2>3, <2>4, <2>5, <2>6 DEF Coherent, Moved
<1>5. Coherent(Now', oneShot')
  BY <1>1, <1>4 DEF r
<1>6. NoLostWakeup' /\ Held' = Held
  BY <1>1 DEF PoolInv, NoLostWakeup, Slots, Held
<1>7. EpochStep
  BY <1>1 DEF EpochStep
<1> QED BY <1>1, <1>5, <1>6, <1>7 DEF PoolInv

LEMMA ExecuteKeeps ==
  ASSUME PoolInv, NEW j \in Jobs, NEW reset \in BOOLEAN, Execute(j, reset)
  PROVE  PoolInv' /\ EpochStep
<1> USE NowTypes, NowFields
<1> DEFINE kept == pc[j] = "residual" /\ ~closing /\ retentions > 0 /\ j \notin aborted /\ reset
           p == Now
           u == SlotOf(j)
           y == Outcome(j)
           z == IF kept THEN Idle ELSE None
           l == IF kept THEN leases ELSE leases \ {u}
           w == [worker EXCEPT ![u] = z]
           n == activeJobs - 1
           r == [Now EXCEPT !.pc[j] = y, !.activeJobs = n, !.worker = w, !.leases = l]
<1>1. /\ pc[j] \in Runs /\ j \notin oneShot /\ UNCHANGED <<aborted, oneShot, retentions>>
      /\ Continue([Now EXCEPT !.pc[j] = Outcome(j), !.activeJobs = @ - 1,
                              !.worker[SlotOf(j)] = IF kept THEN Idle ELSE None,
                              !.leases = IF kept THEN @ ELSE @ \ {SlotOf(j)}])
  BY DEF Execute
<1>2. Continue(r)
  <2>1. r = [Now EXCEPT !.pc[j] = Outcome(j), !.activeJobs = @ - 1,
                        !.worker[SlotOf(j)] = IF kept THEN Idle ELSE None,
                        !.leases = IF kept THEN @ ELSE @ \ {SlotOf(j)}]
    <3> HIDE DEF kept
    <3> QED BY DEF Now
  <2> HIDE DEF kept, r
  <2> QED BY <1>1, <2>1
<1>3. u \in Jobs /\ worker[u] = j
  <2>1. j \in Running(Now, oneShot)
    BY <1>1 DEF Running
  <2>2. \E s \in Jobs : worker[s] = j
    BY <2>1 DEF Coherent, Realms
  <2> QED BY <2>2 DEF SlotOf
<1>4. y \in Settled /\ y \in Places /\ z \in {Idle, None} /\ l \subseteq Jobs
  BY DEF Outcome, Settled, Places
<1>5. \/ z = Idle /\ l = leases
      \/ z = None /\ l = leases \ {u}
  <2> HIDE DEF kept
  <2> QED OBVIOUS
<1>6. p.pc[j] \in Runs /\ p.worker[u] = j /\ Coherent(p, oneShot) /\ p.holder = holder /\ p.worker = worker
  BY <1>1, <1>3
<1> HIDE DEF kept, u, y, z, l
<1>7. /\ w \in [Jobs -> Jobs \cup {None, Idle}] /\ n \in Int
      /\ w = [p.worker EXCEPT ![u] = z] /\ n = p.activeJobs - 1
  BY <1>3, <1>4
<1> HIDE DEF w, n
<1>8. /\ Moved(p, r, j, y) /\ r.pending = p.pending /\ r.worker = w
      /\ r.constructing = p.constructing /\ r.activeJobs = n /\ r.closing = p.closing
      /\ r.leases = l /\ r.admQueue = p.admQueue /\ r.holder = p.holder
  BY <1>4, <1>7 DEF Now, Moved, PoolState
<1>9. /\ Moved(p, r, j, y) /\ r.pending = p.pending /\ r.worker = [p.worker EXCEPT ![u] = z]
      /\ r.constructing = p.constructing /\ r.activeJobs = p.activeJobs - 1 /\ r.closing = p.closing
      /\ r.leases = l /\ r.admQueue = p.admQueue /\ r.holder = p.holder
  <2> HIDE DEF p, r
  <2> QED BY <1>7, <1>8
<1>10. \/ r.worker = [p.worker EXCEPT ![u] = Idle] /\ r.leases = p.leases
       \/ r.worker = [p.worker EXCEPT ![u] = None] /\ r.leases = p.leases \ {u}
  <2>1. p.leases = leases
    OBVIOUS
  <2> HIDE DEF p, r
  <2> QED BY <1>5, <1>9, <2>1
<1>11. Slots(r.worker) \subseteq Slots(worker)
  <2>1. None \notin Jobs
    BY PoolAssumption
  <2>2. u \in Slots(worker)
    BY <1>3, <2>1 DEF Slots
  <2> QED BY <1>3, <1>6, <1>9, <2>2 DEF Slots
<1> HIDE DEF p, r
<1>12. Coherent(r, oneShot)
  <2>1. Ran(p, r, j, u, y)
    BY <1>4, <1>9, <1>10 DEF Ran
  <2> QED BY <1>1, <1>3, <1>6, <2>1, ExecuteCoherent
<1> QED BY <1>1, <1>2, <1>6, <1>9, <1>11, <1>12, HandsOn

LEMMA FinishOneShotKeeps ==
  ASSUME PoolInv, NEW j \in Jobs, FinishOneShot(j)
  PROVE  PoolInv' /\ EpochStep
<1> USE NowTypes, NowFields
<1> DEFINE p == Now
           y == Outcome(j)
           r == [Now EXCEPT !.pc[j] = y, !.leases = @ \ {j}]
<1>1. pc[j] \in Runs /\ j \in oneShot /\ UNCHANGED <<aborted, oneShot, retentions>> /\ Continue(r)
  BY DEF FinishOneShot
<1>2. y \in Settled /\ y \in Places
  BY DEF Outcome, Settled, Places
<1> HIDE DEF y
<1>3. /\ Moved(p, r, j, y) /\ r.pending = p.pending /\ r.worker = p.worker
      /\ r.constructing = p.constructing /\ r.activeJobs = p.activeJobs /\ r.closing = p.closing
      /\ r.leases = p.leases \ {j} /\ r.admQueue = p.admQueue /\ r.holder = p.holder
  BY <1>2 DEF Now, Moved, PoolState
<1>4. p.pc[j] \in Runs /\ Coherent(p, oneShot) /\ p.holder = holder /\ p.worker = worker
  BY <1>1
<1> HIDE DEF p, r
<1>5. Coherent(r, oneShot)
  BY <1>1, <1>2, <1>3, <1>4, FinishCoherent
<1> QED BY <1>1, <1>3, <1>4, <1>5, HandsOn

LEMMA UnwindKeeps ==
  ASSUME PoolInv, NEW j \in Jobs, Unwind(j)
  PROVE  PoolInv' /\ EpochStep
<1> USE NowTypes, NowFields
<1> DEFINE p == Now
           r == [Now EXCEPT !.constructing = @ \ {j}]
<1>1. pc[j] \in Settled /\ UNCHANGED <<aborted, oneShot, retentions>> /\ Continue(r)
  BY DEF Unwind
<1>2. /\ r \in PoolState /\ r.pc = p.pc /\ r.pending = p.pending /\ r.worker = p.worker
      /\ r.constructing = p.constructing \ {j} /\ r.activeJobs = p.activeJobs /\ r.closing = p.closing
      /\ r.leases = p.leases /\ r.admQueue = p.admQueue /\ r.holder = p.holder
  BY DEF Now, PoolState
<1>3. p.pc[j] \in Settled /\ Coherent(p, oneShot) /\ p.holder = holder /\ p.worker = worker
  BY <1>1
<1> HIDE DEF p, r
<1>4. Coherent(r, oneShot)
  BY <1>2, <1>3, UnwindCoherent
<1> QED BY <1>1, <1>2, <1>3, <1>4, HandsOn

-----------------------------------------------------------------------------
(* The specification. *)

LEMMA InitPool == ASSUME Init PROVE PoolInv
<1>1. IsFiniteSet({}) /\ Cardinality({}) = 0
  BY FS_EmptySet
<1>2. Now \in PoolState
  <2>1. "new" \in Places /\ None \in Jobs \cup {None, Idle}
    BY DEF Places
  <2>2. /\ pc \in [Jobs -> Places] /\ worker \in [Jobs -> Jobs \cup {None, Idle}]
        /\ holder \in [Holders -> {"new", "held", "noop", "releasing", "released"}]
    BY <2>1 DEF Init
  <2>3. pending \in Seq(Jobs) /\ admQueue \in Seq(Jobs) /\ activeJobs \in Int
    BY DEF Init
  <2>4. /\ constructing \subseteq Jobs /\ leases \subseteq Jobs /\ owners \subseteq Jobs
        /\ closing \in BOOLEAN /\ module = "none"
    BY DEF Init
  <2> QED BY <2>2, <2>3, <2>4 DEF Now, PoolState
<1>3. Paths(Now, oneShot)
  BY DEF Init, Now, Paths, Building
<1>4. Queues(Now)
  BY DEF Init, Now, Queues, Queue, At
<1>5. Leased(Now, oneShot)
  <2>1. Slots(worker) = {} /\ At(Now, "admitted") = {} /\ oneShot = {} /\ leases = {}
    BY DEF Init, Now, Slots, At
  <2>2. Limit \in Nat
    BY PoolAssumption
  <2> QED BY <1>1, <2>1, <2>2 DEF Now, Leased
<1>6. Realms(Now, oneShot)
  <2>1. Running(Now, oneShot) = {} /\ \A s \in Jobs : worker[s] = None
    BY DEF Init, Now, Running, Runs
  <2>2. None \notin Jobs /\ activeJobs = 0
    BY PoolAssumption DEF Init
  <2> QED BY <1>1, <2>1, <2>2 DEF Now, Realms
<1>7. retentions = Cardinality(Held)
  <2>1. Held = {} /\ retentions = 0
    BY DEF Init, Held
  <2> QED BY <1>1, <2>1
<1> QED BY <1>2, <1>3, <1>4, <1>5, <1>6, <1>7 DEF Init, PoolInv, Coherent, NoLostWakeup

LEMMA StutterKeeps == ASSUME PoolInv, UNCHANGED vars PROVE PoolInv' /\ EpochStep
<1>1. /\ UNCHANGED <<pc, pending, worker, constructing, activeJobs, closing, holder>>
      /\ UNCHANGED <<leases, admQueue, module, owners, aborted, oneShot, retentions>>
  BY DEF vars, poolVars
<1>2. Now' = Now /\ Held' = Held
  BY <1>1 DEF Now, Held
<1>3. Coherent(Now, oneShot)' /\ NoLostWakeup'
  BY <1>1, <1>2 DEF PoolInv, NoLostWakeup, Slots
<1> QED BY <1>1, <1>2, <1>3 DEF PoolInv, EpochStep

LEMMA StepKeeps == ASSUME PoolInv, [Next]_vars PROVE PoolInv' /\ EpochStep
<1>1. ASSUME NEW h \in Holders, Retain(h) \/ Release(h) PROVE PoolInv' /\ EpochStep
  BY <1>1, RetainKeeps, ReleaseKeeps
<1>2. ASSUME NEW j \in Jobs, Submit(j) \/ Abort(j) \/ Unwind(j) PROVE PoolInv' /\ EpochStep
  BY <1>2, SubmitKeeps, AbortKeeps, UnwindKeeps
<1>3. ASSUME NEW j \in Jobs, JobStep(j) PROVE PoolInv' /\ EpochStep
  <2>1. CASE ModuleTimeout(j) \/ Ready(j) \/ Rejected(j)
    BY <2>1, ModuleTimeoutKeeps, ReadyKeeps, RejectedKeeps
  <2>2. CASE \E made \in BOOLEAN : Construct(j, made) \/ StartOneShot(j, made)
    BY <2>2, ConstructKeeps, StartOneShotKeeps
  <2>3. CASE WorkDone(j) \/ FinishOneShot(j)
    BY <2>3, WorkDoneKeeps, FinishOneShotKeeps
  <2>4. CASE \E reset \in BOOLEAN : Execute(j, reset)
    BY <2>4, ExecuteKeeps
  <2> QED BY <1>3, <2>1, <2>2, <2>3, <2>4 DEF JobStep
<1>4. ASSUME NEW ok \in BOOLEAN, LoadSettles(ok) PROVE PoolInv' /\ EpochStep
  BY <1>4, LoadSettlesKeeps
<1>5. CASE UNCHANGED vars
  BY <1>5, StutterKeeps
<1> QED BY <1>1, <1>2, <1>3, <1>4, <1>5 DEF Next

\* The inductive invariant: the handlers and their continuations keep the paths
\* the jobs take apart, each queue equal to the jobs that wait in it, each
\* reservation with its Worker, and each realm with its one job.
THEOREM PoolAlways == Spec => []PoolInv
<1>1. Init => PoolInv
  BY InitPool
<1>2. PoolInv /\ [Next]_vars => PoolInv'
  BY StepKeeps
<1> QED BY <1>1, <1>2, PTL DEF Spec

\* The pool's fields keep their types: no more jobs are active than there are.
THEOREM TypeCorrect == Spec => []TypeOK
<1>1. ASSUME PoolInv PROVE TypeOK
  <2>1. /\ Running(Now, oneShot) \subseteq Jobs /\ IsFiniteSet(Jobs)
        /\ activeJobs = Cardinality(Running(Now, oneShot))
    BY <1>1, NowTypes, NowFields, PoolAssumption DEF Coherent, Realms, Running
  <2>2. activeJobs \in 0..Cardinality(Jobs)
    <3>1. /\ IsFiniteSet(Running(Now, oneShot))
          /\ Cardinality(Running(Now, oneShot)) <= Cardinality(Jobs)
      BY <2>1, FS_Subset
    <3>2. Cardinality(Running(Now, oneShot)) \in Nat /\ Cardinality(Jobs) \in Nat
      BY <2>1, <3>1, FS_CardinalityType
    <3> HIDE DEF Running
    <3> QED BY <2>1, <3>1, <3>2
  <2>3. retentions \in Nat
    BY <1>1 DEF PoolInv
  <2> QED BY <1>1, <2>2, <2>3, NowTypes DEF TypeOK, Places
<1> QED BY <1>1, PoolAlways, PTL

\* Every physical Worker has a reservation of its own and no reservation outlives
\* its Worker, a realm serves one running job, and a job waits in the queue only
\* while running or growing realms fill the pool, whatever the limit.
THEOREM WorkersAlwaysExact == Spec => []WorkersExact
<1>1. ASSUME PoolInv PROVE WorkersExact
  <2>1. Leased(Now, oneShot) /\ Realms(Now, oneShot) /\ NoLostWakeup /\ oneShot \subseteq Jobs
    BY <1>1, NowTypes DEF PoolInv, Coherent
  <2>2. ReservationsExact
    BY <2>1, NowFields DEF Leased, At, ReservationsExact, Live
  <2>3. RealmsExclusive
    <3> DEFINE running == {j \in Jobs \ oneShot : pc[j] \in Runs}
    <3>1. running = Running(Now, oneShot)
      BY NowFields DEF Running
    <3>2. /\ \A j \in running : \E s \in Jobs : worker[s] = j
          /\ \A s \in Jobs : worker[s] \in Jobs => worker[s] \in running
          /\ \A s, u \in Jobs : worker[s] = worker[u] /\ worker[s] \in Jobs => s = u
          /\ activeJobs = Cardinality(running)
      <4> HIDE DEF running
      <4> QED BY <2>1, <3>1, NowFields DEF Realms
    <3>3. running \subseteq Jobs
      OBVIOUS
    <3> HIDE DEF running
    <3>4. \A j \in running : \E s \in Jobs : worker[s] = j /\ \A u \in Jobs \ {s} : worker[u] # j
      BY <3>2, <3>3
    <3> QED BY <3>2, <3>4 DEF RealmsExclusive, running
  <2> QED BY <2>1, <2>2, <2>3 DEF WorkersExact
<1> QED BY <1>1, PoolAlways, PTL

\* From the last release() on, no step of a closing epoch adds a realm, and a
\* release() is answered only when the epoch has physically drained.
THEOREM EpochAlwaysOver == Spec => EpochOver
<1>1. PoolInv /\ [Next]_vars => EpochStep
  BY StepKeeps
<1>2. EpochStep => [closing /\ closing' => Slots(worker') \subseteq Slots(worker)]_vars
  BY DEF EpochStep
<1>3. EpochStep => [\A h \in Holders : holder[h] = "releasing" /\ holder'[h] = "released" =>
                      Slots(worker') = {} /\ constructing' = {} /\ pending' = <<>>]_vars
  BY DEF EpochStep
<1> QED BY <1>1, <1>2, <1>3, PoolAlways, PTL DEF Spec, EpochOver, NoResurrection, ReleasedDrained
=============================================================================
