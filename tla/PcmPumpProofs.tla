---------------------------- MODULE PcmPumpProofs ----------------------------
(***************************************************************************)
(* What PcmPump keeps for every set of sources, every length of them, every *)
(* quantum and window, and any number of slots, reads and seeks.           *)
(***************************************************************************)
EXTENDS PcmPump, FiniteSetTheorems, FunctionTheorems, SequenceTheorems, TLAPS

(* A queue without its first message; how often a message occurs in it. *)

LEMMA HeadAndTail ==
  ASSUME NEW S, NEW s \in Seq(S), s # <<>>
  PROVE  /\ Len(s) \in Nat /\ Len(s) >= 1 /\ 1 \in 1..Len(s) /\ Len(s) \in 1..Len(s)
         /\ Head(s) = s[1] /\ s[1] \in S
         /\ Tail(s) \in Seq(S) /\ Len(Tail(s)) = Len(s) - 1
         /\ \A i \in 1..Len(Tail(s)) : i + 1 \in 1..Len(s) /\ Tail(s)[i] = s[i + 1]
OBVIOUS

Occurrences(e, s) == Cardinality({i \in 1..Len(s) : s[i] = e})

LEMMA OccurrencesFinite ==
  ASSUME NEW S, NEW s \in Seq(S), NEW e
  PROVE  /\ IsFiniteSet({i \in 1..Len(s) : s[i] = e}) /\ Occurrences(e, s) \in Nat
         /\ Occurrences(e, s) = 0 <=> \A i \in 1..Len(s) : s[i] # e
<1> DEFINE P == {i \in 1..Len(s) : s[i] = e}
<1>1. IsFiniteSet(1..Len(s)) /\ P \in SUBSET (1..Len(s))
  BY FS_Interval
<1> HIDE DEF P
<1>2. IsFiniteSet(P) /\ Cardinality(P) \in Nat
  BY <1>1, FS_Subset, FS_CardinalityType
<1>3. Cardinality(P) = 0 <=> P = {}
  BY <1>2, FS_EmptySet
<1> QED BY <1>2, <1>3 DEF P, Occurrences

LEMMA OccurrencesAppend ==
  ASSUME NEW S, NEW s \in Seq(S), NEW d \in S, NEW e
  PROVE  Occurrences(e, Append(s, d)) = IF d = e THEN Occurrences(e, s) + 1 ELSE Occurrences(e, s)
<1> DEFINE P == {i \in 1..Len(s) : s[i] = e}
           t == Append(s, d)
           Q == {i \in 1..Len(t) : t[i] = e}
<1>1. PICK n \in Nat : n = Len(s)
  OBVIOUS
<1>2. Len(t) = n + 1 /\ t[n + 1] = d /\ \A i \in 1..n : t[i] = s[i]
  BY <1>1
<1>3. IsFiniteSet(P) /\ n + 1 \notin P
  <2>1. IsFiniteSet(P)
    BY OccurrencesFinite
  <2>2. n + 1 \notin 1..n
    OBVIOUS
  <2> QED BY <1>1, <2>1, <2>2
<1> HIDE DEF t
<1>4. CASE d = e
  <2>1. Q = P \cup {n + 1}
    BY <1>1, <1>2, <1>4
  <2> HIDE DEF P, Q
  <2>2. Cardinality(Q) = Cardinality(P) + 1
    BY <1>3, <2>1, FS_AddElement
  <2> QED BY <1>4, <2>2 DEF P, Q, t, Occurrences
<1>5. CASE d # e
  <2>1. Q = P
    BY <1>1, <1>2, <1>5
  <2> QED BY <1>5, <2>1 DEF t, Occurrences
<1> QED BY <1>4, <1>5

LEMMA OccurrencesTail ==
  ASSUME NEW S, NEW s \in Seq(S), s # <<>>, NEW e
  PROVE  Occurrences(e, Tail(s)) = IF Head(s) = e THEN Occurrences(e, s) - 1 ELSE Occurrences(e, s)
<1> DEFINE P == {i \in 1..Len(s) : s[i] = e}
           t == Tail(s)
           Q == {i \in 1..Len(t) : t[i] = e}
           R == P \ {1}
<1>1. PICK n \in Nat : n = Len(s) /\ n >= 1
  BY HeadAndTail
<1>2. t \in Seq(S) /\ Len(t) = n - 1 /\ \A i \in 1..(n - 1) : t[i] = s[i + 1]
  BY <1>1, HeadAndTail
<1>3. Head(s) = s[1] /\ IsFiniteSet(P) /\ IsFiniteSet(Q)
  <2>1. IsFiniteSet(P)
    BY OccurrencesFinite
  <2>2. IsFiniteSet(Q)
    BY <1>2, OccurrencesFinite
  <2> QED BY <2>1, <2>2, HeadAndTail
<1> HIDE DEF t
<1>4. ExistsBijection(Q, R)
  <2> DEFINE f == [i \in Q |-> i + 1]
  <2>1. ASSUME NEW i \in Q PROVE i + 1 \in R
    BY <1>1, <1>2
  <2>2. f \in Injection(Q, R)
    BY <2>1 DEF Injection, IsInjective
  <2>3. ASSUME NEW r \in R PROVE \E i \in Q : f[i] = r
    <3>1. r - 1 \in Q /\ r - 1 + 1 = r
      BY <1>1, <1>2
    <3> QED BY <3>1
  <2>4. f \in Surjection(Q, R)
    BY <2>1, <2>3 DEF Surjection
  <2> QED BY <2>2, <2>4 DEF ExistsBijection, Bijection
<1>5. 1 \in P <=> Head(s) = e
  BY <1>1, <1>3
<1> HIDE DEF P, Q
<1>6. Cardinality(Q) = Cardinality(R)
  BY <1>3, <1>4, FS_Bijection
<1>7. Cardinality(R) = IF 1 \in P THEN Cardinality(P) - 1 ELSE Cardinality(P)
  BY <1>3, FS_RemoveElement
<1> QED BY <1>5, <1>6, <1>7 DEF P, Q, t, Occurrences

\* The smaller of two numbers, and the larger.
LEMMA MinMax ==
  ASSUME NEW a \in Int, NEW b \in Int
  PROVE  /\ Min({a, b}) = IF a <= b THEN a ELSE b
         /\ Max({a, b}) = IF a <= b THEN b ELSE a
<1>1. \A x \in {a, b} : (\A y \in {a, b} : x <= y) => x = IF a <= b THEN a ELSE b
  OBVIOUS
<1>2. \E x \in {a, b} : \A y \in {a, b} : x <= y
  <2>1. CASE a <= b BY <2>1
  <2>2. CASE b <= a BY <2>2
  <2> QED BY <2>1, <2>2
<1>3. \A x \in {a, b} : (\A y \in {a, b} : x >= y) => x = IF a <= b THEN b ELSE a
  OBVIOUS
<1>4. \E x \in {a, b} : \A y \in {a, b} : x >= y
  <2>1. CASE a <= b BY <2>1
  <2>2. CASE b <= a BY <2>2
  <2> QED BY <2>1, <2>2
<1>5. Min({a, b}) = CHOOSE x \in {a, b} : \A y \in {a, b} : x <= y
  BY DEF Min
<1>6. Max({a, b}) = CHOOSE x \in {a, b} : \A y \in {a, b} : x >= y
  BY DEF Max
<1> QED
  BY <1>1, <1>2, <1>3, <1>4, <1>5, <1>6

-----------------------------------------------------------------------------
-----------------------------------------------------------------------------
(* Whole quanta. *)

Quanta == {k * Quantum : k \in Nat}

LEMMA QuantaAdd ==
  /\ 0 \in Quanta /\ Quanta \subseteq Nat
  /\ \A m \in Quanta : m + Quantum \in Quanta
<1>1. Quantum \in Nat /\ Quantum >= 1
  BY PumpAssumption
<1>2. 0 * Quantum = 0
  BY <1>1
<1>3. ASSUME NEW k \in Nat PROVE (k + 1) * Quantum = k * Quantum + Quantum /\ k * Quantum \in Nat
  BY <1>1
<1> QED
  BY <1>2, <1>3 DEF Quanta

\* Between two different multiples of a quantum lies at least one quantum.
LEMMA QuantaApart == \A m, n \in Quanta : m < n => m + Quantum <= n
<1>1. Quantum \in Nat /\ Quantum >= 1
  BY PumpAssumption
<1>2. ASSUME NEW k \in Nat, NEW l \in Nat, k * Quantum < l * Quantum
      PROVE  k * Quantum + Quantum <= l * Quantum
  <2>1. k < l
    <3>1. CASE l <= k
      <4>1. PICK d \in Nat : k = l + d
        BY <3>1
      <4>2. k * Quantum = l * Quantum + d * Quantum /\ d * Quantum \in Nat /\ l * Quantum \in Nat
        BY <1>1, <4>1
      <4> QED BY <1>2, <4>2
    <3> QED BY <3>1
  <2>2. PICK d \in Nat : l = k + 1 + d
    <3>1. l - k - 1 \in Nat /\ l = k + 1 + (l - k - 1)
      BY <2>1
    <3> QED BY <3>1
  <2>3. l * Quantum = k * Quantum + Quantum + d * Quantum /\ d * Quantum \in Nat /\ k * Quantum \in Nat
    BY <1>1, <2>2
  <2> QED BY <2>3, <1>1
<1> QED
  BY <1>2 DEF Quanta

\* A window of WindowFrames holds at least one quantum, and whole ones only.
LEMMA AlignedQuanta == Aligned \in Quanta /\ Aligned >= Quantum
<1>1. Quantum \in Nat /\ Quantum >= 1 /\ WindowFrames \in Nat /\ WindowFrames >= Quantum
  BY PumpAssumption
<1>2. WindowFrames \div Quantum \in Nat /\ WindowFrames \div Quantum >= 1
  BY <1>1
<1>3. (WindowFrames \div Quantum) * Quantum >= Quantum
  BY <1>1, <1>2
<1> QED
  BY <1>2, <1>3 DEF Aligned, Quanta

-----------------------------------------------------------------------------
(* One ring: its slots lead its reader, who wants frame x next, to the cursor c. *)

Slot == [gen : Nat, from : Nat, to : Nat]

\* Where slot i, if it is of generation g, brings the reader.
Reach(l, g, x, i) == IF i \in 1..Len(l) /\ l[i].gen = g THEN l[i].to ELSE x

SlotsLead(l, g, x, c) ==
  /\ \A i \in 1..Len(l) : l[i].gen = g =>
       /\ l[i].from = Reach(l, g, x, i - 1)
       /\ \A k \in i..Len(l) : l[k].gen = g
  /\ Reach(l, g, x, Len(l)) = c

LEMMA SlotsAppend ==
  ASSUME NEW l \in Seq(Slot), NEW g \in Nat, NEW x \in Nat, NEW c \in Nat, NEW d \in Nat,
         SlotsLead(l, g, x, c)
  PROVE  SlotsLead(Append(l, [gen |-> g, from |-> c, to |-> d]), g, x, d)
<1> DEFINE k == [gen |-> g, from |-> c, to |-> d]
           m == Append(l, k)
<1>1. /\ Len(l) \in Nat /\ Len(m) = Len(l) + 1 /\ m[Len(m)] = k
      /\ \A i \in 1..Len(l) : m[i] = l[i]
  OBVIOUS
<1>2. \A i \in 0..Len(l) : Reach(m, g, x, i) = Reach(l, g, x, i)
  BY <1>1 DEF Reach
<1>3. Reach(m, g, x, Len(m)) = d
  BY <1>1 DEF Reach
<1>4. k.gen = g /\ k.from = c
  OBVIOUS
<1> HIDE DEF k, m
<1>5. ASSUME NEW i \in 1..Len(m), m[i].gen = g
      PROVE  m[i].from = Reach(m, g, x, i - 1) /\ \A n \in i..Len(m) : m[n].gen = g
  <2>1. CASE i = Len(m)
    <3>1. i - 1 = Len(l) /\ m[i].from = c BY <1>1, <1>4, <2>1
    <3>2. Reach(m, g, x, i - 1) = c BY <1>1, <1>2, <3>1 DEF SlotsLead
    <3> QED BY <1>1, <1>4, <2>1, <3>1, <3>2
  <2>2. CASE i # Len(m)
    <3>1. i \in 1..Len(l) /\ i - 1 \in 0..Len(l) /\ m[i] = l[i] BY <1>1, <2>2
    <3>2. m[i].from = Reach(m, g, x, i - 1) BY <1>2, <1>5, <3>1 DEF SlotsLead
    <3>3. \A n \in i..Len(l) : l[n].gen = g BY <1>5, <3>1 DEF SlotsLead
    <3> QED BY <1>1, <1>4, <3>1, <3>2, <3>3
  <2> QED BY <2>1, <2>2
<1> QED
  BY <1>3, <1>5 DEF SlotsLead, m, k

LEMMA SlotsTail ==
  ASSUME NEW l \in Seq(Slot), l # <<>>, NEW g \in Nat, NEW x \in Nat, NEW c \in Nat,
         SlotsLead(l, g, x, c)
  PROVE  SlotsLead(Tail(l), g, IF l[1].gen = g THEN l[1].to ELSE x, c)
<1> DEFINE m == Tail(l)
           y == IF l[1].gen = g THEN l[1].to ELSE x
<1>1. /\ Len(l) \in Nat /\ Len(l) >= 1 /\ Len(m) = Len(l) - 1
      /\ \A i \in 1..Len(m) : i + 1 \in 1..Len(l) /\ m[i] = l[i + 1]
  BY HeadAndTail
<1>2. \A i \in 1..Len(m) : Reach(m, g, y, i) = Reach(l, g, x, i + 1)
  <2> SUFFICES ASSUME NEW i \in 1..Len(m) PROVE Reach(m, g, y, i) = Reach(l, g, x, i + 1)
    OBVIOUS
  <2>1. i + 1 \in 1..Len(l) /\ m[i] = l[i + 1] BY <1>1
  <2>2. CASE l[i + 1].gen = g BY <2>1, <2>2 DEF Reach
  <2>3. CASE l[i + 1].gen # g
    <3>1. Reach(l, g, x, i + 1) = x /\ Reach(m, g, y, i) = y BY <2>1, <2>3 DEF Reach
    <3>2. CASE l[1].gen = g
      BY <1>1, <2>1, <2>3, <3>2 DEF SlotsLead
    <3>3. CASE l[1].gen # g BY <3>1, <3>3
    <3> QED BY <3>2, <3>3
  <2> QED BY <2>2, <2>3
<1>3. Reach(m, g, y, 0) = y /\ Reach(l, g, x, 1) = y
  BY <1>1 DEF Reach
<1>4. \A i \in 0..Len(m) : Reach(m, g, y, i) = Reach(l, g, x, i + 1)
  BY <1>1, <1>2, <1>3
<1> HIDE DEF m, y
<1>5. ASSUME NEW i \in 1..Len(m), m[i].gen = g
      PROVE  m[i].from = Reach(m, g, y, i - 1) /\ \A n \in i..Len(m) : m[n].gen = g
  <2>1. i + 1 \in 1..Len(l) /\ m[i] = l[i + 1] /\ i - 1 \in 0..Len(m) /\ (i + 1) - 1 = (i - 1) + 1
    BY <1>1
  <2>2. l[i + 1].from = Reach(l, g, x, (i - 1) + 1)
    BY <1>5, <2>1 DEF SlotsLead
  <2>3. \A n \in i + 1..Len(l) : l[n].gen = g
    BY <1>5, <2>1 DEF SlotsLead
  <2>4. \A n \in i..Len(m) : n \in 1..Len(m) /\ n + 1 \in i + 1..Len(l)
    BY <1>1
  <2> QED BY <1>1, <1>4, <2>1, <2>2, <2>3, <2>4
<1>6. Reach(m, g, y, Len(m)) = c
  BY <1>1, <1>4 DEF SlotsLead
<1> QED
  BY <1>5, <1>6 DEF SlotsLead, m, y

\* A new generation has no slot yet: its reader starts at the cursor.
LEMMA SlotsRestart ==
  ASSUME NEW l \in Seq(Slot), NEW g, NEW c, \A i \in 1..Len(l) : l[i].gen # g
  PROVE  SlotsLead(l, g, c, c)
<1>1. Len(l) \in Nat
  OBVIOUS
<1> QED
  BY <1>1 DEF SlotsLead, Reach

-----------------------------------------------------------------------------
(* The windows of a source over the cursor. *)

\* A window is not empty and ends after whole quanta or with the source.
Whole(s, w) == w.from < w.to /\ w.to <= Frames[s] /\ (w.to = Frames[s] \/ w.to - w.from \in Quanta)

\* The windows follow each other, and the cursor is at the start of a quantum.
WindowsHold(s, b, c) ==
  /\ Len(b) <= 2
  /\ \A i \in 1..Len(b) : Whole(s, b[i])
  /\ b # <<>> => b[1].from <= c /\ c <= b[1].to /\ (c = Frames[s] \/ c - b[1].from \in Quanta)
  /\ Len(b) = 2 => b[2].from = b[1].to

Window == [from : Nat, to : Nat]

\* The buffer and the cursor once an exhausted window has made way.
Shifted(b, c) == IF b # <<>> /\ c >= b[1].to THEN Tail(b) ELSE b

\* Where the next window has to start.
NextFrame(b, c) == IF b = <<>> THEN c ELSE b[1].to

LEMMA WindowsShift ==
  ASSUME NEW s \in Sources, NEW b \in Seq(Window), NEW c \in Nat, c < Frames[s], WindowsHold(s, b, c)
  PROVE  /\ Shifted(b, c) \in Seq(Window) /\ WindowsHold(s, Shifted(b, c), c)
         /\ Len(Shifted(b, c)) <= Len(b)
         /\ Shifted(b, c) # <<>> => c < Shifted(b, c)[1].to
         /\ Len(b) <= 1 => NextFrame(Shifted(b, c), c) = NextFrame(b, c)
<1>1. CASE b # <<>> /\ c >= b[1].to
  <2> DEFINE t == Tail(b)
  <2>1. /\ Len(b) \in Nat /\ Len(b) >= 1 /\ t \in Seq(Window) /\ Len(t) = Len(b) - 1
        /\ \A i \in 1..Len(t) : i + 1 \in 1..Len(b) /\ t[i] = b[i + 1]
        /\ b[1] \in Window /\ 1 \in 1..Len(b)
    BY <1>1, HeadAndTail
  <2>2. Shifted(b, c) = t
    BY <1>1 DEF Shifted
  <2> HIDE DEF t
  <2>3. b[1].to \in Nat /\ c <= b[1].to
    BY <1>1, <2>1 DEF WindowsHold, Window
  <2>4. c = b[1].to
    BY <1>1, <2>3
  <2>5. CASE Len(b) = 1
    <3>1. Len(t) = 0 BY <2>1, <2>5
    <3>2. t = <<>> BY <2>1, <3>1, EmptySeq
    <3>3. WindowsHold(s, <<>>, c)
      <4>1. Len(<<>>) = 0 OBVIOUS
      <4> QED BY <4>1 DEF WindowsHold
    <3>4. NextFrame(<<>>, c) = c /\ NextFrame(b, c) = c
      BY <1>1, <2>4 DEF NextFrame
    <3>5. Shifted(b, c) = <<>> BY <2>2, <3>2
    <3>6. Len(Shifted(b, c)) <= Len(b) BY <2>2, <2>5, <3>1
    <3> QED BY <2>1, <2>2, <3>2, <3>3, <3>4, <3>5, <3>6
  <2>6. CASE Len(b) = 2
    <3> DEFINE w == b[2]
    <3>1. Len(t) = 1 /\ t[1] = w /\ 2 \in 1..Len(b) /\ w \in Window BY <2>1, <2>6
    <3>2. Whole(s, w) /\ w.from = c BY <2>4, <2>6, <3>1 DEF WindowsHold
    <3> HIDE DEF w
    <3>3. w.from \in Nat /\ w.to \in Nat BY <3>1 DEF Window
    <3>4. w.from < w.to BY <3>2 DEF Whole
    <3>5. c < w.to /\ c <= w.to /\ c - w.from = 0 BY <3>2, <3>3, <3>4
    <3>6. t # <<>>
      <4>1. Len(t) # 0 BY <3>1
      <4> QED BY <2>1, <4>1, EmptySeq
    <3>7. \A n \in 1..Len(t) : Whole(s, t[n]) BY <3>1, <3>2
    <3>8. t[1].from <= c /\ c <= t[1].to /\ c - t[1].from \in Quanta
      BY <3>1, <3>2, <3>5, QuantaAdd
    <3>9. WindowsHold(s, t, c)
      <4>1. Len(t) # 2 /\ Len(t) <= 2 BY <3>1
      <4> QED BY <3>7, <3>8, <4>1 DEF WindowsHold
    <3>10. Len(t) <= Len(b) /\ ~(Len(b) <= 1) /\ c < t[1].to BY <2>6, <3>1, <3>5
    <3> QED BY <2>1, <2>2, <3>9, <3>10
  <2>7. Len(b) = 1 \/ Len(b) = 2 BY <2>1 DEF WindowsHold
  <2> QED BY <2>5, <2>6, <2>7
<1>2. CASE ~(b # <<>> /\ c >= b[1].to)
  <2>1. Shifted(b, c) = b
    BY <1>2 DEF Shifted
  <2>2. ASSUME b # <<>> PROVE b[1].to \in Nat
    <3>1. b[1] \in Window BY <2>2, HeadAndTail
    <3> QED BY <3>1 DEF Window
  <2>3. b # <<>> => c < b[1].to
    BY <1>2, <2>2
  <2>4. Len(b) \in Nat
    OBVIOUS
  <2> QED BY <2>1, <2>3, <2>4
<1> QED
  BY <1>1, <1>2

\* The quantum at the cursor, or the rest of the source, is inside the window.
LEMMA WindowsWrite ==
  ASSUME NEW s \in Sources, NEW b \in Seq(Window), NEW c \in Nat, c < Frames[s],
         WindowsHold(s, b, c), b # <<>>, c < b[1].to,
         NEW d, d = IF c + Quantum <= Frames[s] THEN c + Quantum ELSE Frames[s]
  PROVE  /\ d \in Nat /\ d <= Frames[s] /\ c >= b[1].from /\ d <= b[1].to
         /\ WindowsHold(s, b, d)
<1> DEFINE w == b[1]
<1>1. /\ Quantum \in Nat /\ Quantum >= 1 /\ Frames[s] \in Nat /\ w \in Window
      /\ Len(b) \in Nat /\ 1 \in 1..Len(b)
  BY PumpAssumption, HeadAndTail
<1>2. /\ Whole(s, w) /\ w.from <= c /\ c - w.from \in Quanta
      /\ w.from \in Nat /\ w.to \in Nat
  BY <1>1 DEF WindowsHold, Window
<1> HIDE DEF w
<1>3. d \in Nat /\ d <= Frames[s] /\ c <= d
  BY <1>1
<1>4. d <= w.to
  <2>1. CASE w.to = Frames[s] BY <1>3, <2>1
  <2>2. CASE w.to - w.from \in Quanta
    <3>1. c - w.from < w.to - w.from BY <1>1, <1>2 DEF w
    <3>2. (c - w.from) + Quantum <= w.to - w.from BY <1>2, <2>2, <3>1, QuantaApart
    <3> QED BY <1>1, <1>2, <3>2 DEF w
  <2> QED BY <1>2, <2>1, <2>2 DEF Whole
<1>5. d = Frames[s] \/ d - w.from \in Quanta
  <2>1. CASE d = c + Quantum
    <3>1. d - w.from = (c - w.from) + Quantum BY <1>1, <1>2, <2>1
    <3> QED BY <1>2, <3>1, QuantaAdd
  <2> QED BY <2>1
<1>6. w.from <= d
  BY <1>1, <1>2, <1>3
<1> QED
  BY <1>2, <1>3, <1>4, <1>5, <1>6 DEF WindowsHold, w

\* A window that was read lands behind the only one there may be.
LEMMA WindowsLand ==
  ASSUME NEW s \in Sources, NEW b \in Seq(Window), NEW c \in Nat, WindowsHold(s, b, c), Len(b) <= 1,
         NEW w \in Window, Whole(s, w), w.from = NextFrame(b, c)
  PROVE  Append(b, w) \in Seq(Window) /\ WindowsHold(s, Append(b, w), c)
<1>1. CASE b = <<>>
  <2>1. Append(b, w) = <<w>> /\ Len(<<w>>) = 1 /\ <<w>>[1] = w
    BY <1>1
  <2>2. c - w.from = 0 /\ c <= w.to
    BY <1>1 DEF Whole, Window, NextFrame
  <2> QED BY <1>1, <2>1, <2>2, QuantaAdd DEF WindowsHold, Window
<1>2. CASE b # <<>>
  <2>1. Len(b) = 1
    <3>1. Len(b) \in Nat /\ Len(b) >= 1 BY <1>2, HeadAndTail
    <3> QED BY <3>1
  <2>2. /\ Append(b, w) \in Seq(Window) /\ Len(Append(b, w)) = Len(b) + 1
        /\ \A i \in 1..Len(b) : Append(b, w)[i] = b[i]
        /\ Append(b, w)[Len(b) + 1] = w
    OBVIOUS
  <2>3. Len(Append(b, w)) = 2 /\ Append(b, w)[1] = b[1] /\ Append(b, w)[2] = w
    BY <2>1, <2>2
  <2>4. Append(b, w) # <<>>
    BY <2>3
  <2>5. \A i \in 1..2 : Whole(s, Append(b, w)[i])
    BY <2>1, <2>3 DEF WindowsHold
  <2>6. w.from = b[1].to
    BY <1>2 DEF NextFrame
  <2> QED BY <1>2, <2>2, <2>3, <2>4, <2>5, <2>6 DEF WindowsHold
<1> QED
  BY <1>1, <1>2


-----------------------------------------------------------------------------
(* The pump's state p in generation g, while the rings' readers want frames x. *)

Read == [source : Sources, gen : Nat, from : Nat]

PumpState == [cursor : [Sources -> Nat], buffer : [Sources -> Seq(Window)],
              reads : SUBSET Read, ring : [Sources -> Seq(Slot)]]

\* A source reads once at a time, and then has at most one window.
ReadsBounded(p) ==
  /\ IsFiniteSet(p.reads) /\ Cardinality(p.reads) <= MaximumReads
  /\ \A r \in p.reads : r.from <= Frames[r.source] /\ Len(p.buffer[r.source]) <= 1
  /\ \A r, o \in p.reads : r.source = o.source => r = o

\* Slots and reads are of generations there have been, inside their sources.
Dated(p, g) ==
  /\ \A s \in Sources : p.cursor[s] <= Frames[s] /\ Len(p.ring[s]) <= Slots
  /\ \A s \in Sources : \A i \in 1..Len(p.ring[s]) :
       p.ring[s][i].gen \in 1..g /\ p.ring[s][i].to <= Frames[s]
  /\ \A r \in p.reads : r.gen \in 1..g

Bounded(p, g) == p \in PumpState /\ ReadsBounded(p) /\ Dated(p, g)

\* What was written, what is buffered and what is being read follow each other.
Playing(p, g, x) ==
  /\ \A s \in Sources : SlotsLead(p.ring[s], g, x[s], p.cursor[s])
  /\ \A s \in Sources : WindowsHold(s, p.buffer[s], p.cursor[s])
  /\ \A r \in p.reads : r.gen = g =>
       r.from = NextFrame(p.buffer[r.source], p.cursor[r.source]) /\ r.from < Frames[r.source]

Sound(p, g, x) == Bounded(p, g) /\ Playing(p, g, x)

LEMMA StateFacts ==
  ASSUME NEW p \in PumpState
  PROVE  /\ p.cursor \in [Sources -> Nat] /\ p.buffer \in [Sources -> Seq(Window)]
         /\ p.reads \subseteq Read /\ p.ring \in [Sources -> Seq(Slot)]
         /\ p = [cursor |-> p.cursor, buffer |-> p.buffer, reads |-> p.reads, ring |-> p.ring]
         /\ \A s \in Sources : /\ p.cursor[s] \in Nat /\ p.buffer[s] \in Seq(Window)
                               /\ p.ring[s] \in Seq(Slot)
                               /\ Len(p.buffer[s]) \in Nat /\ Len(p.ring[s]) \in Nat
         /\ \A r \in p.reads : r.source \in Sources /\ r.gen \in Nat /\ r.from \in Nat
<1>1. /\ p.cursor \in [Sources -> Nat] /\ p.buffer \in [Sources -> Seq(Window)]
      /\ p.reads \subseteq Read /\ p.ring \in [Sources -> Seq(Slot)]
      /\ p = [cursor |-> p.cursor, buffer |-> p.buffer, reads |-> p.reads, ring |-> p.ring]
  BY DEF PumpState
<1>2. \A r \in p.reads : r.source \in Sources /\ r.gen \in Nat /\ r.from \in Nat
  BY <1>1 DEF Read
<1>3. \A s \in Sources : p.cursor[s] \in Nat /\ p.buffer[s] \in Seq(Window) /\ p.ring[s] \in Seq(Slot)
  BY <1>1
<1>4. \A s \in Sources : Len(p.buffer[s]) \in Nat /\ Len(p.ring[s]) \in Nat
  BY <1>3
<1> QED
  BY <1>1, <1>2, <1>3, <1>4

LEMMA FramesType == \A s \in Sources : Frames[s] \in Nat /\ Frames[s] >= 1
  BY PumpAssumption

LEMMA ShiftSound ==
  ASSUME NEW p, NEW g, NEW x, Sound(p, g, x), NEW s \in Sources
  PROVE  /\ Shift(p, s) \in Seq(Window) /\ WindowsHold(s, Shift(p, s), p.cursor[s])
         /\ Len(Shift(p, s)) <= Len(p.buffer[s]) /\ Len(Shift(p, s)) \in Nat
         /\ CanWrite(p, s) => p.cursor[s] < Shift(p, s)[1].to
         /\ Len(p.buffer[s]) <= 1 =>
              NextFrame(Shift(p, s), p.cursor[s]) = NextFrame(p.buffer[s], p.cursor[s])
         /\ ~Finished(p, s) => p.cursor[s] < Frames[s]
<1>1. /\ p.cursor[s] \in Nat /\ p.buffer[s] \in Seq(Window) /\ Len(p.buffer[s]) \in Nat
      /\ p.cursor[s] <= Frames[s] /\ Frames[s] \in Nat
      /\ WindowsHold(s, p.buffer[s], p.cursor[s])
  BY StateFacts, FramesType DEF Sound, Bounded, Dated, Playing
<1>2. ~Finished(p, s) => p.cursor[s] < Frames[s]
  BY <1>1 DEF Finished
<1>3. CASE ~Finished(p, s) /\ ~Full(p, s)
  <2>1. Shift(p, s) = Shifted(p.buffer[s], p.cursor[s])
    BY <1>3 DEF Shift, Shifted
  <2>2. Len(Shifted(p.buffer[s], p.cursor[s])) \in Nat
    BY <1>1, <1>2, <1>3, WindowsShift
  <2> QED BY <1>1, <1>2, <1>3, <2>1, <2>2, WindowsShift DEF CanWrite
<1>4. CASE Finished(p, s) \/ Full(p, s)
  <2>1. Shift(p, s) = p.buffer[s]
    BY <1>4 DEF Shift
  <2> QED BY <1>1, <1>2, <1>4, <2>1 DEF CanWrite
<1> QED
  BY <1>3, <1>4

\* The quantum that is written next is where the cursor is and fits its window.
LEMMA WriteFits ==
  ASSUME NEW p, NEW g, NEW x, Sound(p, g, x), NEW s \in Sources
  PROVE  /\ ~Misfit(p, s)
         /\ Quantized(p, s) \in Nat /\ Quantized(p, s) <= Frames[s]
         /\ CanWrite(p, s) => WindowsHold(s, Shift(p, s), Quantized(p, s))
<1>1. /\ p.cursor[s] \in Nat /\ p.cursor[s] <= Frames[s] /\ Frames[s] \in Nat
      /\ Quantum \in Nat /\ p.cursor[s] + Quantum \in Int /\ Frames[s] \in Int
  BY StateFacts, FramesType, PumpAssumption DEF Sound, Bounded, Dated
<1>2. Quantized(p, s) = IF p.cursor[s] + Quantum <= Frames[s] THEN p.cursor[s] + Quantum ELSE Frames[s]
  BY <1>1, MinMax DEF Quantized
<1>3. Quantized(p, s) \in Nat /\ Quantized(p, s) <= Frames[s]
  BY <1>1, <1>2
<1>4. ASSUME CanWrite(p, s)
      PROVE  /\ p.cursor[s] >= Shift(p, s)[1].from /\ Quantized(p, s) <= Shift(p, s)[1].to
             /\ WindowsHold(s, Shift(p, s), Quantized(p, s))
  <2>1. /\ Shift(p, s) \in Seq(Window) /\ WindowsHold(s, Shift(p, s), p.cursor[s])
        /\ p.cursor[s] < Shift(p, s)[1].to /\ p.cursor[s] < Frames[s] /\ Shift(p, s) # <<>>
    BY <1>4, ShiftSound DEF CanWrite
  <2> QED BY <1>1, <1>2, <2>1, WindowsWrite
<1>5. CanWrite(p, s) => Shift(p, s)[1] \in Window /\ Shift(p, s)[1].from \in Nat /\ Shift(p, s)[1].to \in Nat
  <2> SUFFICES ASSUME CanWrite(p, s)
               PROVE  Shift(p, s)[1] \in Window /\ Shift(p, s)[1].from \in Nat /\ Shift(p, s)[1].to \in Nat
    OBVIOUS
  <2>1. Shift(p, s) \in Seq(Window) /\ Shift(p, s) # <<>>
    BY ShiftSound DEF CanWrite
  <2>2. Shift(p, s)[1] \in Window
    BY <2>1, HeadAndTail
  <2> QED BY <2>2 DEF Window
<1>6. ~Misfit(p, s)
  <2> SUFFICES ASSUME CanWrite(p, s),
                      p.cursor[s] < Shift(p, s)[1].from \/ Quantized(p, s) > Shift(p, s)[1].to
               PROVE  FALSE
    BY DEF Misfit
  <2> QED BY <1>1, <1>3, <1>4, <1>5
<1> QED
  BY <1>3, <1>4, <1>6


\* Scheduling reads leaves cursors and rings alone and stays within the bounds.
LEMMA ScheduledSound ==
  ASSUME NEW p, NEW x, generation \in Nat, generation >= 1, Sound(p, generation, x),
         NEW q \in Scheduled(p)
  PROVE  Sound(q, generation, x) /\ q.cursor = p.cursor /\ q.ring = p.ring
<1> DEFINE able == {s \in Sources : Eligible(p, s)}
           count == Max({0, Min({Cardinality(able), MaximumReads - Cardinality(p.reads)})})
<1>1. PICK chosen \in SUBSET able :
        /\ Cardinality(chosen) = count
        /\ q = [p EXCEPT !.reads = @ \cup {ReadOf(p, s) : s \in chosen},
                         !.buffer = [s \in Sources |-> IF s \in chosen THEN Shift(p, s) ELSE @[s]]]
  BY Zenon DEF Scheduled
<1> DEFINE fresh == {ReadOf(p, s) : s \in chosen}
           buf == [s \in Sources |-> IF s \in chosen THEN Shift(p, s) ELSE p.buffer[s]]
<1>2. p \in PumpState /\ ReadsBounded(p) /\ Dated(p, generation) /\ Playing(p, generation, x)
  BY DEF Sound, Bounded
<1>3. q = [cursor |-> p.cursor, buffer |-> buf, reads |-> p.reads \cup fresh, ring |-> p.ring]
  <2>1. q = [p EXCEPT !.reads = p.reads \cup fresh, !.buffer = buf]
    BY <1>1
  <2> HIDE DEF fresh, buf
  <2> QED BY <1>2, <2>1 DEF PumpState
<1>4. q.cursor = p.cursor /\ q.buffer = buf /\ q.reads = p.reads \cup fresh /\ q.ring = p.ring
  BY <1>3
<1>5. \A s \in chosen : s \in Sources /\ Eligible(p, s)
  OBVIOUS
<1>6. ASSUME NEW s \in chosen
      PROVE  /\ s \in Sources /\ Len(Shift(p, s)) <= 1 /\ p.cursor[s] < Frames[s]
             /\ \A r \in p.reads : r.source # s
             /\ ReadOf(p, s) \in Read /\ ReadOf(p, s).source = s /\ ReadOf(p, s).gen = generation
             /\ ReadOf(p, s).from = NextFrame(Shift(p, s), p.cursor[s])
             /\ ReadOf(p, s).from < Frames[s] /\ ReadOf(p, s).from \in Nat
  <2>1. /\ s \in Sources /\ ~Finished(p, s) /\ Wanted(p, s) /\ \A r \in p.reads : r.source # s
    BY <1>5 DEF Eligible
  <2>2. /\ p.cursor[s] \in Nat /\ p.cursor[s] < Frames[s] /\ Shift(p, s) \in Seq(Window)
        /\ Len(Shift(p, s)) \in Nat /\ Frames[s] \in Nat
    BY <1>2, <2>1, StateFacts, ShiftSound, FramesType
  <2>3. ReadOf(p, s) = [source |-> s, gen |-> generation, from |-> NextFrame(Shift(p, s), p.cursor[s])]
    BY DEF ReadOf, NextFrame
  <2>4. CASE Shift(p, s) = <<>>
    <3>1. Len(Shift(p, s)) = 0 /\ NextFrame(Shift(p, s), p.cursor[s]) = p.cursor[s]
      BY <2>4 DEF NextFrame
    <3> QED BY <2>1, <2>2, <2>3, <3>1 DEF Read
  <2>5. CASE Shift(p, s) # <<>>
    <3>1. Len(Shift(p, s)) = 1 /\ Shift(p, s)[1].to < Frames[s]
      BY <2>1, <2>5 DEF Wanted
    <3>2. Shift(p, s)[1] \in Window
      BY <2>2, <2>5, HeadAndTail
    <3>3. Shift(p, s)[1].to \in Nat /\ NextFrame(Shift(p, s), p.cursor[s]) = Shift(p, s)[1].to
      BY <2>5, <3>2 DEF NextFrame, Window
    <3> QED BY <2>1, <2>2, <2>3, <3>1, <3>3 DEF Read
  <2> QED BY <2>4, <2>5
<1>7. buf \in [Sources -> Seq(Window)] /\ fresh \subseteq Read
  BY <1>2, <1>6, StateFacts, ShiftSound
<1>8. q \in PumpState
  <2>1. p.reads \cup fresh \subseteq Read
    BY <1>2, <1>7, StateFacts
  <2> QED BY <1>2, <1>3, <1>7, <2>1, StateFacts DEF PumpState
<1>9. IsFiniteSet(fresh) /\ Cardinality(fresh) \in Nat /\ Cardinality(fresh) <= MaximumReads - Cardinality(p.reads)
  <2>1. IsFiniteSet(chosen) /\ IsFiniteSet(able)
    BY PumpAssumption, FS_Subset
  <2>2. IsFiniteSet(fresh) /\ Cardinality(fresh) = Cardinality(chosen)
    <3> DEFINE f == [s \in chosen |-> ReadOf(p, s)]
    <3>1. ASSUME NEW s \in chosen, NEW u \in chosen, f[s] = f[u] PROVE s = u
      BY <1>6, <3>1
    <3>2. f \in Injection(chosen, fresh)
      BY <3>1 DEF Injection, IsInjective
    <3>3. f \in Surjection(chosen, fresh)
      BY <3>2 DEF Surjection, Injection
    <3>4. ExistsBijection(chosen, fresh)
      BY <3>2, <3>3 DEF ExistsBijection, Bijection
    <3> HIDE DEF fresh
    <3> QED BY <2>1, <3>4, FS_Bijection
  <2>3. /\ Cardinality(able) \in Nat /\ Cardinality(p.reads) \in Nat /\ MaximumReads \in Nat
        /\ Cardinality(p.reads) <= MaximumReads /\ Cardinality(fresh) \in Nat /\ Cardinality(chosen) \in Nat
    BY <1>2, <2>1, <2>2, PumpAssumption, FS_CardinalityType DEF ReadsBounded
  <2> HIDE DEF able, fresh
  <2>4. DEFINE room == MaximumReads - Cardinality(p.reads)
               least == Min({Cardinality(able), room})
  <2>5. room \in Nat /\ least \in Int /\ least <= room
    <3>1. room \in Nat BY <2>3
    <3>2. least = IF Cardinality(able) <= room THEN Cardinality(able) ELSE room
      BY <2>3, <3>1, MinMax
    <3> QED BY <2>3, <3>1, <3>2
  <2> HIDE DEF room, least
  <2>6. Max({0, least}) <= room
    <3>1. Max({0, least}) = IF 0 <= least THEN least ELSE 0
      BY <2>5, MinMax
    <3> QED BY <2>5, <3>1
  <2>7. count = Max({0, least})
    BY DEF room, least
  <2> HIDE DEF count
  <2> QED BY <1>1, <2>2, <2>3, <2>6, <2>7 DEF room, count, able
<1> HIDE DEF able, count, fresh, buf
<1>10. \A s \in Sources : buf[s] = IF s \in chosen THEN Shift(p, s) ELSE p.buffer[s]
  BY DEF buf
<1>11. \A r \in fresh : \E s \in chosen : r = ReadOf(p, s)
  BY DEF fresh
<1>12. \A r \in p.reads : r.source \in Sources /\ r.source \notin chosen /\ buf[r.source] = p.buffer[r.source]
  BY <1>2, <1>6, <1>10, StateFacts
<1>13. ReadsBounded(q)
  <2>1. IsFiniteSet(q.reads) /\ Cardinality(q.reads) <= MaximumReads
    <3>1. IsFiniteSet(p.reads) /\ Cardinality(p.reads) \in Nat
      BY <1>2, FS_CardinalityType DEF ReadsBounded
    <3>2. /\ IsFiniteSet(p.reads \cup fresh) /\ Cardinality(p.reads \cap fresh) \in Nat
          /\ Cardinality(p.reads \cup fresh) \in Nat
          /\ Cardinality(p.reads \cup fresh) =
               Cardinality(p.reads) + Cardinality(fresh) - Cardinality(p.reads \cap fresh)
      BY <1>9, <3>1, FS_Union, FS_Intersection, FS_CardinalityType
    <3>3. MaximumReads \in Nat BY PumpAssumption
    <3> QED BY <1>4, <1>9, <3>1, <3>2, <3>3
  <2>2. \A r \in q.reads : r.from <= Frames[r.source] /\ Len(q.buffer[r.source]) <= 1
    <3>1. ASSUME NEW r \in p.reads PROVE r.from <= Frames[r.source] /\ Len(buf[r.source]) <= 1
      BY <1>2, <1>12 DEF ReadsBounded
    <3>2. ASSUME NEW r \in fresh PROVE r.from <= Frames[r.source] /\ Len(buf[r.source]) <= 1
      <4>1. PICK s \in chosen : r = ReadOf(p, s) BY <1>11
      <4>2. r.from \in Nat /\ r.from < Frames[s] /\ r.source = s /\ Frames[s] \in Nat BY <1>6, <4>1, FramesType
      <4> QED BY <1>6, <1>10, <4>2
    <3> QED BY <1>4, <3>1, <3>2
  <2>3. \A r, o \in q.reads : r.source = o.source => r = o
    <3>1. \A r, o \in p.reads : r.source = o.source => r = o BY <1>2 DEF ReadsBounded
    <3>2. \A r, o \in fresh : r.source = o.source => r = o BY <1>6, <1>11
    <3>3. \A r \in p.reads, o \in fresh : r.source # o.source BY <1>6, <1>11
    <3> QED BY <1>4, <3>1, <3>2, <3>3
  <2> QED BY <2>1, <2>2, <2>3 DEF ReadsBounded
<1>14. Dated(q, generation)
  <2>1. \A r \in fresh : r.gen \in 1..generation BY <1>6, <1>11
  <2> QED BY <1>2, <1>4, <2>1 DEF Dated
<1>15. Playing(q, generation, x)
  <2>1. \A s \in Sources : WindowsHold(s, buf[s], p.cursor[s])
    BY <1>10, ShiftSound DEF Sound, Playing
  <2>2. \A r \in fresh : /\ r.from = NextFrame(buf[r.source], p.cursor[r.source])
                         /\ r.from < Frames[r.source]
    BY <1>6, <1>10, <1>11
  <2>3. \A r \in p.reads : r.gen = generation =>
          r.from = NextFrame(buf[r.source], p.cursor[r.source]) /\ r.from < Frames[r.source]
    BY <1>2, <1>12 DEF Playing
  <2>4. \A s \in Sources : SlotsLead(q.ring[s], generation, x[s], q.cursor[s])
    BY <1>2, <1>4 DEF Playing
  <2> QED BY <1>4, <2>1, <2>2, <2>3, <2>4 DEF Playing
<1> QED
  BY <1>4, <1>8, <1>13, <1>14, <1>15 DEF Sound, Bounded

\* Writing a quantum to every ring that takes one advances cursor and runway alike.
LEMMA WrittenSound ==
  ASSUME NEW p, NEW x, x \in [Sources -> Nat], generation \in Nat, generation >= 1,
         Sound(p, generation, x)
  PROVE  Sound(Written(p), generation, x)
<1> DEFINE q == Written(p)
           cur == [s \in Sources |-> IF CanWrite(p, s) THEN Quantized(p, s) ELSE p.cursor[s]]
           buf == [s \in Sources |-> Shift(p, s)]
           slot(s) == [gen |-> generation, from |-> p.cursor[s], to |-> Quantized(p, s)]
           lst == [s \in Sources |-> IF CanWrite(p, s) THEN Append(p.ring[s], slot(s)) ELSE p.ring[s]]
<1>1. p \in PumpState /\ ReadsBounded(p) /\ Dated(p, generation) /\ Playing(p, generation, x)
  BY DEF Sound, Bounded
<1>2. q = [cursor |-> cur, buffer |-> buf, reads |-> p.reads, ring |-> lst]
  BY DEF Written
<1>3. q.cursor = cur /\ q.buffer = buf /\ q.reads = p.reads /\ q.ring = lst
  BY <1>2
<1>4. ASSUME NEW s \in Sources
      PROVE  /\ p.cursor[s] \in Nat /\ p.ring[s] \in Seq(Slot) /\ Len(p.ring[s]) \in Nat
             /\ p.cursor[s] <= Frames[s] /\ Len(p.ring[s]) <= Slots
             /\ Frames[s] \in Nat /\ Quantized(p, s) \in Nat /\ Quantized(p, s) <= Frames[s]
             /\ slot(s) \in Slot /\ slot(s).gen = generation /\ slot(s).to = Quantized(p, s)
             /\ CanWrite(p, s) => Len(p.ring[s]) < Slots /\ Shift(p, s) # <<>>
             /\ x[s] \in Nat
  <2>1. Quantized(p, s) \in Nat /\ Quantized(p, s) <= Frames[s]
    BY WriteFits
  <2>2. p.cursor[s] \in Nat /\ p.ring[s] \in Seq(Slot) /\ Len(p.ring[s]) \in Nat
    BY <1>1, StateFacts
  <2>3. CanWrite(p, s) => Len(p.ring[s]) < Slots /\ Shift(p, s) # <<>>
    BY <2>2, PumpAssumption DEF CanWrite, Full
  <2> QED BY <1>1, <2>1, <2>2, <2>3, FramesType DEF Dated, Slot
<1> HIDE DEF q, slot
<1>5. \A s \in Sources : /\ cur[s] \in Nat /\ cur[s] <= Frames[s]
                         /\ lst[s] \in Seq(Slot) /\ buf[s] \in Seq(Window)
  <2>1. \A s \in Sources : cur[s] \in Nat /\ cur[s] <= Frames[s] BY <1>4
  <2>2. \A s \in Sources : lst[s] \in Seq(Slot) BY <1>4
  <2>3. \A s \in Sources : buf[s] \in Seq(Window) BY ShiftSound
  <2> QED BY <2>1, <2>2, <2>3
<1>6. q \in PumpState
  <2>1. cur \in [Sources -> Nat] /\ lst \in [Sources -> Seq(Slot)] /\ buf \in [Sources -> Seq(Window)]
    BY <1>5
  <2>2. p.reads \in SUBSET Read BY <1>1, StateFacts
  <2> HIDE DEF cur, lst, buf
  <2> QED BY <1>2, <2>1, <2>2 DEF PumpState
<1>7. ReadsBounded(q)
  <2>1. ASSUME NEW r \in p.reads PROVE Len(buf[r.source]) <= 1
    <3>1. r.source \in Sources /\ Len(p.buffer[r.source]) <= 1 /\ Len(p.buffer[r.source]) \in Nat
      BY <1>1, StateFacts DEF ReadsBounded
    <3>2. Len(Shift(p, r.source)) <= Len(p.buffer[r.source]) /\ Len(Shift(p, r.source)) \in Nat
      BY <3>1, ShiftSound
    <3> QED BY <3>1, <3>2
  <2> HIDE DEF buf, cur, lst
  <2> QED BY <1>1, <1>3, <2>1 DEF ReadsBounded
<1>8. Dated(q, generation)
  <2>1. ASSUME NEW s \in Sources
        PROVE  /\ Len(lst[s]) <= Slots
               /\ \A i \in 1..Len(lst[s]) : lst[s][i].gen \in 1..generation /\ lst[s][i].to <= Frames[s]
    <3>1. \A i \in 1..Len(p.ring[s]) : p.ring[s][i].gen \in 1..generation /\ p.ring[s][i].to <= Frames[s]
      BY <1>1 DEF Dated
    <3>2. CASE CanWrite(p, s)
      <4>1. lst[s] = Append(p.ring[s], slot(s)) BY <3>2
      <4>2. /\ Len(lst[s]) = Len(p.ring[s]) + 1 /\ lst[s][Len(p.ring[s]) + 1] = slot(s)
            /\ \A i \in 1..Len(p.ring[s]) : lst[s][i] = p.ring[s][i]
        BY <1>4, <4>1
      <4>3. Slots \in Nat BY PumpAssumption
      <4>4. \A i \in 1..Len(lst[s]) : i = Len(p.ring[s]) + 1 \/ i \in 1..Len(p.ring[s])
        BY <1>4, <4>2
      <4>5. /\ Len(p.ring[s]) \in Nat /\ Len(p.ring[s]) < Slots
            /\ slot(s).gen = generation /\ slot(s).to <= Frames[s]
        BY <1>4, <3>2
      <4> HIDE DEF lst
      <4>6. Len(lst[s]) <= Slots
        BY <4>2, <4>3, <4>5
      <4>7. slot(s).gen \in 1..generation
        BY <4>5
      <4> QED BY <3>1, <4>2, <4>4, <4>5, <4>6, <4>7
    <3>3. CASE ~CanWrite(p, s)
      <4>1. lst[s] = p.ring[s] BY <3>3
      <4> HIDE DEF lst
      <4> QED BY <1>4, <3>1, <4>1
    <3> QED BY <3>2, <3>3
  <2>2. \A r \in p.reads : r.gen \in 1..generation BY <1>1 DEF Dated
  <2> QED BY <1>3, <1>5, <2>1, <2>2 DEF Dated
<1>9. Playing(q, generation, x)
  <2>1. ASSUME NEW s \in Sources PROVE SlotsLead(lst[s], generation, x[s], cur[s])
    <3>1. SlotsLead(p.ring[s], generation, x[s], p.cursor[s]) BY <1>1 DEF Playing
    <3>2. CASE CanWrite(p, s)
      <4>1. lst[s] = Append(p.ring[s], slot(s)) /\ cur[s] = Quantized(p, s) BY <3>2
      <4> HIDE DEF lst, cur
      <4> QED BY <1>4, <3>1, <4>1, SlotsAppend DEF slot
    <3>3. CASE ~CanWrite(p, s)
      BY <3>1, <3>3
    <3> QED BY <3>2, <3>3
  <2>2. ASSUME NEW s \in Sources PROVE WindowsHold(s, buf[s], cur[s])
    <3>1. CASE CanWrite(p, s) BY <3>1, WriteFits
    <3>2. CASE ~CanWrite(p, s) BY <3>2, ShiftSound
    <3> QED BY <3>1, <3>2
  <2>3. ASSUME NEW r \in p.reads, r.gen = generation
        PROVE  r.from = NextFrame(buf[r.source], cur[r.source]) /\ r.from < Frames[r.source]
    <3>1. /\ r.source \in Sources /\ Len(p.buffer[r.source]) <= 1 /\ r.from < Frames[r.source]
          /\ r.from = NextFrame(p.buffer[r.source], p.cursor[r.source])
      BY <1>1, <2>3, StateFacts DEF ReadsBounded, Playing
    <3>2. r.from = NextFrame(Shift(p, r.source), p.cursor[r.source])
      BY <3>1, ShiftSound
    <3>3. CASE CanWrite(p, r.source)
      BY <1>4, <3>1, <3>2, <3>3 DEF NextFrame
    <3>4. CASE ~CanWrite(p, r.source)
      BY <3>1, <3>2, <3>4
    <3> QED BY <3>3, <3>4
  <2> HIDE DEF buf, cur, lst
  <2> QED BY <1>3, <2>1, <2>2, <2>3 DEF Playing
<1> QED
  BY <1>6, <1>7, <1>8, <1>9 DEF Sound, Bounded, q

\* A read less, whatever it brought.
LEMMA DropSound ==
  ASSUME NEW p, NEW x, Sound(p, generation, x), NEW r
  PROVE  /\ Sound([p EXCEPT !.reads = @ \ {r}], generation, x)
         /\ [p EXCEPT !.reads = @ \ {r}] =
              [cursor |-> p.cursor, buffer |-> p.buffer, reads |-> p.reads \ {r}, ring |-> p.ring]
<1> DEFINE q == [p EXCEPT !.reads = @ \ {r}]
<1>1. p \in PumpState /\ ReadsBounded(p) /\ Dated(p, generation) /\ Playing(p, generation, x)
  BY DEF Sound, Bounded
<1>2. q = [cursor |-> p.cursor, buffer |-> p.buffer, reads |-> p.reads \ {r}, ring |-> p.ring]
  <2> DEFINE rest == p.reads \ {r}
  <2>1. q = [p EXCEPT !.reads = rest] OBVIOUS
  <2> HIDE DEF rest, q
  <2>2. q = [cursor |-> p.cursor, buffer |-> p.buffer, reads |-> rest, ring |-> p.ring]
    BY <1>1, <2>1 DEF PumpState
  <2> QED BY <2>2 DEF rest
<1>3. q.cursor = p.cursor /\ q.buffer = p.buffer /\ q.reads = p.reads \ {r} /\ q.ring = p.ring
  BY <1>2
<1>4. q \in PumpState
  BY <1>1, <1>2, StateFacts DEF PumpState
<1> HIDE DEF q
<1>5. ReadsBounded(q)
  <2>1. IsFiniteSet(p.reads) /\ Cardinality(p.reads) \in Nat /\ Cardinality(p.reads) <= MaximumReads
    BY <1>1, FS_CardinalityType DEF ReadsBounded
  <2>2. /\ IsFiniteSet(q.reads) /\ Cardinality(q.reads) \in Nat
        /\ Cardinality(q.reads) <= Cardinality(p.reads)
    BY <1>3, <2>1, FS_Subset, FS_CardinalityType
  <2>3. Cardinality(q.reads) <= MaximumReads
    BY <2>1, <2>2, PumpAssumption
  <2> QED BY <1>1, <1>3, <2>2, <2>3 DEF ReadsBounded
<1>6. Dated(q, generation)
  BY <1>1, <1>3 DEF Dated
<1>7. Playing(q, generation, x)
  BY <1>1, <1>3 DEF Playing
<1> QED
  BY <1>2, <1>4, <1>5, <1>6, <1>7 DEF Sound, Bounded, q

\* A window that was read in this generation lands where the source is to go on.
LEMMA LandSound ==
  ASSUME generation \in Nat, generation >= 1, Sound(Now, generation, position), NEW r \in reads
  PROVE  /\ Sound(Land(r), generation, position)
         /\ Land(r).cursor = cursor /\ Land(r).ring = ring /\ Land(r).reads = reads \ {r}
<1> DEFINE p == [Now EXCEPT !.reads = @ \ {r}]
<1>1. Now.cursor = cursor /\ Now.buffer = buffer /\ Now.reads = reads /\ Now.ring = ring
  BY DEF Now
<1>2. /\ Sound(p, generation, position)
      /\ p = [cursor |-> cursor, buffer |-> buffer, reads |-> reads \ {r}, ring |-> ring]
  BY <1>1, DropSound
<1>3. CASE r.gen # generation
  BY <1>2, <1>3 DEF Land
<1>4. CASE r.gen = generation
  <2> DEFINE s == r.source
             w == WindowOf(r)
             grown == [buffer EXCEPT ![s] = Append(buffer[s], w)]
             q == [cursor |-> cursor, buffer |-> grown, reads |-> reads \ {r}, ring |-> ring]
  <2>1. Now \in PumpState /\ ReadsBounded(Now) /\ Dated(Now, generation) /\ Playing(Now, generation, position)
    BY DEF Sound, Bounded
  <2>2. /\ s \in Sources /\ r.from \in Nat /\ buffer \in [Sources -> Seq(Window)] /\ buffer[s] \in Seq(Window)
        /\ Len(buffer[s]) \in Nat /\ Len(buffer[s]) <= 1 /\ cursor[s] \in Nat /\ Frames[s] \in Nat
    BY <1>1, <2>1, StateFacts, FramesType DEF ReadsBounded
  <2>3. r.from = NextFrame(buffer[s], cursor[s]) /\ r.from < Frames[s]
    BY <1>1, <1>4, <2>1 DEF Playing
  <2>4. w \in Window /\ Whole(s, w) /\ w.from = NextFrame(buffer[s], cursor[s])
    <3>1. Aligned \in Nat /\ Aligned \in Quanta /\ Aligned >= 1
      BY AlignedQuanta, QuantaAdd, PumpAssumption
    <3>2. Min({r.from + Aligned, Frames[s]}) = IF r.from + Aligned <= Frames[s] THEN r.from + Aligned ELSE Frames[s]
      BY <2>2, <3>1, MinMax
    <3>3. w = [from |-> r.from, to |-> IF r.from + Aligned <= Frames[s] THEN r.from + Aligned ELSE Frames[s]]
      BY <3>2 DEF WindowOf
    <3>4. w.from = r.from /\ w.to = IF r.from + Aligned <= Frames[s] THEN r.from + Aligned ELSE Frames[s]
      BY <3>3
    <3>5. w \in Window
      BY <2>2, <3>1, <3>3 DEF Window
    <3> HIDE DEF w
    <3>6. w.to = Frames[s] \/ w.to - w.from = Aligned
      BY <2>2, <3>1, <3>4
    <3>7. w.from < w.to /\ w.to <= Frames[s]
      BY <2>2, <2>3, <3>1, <3>4
    <3> QED BY <2>3, <3>1, <3>4, <3>5, <3>6, <3>7 DEF Whole
  <2>5. SubSeq(buffer[s], 1, Min({1, Len(buffer[s])})) = buffer[s]
    <3>1. Min({1, Len(buffer[s])}) = Len(buffer[s])
      BY <2>2, MinMax
    <3> HIDE DEF s
    <3>2. SubSeq(buffer[s], 1, Len(buffer[s])) = buffer[s]
      BY <2>2
    <3> QED BY <3>1, <3>2
  <2>6. WindowsHold(s, buffer[s], cursor[s])
    BY <1>1, <2>1, <2>2 DEF Playing
  <2>7. Append(buffer[s], w) \in Seq(Window) /\ WindowsHold(s, Append(buffer[s], w), cursor[s])
    BY <2>2, <2>4, <2>6, WindowsLand
  <2>8. Land(r) = q
    <3>1. Land(r) = [Now EXCEPT !.reads = reads \ {r},
                                !.buffer[s] = Append(buffer[s], w)]
      BY <1>1, <1>4, <2>5 DEF Land
    <3> HIDE DEF s, w
    <3> QED BY <3>1 DEF Now
  <2>9. q.cursor = cursor /\ q.buffer = grown /\ q.reads = reads \ {r} /\ q.ring = ring
    OBVIOUS
  <2> HIDE DEF w, s
  <2>10. grown[s] = Append(buffer[s], w) /\ \A u \in Sources : u # s => grown[u] = buffer[u]
    BY <2>2
  <2>11. grown \in [Sources -> Seq(Window)]
    BY <2>2, <2>7
  <2> HIDE DEF grown
  <2>12. q \in PumpState
    <3>1. cursor \in [Sources -> Nat] /\ ring \in [Sources -> Seq(Slot)] /\ reads \ {r} \in SUBSET Read
      BY <1>1, <2>1, StateFacts
    <3> QED BY <2>11, <3>1 DEF PumpState
  <2> HIDE DEF q
  <2>13. \A o \in reads \ {r} : o.source \in Sources /\ o.source # s
    BY <1>1, <2>1, StateFacts DEF ReadsBounded, s
  <2>14. p.cursor = cursor /\ p.buffer = buffer /\ p.reads = reads \ {r} /\ p.ring = ring
    BY <1>2
  <2> HIDE DEF p
  <2>15. ReadsBounded(p) /\ Dated(p, generation) /\ Playing(p, generation, position)
    BY <1>2 DEF Sound, Bounded
  <2>16. ReadsBounded(q)
    <3>1. \A o \in q.reads : o.source \in Sources /\ q.buffer[o.source] = p.buffer[o.source]
      BY <2>9, <2>10, <2>13, <2>14
    <3>2. q.reads = p.reads BY <2>9, <2>14
    <3> QED BY <2>15, <3>1, <3>2 DEF ReadsBounded
  <2>17. Dated(q, generation)
    BY <2>9, <2>14, <2>15 DEF Dated
  <2>18. Playing(q, generation, position)
    <3>1. \A u \in Sources : WindowsHold(u, q.buffer[u], q.cursor[u])
      <4>1. ASSUME NEW u \in Sources, u # s PROVE WindowsHold(u, grown[u], cursor[u])
        BY <1>1, <2>1, <2>10, <4>1 DEF Playing
      <4> QED BY <2>7, <2>9, <2>10, <4>1
    <3>2. \A o \in q.reads : q.buffer[o.source] = p.buffer[o.source] /\ o \in p.reads
      BY <2>9, <2>10, <2>13, <2>14
    <3>3. q.cursor = p.cursor /\ q.ring = p.ring BY <2>9, <2>14
    <3> QED BY <2>15, <3>1, <3>2, <3>3 DEF Playing
  <2> QED BY <2>8, <2>9, <2>12, <2>16, <2>17, <2>18 DEF Sound, Bounded
<1> QED
  BY <1>3, <1>4

-----------------------------------------------------------------------------
(* The inductive invariant. *)

Operations == {"initialize", "seek", "stop"}

Requests == {[op |-> "initialize"], [op |-> "stop"]} \cup {[op |-> "seek", frame |-> t] : t \in Targets}

SeeksIn(l) == Cardinality({i \in 1..Len(l) : l[i].op = "seek"})

Typed ==
  /\ client \in {"initializing", "open", "closing", "closed"}
  /\ waiting \subseteq {"initialize", "seek", "stop"}
  /\ inbox \in Seq(Requests) /\ outbox \in Seq(Replies)
  /\ pump \in {"none", "live", "closed"} /\ driving \in BOOLEAN /\ failure \in BOOLEAN
  /\ generation \in 1..MaxSeeks + 1
  /\ position \in [Sources -> Nat] /\ \A s \in Sources : position[s] <= Frames[s]

\* Only a Worker that has no pump yet is asked for one, and no seek is one too many.
Asked ==
  /\ (\E i \in 1..Len(inbox) : inbox[i].op = "initialize") =>
       pump = "none" /\ Len(inbox) = 1 /\ outbox = <<>> /\ client = "initializing"
  /\ generation + SeeksIn(inbox) <= MaxSeeks + 1

\* Until it is closed, the pump goes on where it is.
Steady ==
  /\ Bounded(Now, generation)
  /\ driving => pump = "live"
  /\ IF pump = "closed" THEN \A s \in Sources : buffer[s] = <<>>
                        ELSE Playing(Now, generation, position)

PumpInv == Typed /\ Asked /\ Steady

LEMMA RequestFacts ==
  /\ \A m \in Requests : m.op \in Operations
  /\ \A m \in Requests : m.op = "seek" => m.frame \in Targets /\ m.frame \in Nat
<1>1. ASSUME NEW m \in Requests
      PROVE  m.op \in Operations /\ (m.op = "seek" => m.frame \in Targets)
  BY DEF Requests, Operations
<1> QED
  BY <1>1, PumpAssumption

\* How many seeks a queue of requests holds.
LEMMA SeeksCount ==
  ASSUME NEW l \in Seq(Requests)
  PROVE  /\ SeeksIn(l) \in Nat
         /\ \A m \in Requests : SeeksIn(Append(l, m)) = IF m.op = "seek" THEN SeeksIn(l) + 1 ELSE SeeksIn(l)
         /\ l # <<>> => SeeksIn(Tail(l)) = IF l[1].op = "seek" THEN SeeksIn(l) - 1 ELSE SeeksIn(l)
<1> DEFINE ops(q) == [i \in 1..Len(q) |-> q[i].op]
<1>1. ASSUME NEW q \in Seq(Requests)
      PROVE  ops(q) \in Seq(Operations) /\ Len(ops(q)) = Len(q) /\ SeeksIn(q) = Occurrences("seek", ops(q))
  <2>1. Len(q) \in Nat /\ \A i \in 1..Len(q) : q[i] \in Requests /\ q[i].op \in Operations
    BY RequestFacts
  <2>2. ops(q) \in Seq(Operations) /\ Len(ops(q)) = Len(q)
    BY <2>1
  <2>3. {i \in 1..Len(q) : q[i].op = "seek"} = {i \in 1..Len(ops(q)) : ops(q)[i] = "seek"}
    BY <2>2
  <2> HIDE DEF ops
  <2> QED BY <2>2, <2>3 DEF SeeksIn, Occurrences
<1>2. ASSUME NEW m \in Requests PROVE ops(Append(l, m)) = Append(ops(l), m.op)
  <2>1. /\ Append(l, m) \in Seq(Requests) /\ Len(Append(l, m)) = Len(l) + 1 /\ Len(l) \in Nat
        /\ Append(l, m)[Len(l) + 1] = m /\ \A i \in 1..Len(l) : Append(l, m)[i] = l[i]
    OBVIOUS
  <2> DEFINE a == ops(Append(l, m))
             b == Append(ops(l), m.op)
  <2>2. ops(l) \in Seq(Operations) /\ Len(ops(l)) = Len(l) /\ m.op \in Operations
    BY <1>1, RequestFacts
  <2>3. /\ b \in Seq(Operations) /\ Len(b) = Len(l) + 1 /\ b[Len(l) + 1] = m.op
        /\ \A i \in 1..Len(l) : b[i] = ops(l)[i]
    <3> HIDE DEF ops
    <3> QED BY <2>1, <2>2
  <2>4. a \in Seq(Operations) /\ Len(a) = Len(l) + 1
    BY <1>1, <2>1
  <2>5. \A i \in 1..Len(l) + 1 : a[i] = b[i]
    BY <2>1, <2>3
  <2> HIDE DEF a, b
  <2> QED BY <2>3, <2>4, <2>5, SeqEqual DEF a, b
<1>3. ASSUME l # <<>> PROVE ops(Tail(l)) = Tail(ops(l)) /\ ops(l) # <<>> /\ Head(ops(l)) = l[1].op
  <2>1. /\ Tail(l) \in Seq(Requests) /\ Len(Tail(l)) = Len(l) - 1 /\ Len(l) \in Nat /\ Len(l) >= 1
        /\ \A i \in 1..Len(Tail(l)) : i + 1 \in 1..Len(l) /\ Tail(l)[i] = l[i + 1]
    BY <1>3, HeadAndTail
  <2>2. ops(l) \in Seq(Operations) /\ Len(ops(l)) = Len(l) /\ ops(l) # <<>> /\ ops(l)[1] = l[1].op
    <3>1. ops(l) \in Seq(Operations) /\ Len(ops(l)) = Len(l) BY <1>1
    <3>2. ops(l)[1] = l[1].op BY <2>1
    <3> HIDE DEF ops
    <3>3. ops(l) # <<>> BY <2>1, <3>1, EmptySeq
    <3> QED BY <3>1, <3>2, <3>3
  <2> DEFINE a == ops(Tail(l))
             b == Tail(ops(l))
  <2>3. /\ b \in Seq(Operations) /\ Len(b) = Len(l) - 1 /\ Head(ops(l)) = ops(l)[1]
        /\ \A i \in 1..Len(b) : b[i] = ops(l)[i + 1]
    <3> HIDE DEF ops
    <3> QED BY <2>2, HeadAndTail
  <2>4. a \in Seq(Operations) /\ Len(a) = Len(l) - 1
    BY <1>1, <2>1
  <2>5. \A i \in 1..Len(l) - 1 : a[i] = b[i]
    <3>1. \A i \in 1..Len(l) - 1 : a[i] = l[i + 1].op BY <2>1
    <3>2. \A i \in 1..Len(l) - 1 : ops(l)[i + 1] = l[i + 1].op BY <2>1
    <3> HIDE DEF a, b, ops
    <3> QED BY <2>1, <2>3, <3>1, <3>2
  <2> HIDE DEF a, b, ops
  <2> QED BY <2>2, <2>3, <2>4, <2>5, SeqEqual DEF a, b
<1> HIDE DEF ops
<1>4. ops(l) \in Seq(Operations) /\ SeeksIn(l) = Occurrences("seek", ops(l)) /\ SeeksIn(l) \in Nat
  BY <1>1, OccurrencesFinite
<1>5. ASSUME NEW m \in Requests
      PROVE  SeeksIn(Append(l, m)) = IF m.op = "seek" THEN SeeksIn(l) + 1 ELSE SeeksIn(l)
  <2>1. Append(l, m) \in Seq(Requests) /\ m.op \in Operations BY RequestFacts
  <2>2. SeeksIn(Append(l, m)) = Occurrences("seek", Append(ops(l), m.op))
    BY <1>1, <1>2, <2>1
  <2> QED BY <1>4, <2>1, <2>2, OccurrencesAppend
<1>6. ASSUME l # <<>>
      PROVE  SeeksIn(Tail(l)) = IF l[1].op = "seek" THEN SeeksIn(l) - 1 ELSE SeeksIn(l)
  <2>1. Tail(l) \in Seq(Requests) BY <1>6, HeadAndTail
  <2> QED BY <1>1, <1>3, <1>4, <1>6, <2>1, OccurrencesTail
<1> QED
  BY <1>4, <1>5, <1>6

-----------------------------------------------------------------------------
(* Every step keeps it. *)

\* The state as the operators see it.
LEMMA NowFacts ==
  /\ Now.cursor = cursor /\ Now.buffer = buffer /\ Now.reads = reads /\ Now.ring = ring
  /\ Now'.cursor = cursor' /\ Now'.buffer = buffer' /\ Now'.reads = reads' /\ Now'.ring = ring'
  BY DEF Now

\* A closed pump holds no window, whatever is still being read or played.
LEMMA ClosedSteady ==
  ASSUME Steady, UNCHANGED <<generation, cursor, ring>>, reads' \subseteq reads \/ (\E q \in Scheduled(Now) : reads' = q.reads),
         pump = "live" \/ reads' \subseteq reads, generation \in Nat, generation >= 1,
         ClosePump
  PROVE  Steady'
<1>1. pump' = "closed" /\ driving' = FALSE /\ buffer' = [s \in Sources |-> <<>>]
  BY DEF ClosePump
<1>2. Now \in PumpState /\ ReadsBounded(Now) /\ Dated(Now, generation)
  BY DEF Steady, Bounded
<1>3. /\ reads' \subseteq Read /\ IsFiniteSet(reads') /\ Cardinality(reads') <= MaximumReads
      /\ \A r \in reads' : r.from <= Frames[r.source] /\ r.source \in Sources /\ r.gen \in 1..generation
      /\ \A r, o \in reads' : r.source = o.source => r = o
  <2>1. CASE reads' \subseteq reads
    <3>1. /\ reads \subseteq Read /\ IsFiniteSet(reads) /\ Cardinality(reads) <= MaximumReads
          /\ \A r \in reads : r.from <= Frames[r.source] /\ r.source \in Sources /\ r.gen \in 1..generation
          /\ \A r, o \in reads : r.source = o.source => r = o
      BY <1>2, NowFacts, StateFacts DEF ReadsBounded, Dated
    <3>2. IsFiniteSet(reads') /\ Cardinality(reads') \in Nat /\ Cardinality(reads) \in Nat
          /\ Cardinality(reads') <= Cardinality(reads)
      BY <2>1, <3>1, FS_Subset, FS_CardinalityType
    <3>3. MaximumReads \in Nat BY PumpAssumption
    <3>4. Cardinality(reads') <= MaximumReads BY <3>1, <3>2, <3>3
    <3> QED BY <2>1, <3>1, <3>2, <3>4
  <2>2. CASE pump = "live" /\ \E q \in Scheduled(Now) : reads' = q.reads
    <3>1. PICK q \in Scheduled(Now) : reads' = q.reads BY <2>2
    <3>2. Sound(Now, generation, position) BY <2>2 DEF Steady, Sound
    <3>3. Sound(q, generation, position) BY <3>2, ScheduledSound
    <3>4. q \in PumpState /\ ReadsBounded(q) /\ Dated(q, generation) BY <3>3 DEF Sound, Bounded
    <3> QED BY <3>1, <3>4, StateFacts DEF ReadsBounded, Dated
  <2> QED BY <2>1, <2>2
<1>4. Now' \in PumpState
  <2>1. cursor' \in [Sources -> Nat] /\ ring' \in [Sources -> Seq(Slot)]
    BY <1>2, NowFacts, StateFacts
  <2>2. buffer' \in [Sources -> Seq(Window)]
    BY <1>1
  <2> QED BY <1>3, <2>1, <2>2 DEF PumpState, Now
<1>5. \A s \in Sources : buffer'[s] = <<>> /\ Len(buffer'[s]) = 0
  BY <1>1
<1>6. ReadsBounded(Now')
  BY <1>3, <1>5, NowFacts DEF ReadsBounded
<1>7. Dated(Now', generation')
  BY <1>2, <1>3, NowFacts DEF Dated
<1> QED
  BY <1>1, <1>4, <1>5, <1>6, <1>7 DEF Steady, Bounded

LEMMA PassSteady == ASSUME PumpInv, Pass PROVE Steady'
<1>1. generation \in Nat /\ generation >= 1 /\ position \in [Sources -> Nat] /\ pump = "live"
  BY PumpAssumption DEF PumpInv, Typed, Steady, Pass
<1>2. Sound(Now, generation, position)
  BY <1>1 DEF PumpInv, Steady, Sound
<1>3. PICK p \in IF failure THEN {Now} ELSE Scheduled(Now) :
        \/ /\ failure \/ \E s \in Sources : Misfit(p, s)
           /\ ClosePump /\ reads' = p.reads /\ UNCHANGED ring
        \/ /\ ~failure
           /\ \E q \in Scheduled(Written(p)) :
                /\ cursor' = q.cursor /\ buffer' = q.buffer
                /\ reads' = q.reads /\ ring' = q.ring
                /\ driving' = \E s \in Sources : ~Finished(q, s)
           /\ UNCHANGED <<pump, generation>>
  BY DEF Pass
<1>4. CASE ClosePump /\ reads' = p.reads /\ UNCHANGED ring
  <2>1. UNCHANGED <<generation, cursor, ring>>
    BY <1>4 DEF ClosePump
  <2>2. reads' \subseteq reads \/ \E q \in Scheduled(Now) : reads' = q.reads
    BY <1>4, NowFacts
  <2> QED BY <1>1, <1>4, <2>1, <2>2, ClosedSteady DEF PumpInv
<1>5. CASE /\ ~failure
           /\ \E q \in Scheduled(Written(p)) :
                /\ cursor' = q.cursor /\ buffer' = q.buffer
                /\ reads' = q.reads /\ ring' = q.ring
                /\ driving' = \E s \in Sources : ~Finished(q, s)
           /\ UNCHANGED <<pump, generation>>
  <2>1. Sound(p, generation, position)
    BY <1>1, <1>2, <1>3, <1>5, ScheduledSound
  <2>2. Sound(Written(p), generation, position)
    BY <1>1, <2>1, WrittenSound
  <2>3. PICK q \in Scheduled(Written(p)) :
          cursor' = q.cursor /\ buffer' = q.buffer /\ reads' = q.reads /\ ring' = q.ring
    BY <1>5
  <2>4. Sound(q, generation, position)
    BY <1>1, <2>2, ScheduledSound
  <2>5. Now' = q
    <3>1. q = [cursor |-> q.cursor, buffer |-> q.buffer, reads |-> q.reads, ring |-> q.ring]
      BY <2>4, StateFacts DEF Sound, Bounded
    <3> QED BY <2>3, <3>1 DEF Now
  <2>6. UNCHANGED <<pump, generation, position>>
    BY <1>5 DEF Pass
  <2> QED BY <1>1, <2>4, <2>5, <2>6 DEF Steady, Sound
<1> QED
  BY <1>3, <1>4, <1>5

LEMMA ReadSettlesSteady ==
  ASSUME PumpInv, NEW r \in reads, NEW ok \in BOOLEAN, ReadSettles(r, ok)
  PROVE  Steady'
<1>1. generation \in Nat /\ generation >= 1 /\ position \in [Sources -> Nat]
  BY PumpAssumption DEF PumpInv, Typed
<1>2. UNCHANGED <<pump, driving, generation, cursor, ring, position>>
  BY DEF ReadSettles, rings
<1>3. Now \in PumpState
  BY DEF PumpInv, Steady, Bounded
<1>4. CASE pump = "live"
  <2>1. Sound(Now, generation, position)
    BY <1>4 DEF PumpInv, Steady, Sound
  <2>2. /\ Sound(Land(r), generation, position)
        /\ Land(r).cursor = cursor /\ Land(r).ring = ring /\ Land(r).reads = reads \ {r}
    BY <1>1, <2>1, LandSound
  <2>3. \E q : Sound(q, generation, position) /\ q.cursor = cursor /\ q.ring = ring
               /\ buffer' = q.buffer /\ reads' = q.reads
    <3>1. CASE \E p \in Scheduled(Land(r)) : reads' = p.reads /\ buffer' = p.buffer
      BY <1>1, <2>2, <3>1, ScheduledSound
    <3>2. CASE reads' = reads \ {r} /\ buffer' = IF ok THEN Land(r).buffer ELSE buffer
      <4>1. CASE ok BY <2>2, <3>2, <4>1
      <4>2. CASE ~ok
        <5> DEFINE d == [Now EXCEPT !.reads = @ \ {r}]
        <5>1. Sound(d, generation, position) /\ d.cursor = cursor /\ d.ring = ring
              /\ d.buffer = buffer /\ d.reads = reads \ {r}
          <6>1. /\ Sound(d, generation, position)
                /\ d = [cursor |-> cursor, buffer |-> buffer, reads |-> reads \ {r}, ring |-> ring]
            BY <2>1, DropSound, NowFacts
          <6> HIDE DEF d
          <6> QED BY <6>1
        <5> HIDE DEF d
        <5> QED BY <3>2, <4>2, <5>1
      <4> QED BY <4>1, <4>2
    <3> QED BY <1>4, <3>1, <3>2 DEF ReadSettles
  <2>4. PICK q : Sound(q, generation, position) /\ q.cursor = cursor /\ q.ring = ring
                 /\ buffer' = q.buffer /\ reads' = q.reads
    BY <2>3
  <2>5. Now' = q
    <3>1. q = [cursor |-> q.cursor, buffer |-> q.buffer, reads |-> q.reads, ring |-> q.ring]
      BY <2>4, StateFacts DEF Sound, Bounded
    <3> QED BY <1>2, <2>4, <3>1 DEF Now
  <2> QED BY <1>2, <1>4, <2>4, <2>5 DEF PumpInv, Steady, Sound
<1>5. CASE pump # "live"
  <2>1. reads' = reads \ {r} /\ UNCHANGED buffer
    BY <1>5 DEF ReadSettles
  <2>2. Now' = [cursor |-> cursor, buffer |-> buffer, reads |-> reads \ {r}, ring |-> ring]
    BY <1>2, <2>1 DEF Now
  <2>3. ReadsBounded(Now) /\ Dated(Now, generation)
    BY DEF PumpInv, Steady, Bounded
  <2>4. Now' \in PumpState
    BY <1>3, <2>2, NowFacts, StateFacts DEF PumpState
  <2>5. ReadsBounded(Now')
    <3>1. IsFiniteSet(reads) /\ Cardinality(reads) \in Nat /\ Cardinality(reads) <= MaximumReads
      BY <2>3, NowFacts, FS_CardinalityType DEF ReadsBounded
    <3>2. IsFiniteSet(reads') /\ Cardinality(reads') \in Nat /\ Cardinality(reads') <= Cardinality(reads)
      BY <2>1, <3>1, FS_Subset, FS_CardinalityType
    <3>3. Cardinality(reads') <= MaximumReads
      BY <3>1, <3>2, PumpAssumption
    <3> QED BY <2>1, <2>3, <3>2, <3>3, NowFacts DEF ReadsBounded
  <2>6. Dated(Now', generation')
    BY <1>2, <2>1, <2>3, NowFacts DEF Dated
  <2>7. Playing(Now, generation, position) => Playing(Now', generation', position')
    BY <1>2, <2>1, NowFacts DEF Playing
  <2> QED BY <1>2, <2>1, <2>4, <2>5, <2>6, <2>7 DEF PumpInv, Steady, Bounded
<1> QED
  BY <1>4, <1>5

\* What the first request is and what is behind it.
LEMMA InboxFacts ==
  ASSUME PumpInv, inbox # <<>>
  PROVE  /\ inbox[1] \in Requests /\ Len(inbox) \in Nat /\ 1 \in 1..Len(inbox)
         /\ Tail(inbox) \in Seq(Requests) /\ Len(Tail(inbox)) = Len(inbox) - 1
         /\ \A i \in 1..Len(Tail(inbox)) : i + 1 \in 1..Len(inbox) /\ Tail(inbox)[i] = inbox[i + 1]
         /\ inbox[1].op = "seek" => inbox[1].frame \in Nat /\ generation + 1 <= MaxSeeks + 1
<1>1. inbox \in Seq(Requests) /\ generation \in Nat /\ MaxSeeks \in Nat
      /\ generation + SeeksIn(inbox) <= MaxSeeks + 1
  BY PumpAssumption DEF PumpInv, Typed, Asked
<1>2. /\ inbox[1] \in Requests /\ Len(inbox) \in Nat /\ 1 \in 1..Len(inbox)
      /\ Tail(inbox) \in Seq(Requests) /\ Len(Tail(inbox)) = Len(inbox) - 1
      /\ \A i \in 1..Len(Tail(inbox)) : i + 1 \in 1..Len(inbox) /\ Tail(inbox)[i] = inbox[i + 1]
  BY <1>1, HeadAndTail
<1>3. ASSUME inbox[1].op = "seek" PROVE inbox[1].frame \in Nat /\ generation + 1 <= MaxSeeks + 1
  <2>1. SeeksIn(Tail(inbox)) = SeeksIn(inbox) - 1 /\ SeeksIn(Tail(inbox)) \in Nat /\ SeeksIn(inbox) \in Nat
    BY <1>1, <1>2, <1>3, SeeksCount
  <2>2. inbox[1].frame \in Nat
    BY <1>2, <1>3, RequestFacts
  <2> QED BY <1>1, <2>1, <2>2
<1> QED
  BY <1>2, <1>3

LEMMA HandleSeekSteady == ASSUME PumpInv, HandleSeek PROVE Steady' /\ Typed'
<1>1. /\ generation \in 1..MaxSeeks + 1 /\ generation \in Nat /\ MaxSeeks \in Nat
      /\ position \in [Sources -> Nat] /\ inbox[1].op = "seek" /\ inbox # <<>>
  BY PumpAssumption DEF PumpInv, Typed, HandleSeek
<1>2. inbox[1].frame \in Nat /\ generation + 1 <= MaxSeeks + 1 /\ Tail(inbox) \in Seq(Requests)
  BY <1>1, InboxFacts
<1>3. UNCHANGED <<client, waiting, pump, reads, failure, ring>> /\ inbox' = Tail(inbox)
  BY DEF HandleSeek, clientVars, Answer
<1>4. inbox' \in Seq(Requests) /\ outbox' \in Seq(Replies)
  <2>1. outbox' = Append(outbox, "sought") \/ outbox' = Append(outbox, "refused")
    BY DEF HandleSeek, Answer
  <2>2. outbox \in Seq(Replies) /\ "sought" \in Replies /\ "refused" \in Replies
    BY DEF PumpInv, Typed, Replies
  <2>3. Append(outbox, "sought") \in Seq(Replies) /\ Append(outbox, "refused") \in Seq(Replies)
    BY <2>2
  <2> QED BY <1>2, <1>3, <2>1, <2>3
<1>5. CASE pump # "live"
  <2>1. UNCHANGED <<generation, cursor, buffer, driving, position>>
    BY <1>5 DEF HandleSeek
  <2>2. Now' = Now
    BY <1>3, <2>1 DEF Now
  <2> QED BY <1>3, <1>4, <2>1, <2>2 DEF PumpInv, Steady, Typed
<1>6. CASE pump = "live"
  <2> DEFINE cur == [s \in Sources |-> Min({inbox[1].frame, Frames[s]})]
             g == generation + 1
  <2>1. /\ cursor' = cur /\ position' = cur /\ buffer' = [s \in Sources |-> <<>>]
        /\ driving' = TRUE /\ generation' = g
    BY <1>6 DEF HandleSeek, SeekTo
  <2>2. cur \in [Sources -> Nat] /\ \A s \in Sources : cur[s] <= Frames[s]
    <3>1. ASSUME NEW s \in Sources
          PROVE  Min({inbox[1].frame, Frames[s]}) \in Nat /\ Min({inbox[1].frame, Frames[s]}) <= Frames[s]
      <4>1. Frames[s] \in Nat BY FramesType
      <4>2. Min({inbox[1].frame, Frames[s]}) = IF inbox[1].frame <= Frames[s] THEN inbox[1].frame ELSE Frames[s]
        BY <1>2, <4>1, MinMax
      <4> QED BY <1>2, <4>1, <4>2
    <3> QED BY <3>1
  <2>3. g \in 1..MaxSeeks + 1 /\ g \in Nat /\ \A i \in 1..generation : i \in 1..g /\ i # g
    BY <1>1, <1>2
  <2> HIDE DEF cur, g
  <2>4. Now \in PumpState /\ ReadsBounded(Now) /\ Dated(Now, generation)
    BY DEF PumpInv, Steady, Bounded
  <2>5. /\ Now'.cursor = cur /\ Now'.buffer = [s \in Sources |-> <<>>]
        /\ Now'.reads = reads /\ Now'.ring = ring
    BY <1>3, <2>1, NowFacts
  <2>6. Now' \in PumpState
    <3>1. Now' = [cursor |-> cur, buffer |-> [s \in Sources |-> <<>>], reads |-> reads, ring |-> ring]
      BY <1>3, <2>1 DEF Now
    <3>2. [s \in Sources |-> <<>>] \in [Sources -> Seq(Window)]
      OBVIOUS
    <3>3. reads \in SUBSET Read /\ ring \in [Sources -> Seq(Slot)]
      BY <2>4, NowFacts, StateFacts
    <3> QED BY <2>2, <3>1, <3>2, <3>3 DEF PumpState
  <2>7. \A s \in Sources : Now'.buffer[s] = <<>> /\ Len(Now'.buffer[s]) = 0
    BY <2>5
  <2>8. ReadsBounded(Now')
    <3>1. \A r \in reads : r.source \in Sources
      BY <2>4, NowFacts, StateFacts
    <3> QED BY <2>4, <2>5, <2>7, <3>1, NowFacts DEF ReadsBounded
  <2>9. Dated(Now', g)
    BY <2>2, <2>3, <2>4, <2>5, NowFacts DEF Dated
  <2>10. Playing(Now', g, cur)
    <3>1. ASSUME NEW s \in Sources PROVE SlotsLead(ring[s], g, cur[s], cur[s])
      <4>1. ring[s] \in Seq(Slot) BY <2>4, NowFacts, StateFacts
      <4>2. \A i \in 1..Len(ring[s]) : ring[s][i].gen # g BY <2>3, <2>4, NowFacts DEF Dated
      <4> QED BY <4>1, <4>2, SlotsRestart
    <3>2. ASSUME NEW s \in Sources PROVE WindowsHold(s, Now'.buffer[s], cur[s])
      BY <2>7 DEF WindowsHold
    <3>3. \A r \in reads : r.gen # g
      BY <2>3, <2>4, NowFacts DEF Dated
    <3> QED BY <2>5, <3>1, <3>2, <3>3 DEF Playing
  <2>11. Steady'
    BY <1>3, <1>6, <2>1, <2>6, <2>8, <2>9, <2>10 DEF Steady, Bounded
  <2>12. Typed'
    BY <1>3, <1>4, <2>1, <2>2, <2>3 DEF PumpInv, Typed
  <2> QED BY <2>11, <2>12
<1> QED
  BY <1>5, <1>6

LEMMA TakeSlotSteady ==
  ASSUME PumpInv, NEW s \in Sources, TakeSlot(s)
  PROVE  Steady' /\ position' \in [Sources -> Nat] /\ \A u \in Sources : position'[u] <= Frames[u]
<1>1. generation \in Nat /\ position \in [Sources -> Nat] /\ \A u \in Sources : position[u] <= Frames[u]
  BY PumpAssumption DEF PumpInv, Typed
<1>2. Now \in PumpState /\ ReadsBounded(Now) /\ Dated(Now, generation)
  BY DEF PumpInv, Steady, Bounded
<1> DEFINE l == ring[s]
           y == IF l[1].gen = generation THEN l[1].to ELSE position[s]
<1>3. l # <<>> /\ ring' = [ring EXCEPT ![s] = Tail(l)]
  BY DEF TakeSlot
<1>4. ring \in [Sources -> Seq(Slot)] /\ l \in Seq(Slot) /\ cursor \in [Sources -> Nat] /\ cursor[s] \in Nat
  BY <1>2, NowFacts, StateFacts
<1>5. /\ Len(l) \in Nat /\ 1 \in 1..Len(l) /\ l[1] \in Slot /\ Tail(l) \in Seq(Slot)
      /\ Len(Tail(l)) = Len(l) - 1
      /\ \A i \in 1..Len(Tail(l)) : i + 1 \in 1..Len(l) /\ Tail(l)[i] = l[i + 1]
  BY <1>3, <1>4, HeadAndTail
<1>6. Len(l) <= Slots /\ \A i \in 1..Len(l) : l[i].gen \in 1..generation /\ l[i].to <= Frames[s]
  BY <1>2, NowFacts DEF Dated
<1>7. y \in Nat /\ y <= Frames[s]
  BY <1>1, <1>5, <1>6 DEF Slot
<1>8. position' = [position EXCEPT ![s] = y]
  <2>1. CASE l[1].gen = generation BY <2>1 DEF TakeSlot
  <2>2. CASE l[1].gen # generation
    <3>1. position' = position /\ y = position[s] BY <2>2 DEF TakeSlot
    <3> HIDE DEF y
    <3> QED BY <1>1, <3>1
  <2> QED BY <2>1, <2>2
<1>9. /\ ring'[s] = Tail(l) /\ \A u \in Sources : u # s => ring'[u] = ring[u]
      /\ ring' \in [Sources -> Seq(Slot)]
  <2> HIDE DEF l
  <2> QED BY <1>3, <1>4, <1>5
<1> HIDE DEF y
<1>10. /\ position'[s] = y /\ \A u \in Sources : u # s => position'[u] = position[u]
       /\ position' \in [Sources -> Nat] /\ \A u \in Sources : position'[u] <= Frames[u]
  BY <1>1, <1>7, <1>8
<1>11. UNCHANGED <<pump, driving, generation, cursor, buffer, reads>>
  BY DEF TakeSlot, pumpVars
<1>12. Now' \in PumpState
  <2>1. Now' = [cursor |-> cursor, buffer |-> buffer, reads |-> reads, ring |-> ring']
    BY <1>11 DEF Now
  <2>2. reads \in SUBSET Read /\ buffer \in [Sources -> Seq(Window)]
    BY <1>2, NowFacts, StateFacts
  <2> QED BY <1>4, <1>9, <2>1, <2>2 DEF PumpState
<1>13. ReadsBounded(Now')
  BY <1>2, <1>11, NowFacts DEF ReadsBounded
<1> HIDE DEF l
<1>14. Dated(Now', generation)
  <2>1. ASSUME NEW u \in Sources
        PROVE  /\ cursor[u] <= Frames[u] /\ Len(ring'[u]) <= Slots
               /\ \A i \in 1..Len(ring'[u]) : ring'[u][i].gen \in 1..generation /\ ring'[u][i].to <= Frames[u]
    <3>1. CASE u # s BY <1>2, <1>9, <3>1, NowFacts DEF Dated
    <3>2. CASE u = s
      <4>1. Slots \in Nat BY PumpAssumption
      <4>2. Len(Tail(l)) <= Slots BY <1>5, <1>6, <4>1
      <4>3. cursor[s] <= Frames[s] BY <1>2, NowFacts DEF Dated
      <4>4. \A i \in 1..Len(Tail(l)) : Tail(l)[i].gen \in 1..generation /\ Tail(l)[i].to <= Frames[s]
        BY <1>5, <1>6
      <4> QED BY <1>9, <3>2, <4>2, <4>3, <4>4
    <3> QED BY <3>1, <3>2
  <2>2. \A r \in reads : r.gen \in 1..generation
    BY <1>2, NowFacts DEF Dated
  <2> QED BY <1>11, <2>1, <2>2, NowFacts DEF Dated
<1>15. Playing(Now, generation, position) => Playing(Now', generation, position')
  <2> SUFFICES ASSUME Playing(Now, generation, position) PROVE Playing(Now', generation, position')
    OBVIOUS
  <2>1. ASSUME NEW u \in Sources PROVE SlotsLead(ring'[u], generation, position'[u], cursor[u])
    <3>1. SlotsLead(ring[u], generation, position[u], cursor[u]) BY NowFacts DEF Playing
    <3>2. CASE u # s BY <1>9, <1>10, <3>1, <3>2
    <3>3. CASE u = s
      <4>1. SlotsLead(l, generation, position[s], cursor[s]) BY <3>1, <3>3 DEF l
      <4>2. SlotsLead(Tail(l), generation, y, cursor[s])
        BY <1>1, <1>3, <1>4, <4>1, SlotsTail DEF y
      <4> QED BY <1>9, <1>10, <3>3, <4>2
    <3> QED BY <3>2, <3>3
  <2> QED BY <1>11, <2>1, NowFacts DEF Playing
<1> QED
  BY <1>10, <1>11, <1>12, <1>13, <1>14, <1>15 DEF PumpInv, Steady, Bounded

LEMMA InitInv == Init => PumpInv
<1> SUFFICES ASSUME Init PROVE PumpInv
  OBVIOUS
<1>1. /\ client = "initializing" /\ waiting = {"initialize"}
      /\ inbox = <<[op |-> "initialize"]>> /\ outbox = <<>>
      /\ pump = "none" /\ driving = FALSE /\ generation = 1 /\ failure = FALSE
      /\ cursor = [s \in Sources |-> 0] /\ buffer = [s \in Sources |-> <<>>] /\ reads = {}
      /\ ring = [s \in Sources |-> <<>>] /\ position = [s \in Sources |-> 0]
  BY DEF Init
<1>2. MaxSeeks \in Nat /\ MaximumReads \in Nat /\ Slots \in Nat /\ \A s \in Sources : Frames[s] \in Nat
  BY PumpAssumption, FramesType
<1>3. /\ inbox \in Seq(Requests) /\ Len(inbox) = 1 /\ inbox[1].op = "initialize"
  BY <1>1 DEF Requests
<1>4. Typed
  <2>1. outbox \in Seq(Replies) BY <1>1
  <2>2. position \in [Sources -> Nat] /\ \A s \in Sources : position[s] <= Frames[s]
    BY <1>1, <1>2
  <2>3. generation \in 1..MaxSeeks + 1 BY <1>1, <1>2
  <2> QED BY <1>1, <1>3, <2>1, <2>2, <2>3 DEF Typed
<1>5. Asked
  <2>1. {i \in 1..Len(inbox) : inbox[i].op = "seek"} = {}
    BY <1>3
  <2>2. SeeksIn(inbox) = 0
    BY <2>1, FS_EmptySet DEF SeeksIn
  <2> QED BY <1>1, <1>2, <1>3, <2>2 DEF Asked
<1>6. Now \in PumpState
  <2>1. /\ cursor \in [Sources -> Nat] /\ buffer \in [Sources -> Seq(Window)]
        /\ reads \in SUBSET Read /\ ring \in [Sources -> Seq(Slot)]
    BY <1>1
  <2> QED BY <2>1 DEF PumpState, Now
<1>7. \A s \in Sources : ring[s] = <<>> /\ Len(ring[s]) = 0 /\ buffer[s] = <<>> /\ Len(buffer[s]) = 0
                         /\ cursor[s] = 0 /\ position[s] = 0
  BY <1>1
<1>8. ReadsBounded(Now)
  <2>1. IsFiniteSet(reads) /\ Cardinality(reads) = 0 BY <1>1, FS_EmptySet
  <2> QED BY <1>1, <1>2, <2>1, NowFacts DEF ReadsBounded
<1>9. Dated(Now, generation)
  BY <1>1, <1>2, <1>7, NowFacts DEF Dated
<1>10. Playing(Now, generation, position)
  <2>1. ASSUME NEW s \in Sources PROVE SlotsLead(ring[s], generation, position[s], cursor[s])
    BY <1>7 DEF SlotsLead, Reach
  <2>2. ASSUME NEW s \in Sources PROVE WindowsHold(s, buffer[s], cursor[s])
    BY <1>7 DEF WindowsHold
  <2> QED BY <1>1, <2>1, <2>2, NowFacts DEF Playing
<1> QED
  BY <1>1, <1>4, <1>5, <1>6, <1>8, <1>9, <1>10 DEF PumpInv, Steady, Bounded

LEMMA SteadyNext == ASSUME PumpInv, Next PROVE Steady'
<1>1. ASSUME UNCHANGED <<pump, driving, generation, cursor, buffer, reads, ring, position>> PROVE Steady'
  <2>1. Now' = Now BY <1>1 DEF Now
  <2> QED BY <1>1, <2>1 DEF PumpInv, Steady
<1>2. CASE Pass
  BY <1>2, PassSteady
<1>3. CASE HandleInitialize
  <2>1. inbox # <<>> /\ inbox[1].op = "initialize" /\ 1 \in 1..Len(inbox)
    BY <1>3, InboxFacts DEF HandleInitialize
  <2>2. pump = "none"
    BY <2>1 DEF PumpInv, Asked
  <2>3. UNCHANGED <<generation, cursor, buffer, reads, ring, position>>
    BY <1>3 DEF HandleInitialize, rings
  <2>4. Now' = Now
    BY <2>3 DEF Now
  <2>5. (pump' = "live" /\ driving' = TRUE) \/ UNCHANGED <<pump, driving>>
    BY <1>3 DEF HandleInitialize
  <2> QED BY <2>2, <2>3, <2>4, <2>5 DEF PumpInv, Steady
<1>4. CASE HandleSeek
  BY <1>4, HandleSeekSteady
<1>5. CASE HandleStop
  <2>1. ClosePump /\ UNCHANGED <<generation, cursor, ring, reads>>
    BY <1>5 DEF HandleStop, ClosePump, rings
  <2>2. generation \in Nat /\ generation >= 1
    BY PumpAssumption DEF PumpInv, Typed
  <2> QED BY <2>1, <2>2, ClosedSteady DEF PumpInv
<1>6. CASE \E r \in reads : ReadDeadline(r)
  BY <1>1, <1>6 DEF ReadDeadline, rings
<1>7. CASE \E r \in reads : \E ok \in BOOLEAN : ReadSettles(r, ok)
  BY <1>7, ReadSettlesSteady
<1>8. CASE \E s \in Sources : TakeSlot(s)
  BY <1>8, TakeSlotSteady
<1>9. CASE Seek \/ Close
  BY <1>1, <1>9 DEF Seek, Close, pumpVars, rings
<1>10. CASE Abort \/ RequestDeadline \/ Receive
  BY <1>1, <1>10 DEF Abort, RequestDeadline, Receive, Terminate, pumpVars, rings
<1> QED
  BY <1>2, <1>3, <1>4, <1>5, <1>6, <1>7, <1>8, <1>9, <1>10 DEF Next, WorkerStep

LEMMA TypedNext == ASSUME PumpInv, Next PROVE Typed'
<1> USE DEF PumpInv
<1>1. ASSUME UNCHANGED <<generation, position>>,
             client' \in {"initializing", "open", "closing", "closed"},
             waiting' \subseteq {"initialize", "seek", "stop"},
             inbox' \in Seq(Requests), outbox' \in Seq(Replies),
             pump' \in {"none", "live", "closed"}, driving' \in BOOLEAN, failure' \in BOOLEAN
      PROVE  Typed'
  BY <1>1 DEF Typed
<1>2. /\ client \in {"initializing", "open", "closing", "closed"}
      /\ waiting \subseteq {"initialize", "seek", "stop"}
      /\ inbox \in Seq(Requests) /\ outbox \in Seq(Replies)
      /\ pump \in {"none", "live", "closed"} /\ driving \in BOOLEAN /\ failure \in BOOLEAN
  BY DEF Typed
<1>3. \A reply \in Replies : Append(outbox, reply) \in Seq(Replies)
  BY <1>2
<1>4. "pump-error" \in Replies /\ "initialized" \in Replies /\ "refused" \in Replies /\ "stopped" \in Replies
  BY DEF Replies
<1>5. inbox # <<>> => Tail(inbox) \in Seq(Requests)
  BY InboxFacts
<1>6. outbox # <<>> => Tail(outbox) \in Seq(Replies)
  BY <1>2, HeadAndTail
<1>7. CASE Pass
  <2>1. UNCHANGED <<client, waiting, inbox, position, generation, failure>>
    BY <1>7 DEF Pass, ClosePump, clientVars
  <2>2. outbox' = Append(outbox, "pump-error") \/ outbox' = outbox
    BY <1>7 DEF Pass
  <2>3. pump' = "closed" \/ pump' = pump
    BY <1>7 DEF Pass, ClosePump
  <2>4. driving' \in BOOLEAN
    BY <1>7 DEF Pass, ClosePump
  <2>5. outbox' \in Seq(Replies)
    BY <1>2, <1>3, <1>4, <2>2
  <2> QED BY <1>1, <1>2, <2>1, <2>3, <2>4, <2>5
<1>8. CASE HandleInitialize
  <2>1. UNCHANGED <<client, waiting, generation, failure, position>> /\ inbox' = Tail(inbox) /\ inbox # <<>>
    BY <1>8 DEF HandleInitialize, clientVars, rings, Answer
  <2>2. \/ outbox' = Append(outbox, "initialized") /\ pump' = "live" /\ driving' = TRUE
        \/ outbox' = Append(outbox, "refused") /\ UNCHANGED <<pump, driving>>
    BY <1>8 DEF HandleInitialize, Answer
  <2>3. outbox' \in Seq(Replies)
    BY <1>3, <1>4, <2>2
  <2> QED BY <1>1, <1>2, <1>5, <2>1, <2>2, <2>3
<1>9. CASE HandleSeek
  BY <1>9, HandleSeekSteady
<1>10. CASE HandleStop
  <2>1. UNCHANGED <<client, waiting, generation, failure, position>> /\ inbox' = Tail(inbox) /\ inbox # <<>>
        /\ pump' = "closed" /\ driving' = FALSE /\ outbox' = Append(outbox, "stopped")
    BY <1>10 DEF HandleStop, ClosePump, clientVars, rings, Answer
  <2>2. outbox' \in Seq(Replies)
    BY <1>3, <1>4, <2>1
  <2> QED BY <1>1, <1>2, <1>5, <2>1, <2>2
<1>11. CASE \E r \in reads : ReadDeadline(r)
  BY <1>1, <1>2, <1>11 DEF ReadDeadline, clientVars, channels, rings
<1>12. CASE \E r \in reads : \E ok \in BOOLEAN : ReadSettles(r, ok)
  <2>1. UNCHANGED <<client, waiting, inbox, outbox, pump, driving, generation, position>>
    BY <1>12 DEF ReadSettles, clientVars, channels, rings
  <2>2. failure' \in BOOLEAN
    BY <1>2, <1>12 DEF ReadSettles
  <2> QED BY <1>1, <1>2, <2>1, <2>2
<1>13. CASE \E s \in Sources : TakeSlot(s)
  <2>1. UNCHANGED <<client, waiting, inbox, outbox, pump, driving, generation, failure>>
    BY <1>13 DEF TakeSlot, clientVars, channels, pumpVars
  <2>2. position' \in [Sources -> Nat] /\ \A u \in Sources : position'[u] <= Frames[u]
    BY <1>13, TakeSlotSteady
  <2> QED BY <2>1, <2>2 DEF Typed
<1>14. CASE Seek
  <2>1. PICK t \in Targets : waiting' = waiting \cup {"seek"} /\ inbox' = Append(inbox, [op |-> "seek", frame |-> t])
    BY <1>14 DEF Seek, Post
  <2>2. [op |-> "seek", frame |-> t] \in Requests
    BY DEF Requests
  <2>3. inbox' \in Seq(Requests)
    BY <1>2, <2>1, <2>2
  <2>4. UNCHANGED <<client, outbox, pump, driving, generation, failure, position>>
    BY <1>14 DEF Seek, pumpVars, rings
  <2> QED BY <1>1, <1>2, <2>1, <2>3, <2>4
<1>15. CASE Close
  <2>1. [op |-> "stop"] \in Requests
    BY DEF Requests
  <2>2. client' = "closing" /\ waiting' = waiting \cup {"stop"} /\ inbox' = Append(inbox, [op |-> "stop"])
        /\ UNCHANGED <<outbox, pump, driving, generation, failure, position>>
    BY <1>15 DEF Close, Post, pumpVars, rings
  <2>3. inbox' \in Seq(Requests)
    BY <1>2, <2>1, <2>2
  <2> QED BY <1>1, <1>2, <2>2, <2>3
<1>16. ASSUME Terminate PROVE Typed'
  BY <1>1, <1>2, <1>16 DEF Terminate, pumpVars, rings
<1>17. CASE Abort \/ RequestDeadline
  BY <1>16, <1>17 DEF Abort, RequestDeadline
<1>18. CASE Receive
  <2>1. CASE Terminate
    BY <1>16, <2>1
  <2>2. CASE /\ client' \in {"open", client} /\ waiting' \subseteq waiting
             /\ outbox' = Tail(outbox) /\ UNCHANGED <<inbox, pumpVars, rings>>
    <3>1. UNCHANGED <<pump, driving, generation, failure, position>>
      BY <2>2 DEF pumpVars, rings
    <3>2. outbox # <<>>
      BY <1>18 DEF Receive
    <3> QED BY <1>1, <1>2, <1>6, <2>2, <3>1, <3>2
  <2> QED BY <1>18, <2>1, <2>2 DEF Receive
<1> QED
  BY <1>7, <1>8, <1>9, <1>10, <1>11, <1>12, <1>13, <1>14, <1>15, <1>17, <1>18 DEF Next, WorkerStep

LEMMA AskedNext == ASSUME PumpInv, Next PROVE Asked'
<1> DEFINE Asks(l) == \E i \in 1..Len(l) : l[i].op = "initialize"
<1>1. /\ inbox \in Seq(Requests) /\ SeeksIn(inbox) \in Nat /\ generation \in Nat /\ MaxSeeks \in Nat
      /\ generation + SeeksIn(inbox) <= MaxSeeks + 1
      /\ Asks(inbox) => pump = "none" /\ Len(inbox) = 1 /\ outbox = <<>> /\ client = "initializing"
  BY SeeksCount, PumpAssumption DEF PumpInv, Typed, Asked
\* The next request is taken: none behind it asks for a pump.
<1>2. ASSUME inbox # <<>>, inbox' = Tail(inbox),
             inbox[1].op # "seek" => UNCHANGED generation,
             generation' \in Nat, generation' <= generation + 1
      PROVE  Asked'
  <2>1. ~Asks(inbox')
    <3> SUFFICES ASSUME NEW i \in 1..Len(Tail(inbox)), Tail(inbox)[i].op = "initialize" PROVE FALSE
      BY <1>2
    <3>1. i + 1 \in 1..Len(inbox) /\ inbox[i + 1].op = "initialize" /\ i \in 1..Len(inbox) - 1
      BY <1>2, InboxFacts
    <3>2. Len(inbox) = 1
      BY <1>1, <3>1
    <3> QED BY <3>1, <3>2
  <2>2. SeeksIn(inbox') = IF inbox[1].op = "seek" THEN SeeksIn(inbox) - 1 ELSE SeeksIn(inbox)
    BY <1>1, <1>2, SeeksCount
  <2>3. generation' + SeeksIn(inbox') <= MaxSeeks + 1
    BY <1>1, <1>2, <2>2
  <2> QED BY <2>1, <2>3 DEF Asked
<1>3. ASSUME UNCHANGED <<inbox, generation>>, Asks(inbox) => UNCHANGED <<pump, outbox, client>> PROVE Asked'
  BY <1>1, <1>3 DEF Asked
<1>4. ASSUME NEW m \in Requests, inbox' = Append(inbox, m), UNCHANGED generation, client = "open",
             m.op # "initialize", m.op = "seek" => generation + SeeksIn(inbox) <= MaxSeeks
      PROVE  Asked'
  <2>1. ~Asks(inbox')
    <3>1. ~Asks(inbox) BY <1>1, <1>4
    <3>2. /\ Len(inbox') = Len(inbox) + 1 /\ inbox'[Len(inbox) + 1] = m /\ Len(inbox) \in Nat
          /\ \A i \in 1..Len(inbox) : inbox'[i] = inbox[i]
      BY <1>1, <1>4
    <3> QED BY <1>4, <3>1, <3>2
  <2>2. SeeksIn(inbox') = IF m.op = "seek" THEN SeeksIn(inbox) + 1 ELSE SeeksIn(inbox)
    BY <1>1, <1>4, SeeksCount
  <2>3. generation' + SeeksIn(inbox') <= MaxSeeks + 1
    BY <1>1, <1>4, <2>2
  <2> QED BY <2>1, <2>3 DEF Asked
<1>5. CASE Pass
  <2>1. UNCHANGED <<inbox, generation, client>> /\ pump = "live"
    BY <1>5 DEF PumpInv, Steady, Pass, ClosePump, clientVars
  <2> QED BY <1>1, <1>3, <2>1
<1>6. CASE HandleInitialize \/ HandleStop
  <2>1. inbox # <<>> /\ inbox' = Tail(inbox) /\ UNCHANGED generation
    BY <1>6 DEF HandleInitialize, HandleStop, Answer, ClosePump
  <2> QED BY <1>1, <1>2, <2>1
<1>7. CASE HandleSeek
  <2>1. inbox # <<>> /\ inbox' = Tail(inbox) /\ inbox[1].op = "seek"
    BY <1>7 DEF HandleSeek, Answer
  <2>2. generation' = generation + 1 \/ generation' = generation
    BY <1>7 DEF HandleSeek
  <2> QED BY <1>1, <1>2, <2>1, <2>2
<1>8. CASE \/ \E r \in reads : ReadDeadline(r) \/ \E ok \in BOOLEAN : ReadSettles(r, ok)
           \/ \E s \in Sources : TakeSlot(s)
  <2>1. UNCHANGED <<inbox, generation, pump, outbox, client>>
    BY <1>8 DEF ReadDeadline, ReadSettles, TakeSlot, clientVars, channels, pumpVars
  <2> QED BY <1>3, <2>1
<1>9. CASE Seek
  <2>1. PICK t \in Targets : inbox' = Append(inbox, [op |-> "seek", frame |-> t])
    BY <1>9 DEF Seek, Post
  <2>2. client = "open" /\ UNCHANGED generation /\ generation + SeeksIn(inbox) <= MaxSeeks
    <3>1. client = "open" /\ UNCHANGED generation BY <1>9 DEF Seek, pumpVars
    <3>2. DOMAIN inbox = 1..Len(inbox) BY <1>1
    <3>3. generation + Cardinality({i \in DOMAIN inbox : inbox[i].op = "seek"}) <= MaxSeeks
      BY <1>9 DEF Seek
    <3> QED BY <3>1, <3>2, <3>3 DEF SeeksIn
  <2>3. [op |-> "seek", frame |-> t] \in Requests
    BY DEF Requests
  <2> QED BY <1>4, <2>1, <2>2, <2>3
<1>10. CASE Close
  <2>1. inbox' = Append(inbox, [op |-> "stop"]) /\ client = "open" /\ UNCHANGED generation
    BY <1>10 DEF Close, Post, pumpVars
  <2>2. [op |-> "stop"] \in Requests
    BY DEF Requests
  <2> QED BY <1>4, <2>1, <2>2
<1>11. ASSUME Terminate PROVE Asked'
  <2>1. inbox' = <<>> /\ UNCHANGED generation
    BY <1>11 DEF Terminate, pumpVars
  <2>2. Len(inbox') = 0 BY <2>1
  <2>3. {i \in 1..Len(inbox') : inbox'[i].op = "seek"} = {} BY <2>2
  <2>4. SeeksIn(inbox') = 0 BY <2>3, FS_EmptySet DEF SeeksIn
  <2> QED BY <1>1, <2>1, <2>2, <2>4 DEF Asked
<1>12. CASE Abort \/ RequestDeadline \/ Receive
  <2>1. CASE Terminate BY <1>11, <2>1
  <2>2. CASE outbox # <<>> /\ UNCHANGED <<inbox, pumpVars>>
    <3>1. UNCHANGED generation BY <2>2 DEF pumpVars
    <3> QED BY <1>1, <1>3, <2>2, <3>1
  <2> QED BY <1>12, <2>1, <2>2 DEF Abort, RequestDeadline, Receive
<1> QED
  BY <1>5, <1>6, <1>7, <1>8, <1>9, <1>10, <1>12 DEF Next, WorkerStep

-----------------------------------------------------------------------------
(* The theorems. *)

\* The pump's state, whatever seeks, late reads and failures came before.
THEOREM SteadyAlways == Spec => []PumpInv
<1>1. PumpInv /\ [Next]_vars => PumpInv'
  <2>1. CASE Next
    BY <2>1, TypedNext, AskedNext, SteadyNext DEF PumpInv
  <2>2. ASSUME PumpInv, UNCHANGED vars PROVE PumpInv'
    <3>1. UNCHANGED <<client, waiting, inbox, outbox, pump, driving, generation, cursor,
                      buffer, reads, failure, ring, position>>
      BY <2>2 DEF vars, clientVars, channels, pumpVars, rings
    <3>2. Now' = Now BY <3>1 DEF Now
    <3> QED BY <2>2, <3>1, <3>2 DEF PumpInv, Typed, Asked, Steady
  <2> QED BY <2>1, <2>2
<1> QED BY InitInv, <1>1, PTL DEF Spec

\* Every variable has its type: cursors and readers stay inside their sources, rings
\* within their slots, windows and reads within the source, generations within the
\* seeks there were.
THEOREM TypeCorrect == Spec => []TypeOK
<1>1. PumpInv => TypeOK
  <2> SUFFICES ASSUME PumpInv PROVE TypeOK
    OBVIOUS
  <2>1. Now \in PumpState /\ ReadsBounded(Now) /\ Dated(Now, generation)
    BY DEF PumpInv, Steady, Bounded
  <2>2. ASSUME NEW s \in Sources
        PROVE  /\ cursor[s] \in 0..Frames[s] /\ position[s] \in 0..Frames[s]
               /\ buffer[s] \in Seq(Windows(s)) /\ Len(ring[s]) <= Slots
               /\ \A i \in DOMAIN ring[s] : ring[s][i].gen \in 1..generation
    <3>1. /\ cursor[s] \in Nat /\ cursor[s] <= Frames[s] /\ position[s] \in Nat /\ position[s] <= Frames[s]
          /\ Frames[s] \in Nat /\ Len(ring[s]) <= Slots /\ buffer[s] \in Seq(Window) /\ ring[s] \in Seq(Slot)
      BY <2>1, NowFacts, StateFacts, FramesType DEF Dated, PumpInv, Typed
    <3>2. DOMAIN ring[s] = 1..Len(ring[s]) /\ \A i \in 1..Len(ring[s]) : ring[s][i].gen \in 1..generation
      BY <2>1, <3>1, NowFacts DEF Dated
    <3>3. buffer[s] \in Seq(Windows(s))
      <4>1. CASE pump = "closed"
        <5>1. buffer[s] = <<>> BY <4>1 DEF PumpInv, Steady
        <5> QED BY <5>1
      <4>2. CASE pump # "closed"
        <5>1. WindowsHold(s, buffer[s], cursor[s])
          BY <4>2, NowFacts DEF PumpInv, Steady, Playing
        <5>2. ASSUME NEW i \in 1..Len(buffer[s]) PROVE buffer[s][i] \in Windows(s)
          <6>1. buffer[s][i] \in Window /\ Whole(s, buffer[s][i]) BY <3>1, <5>1 DEF WindowsHold
          <6> DEFINE w == buffer[s][i]
          <6>2. w = [from |-> w.from, to |-> w.to] /\ w.from \in Nat /\ w.to \in Nat BY <6>1 DEF Window
          <6>3. w.from < w.to /\ w.to <= Frames[s] BY <6>1 DEF Whole
          <6> HIDE DEF w
          <6>4. w.from \in 0..Frames[s] /\ w.to \in 0..Frames[s] BY <3>1, <6>2, <6>3
          <6>5. w \in Windows(s) BY <6>2, <6>4 DEF Windows
          <6> QED BY <6>5 DEF w
        <5>3. Len(buffer[s]) \in Nat /\ buffer[s] = [i \in 1..Len(buffer[s]) |-> buffer[s][i]]
          BY <3>1
        <5> QED BY <5>2, <5>3
      <4> QED BY <4>1, <4>2
    <3> QED BY <3>1, <3>2, <3>3
  <2>3. \A r \in reads : r.source \in Sources /\ r.gen \in 1..generation /\ r.from \in 0..Frames[r.source]
    BY <2>1, NowFacts, StateFacts, FramesType DEF ReadsBounded, Dated
  <2>4. \A i \in DOMAIN inbox : inbox[i].op \in {"initialize", "seek", "stop"}
    BY RequestFacts DEF PumpInv, Typed, Operations
  <2> QED BY <2>2, <2>3, <2>4 DEF PumpInv, Typed, TypeOK
<1> QED BY SteadyAlways, <1>1, PTL

\* Playback has no hole and repeats nothing, no write meets a window that cannot hold
\* its quantum, and windows and reads stay within the memory the pump was granted.
THEOREM WindowsAlwaysSound == Spec => []WindowsSound
<1>1. PumpInv => WindowsSound
  <2> SUFFICES ASSUME PumpInv PROVE WindowsSound
    OBVIOUS
  <2>1. Now \in PumpState /\ ReadsBounded(Now)
    BY DEF PumpInv, Steady, Bounded
  <2>2. pump = "live" => Sound(Now, generation, position)
    BY DEF PumpInv, Steady, Sound
  <2>3. Runway
    <3> SUFFICES ASSUME pump = "live", NEW s \in Sources
                 PROVE  /\ \A i \in DOMAIN ring[s] : Current(s, i) =>
                             /\ ring[s][i].from = Edge(s, i - 1)
                             /\ \A k \in i..Len(ring[s]) : Current(s, k)
                        /\ Edge(s, Len(ring[s])) = cursor[s]
                        /\ buffer[s] # <<>> => buffer[s][1].from <= cursor[s] /\ cursor[s] <= buffer[s][1].to
                        /\ Len(buffer[s]) = 2 => buffer[s][2].from = buffer[s][1].to
      BY DEF Runway
    <3>1. /\ SlotsLead(ring[s], generation, position[s], cursor[s])
          /\ WindowsHold(s, buffer[s], cursor[s])
      BY <2>2, NowFacts DEF Sound, Playing
    <3>2. DOMAIN ring[s] = 1..Len(ring[s]) /\ Len(ring[s]) \in Nat
      BY <2>1, NowFacts, StateFacts
    <3>3. \A i : Edge(s, i) = Reach(ring[s], generation, position[s], i)
      BY <3>2 DEF Edge, Current, Reach
    <3>4. \A i : Current(s, i) <=> i \in 1..Len(ring[s]) /\ ring[s][i].gen = generation
      BY <3>2 DEF Current
    <3>5. ASSUME NEW i \in 1..Len(ring[s]), ring[s][i].gen = generation
          PROVE  \A k \in i..Len(ring[s]) : k \in 1..Len(ring[s]) /\ ring[s][k].gen = generation
      BY <3>1, <3>2, <3>5 DEF SlotsLead
    <3> QED BY <3>1, <3>2, <3>3, <3>4, <3>5 DEF SlotsLead, WindowsHold
  <2>4. WritesFit
    BY <2>2, WriteFits DEF WritesFit
  <2>5. SlotsBounded
    <3>1. Cardinality(reads) <= MaximumReads
      BY <2>1, NowFacts DEF ReadsBounded
    <3>2. ASSUME NEW s \in Sources
          PROVE  Len(buffer[s]) + Cardinality({r \in reads : r.source = s}) <= 2
      <4> DEFINE mine == {r \in reads : r.source = s}
      <4>1. Len(buffer[s]) \in Nat /\ Len(buffer[s]) <= 2
        <5>1. Len(buffer[s]) \in Nat BY <2>1, NowFacts, StateFacts
        <5>2. CASE pump = "closed"
          BY <5>2 DEF PumpInv, Steady
        <5>3. CASE pump # "closed"
          BY <5>1, <5>3, NowFacts DEF PumpInv, Steady, Playing, WindowsHold
        <5> QED BY <5>1, <5>2, <5>3
      <4> SUFFICES Len(buffer[s]) + Cardinality(mine) <= 2
        OBVIOUS
      <4>2. CASE mine = {}
        <5>1. Cardinality(mine) = 0 BY <4>2, FS_EmptySet
        <5> HIDE DEF mine
        <5> QED BY <4>1, <5>1
      <4>3. CASE mine # {}
        <5>1. PICK r \in mine : TRUE BY <4>3
        <5>2. mine = {r} /\ Len(buffer[s]) <= 1
          BY <2>1, <5>1, NowFacts DEF ReadsBounded
        <5>3. Cardinality(mine) = 1 BY <5>2, FS_Singleton
        <5> HIDE DEF mine
        <5> QED BY <4>1, <5>2, <5>3
      <4> QED BY <4>2, <4>3
    <3> QED BY <3>1, <3>2 DEF SlotsBounded
  <2> QED BY <2>3, <2>4, <2>5 DEF WindowsSound
<1> QED BY SteadyAlways, <1>1, PTL

=============================================================================
