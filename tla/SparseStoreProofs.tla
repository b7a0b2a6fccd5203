-------------------------- MODULE SparseStoreProofs --------------------------
(***************************************************************************)
(* What one identity of the sparse store keeps for every number of stores, *)
(* operations, generations, faults and crashes, and for every source.      *)
(***************************************************************************)
EXTENDS SparseStore, FiniteSetTheorems, FunctionTheorems, SequenceTheorems,
        WellFoundedInduction, TLAPS

(* Induction. *)

LEMMA LeastNumber ==
  ASSUME NEW T \in SUBSET Nat, T # {}
  PROVE  \E n \in T : \A m \in T : n <= m
<1> DEFINE R == {ss \in Nat \X Nat : ss[1] < ss[2]}
<1>1. IsWellFoundedOn(R, Nat)
  BY NatLessThanWellFounded DEF OpToRel
<1>2. \E n \in T : \A m \in T : ~ (<<m, n>> \in R)
  <2> HIDE DEF R
  <2> QED BY <1>1, WFMin
<1>3. PICK n \in T : \A m \in T : ~ (<<m, n>> \in R)
  BY <1>2
<1>4. ASSUME NEW m \in T PROVE n <= m
  <2>1. n \in Nat /\ m \in Nat BY <1>3
  <2>2. ~ (<<m, n>> \in R) BY <1>3
  <2>3. m < n => <<m, n>> \in R BY <2>1
  <2> QED BY <2>1, <2>2, <2>3
<1> QED BY <1>4

LEMMA AllNumbers ==
  ASSUME NEW T \in SUBSET Nat, 0 \in T, \A n \in T : n + 1 \in T
  PROVE  T = Nat
<1> DEFINE B == Nat \ T
<1>1. CASE B # {}
  <2>1. PICK n \in B : \A m \in B : n <= m
    BY <1>1, LeastNumber
  <2>2. n # 0 /\ n \in Nat BY <2>1
  <2>3. n - 1 \in Nat /\ n - 1 \notin B BY <2>1, <2>2
  <2>4. n - 1 + 1 = n BY <2>2
  <2> QED BY <2>1, <2>2, <2>3, <2>4
<1> QED BY <1>1

-----------------------------------------------------------------------------
(* A set of numbers, in order. *)

\* How many numbers of a set are less than another one.
Below(S, f) == Cardinality({g \in S : g < f})

LEMMA BelowGrows ==
  ASSUME NEW S \in SUBSET Nat, IsFiniteSet(S), NEW f \in Nat, NEW g \in Nat, f <= g
  PROVE  /\ Below(S, f) \in 0..Cardinality(S) /\ Cardinality(S) \in Nat
         /\ Below(S, f) <= Below(S, g)
         /\ f \in S /\ f < g => Below(S, f) < Below(S, g)
         /\ f \in S => Below(S, f) < Cardinality(S)
<1> DEFINE F == {h \in S : h < f}
           G == {h \in S : h < g}
<1>1. Cardinality(S) \in Nat
  BY FS_CardinalityType
<1>2. F \in SUBSET S /\ G \in SUBSET S /\ F \in SUBSET G
  <2>1. \A h \in S : h \in Nat /\ (h < f => h < g)
    OBVIOUS
  <2> QED BY <2>1
<1>3. /\ IsFiniteSet(F) /\ IsFiniteSet(G) /\ Cardinality(F) \in Nat /\ Cardinality(G) \in Nat
      /\ Cardinality(F) <= Cardinality(S)
  <2> HIDE DEF F, G
  <2> QED BY <1>2, FS_Subset, FS_CardinalityType
<1>4. Cardinality(F) <= Cardinality(G)
  <2> HIDE DEF F, G
  <2> QED BY <1>2, <1>3, FS_Subset
<1>5. ASSUME NEW T, IsFiniteSet(T), F \cup {f} \in SUBSET T, f \in S
      PROVE  Cardinality(F) < Cardinality(T)
  <2>1. f \notin F
    OBVIOUS
  <2> HIDE DEF F, G
  <2>2. IsFiniteSet(F \cup {f}) /\ Cardinality(F \cup {f}) = Cardinality(F) + 1
    BY <1>3, <2>1, FS_AddElement
  <2>3. Cardinality(F \cup {f}) <= Cardinality(T) /\ Cardinality(T) \in Nat
    BY <1>5, FS_Subset, FS_CardinalityType
  <2> QED BY <1>3, <2>2, <2>3
<1>6. f \in S /\ f < g => Cardinality(F) < Cardinality(G)
  <2> SUFFICES ASSUME f \in S, f < g PROVE Cardinality(F) < Cardinality(G)
    OBVIOUS
  <2>1. F \cup {f} \in SUBSET G
    <3>1. F \in SUBSET G /\ f \in G
      BY <1>2
    <3> HIDE DEF F, G
    <3> QED BY <3>1
  <2> HIDE DEF F, G
  <2> QED BY <1>3, <1>5, <2>1
<1>7. f \in S => Cardinality(F) < Cardinality(S)
  <2> SUFFICES ASSUME f \in S PROVE Cardinality(F) < Cardinality(S)
    OBVIOUS
  <2>1. F \cup {f} \in SUBSET S
    OBVIOUS
  <2> HIDE DEF F, G
  <2> QED BY <1>3, <1>5, <2>1
<1>8. Below(S, f) = Cardinality(F) /\ Below(S, g) = Cardinality(G)
  BY DEF Below
<1> HIDE DEF F, G
<1> QED BY <1>1, <1>3, <1>4, <1>6, <1>7, <1>8

LEMMA Ordered ==
  ASSUME NEW S \in SUBSET Nat, IsFiniteSet(S)
  PROVE  /\ InOrder(S) = [k \in 1..Cardinality(S) |-> InOrder(S)[k]] /\ Cardinality(S) \in Nat
         /\ \A k \in 1..Cardinality(S) : InOrder(S)[k] \in S /\ Below(S, InOrder(S)[k]) = k - 1
         /\ \A f \in S : /\ Below(S, f) + 1 \in 1..Cardinality(S)
                         /\ InOrder(S)[Below(S, f) + 1] = f
<1> DEFINE n == Cardinality(S)
           D == 0..(n - 1)
           c == [f \in S |-> Below(S, f)]
<1>1. n \in Nat
  BY FS_CardinalityType
<1>2. \A f \in S : Below(S, f) \in D
  BY <1>1, BelowGrows
<1>3. ASSUME NEW f \in S, NEW g \in S, Below(S, f) = Below(S, g) PROVE f = g
  <2>1. f < g => Below(S, f) < Below(S, g)
    BY BelowGrows
  <2>2. g < f => Below(S, g) < Below(S, f)
    BY BelowGrows
  <2>3. f \in Nat /\ g \in Nat
    OBVIOUS
  <2> QED BY <1>2, <1>3, <2>1, <2>2, <2>3
<1> HIDE DEF n
<1>4. IsFiniteSet(D) /\ Cardinality(D) = n
  BY <1>1, FS_Interval
<1>5. c \in Injection(S, D)
  BY <1>2, <1>3 DEF Injection, IsInjective
<1>6. c \in Surjection(S, D)
  <2> HIDE DEF c, D
  <2> QED BY <1>4, <1>5, FS_Injection DEF n
<1>7. \A k \in D : \E f \in S : Below(S, f) = k
  BY <1>6 DEF Surjection
<1>8. ASSUME NEW k \in 1..n PROVE InOrder(S)[k] \in S /\ Below(S, InOrder(S)[k]) = k - 1
  <2>1. k - 1 \in D
    BY <1>1
  <2>2. PICK f \in S : Below(S, f) = k - 1
    BY <1>7, <2>1
  <2>3. InOrder(S)[k] = CHOOSE h \in S : Below(S, h) = k - 1
    BY <1>8 DEF InOrder, Below, n
  <2> QED BY <2>2, <2>3
<1>9. ASSUME NEW f \in S PROVE Below(S, f) + 1 \in 1..n /\ InOrder(S)[Below(S, f) + 1] = f
  <2>1. Below(S, f) + 1 \in 1..n /\ Below(S, f) \in Nat
    BY <1>1, <1>2
  <2>2. InOrder(S)[Below(S, f) + 1] \in S /\ Below(S, InOrder(S)[Below(S, f) + 1]) = Below(S, f)
    BY <1>8, <2>1
  <2> QED BY <1>3, <2>1, <2>2
<1>10. InOrder(S) = [k \in 1..n |-> InOrder(S)[k]]
  <2> DEFINE e(k) == CHOOSE f \in S : Cardinality({g \in S : g < f}) = k - 1
  <2>1. InOrder(S) = [k \in 1..n |-> e(k)]
    BY DEF InOrder, n
  <2> HIDE DEF e
  <2> QED BY <2>1
<1> QED BY <1>1, <1>8, <1>9, <1>10 DEF n

-----------------------------------------------------------------------------
(* The manifest of a source: its runs of frames. *)

Starts(A) == {f \in A : f = 0 \/ f - 1 \notin A}

\* The intervals of a source: runs of it, apart and packed without holes, that
\* miss none of its frames.
Describes(i, A) ==
  /\ i \in Seq(Interval)
  /\ \A k \in 1..Len(i) :
       /\ End(i[k]) <= Frames
       /\ \A f \in i[k].start..(End(i[k]) - 1) : f \in A /\ Below(A, f) = i[k].at + (f - i[k].start)
       /\ k = 1 => i[k].at = 0
       /\ k > 1 => i[k].at = PackedEnd(i[k - 1])
       /\ \A j \in 1..Len(i) : j < k => End(i[j]) < i[k].start
  /\ \A f \in A : \E k \in 1..Len(i) : f \in i[k].start..(End(i[k]) - 1)
  /\ PackedFrames(i) = Cardinality(A)

LEMMA FrameSets ==
  ASSUME NEW A \in SUBSET Frame
  PROVE  /\ A \in SUBSET Nat /\ IsFiniteSet(A) /\ Cardinality(A) \in 0..Frames /\ Frames \in Nat /\ Frames \notin A
         /\ \A f \in A : f < Frames
<1>1. Frames \in Nat /\ Frame = 0..(Frames - 1) /\ Frame \in SUBSET Nat
  BY PcmAssumption DEF Frame
<1>2. IsFiniteSet(Frame) /\ Cardinality(Frame) = Frames
  BY <1>1, FS_Interval
<1>3. IsFiniteSet(A) /\ Cardinality(A) <= Frames /\ Cardinality(A) \in Nat
  BY <1>2, FS_Subset, FS_CardinalityType
<1> QED BY <1>1, <1>3

LEMMA RunEnds ==
  ASSUME NEW A \in SUBSET Frame, NEW f \in A
  PROVE  /\ RunFrames(A, f) \in 1..Frames /\ f + RunFrames(A, f) <= Frames
         /\ f + RunFrames(A, f) \notin A /\ \A g \in f..(f + RunFrames(A, f) - 1) : g \in A
<1> DEFINE T == {g \in f..Frames : g \notin A}
<1>1. A \in SUBSET Nat /\ Frames \in Nat /\ Frames \notin A /\ f < Frames /\ f \in Nat
  BY FrameSets
<1>2. T \in SUBSET Nat /\ T # {}
  <2>1. Frames \in T
    BY <1>1
  <2> QED BY <1>1, <2>1
<1>3. PICK e \in T : \A m \in T : e <= m
  <2> HIDE DEF T
  <2> QED BY <1>2, LeastNumber
<1>4. Min(T) \in T /\ \A m \in T : Min(T) <= m
  <2> HIDE DEF T
  <2> QED BY <1>3 DEF Min
<1>5. RunFrames(A, f) = Min(T) - f
  BY DEF RunFrames
<1>6. Min(T) \in Nat /\ f <= Min(T) /\ Min(T) <= Frames /\ Min(T) \notin A
  BY <1>1, <1>4
<1>7. \A g \in f..(Min(T) - 1) : g \in A
  <2> SUFFICES ASSUME NEW g \in f..(Min(T) - 1), g \notin A PROVE FALSE
    OBVIOUS
  <2>1. g \in T
    BY <1>1, <1>6
  <2>2. Min(T) <= g
    BY <1>4, <2>1
  <2> HIDE DEF T
  <2> QED BY <1>1, <1>6, <2>2
<1>8. Min(T) # f
  BY <1>6
<1> HIDE DEF T
<1> QED BY <1>1, <1>5, <1>6, <1>7, <1>8

LEMMA RunOf ==
  ASSUME NEW A \in SUBSET Frame, NEW f \in A
  PROVE  \E s \in Starts(A) : f \in s..(s + RunFrames(A, s) - 1)
<1> DEFINE T == {s \in 0..f : \A g \in s..f : g \in A}
<1>1. A \in SUBSET Nat /\ f \in Nat
  BY FrameSets
<1>2. T \in SUBSET Nat /\ T # {}
  <2>1. f \in T
    BY <1>1
  <2> QED BY <2>1
<1>3. PICK s \in T : \A m \in T : s <= m
  <2> HIDE DEF T
  <2> QED BY <1>2, LeastNumber
<1>4. s \in 0..f /\ s \in A /\ \A g \in s..f : g \in A
  BY <1>1
<1>5. s \in Starts(A)
  <2> SUFFICES ASSUME s # 0, s - 1 \in A PROVE FALSE
    BY <1>4 DEF Starts
  <2>1. s - 1 \in 0..f /\ \A g \in (s - 1)..f : g = s - 1 \/ g \in s..f
    BY <1>1, <1>4
  <2>2. s - 1 \in T
    BY <1>4, <2>1
  <2>3. s <= s - 1
    BY <1>3, <2>2
  <2> QED BY <1>4, <2>3
<1>6. f \in s..(s + RunFrames(A, s) - 1)
  <2>1. RunFrames(A, s) \in 1..Frames /\ s + RunFrames(A, s) \notin A /\ Frames \in Nat
    BY <1>4, RunEnds, FrameSets
  <2>2. s + RunFrames(A, s) \notin s..f
    BY <1>4, <2>1
  <2> QED BY <1>1, <1>4, <2>1, <2>2
<1> QED BY <1>5, <1>6

LEMMA RunsApart ==
  ASSUME NEW A \in SUBSET Frame, NEW s \in Starts(A), NEW t \in Starts(A), s < t
  PROVE  s + RunFrames(A, s) < t
<1>1. s \in A /\ t \in A /\ s \in Nat /\ t \in Nat /\ t - 1 \notin A
  <2>1. A \in SUBSET Nat
    BY FrameSets
  <2>2. s \in A /\ t \in A /\ (t = 0 \/ t - 1 \notin A)
    BY DEF Starts
  <2> QED BY <2>1, <2>2
<1>2. /\ RunFrames(A, s) \in 1..Frames /\ s + RunFrames(A, s) \notin A /\ Frames \in Nat
      /\ \A g \in s..(s + RunFrames(A, s) - 1) : g \in A
  BY <1>1, RunEnds, FrameSets
<1>3. t # s + RunFrames(A, s)
  BY <1>1, <1>2
<1>4. t - 1 \notin s..(s + RunFrames(A, s) - 1)
  BY <1>1, <1>2
<1> QED BY <1>1, <1>2, <1>3, <1>4

\* Frames of a run are next to each other in the payload too.
LEMMA RunPacked ==
  ASSUME NEW A \in SUBSET Frame, NEW s \in A, NEW f \in s..(s + RunFrames(A, s))
  PROVE  Below(A, f) = Below(A, s) + (f - s) /\ Below(A, s) \in Nat
<1>1. /\ A \in SUBSET Nat /\ IsFiniteSet(A) /\ s \in Nat /\ f \in Nat /\ s <= f
      /\ \A g \in s..(f - 1) : g \in A
  <2>1. RunFrames(A, s) \in 1..Frames /\ \A g \in s..(s + RunFrames(A, s) - 1) : g \in A
    BY RunEnds
  <2>2. A \in SUBSET Nat /\ IsFiniteSet(A) /\ s \in Nat /\ Frames \in Nat
    BY FrameSets
  <2> QED BY <2>1, <2>2
<1> DEFINE F == {g \in A : g < f}
           G == {g \in A : g < s}
           H == s..(f - 1)
<1>2. F = G \cup H /\ G \cap H = {}
  <2>1. \A g \in A : g \in Nat /\ (g < f <=> g < s \/ g \in H)
    BY <1>1
  <2>2. \A g \in H : g \in A /\ ~(g < s)
    BY <1>1
  <2> QED BY <2>1, <2>2
<1>3. IsFiniteSet(G) /\ IsFiniteSet(H) /\ Cardinality(G) \in Nat
  <2>1. G \in SUBSET A
    OBVIOUS
  <2>2. IsFiniteSet(H)
    BY <1>1, FS_Interval
  <2> HIDE DEF G, H
  <2> QED BY <1>1, <2>1, <2>2, FS_Subset, FS_CardinalityType
<1>4. Cardinality(H) = f - s
  <2>1. s \in Int /\ f - 1 \in Int /\ (s > f - 1 => f = s)
    BY <1>1
  <2>2. Cardinality(H) = IF s > f - 1 THEN 0 ELSE (f - 1) - s + 1
    BY <2>1, FS_Interval
  <2> HIDE DEF H
  <2> QED BY <1>1, <2>1, <2>2
<1>5. Cardinality(F) = Cardinality(G) + Cardinality(H) - 0
  <2> HIDE DEF F, G, H
  <2>1. Cardinality({}) = 0
    BY FS_EmptySet
  <2> QED BY <1>2, <1>3, <2>1, FS_Union
<1>6. Below(A, f) = Cardinality(F) /\ Below(A, s) = Cardinality(G)
  BY DEF Below
<1> HIDE DEF F, G, H
<1> QED BY <1>1, <1>3, <1>4, <1>5, <1>6

\* Between two numbers that nothing lies between, as many are below the one as
\* below the other.
LEMMA NothingBetween ==
  ASSUME NEW A \in SUBSET Frame, NEW f \in Nat, NEW g \in Nat, f <= g, \A h \in A : h < f \/ g <= h
  PROVE  Below(A, f) = Below(A, g)
<1>1. \A h \in A : h \in Nat
  BY FrameSets
<1>2. {h \in A : h < f} = {h \in A : h < g}
  BY <1>1
<1> QED BY <1>2 DEF Below

LEMMA RunsAre ==
  ASSUME NEW A \in SUBSET Frame
  PROVE  LET n == Cardinality(Starts(A))
             s == InOrder(Starts(A))
             i == ManifestOf(A).intervals
         IN /\ n \in Nat /\ Len(i) = n /\ i \in Seq(Interval)
            /\ \A k \in 1..n : /\ s[k] \in Starts(A) /\ s[k] \in A
                               /\ i[k] = [start |-> s[k], frames |-> RunFrames(A, s[k]), at |-> Below(A, s[k])]
            /\ \A j, k \in 1..n : j < k => s[j] < s[k]
            /\ \A t \in Starts(A) : \E k \in 1..n : t = s[k]
<1> DEFINE n == Cardinality(Starts(A))
           s == InOrder(Starts(A))
           i == ManifestOf(A).intervals
<1>1. /\ A \in SUBSET Nat /\ IsFiniteSet(A) /\ Starts(A) \in SUBSET A
      /\ Cardinality(A) \in 0..Frames /\ Frames \in Nat
  BY FrameSets DEF Starts
<1>2. IsFiniteSet(Starts(A)) /\ Starts(A) \in SUBSET Nat
  BY <1>1, FS_Subset
<1>3. /\ n \in Nat /\ s = [k \in 1..n |-> s[k]]
      /\ \A k \in 1..n : s[k] \in Starts(A) /\ Below(Starts(A), s[k]) = k - 1
      /\ \A f \in Starts(A) : Below(Starts(A), f) + 1 \in 1..n /\ s[Below(Starts(A), f) + 1] = f
  <2> HIDE DEF Starts
  <2> QED BY <1>2, Ordered
<1>4. DOMAIN s = 1..n
  <2> HIDE DEF s, n
  <2> QED BY <1>3
<1>5. i = [k \in 1..n |-> [start |-> s[k], frames |-> RunFrames(A, s[k]), at |-> Below(A, s[k])]]
  <2>1. i = [k \in DOMAIN s |-> [start |-> s[k], frames |-> RunFrames(A, s[k]), at |-> Below(A, s[k])]]
    BY DEF ManifestOf, Starts, Below
  <2> HIDE DEF i, s, n
  <2> QED BY <1>4, <2>1
<1> HIDE DEF i, s, n
<1>6. \A k \in 1..n : i[k] \in Interval
  <2> SUFFICES ASSUME NEW k \in 1..n PROVE i[k] \in Interval
    OBVIOUS
  <2>1. s[k] \in A /\ s[k] \in Frame /\ s[k] \in Nat
    BY <1>1, <1>3
  <2>2. RunFrames(A, s[k]) \in 1..Frames
    BY <2>1, RunEnds
  <2>3. Below(A, s[k]) \in 0..Frames
    <3>1. Below(A, s[k]) \in 0..Cardinality(A)
      BY <1>1, <2>1, BelowGrows
    <3> QED BY <1>1, <3>1
  <2> QED BY <1>5, <2>1, <2>2, <2>3 DEF Interval
<1>7. i \in Seq(Interval) /\ Len(i) = n
  BY <1>3, <1>5, <1>6
<1>8. ASSUME NEW j \in 1..n, NEW k \in 1..n, j < k PROVE s[j] < s[k]
  <2>1. s[j] \in Starts(A) /\ s[k] \in Starts(A) /\ s[j] \in Nat /\ s[k] \in Nat
    BY <1>2, <1>3
  <2>2. Below(Starts(A), s[j]) = j - 1 /\ Below(Starts(A), s[k]) = k - 1
    BY <1>3
  <2>3. s[k] <= s[j] => Below(Starts(A), s[k]) <= Below(Starts(A), s[j])
    BY <1>2, <2>1, BelowGrows
  <2> QED BY <1>8, <2>1, <2>2, <2>3
<1>9. \A t \in Starts(A) : \E k \in 1..n : t = s[k]
  BY <1>3
<1> QED BY <1>1, <1>3, <1>5, <1>7, <1>8, <1>9 DEF n, s, i

\* Frame after a run.
RunEnd(A, s) == s + RunFrames(A, s)

LEMMA ManifestDescribes ==
  ASSUME NEW A \in SUBSET Frame
  PROVE  Describes(ManifestOf(A).intervals, A)
<1> DEFINE n == Cardinality(Starts(A))
           s == InOrder(Starts(A))
           i == ManifestOf(A).intervals
<1>1. /\ n \in Nat /\ Len(i) = n /\ i \in Seq(Interval)
      /\ \A k \in 1..n : /\ s[k] \in Starts(A) /\ s[k] \in A
                         /\ i[k] = [start |-> s[k], frames |-> RunFrames(A, s[k]), at |-> Below(A, s[k])]
      /\ \A j, k \in 1..n : j < k => s[j] < s[k]
      /\ \A t \in Starts(A) : \E k \in 1..n : t = s[k]
  BY RunsAre
<1>2. A \in SUBSET Nat /\ IsFiniteSet(A) /\ Cardinality(A) \in Nat /\ Frames \in Nat
  BY FrameSets
<1> HIDE DEF n, s, i
<1>3. ASSUME NEW k \in 1..n
      PROVE  /\ i[k].start = s[k] /\ End(i[k]) = RunEnd(A, s[k]) /\ i[k].at = Below(A, s[k]) /\ i[k].at \in Nat
             /\ s[k] \in Nat /\ RunFrames(A, s[k]) \in 1..Frames /\ RunEnd(A, s[k]) \in Nat
             /\ s[k] < RunEnd(A, s[k]) /\ RunEnd(A, s[k]) <= Frames
             /\ PackedEnd(i[k]) = Below(A, RunEnd(A, s[k]))
             /\ \A f \in s[k]..(RunEnd(A, s[k]) - 1) : f \in A /\ Below(A, f) = i[k].at + (f - s[k])
  <2>1. s[k] \in A /\ s[k] \in Nat
        /\ i[k] = [start |-> s[k], frames |-> RunFrames(A, s[k]), at |-> Below(A, s[k])]
    BY <1>1, <1>2
  <2>2. /\ RunFrames(A, s[k]) \in 1..Frames /\ s[k] + RunFrames(A, s[k]) <= Frames
        /\ \A g \in s[k]..(s[k] + RunFrames(A, s[k]) - 1) : g \in A
    BY <2>1, RunEnds
  <2>3. RunEnd(A, s[k]) \in Nat /\ s[k] < RunEnd(A, s[k]) /\ RunEnd(A, s[k]) \in s[k]..(s[k] + RunFrames(A, s[k]))
    BY <1>2, <2>1, <2>2 DEF RunEnd
  <2>4. Below(A, RunEnd(A, s[k])) = Below(A, s[k]) + (RunEnd(A, s[k]) - s[k]) /\ Below(A, s[k]) \in Nat
    BY <2>1, <2>3, RunPacked
  <2>5. \A f \in s[k]..(RunEnd(A, s[k]) - 1) : f \in s[k]..(s[k] + RunFrames(A, s[k]))
    BY <1>2, <2>1, <2>2 DEF RunEnd
  <2>6. \A f \in s[k]..(RunEnd(A, s[k]) - 1) : Below(A, f) = Below(A, s[k]) + (f - s[k])
    BY <2>1, <2>5, RunPacked
  <2>7. PackedEnd(i[k]) = Below(A, s[k]) + RunFrames(A, s[k]) /\ End(i[k]) = RunEnd(A, s[k])
    BY <2>1 DEF PackedEnd, End, RunEnd
  <2>8. RunEnd(A, s[k]) - s[k] = RunFrames(A, s[k]) /\ RunEnd(A, s[k]) <= Frames
    BY <1>2, <2>1, <2>2 DEF RunEnd
  <2>9. \A f \in s[k]..(RunEnd(A, s[k]) - 1) : f \in A
    BY <1>2, <2>1, <2>2 DEF RunEnd
  <2> QED BY <1>2, <2>1, <2>2, <2>3, <2>4, <2>6, <2>7, <2>8, <2>9
<1>4. ASSUME NEW j \in 1..n, NEW k \in 1..n, j < k PROVE RunEnd(A, s[j]) < s[k]
  BY <1>1, <1>4, RunsApart DEF RunEnd
<1>5. ASSUME NEW f \in A PROVE \E k \in 1..n : f \in s[k]..(RunEnd(A, s[k]) - 1)
  <2>1. PICK t \in Starts(A) : f \in t..(t + RunFrames(A, t) - 1)
    BY RunOf
  <2>2. PICK k \in 1..n : t = s[k]
    BY <1>1
  <2>3. f \in t..(RunEnd(A, t) - 1)
    <3>1. t \in Nat /\ RunFrames(A, t) \in 1..Frames
      BY <1>2, RunEnds DEF Starts
    <3> QED BY <1>2, <2>1, <3>1 DEF RunEnd
  <2> QED BY <2>2, <2>3
<1>6. ASSUME NEW k \in 1..n, k = 1 PROVE i[k].at = 0
  <2>1. ASSUME NEW h \in A PROVE h < 0 \/ s[k] <= h
    <3>1. PICK j \in 1..n : h \in s[j]..(RunEnd(A, s[j]) - 1)
      BY <1>5
    <3>2. j = k \/ RunEnd(A, s[k]) < s[j]
      BY <1>4, <1>6
    <3> QED BY <1>2, <1>3, <3>1, <3>2
  <2>2. Below(A, 0) = Below(A, s[k])
    BY <1>3, <2>1, NothingBetween
  <2>3. {h \in A : h < 0} = {}
    <3>1. \A h \in A : ~(h < 0)
      BY <1>2
    <3> QED BY <3>1
  <2>4. Below(A, 0) = 0
    BY <2>3, FS_EmptySet DEF Below
  <2> QED BY <1>3, <2>2, <2>4
<1>7. ASSUME NEW k \in 1..n, k > 1 PROVE i[k].at = PackedEnd(i[k - 1])
  <2>1. k - 1 \in 1..n /\ k - 1 < k
    BY <1>1, <1>7
  <2>2. RunEnd(A, s[k - 1]) < s[k] /\ RunEnd(A, s[k - 1]) \in Nat /\ s[k] \in Nat
    BY <1>3, <1>4, <2>1
  <2>3. ASSUME NEW h \in A PROVE h < RunEnd(A, s[k - 1]) \/ s[k] <= h
    <3>1. PICK j \in 1..n : h \in s[j]..(RunEnd(A, s[j]) - 1)
      BY <1>5
    <3>2. s[j] \in Nat /\ RunEnd(A, s[j]) \in Nat /\ h \in Nat
      BY <1>2, <1>3
    <3>3. j = k - 1 \/ j = k \/ j < k - 1 \/ k < j
      BY <2>1
    <3>4. CASE j < k - 1
      <4>1. RunEnd(A, s[j]) < s[k - 1] /\ s[k - 1] < RunEnd(A, s[k - 1]) /\ s[k - 1] \in Nat
        BY <1>3, <1>4, <2>1, <3>4
      <4> QED BY <2>2, <3>1, <3>2, <4>1
    <3>5. CASE k < j
      <4>1. RunEnd(A, s[k]) < s[j] /\ s[k] < RunEnd(A, s[k]) /\ RunEnd(A, s[k]) \in Nat
        BY <1>3, <1>4, <3>5
      <4> QED BY <2>2, <3>1, <3>2, <4>1
    <3> QED BY <2>2, <3>1, <3>2, <3>3, <3>4, <3>5
  <2>4. Below(A, RunEnd(A, s[k - 1])) = Below(A, s[k])
    BY <2>2, <2>3, NothingBetween
  <2> QED BY <1>3, <2>1, <2>4
<1>8. PackedFrames(i) = Cardinality(A)
  <2>1. CASE n = 0
    <3>1. A = {}
      BY <1>5, <2>1
    <3>2. i = <<>>
      BY <1>1, <2>1
    <3> QED BY <3>1, <3>2, FS_EmptySet DEF PackedFrames
  <2>2. CASE n # 0
    <3>1. n \in 1..n /\ i # <<>> /\ Last(i) = i[n]
      BY <1>1, <2>2 DEF Last
    <3>2. RunEnd(A, s[n]) \in Nat /\ PackedEnd(i[n]) = Below(A, RunEnd(A, s[n]))
      BY <1>3, <3>1
    <3>3. ASSUME NEW h \in A PROVE h < RunEnd(A, s[n])
      <4>1. PICK j \in 1..n : h \in s[j]..(RunEnd(A, s[j]) - 1)
        BY <1>5
      <4>2. j = n \/ RunEnd(A, s[j]) < s[n]
        BY <1>1, <1>4, <3>1
      <4> QED BY <1>2, <1>3, <3>1, <4>1, <4>2
    <3>4. {h \in A : h < RunEnd(A, s[n])} = A
      BY <3>3
    <3> QED BY <3>1, <3>2, <3>4 DEF PackedFrames, Below
  <2> QED BY <2>1, <2>2
<1>9. ASSUME NEW k \in 1..n
      PROVE  /\ End(i[k]) <= Frames
             /\ \A f \in i[k].start..(End(i[k]) - 1) : f \in A /\ Below(A, f) = i[k].at + (f - i[k].start)
             /\ \A j \in 1..n : j < k => End(i[j]) < i[k].start
  BY <1>3, <1>4
<1>10. \A f \in A : \E k \in 1..n : f \in i[k].start..(End(i[k]) - 1)
  BY <1>3, <1>5
<1> QED BY <1>1, <1>6, <1>7, <1>8, <1>9, <1>10 DEF Describes, i

\* Intervals are packed one after the other, and each holds a frame.
LEMMA DescribedPacked ==
  ASSUME NEW A \in SUBSET Frame, NEW i, Describes(i, A)
  PROVE  /\ Len(i) \in Nat /\ \A k \in 1..Len(i) : /\ i[k] \in Interval
                                                  /\ i[k].start \in Nat /\ i[k].frames \in 1..Frames /\ i[k].at \in Nat
                                                  /\ End(i[k]) = i[k].start + i[k].frames
                                                  /\ PackedEnd(i[k]) = i[k].at + i[k].frames
                                                  /\ End(i[k]) \in Nat /\ PackedEnd(i[k]) \in Nat
                                                  /\ i[k].start < End(i[k]) /\ i[k].at < PackedEnd(i[k])
                                                  /\ i[k].frames \in Nat /\ i[k].frames >= 1
         /\ PackedFrames(i) = Cardinality(A) /\ Cardinality(A) \in 0..Frames
         /\ i # <<>> => PackedFrames(i) = PackedEnd(i[Len(i)])
         /\ i = <<>> => PackedFrames(i) = 0
         /\ \A j, k \in 1..Len(i) : j < k => PackedEnd(i[j]) <= i[k].at
         /\ \A k \in 1..Len(i) : PackedEnd(i[k]) <= PackedFrames(i)
<1>1. Frames \in Nat /\ Frame \in SUBSET Nat /\ Cardinality(A) \in 0..Frames
  BY PcmAssumption, FrameSets DEF Frame
<1>2. i \in Seq(Interval) /\ Len(i) \in Nat /\ PackedFrames(i) = Cardinality(A)
  BY DEF Describes
<1>3. ASSUME NEW k \in 1..Len(i)
      PROVE  /\ i[k] \in Interval
             /\ i[k].start \in Nat /\ i[k].frames \in 1..Frames /\ i[k].at \in Nat
             /\ End(i[k]) = i[k].start + i[k].frames
             /\ PackedEnd(i[k]) = i[k].at + i[k].frames
             /\ End(i[k]) \in Nat /\ PackedEnd(i[k]) \in Nat
             /\ i[k].start < End(i[k]) /\ i[k].at < PackedEnd(i[k])
             /\ i[k].frames \in Nat /\ i[k].frames >= 1
  <2>1. i[k] \in Interval
    BY <1>2
  <2>2. i[k].start \in Frame /\ i[k].frames \in 1..Frames /\ i[k].at \in 0..Frames
    BY <2>1 DEF Interval
  <2>3. End(i[k]) = i[k].start + i[k].frames /\ PackedEnd(i[k]) = i[k].at + i[k].frames
    BY DEF End, PackedEnd
  <2>4. i[k].start \in Nat /\ i[k].frames \in Nat /\ i[k].at \in Nat /\ i[k].frames > 0
    <3>1. i[k].start \in Nat
      BY <1>1, <2>2
    <3>2. i[k].frames \in Nat /\ i[k].at \in Nat /\ i[k].frames > 0
      BY <1>1, <2>2
    <3> QED BY <3>1, <3>2
  <2> QED BY <2>1, <2>2, <2>3, <2>4
<1>4. \A k \in 1..Len(i) : k > 1 => i[k].at = PackedEnd(i[k - 1])
  BY DEF Describes
<1> DEFINE T == {d \in Nat : \A j \in 1..Len(i) : j + d + 1 <= Len(i) => PackedEnd(i[j]) <= i[j + d + 1].at}
<1>5. 0 \in T
  <2> SUFFICES ASSUME NEW j \in 1..Len(i), j + 0 + 1 <= Len(i) PROVE PackedEnd(i[j]) <= i[j + 0 + 1].at
    OBVIOUS
  <2>1. j + 1 \in 1..Len(i) /\ j + 1 > 1 /\ j + 1 - 1 = j /\ j + 0 + 1 = j + 1
    BY <1>2
  <2> QED BY <1>3, <1>4, <2>1
<1>6. ASSUME NEW d \in T PROVE d + 1 \in T
  <2> SUFFICES ASSUME NEW j \in 1..Len(i), j + (d + 1) + 1 <= Len(i)
               PROVE  PackedEnd(i[j]) <= i[j + (d + 1) + 1].at
    OBVIOUS
  <2>0. d \in Nat
    OBVIOUS
  <2> DEFINE k == j + d + 1
  <2>1. k \in 1..Len(i) /\ k + 1 \in 1..Len(i) /\ k + 1 > 1 /\ k + 1 - 1 = k /\ j + (d + 1) + 1 = k + 1 /\ k <= Len(i)
    BY <1>2, <2>0
  <2>2. PackedEnd(i[j]) <= i[k].at
    BY <1>6, <2>1
  <2>3. i[k + 1].at = PackedEnd(i[k])
    BY <1>4, <2>1
  <2>4. j + (d + 1) + 1 = k + 1
    BY <2>1
  <2> HIDE DEF k
  <2>5. /\ PackedEnd(i[j]) \in Nat /\ i[k].at \in Nat /\ PackedEnd(i[k]) \in Nat /\ i[k].at < PackedEnd(i[k])
    BY <1>3, <2>1
  <2> QED BY <2>2, <2>3, <2>4, <2>5
<1>7. T = Nat
  <2>1. T \in SUBSET Nat
    OBVIOUS
  <2> HIDE DEF T
  <2> QED BY <1>5, <1>6, <2>1, AllNumbers
<1>8. ASSUME NEW j \in 1..Len(i), NEW k \in 1..Len(i), j < k PROVE PackedEnd(i[j]) <= i[k].at
  <2>0. k - j - 1 \in Nat /\ j + (k - j - 1) + 1 = k
    BY <1>2, <1>8
  <2>1. k - j - 1 \in T /\ j + (k - j - 1) + 1 = k
    <3> HIDE DEF T
    <3> QED BY <1>7, <2>0
  <2>2. j + (k - j - 1) + 1 <= Len(i) => PackedEnd(i[j]) <= i[j + (k - j - 1) + 1].at
    BY <2>1
  <2> QED BY <1>2, <2>1, <2>2
<1>9. i # <<>> => Len(i) \in 1..Len(i) /\ PackedFrames(i) = PackedEnd(i[Len(i)])
  BY <1>2 DEF PackedFrames, Last
<1>10. i = <<>> => PackedFrames(i) = 0
  BY DEF PackedFrames
<1>11. ASSUME NEW k \in 1..Len(i) PROVE PackedEnd(i[k]) <= PackedFrames(i)
  <2>1. i # <<>> /\ Len(i) \in 1..Len(i)
    BY <1>2
  <2>2. k = Len(i) \/ PackedEnd(i[k]) <= i[Len(i)].at
    BY <1>2, <1>8, <2>1
  <2>3. PackedEnd(i[k]) \in Nat /\ PackedEnd(i[Len(i)]) \in Nat /\ i[Len(i)].at <= PackedEnd(i[Len(i)]) /\ i[Len(i)].at \in Nat
    BY <1>1, <1>3, <2>1
  <2> QED BY <1>9, <2>1, <2>2, <2>3
<1> HIDE DEF T
<1> QED BY <1>1, <1>2, <1>3, <1>8, <1>9, <1>10, <1>11

\* Every packed frame lies in one interval.
LEMMA PackedIn ==
  ASSUME NEW A \in SUBSET Frame, NEW i, Describes(i, A), NEW p \in Nat, p < PackedFrames(i)
  PROVE  /\ IntervalAt(i, p) \in 1..Len(i)
         /\ i[IntervalAt(i, p)].at <= p /\ p < PackedEnd(i[IntervalAt(i, p)])
<1>1. /\ Len(i) \in Nat /\ \A k \in 1..Len(i) : i[k].at \in Nat /\ PackedEnd(i[k]) \in Nat
      /\ i # <<>> => PackedFrames(i) = PackedEnd(i[Len(i)])
      /\ i = <<>> => PackedFrames(i) = 0
      /\ i \in Seq(Interval)
  <2>1. Frames \in Nat
    BY PcmAssumption
  <2> QED BY <2>1, DescribedPacked DEF Describes
<1> DEFINE T == {k \in 1..Len(i) : p < PackedEnd(i[k])}
<1>2. T \in SUBSET Nat /\ Len(i) \in T
  BY <1>1
<1>3. PICK k \in T : \A j \in T : k <= j
  <2> HIDE DEF T
  <2> QED BY <1>2, LeastNumber
<1>4. k \in 1..Len(i) /\ p < PackedEnd(i[k])
  OBVIOUS
<1>5. i[k].at <= p
  <2>1. CASE k = 1
    <3>1. i[k].at = 0
      BY <1>4, <2>1 DEF Describes
    <3> QED BY <3>1
  <2>2. CASE k # 1
    <3>1. k - 1 \in 1..Len(i) /\ k > 1 /\ ~(k <= k - 1)
      BY <1>1, <1>4, <2>2
    <3>2. ~(p < PackedEnd(i[k - 1]))
      BY <1>3, <3>1
    <3>3. i[k].at = PackedEnd(i[k - 1])
      BY <1>4, <3>1 DEF Describes
    <3> QED BY <1>1, <3>1, <3>2, <3>3
  <2> QED BY <2>1, <2>2
<1>6. DOMAIN i = 1..Len(i)
  BY <1>1
<1> HIDE DEF T
<1>7. \E m \in DOMAIN i : i[m].at <= p /\ p < PackedEnd(i[m])
  BY <1>4, <1>5, <1>6
<1> QED BY <1>6, <1>7 DEF IntervalAt

LEMMA PackedOnce ==
  ASSUME NEW A \in SUBSET Frame, NEW i, Describes(i, A), NEW p \in Nat,
         NEW j \in 1..Len(i), NEW k \in 1..Len(i),
         i[j].at <= p, p < PackedEnd(i[j]), i[k].at <= p, p < PackedEnd(i[k])
  PROVE  j = k
<1>1. Frames \in Nat
  BY PcmAssumption
<1>2. /\ Len(i) \in Nat /\ i[j].at \in Nat /\ PackedEnd(i[j]) \in Nat /\ i[k].at \in Nat /\ PackedEnd(i[k]) \in Nat
      /\ j < k => PackedEnd(i[j]) <= i[k].at
      /\ k < j => PackedEnd(i[k]) <= i[j].at
  BY <1>1, DescribedPacked
<1> QED BY <1>2

LEMMA Multiples ==
  ASSUME NEW m \in Nat, NEW a \in Nat, NEW b \in Nat, a <= b
  PROVE  a * m \in Nat /\ b * m \in Nat /\ a * m <= b * m /\ (a < b => a * m + m <= b * m)
         /\ (a + 1) * m = a * m + m
<1>1. PICK d \in Nat : b = a + d
  <2>1. b - a \in Nat /\ b = a + (b - a)
    OBVIOUS
  <2> QED BY <2>1
<1>2. a * m \in Nat /\ d * m \in Nat /\ b * m = a * m + d * m
  BY <1>1
<1>3. (a + 1) * m = a * m + m
  OBVIOUS
<1>4. d = 0 \/ \E c \in Nat : d = c + 1
  <2>1. d # 0 => d - 1 \in Nat /\ d = (d - 1) + 1
    OBVIOUS
  <2> QED BY <2>1
<1>5. d # 0 => d * m >= m
  <2> SUFFICES ASSUME d # 0 PROVE d * m >= m
    OBVIOUS
  <2>1. PICK c \in Nat : d = c + 1
    BY <1>4
  <2>2. c * m \in Nat /\ d * m = c * m + m
    BY <2>1
  <2> QED BY <2>2
<1>6. a < b => d # 0
  BY <1>1
<1> QED BY <1>1, <1>2, <1>3, <1>5, <1>6

\* The chunks of a source cover its packed frames, in order.
LEMMA ChunksCover ==
  ASSUME NEW A \in SUBSET Frame
  PROVE  LET c == ManifestOf(A).chunks
         IN /\ Len(c) \in Nat /\ DOMAIN c = 1..Len(c)
            /\ \A k \in 1..Len(c) :
                 /\ c[k].frames \in 1..MaxChunkFrames /\ c[k].at \in Nat
                 /\ c[k].at = (IF k = 1 THEN 0 ELSE c[k - 1].at + c[k - 1].frames)
                 /\ c[k].at + c[k].frames <= Cardinality(A)
            /\ Cardinality(A) = (IF c = <<>> THEN 0 ELSE Last(c).at + Last(c).frames)
<1> DEFINE c == ManifestOf(A).chunks
           m == MaxChunkFrames
           size == Cardinality(A)
           n == (size + m - 1) \div m
<1>1. m \in Nat \ {0} /\ size \in Nat
  BY PcmAssumption, FrameSets
<1>2. c = [k \in 1..n |-> [at |-> (k - 1) * m, frames |-> Min({m, size - (k - 1) * m})]]
  BY DEF ManifestOf
<1>3. n \in Nat /\ m * n <= size + m - 1 /\ size + m - 1 < m * n + m
  <2> DEFINE a == size + m - 1
  <2>1. a \in Nat
    BY <1>1
  <2> HIDE DEF a, m
  <2>2. a \div m \in Nat /\ m * (a \div m) <= a /\ a < m * (a \div m) + m
    BY <1>1, <2>1
  <2> QED BY <2>2 DEF a
<1> HIDE DEF c, m, size, n
<1>4. n * m \in Nat /\ size <= n * m /\ n * m <= size + m - 1
  BY <1>1, <1>3
<1>5. DOMAIN c = 1..n /\ Len(c) = n /\ (c = <<>> <=> n = 0)
  <2> DEFINE T == {c[k] : k \in 1..n}
  <2>1. c = [k \in 1..n |-> c[k]]
    BY <1>2
  <2>2. \A k \in 1..n : c[k] \in T
    OBVIOUS
  <2> HIDE DEF T
  <2>3. c \in Seq(T) /\ DOMAIN c = 1..n /\ Len(c) = n
    BY <1>3, <2>1, <2>2
  <2> QED BY <1>3, <2>3
<1>6. ASSUME NEW k \in 1..n
      PROVE  /\ c[k].at = (k - 1) * m /\ (k - 1) * m \in Nat
             /\ k < n => c[k].frames = m /\ k * m < size /\ k * m = (k - 1) * m + m
             /\ k = n => c[k].frames = size - (k - 1) * m /\ c[k].frames \in 1..m
  <2>1. k \in Nat /\ k - 1 \in Nat /\ n - 1 \in Nat /\ k - 1 + 1 = k /\ n - 1 + 1 = n
    BY <1>3
  <2>2. (k - 1) * m \in Nat /\ (n - 1) * m \in Nat /\ k * m = (k - 1) * m + m /\ n * m = (n - 1) * m + m
    BY <1>1, <2>1, Multiples
  <2>3. c[k] = [at |-> (k - 1) * m, frames |-> Min({m, size - (k - 1) * m})]
    BY <1>2
  <2>4. k < n => k * m <= (n - 1) * m
    <3>1. k < n => k <= n - 1
      BY <1>3
    <3> QED BY <1>1, <2>1, <3>1, Multiples
  <2>5. (n - 1) * m + 1 <= size /\ size <= (n - 1) * m + m
    BY <1>1, <1>4, <2>2
  <2>6. k < n => k * m < size /\ k * m \in Nat
    BY <1>1, <2>2, <2>4, <2>5
  <2>7. k < n => size - (k - 1) * m > m
    BY <1>1, <2>2, <2>6
  <2>8. k = n => size - (k - 1) * m \in 1..m
    BY <1>1, <2>2, <2>5
  <2> DEFINE x == (k - 1) * m
             y == k * m
  <2> HIDE DEF x, y
  <2>9. k < n => Min({m, size - x}) = m
    BY <1>1, <2>2, <2>7 DEF Min, x
  <2>10. k = n => Min({m, size - x}) = size - x
    BY <1>1, <2>2, <2>8 DEF Min, x
  <2> QED BY <2>2, <2>3, <2>6, <2>8, <2>9, <2>10 DEF x
<1>7. ASSUME NEW k \in 1..n
      PROVE  /\ c[k].frames \in 1..m /\ c[k].at \in Nat
             /\ c[k].at = (IF k = 1 THEN 0 ELSE c[k - 1].at + c[k - 1].frames)
             /\ c[k].at + c[k].frames <= size
  <2>1. c[k].frames \in 1..m /\ c[k].at \in Nat
    <3>1. k < n \/ k = n
      BY <1>3
    <3> QED BY <1>1, <1>6, <3>1
  <2>2. CASE k = 1
    <3>1. 0 * m = 0
      BY <1>1
    <3>2. c[k].at = (k - 1) * m /\ k - 1 = 0
      BY <1>6, <2>2
    <3>3. c[k].at = 0
      BY <3>1, <3>2
    <3> QED BY <1>1, <1>3, <1>6, <2>1, <2>2, <3>3
  <2>3. CASE k # 1
    <3>1. k - 1 \in 1..n /\ k - 1 < n
      BY <1>3, <2>3
    <3>2. c[k - 1].frames = m /\ (k - 1) * m = (k - 1 - 1) * m + m /\ c[k - 1].at = (k - 1 - 1) * m
      BY <1>6, <3>1
    <3>3. c[k].at = (k - 1) * m
      BY <1>6
    <3> QED BY <1>1, <1>3, <1>6, <2>1, <2>3, <3>2, <3>3
  <2> QED BY <2>2, <2>3
<1>8. size = (IF c = <<>> THEN 0 ELSE Last(c).at + Last(c).frames)
  <2>1. CASE n = 0
    <3>1. n * m = 0
      BY <1>1, <2>1
    <3> QED BY <1>1, <1>4, <1>5, <2>1, <3>1
  <2>2. CASE n # 0
    <3>1. n \in 1..n /\ Last(c) = c[n]
      BY <1>3, <1>5, <2>2 DEF Last
    <3>2. c[n].frames = size - (n - 1) * m /\ c[n].at = (n - 1) * m /\ (n - 1) * m \in Nat
      BY <1>6, <3>1
    <3>3. c[n].at + c[n].frames = size
      BY <1>1, <3>2
    <3> QED BY <1>5, <2>2, <3>1, <3>3
  <2> QED BY <2>1, <2>2
<1> QED BY <1>3, <1>5, <1>7, <1>8 DEF c, m, size

LEMMA ManifestValid ==
  ASSUME NEW A \in SUBSET Frame
  PROVE  ValidManifest(ManifestOf(A))
<1> DEFINE i == ManifestOf(A).intervals
           c == ManifestOf(A).chunks
<1>1. Describes(i, A)
  BY ManifestDescribes
<1>2. /\ DOMAIN c = 1..Len(c)
      /\ \A k \in 1..Len(c) : /\ c[k].frames \in 1..MaxChunkFrames
                              /\ c[k].at = (IF k = 1 THEN 0 ELSE c[k - 1].at + c[k - 1].frames)
      /\ Cardinality(A) = (IF c = <<>> THEN 0 ELSE Last(c).at + Last(c).frames)
  BY ChunksCover
<1> HIDE DEF i, c
<1>3. i \in Seq(Interval) /\ DOMAIN i = 1..Len(i) /\ Len(i) \in Nat /\ PackedFrames(i) = Cardinality(A)
  BY <1>1 DEF Describes
<1>4. ASSUME NEW k \in 1..Len(i)
      PROVE  /\ i[k] \in Interval /\ End(i[k]) <= Frames
             /\ i[k].at = (IF k = 1 THEN 0 ELSE PackedEnd(i[k - 1]))
             /\ k > 1 => i[k].start > End(i[k - 1])
  <2>1. i[k] \in Interval /\ End(i[k]) <= Frames /\ i[k].start \in Nat
    BY <1>1, <1>3, DescribedPacked DEF Describes
  <2>2. k = 1 \/ k > 1
    BY <1>3
  <2>3. i[k].at = (IF k = 1 THEN 0 ELSE PackedEnd(i[k - 1]))
    BY <1>1, <2>2 DEF Describes
  <2>4. ASSUME k > 1 PROVE i[k].start > End(i[k - 1])
    <3>1. k - 1 \in 1..Len(i) /\ k - 1 < k
      BY <1>3, <2>4
    <3>2. End(i[k - 1]) < i[k].start
      BY <1>1, <3>1 DEF Describes
    <3>3. End(i[k - 1]) \in Nat
      BY <1>1, <3>1, DescribedPacked
    <3> QED BY <2>1, <3>2, <3>3
  <2> QED BY <2>1, <2>3, <2>4
<1> QED BY <1>2, <1>3, <1>4 DEF ValidManifest, i, c

-----------------------------------------------------------------------------
(* The index: intervals that never touch are not coalesced. *)

Derived(i) ==
  CHOOSE derived : derived = [n \in 0..Len(i) |-> IF n = 0 THEN <<>> ELSE Coalesce(derived[n - 1], i[n])]

LEMMA SubSeqGrows ==
  ASSUME NEW S, NEW i \in Seq(S), NEW n \in 1..Len(i)
  PROVE  /\ SubSeq(i, 1, n) \in Seq(S) /\ Len(SubSeq(i, 1, n)) = n /\ \A k \in 1..n : SubSeq(i, 1, n)[k] = i[k]
         /\ SubSeq(i, 1, n - 1) \in Seq(S) /\ Len(SubSeq(i, 1, n - 1)) = n - 1
         /\ \A k \in 1..(n - 1) : SubSeq(i, 1, n - 1)[k] = i[k]
         /\ SubSeq(i, 1, n) = Append(SubSeq(i, 1, n - 1), i[n])
<1>1. Len(i) \in Nat /\ i[n] \in S /\ \A k \in 1..Len(i) : i[k] \in S
  OBVIOUS
<1>2. /\ SubSeq(i, 1, n) \in Seq(S) /\ Len(SubSeq(i, 1, n)) = n /\ \A k \in 1..n : SubSeq(i, 1, n)[k] = i[k]
      /\ SubSeq(i, 1, n - 1) \in Seq(S) /\ Len(SubSeq(i, 1, n - 1)) = n - 1
      /\ \A k \in 1..(n - 1) : SubSeq(i, 1, n - 1)[k] = i[k]
  BY <1>1
<1> DEFINE a == SubSeq(i, 1, n)
           b == SubSeq(i, 1, n - 1)
<1> HIDE DEF a, b
<1>3. /\ a \in Seq(S) /\ Len(a) = n /\ \A k \in 1..n : a[k] = i[k]
      /\ b \in Seq(S) /\ Len(b) = n - 1 /\ \A k \in 1..(n - 1) : b[k] = i[k]
  BY <1>2 DEF a, b
<1>4. /\ Append(b, i[n]) \in Seq(S) /\ Len(Append(b, i[n])) = n
      /\ \A k \in 1..n : Append(b, i[n])[k] = IF k = n THEN i[n] ELSE b[k]
  BY <1>1, <1>3
<1>5. \A k \in 1..n : a[k] = Append(b, i[n])[k]
  <2>1. \A k \in 1..n : k = n \/ k \in 1..(n - 1)
    BY <1>1
  <2> QED BY <1>3, <1>4, <2>1
<1>6. a = Append(b, i[n])
  BY <1>1, <1>3, <1>4, <1>5, SeqEqual
<1> QED BY <1>2, <1>6 DEF a, b

LEMMA IndexDerived ==
  ASSUME NEW A \in SUBSET Frame
  PROVE  DeriveIndex(ManifestOf(A)) = ManifestOf(A).intervals
<1> DEFINE i == ManifestOf(A).intervals
           N == Len(i)
           Pass(f, n) == IF n = 0 THEN <<>> ELSE Coalesce(f[n - 1], i[n])
           g == [n \in 0..N |-> SubSeq(i, 1, n)]
<1>1. Describes(i, A)
  BY ManifestDescribes
<1>2. DeriveIndex(ManifestOf(A)) = Derived(i)[N]
  BY DEF DeriveIndex, Derived
<1> HIDE DEF i
<1>3. i \in Seq(Interval) /\ N \in Nat
  BY <1>1 DEF Describes
<1>4. ASSUME NEW n \in 1..N PROVE Coalesce(SubSeq(i, 1, n - 1), i[n]) = SubSeq(i, 1, n)
  <2> DEFINE b == SubSeq(i, 1, n - 1)
  <2>1. /\ b \in Seq(Interval) /\ Len(b) = n - 1 /\ \A k \in 1..(n - 1) : b[k] = i[k]
        /\ SubSeq(i, 1, n) = Append(b, i[n])
    BY <1>3, SubSeqGrows
  <2> HIDE DEF b
  <2>2. ASSUME b # <<>> PROVE End(Last(b)) # i[n].start
    <3>1. n - 1 \in 1..(n - 1) /\ n - 1 \in 1..N /\ n - 1 < n /\ Last(b) = i[n - 1]
      BY <1>3, <2>1, <2>2 DEF Last
    <3>2. End(i[n - 1]) < i[n].start
      BY <1>1, <3>1 DEF Describes
    <3>3. End(i[n - 1]) \in Nat /\ i[n].start \in Nat
      BY <1>1, <3>1, DescribedPacked
    <3> QED BY <3>1, <3>2, <3>3
  <2> QED BY <2>1, <2>2 DEF Coalesce, b
<1>5. g = [n \in 0..N |-> Pass(g, n)]
  <2>1. ASSUME NEW n \in 0..N PROVE SubSeq(i, 1, n) = Pass(g, n)
    <3>1. CASE n = 0
      BY <1>3, <3>1
    <3>2. CASE n # 0
      <4>1. n \in 1..N /\ n - 1 \in 0..N
        BY <1>3, <3>2
      <4>2. g[n - 1] = SubSeq(i, 1, n - 1)
        BY <4>1
      <4> HIDE DEF g
      <4> QED BY <1>4, <3>2, <4>1, <4>2
    <3> QED BY <3>1, <3>2
  <2>2. [n \in 0..N |-> SubSeq(i, 1, n)] = [n \in 0..N |-> Pass(g, n)]
    <3> HIDE DEF g, Pass
    <3> QED BY <2>1
  <2> QED BY <2>2
<1> DEFINE d == Derived(i)
<1>6. d = [n \in 0..N |-> Pass(d, n)]
  <2> DEFINE Is(f) == f = [n \in 0..N |-> Pass(f, n)]
  <2>1. Is(g)
    BY <1>5
  <2>2. d = CHOOSE f : Is(f)
    BY DEF Derived
  <2>3. Is(d)
    <3> HIDE DEF Is, d, g
    <3> QED BY <2>1, <2>2
  <2> QED BY <2>3
<1> HIDE DEF d, N
<1>7. d[0] = <<>> /\ \A n \in 1..N : d[n] = Coalesce(d[n - 1], i[n])
  <2>1. \A n \in 0..N : d[n] = Pass(d, n)
    <3> HIDE DEF Pass
    <3> QED BY <1>6
  <2>2. 0 \in 0..N /\ \A n \in 1..N : n \in 0..N /\ n # 0
    BY <1>3
  <2> QED BY <2>1, <2>2
<1> DEFINE T == {n \in Nat : n <= N => d[n] = SubSeq(i, 1, n)}
<1>8. 0 \in T
  <2>1. SubSeq(i, 1, 0) = <<>>
    BY <1>3
  <2> QED BY <1>7, <2>1
<1>9. ASSUME NEW n \in T PROVE n + 1 \in T
  <2> SUFFICES ASSUME n + 1 <= N PROVE d[n + 1] = SubSeq(i, 1, n + 1)
    OBVIOUS
  <2>1. n \in Nat /\ n <= N /\ n + 1 \in 1..N /\ n + 1 - 1 = n
    BY <1>3
  <2>2. d[n] = SubSeq(i, 1, n)
    BY <1>9, <2>1
  <2>3. Coalesce(SubSeq(i, 1, n), i[n + 1]) = SubSeq(i, 1, n + 1)
    BY <1>4, <2>1
  <2>4. d[n + 1] = Coalesce(d[n], i[n + 1])
    BY <1>7, <2>1
  <2> QED BY <2>2, <2>3, <2>4
<1>10. N \in T
  <2>1. T \in SUBSET Nat
    OBVIOUS
  <2> HIDE DEF T
  <2> QED BY <1>3, <1>8, <1>9, <2>1, AllNumbers
<1>11. d[N] = SubSeq(i, 1, N)
  BY <1>3, <1>10
<1>12. SubSeq(i, 1, N) = i
  BY <1>3 DEF N
<1> QED BY <1>2, <1>11, <1>12 DEF i, d, N

\* validateSparsePcmIndex accepts the index of every manifest.
THEOREM IndexAlwaysValid ==
  ASSUME NEW A \in SUBSET Frame
  PROVE  /\ DeriveIndex(ManifestOf(A)) \in Seq(Interval)
         /\ ValidIndex(DeriveIndex(ManifestOf(A)), Cardinality(A))
<1> DEFINE i == ManifestOf(A).intervals
<1>1. DeriveIndex(ManifestOf(A)) = i /\ Describes(i, A)
  BY IndexDerived, ManifestDescribes
<1> HIDE DEF i
<1>2. i \in Seq(Interval) /\ PackedFrames(i) = Cardinality(A) /\ Len(i) \in Nat /\ DOMAIN i = 1..Len(i)
  BY <1>1 DEF Describes
<1>3. ASSUME NEW k \in DOMAIN i
      PROVE  /\ End(i[k]) <= Frames /\ i[k].at = (IF k = 1 THEN 0 ELSE PackedEnd(i[k - 1]))
             /\ k > 1 => i[k].start > End(i[k - 1])
  <2>1. k \in 1..Len(i) /\ (k # 1 => k > 1) /\ (k > 1 => k - 1 \in 1..Len(i) /\ k - 1 < k)
    BY <1>2
  <2>2. k > 1 => End(i[k - 1]) < i[k].start
    BY <1>1, <2>1 DEF Describes
  <2>3. /\ End(i[k]) <= Frames /\ (k = 1 => i[k].at = 0)
        /\ (k > 1 => i[k].at = PackedEnd(i[k - 1]))
    BY <1>1, <2>1 DEF Describes
  <2>4. k > 1 => i[k].start \in Nat /\ End(i[k - 1]) \in Nat
    <3>1. i[k] \in Interval /\ (k > 1 => i[k - 1] \in Interval)
      BY <1>2, <2>1
    <3> QED BY <3>1, PcmAssumption DEF Interval, Frame, End
  <2> QED BY <2>1, <2>2, <2>3, <2>4
<1> QED BY <1>1, <1>2, <1>3 DEF ValidIndex

-----------------------------------------------------------------------------
(* Spans and the index made of them. *)

\* A span is a part of one interval.
PartOf(i, x) ==
  /\ x \in Interval /\ End(x) <= Frames
  /\ \E k \in 1..Len(i) : /\ i[k].at <= x.at /\ PackedEnd(x) <= PackedEnd(i[k])
                          /\ x.start = i[k].start + (x.at - i[k].at)

\* The index of the first d packed frames.
UpTo(i, x, d) ==
  /\ x \in Seq(Interval) /\ d \in Nat /\ Len(x) <= Len(i)
  /\ x = <<>> => d = 0
  /\ \A k \in 1..Len(x) :
       /\ k < Len(x) => x[k] = i[k]
       /\ k = Len(x) => /\ x[k].start = i[k].start /\ x[k].at = i[k].at
                        /\ PackedEnd(x[k]) = d /\ d <= PackedEnd(i[k])

LEMMA SpanFits ==
  ASSUME NEW start \in Nat, NEW at \in Nat, NEW frames \in Nat, NEW p \in Nat, NEW end \in Nat, NEW all \in Nat,
         start + frames <= all, at <= p, p < end, end <= at + frames
  PROVE  /\ start + (p - at) \in 0..(all - 1) /\ start + (p - at) + (end - p) <= all
         /\ end - p \in Nat /\ end - p >= 1 /\ end - p <= frames /\ p + (end - p) = end
OBVIOUS

LEMMA GrownFits ==
  ASSUME NEW d \in Nat, NEW at \in Nat, NEW frames \in Nat, NEW old \in Nat, NEW more \in Nat,
         d + more <= at + frames, old = d - at
  PROVE  old + more <= frames
OBVIOUS

LEMMA SpanIsPart ==
  ASSUME NEW A \in SUBSET Frame, NEW i, Describes(i, A), NEW p \in Nat, NEW e \in Nat,
         p < e, e <= PackedFrames(i)
  PROVE  LET x == NextSpan(i, p, e)
         IN /\ PartOf(i, x) /\ x.at = p /\ x.frames \in 1..MaxSpanFrames /\ p + x.frames <= e
            /\ x.frames \in Nat
<1> DEFINE k == IntervalAt(i, p)
           end == Min({e, PackedEnd(i[k]), p + MaxSpanFrames})
           x == NextSpan(i, p, e)
<1>1. /\ Frames \in Nat /\ MaxSpanFrames \in Nat \ {0} /\ Frame = 0..(Frames - 1)
  BY PcmAssumption DEF Frame
<1>2. PackedFrames(i) \in 0..Frames
  BY <1>1, DescribedPacked
<1>3. k \in 1..Len(i) /\ i[k].at <= p /\ p < PackedEnd(i[k])
  <2>1. p < PackedFrames(i)
    BY <1>1, <1>2
  <2> QED BY <2>1, PackedIn
<1>4. x = [start |-> i[k].start + (p - i[k].at), frames |-> end - p, at |-> p]
  BY DEF NextSpan
<1> HIDE DEF k, x
<1>5. /\ i[k].start \in Nat /\ i[k].frames \in 1..Frames /\ i[k].at \in Nat
      /\ End(i[k]) = i[k].start + i[k].frames /\ PackedEnd(i[k]) = i[k].at + i[k].frames
      /\ End(i[k]) <= Frames /\ PackedEnd(i[k]) \in Nat /\ i[k].frames \in Nat
  BY <1>3, DescribedPacked DEF Describes
<1>6. end \in Nat /\ p < end /\ end <= e /\ end <= PackedEnd(i[k]) /\ end <= p + MaxSpanFrames
  <2> DEFINE y == PackedEnd(i[k])
             z == p + MaxSpanFrames
  <2>1. y \in Nat /\ z \in Nat /\ p < y /\ p < z
    BY <1>1, <1>3, <1>5
  <2> HIDE DEF y, z
  <2>2. \E v \in {e, y, z} : \A w \in {e, y, z} : v <= w
    BY <2>1
  <2>3. Min({e, y, z}) \in {e, y, z} /\ \A w \in {e, y, z} : Min({e, y, z}) <= w
    BY <2>2 DEF Min
  <2>4. end = Min({e, y, z})
    BY DEF y, z
  <2> HIDE DEF end
  <2>5. end \in Nat /\ p < end /\ end <= e /\ end <= y /\ end <= z
    BY <2>1, <2>3, <2>4
  <2> QED BY <2>5 DEF y, z
<1> HIDE DEF end
<1>7. /\ x.start = i[k].start + (p - i[k].at) /\ x.frames = end - p /\ x.at = p
  BY <1>4
<1>8. /\ i[k].start + (p - i[k].at) \in Frame /\ end - p \in 1..Frames /\ p \in 0..Frames
      /\ i[k].start + (p - i[k].at) + (end - p) <= Frames /\ p + (end - p) = end
      /\ end - p \in 1..MaxSpanFrames
  <2> HIDE DEF Interval
  <2>1. i[k].start + i[k].frames <= Frames /\ i[k].at <= p /\ p < end /\ end <= i[k].at + i[k].frames
    BY <1>3, <1>5, <1>6
  <2>2. /\ i[k].start + (p - i[k].at) \in 0..(Frames - 1) /\ i[k].start + (p - i[k].at) + (end - p) <= Frames
        /\ end - p \in Nat /\ end - p >= 1 /\ end - p <= i[k].frames /\ p + (end - p) = end
    <3> DEFINE a == i[k].start
               b == i[k].at
               c == i[k].frames
    <3>1. a \in Nat /\ b \in Nat /\ c \in Nat /\ a + c <= Frames /\ b <= p /\ end <= b + c
      BY <1>5, <2>1
    <3> HIDE DEF a, b, c
    <3>2. /\ a + (p - b) \in 0..(Frames - 1) /\ a + (p - b) + (end - p) <= Frames
          /\ end - p \in Nat /\ end - p >= 1 /\ end - p <= c /\ p + (end - p) = end
      BY <1>1, <1>6, <3>1, SpanFits
    <3> QED BY <3>2 DEF a, b, c
  <2>3. i[k].frames <= Frames
    BY <1>1, <1>5
  <2>4. end - p <= MaxSpanFrames /\ p <= Frames
    BY <1>1, <1>2, <1>6
  <2> QED BY <1>1, <1>5, <2>2, <2>3, <2>4
<1>9. x \in Interval
  BY <1>4, <1>8 DEF Interval
<1>10. End(x) <= Frames /\ PackedEnd(x) <= PackedEnd(i[k])
  BY <1>6, <1>7, <1>8 DEF End, PackedEnd
<1>11. PartOf(i, x)
  BY <1>3, <1>7, <1>9, <1>10 DEF PartOf
<1>12. x.frames \in 1..MaxSpanFrames /\ p + x.frames <= e /\ x.frames \in Nat
  BY <1>1, <1>6, <1>7, <1>8
<1> QED BY <1>7, <1>11, <1>12 DEF x

\* A span that starts where the index ends makes the index of so many frames more.
LEMMA SpanExtends ==
  ASSUME NEW A \in SUBSET Frame, NEW i, Describes(i, A), NEW x, NEW d, UpTo(i, x, d),
         NEW y, PartOf(i, y), y.at = d
  PROVE  UpTo(i, Coalesce(x, y), d + y.frames)
<1> DEFINE n == Len(x)
<1>1. Frames \in Nat /\ Frame \in SUBSET Nat
  BY PcmAssumption DEF Frame
<1>2. i \in Seq(Interval) /\ Len(i) \in Nat /\ x \in Seq(Interval) /\ n \in Nat /\ d \in Nat /\ n <= Len(i)
  BY DEF UpTo, Describes
<1>3. PICK k \in 1..Len(i) : i[k].at <= d /\ PackedEnd(y) <= PackedEnd(i[k]) /\ y.start = i[k].start + (d - i[k].at)
  BY DEF PartOf
<1>4. /\ y \in Interval /\ y.start \in Nat /\ y.frames \in 1..Frames /\ y.frames \in Nat /\ y.frames >= 1
      /\ End(y) = y.start + y.frames /\ PackedEnd(y) = d + y.frames
      /\ End(y) <= Frames
  <2>1. y \in Interval /\ End(y) <= Frames
    BY DEF PartOf
  <2>2. y.start \in Frame /\ y.frames \in 1..Frames
    BY <2>1 DEF Interval
  <2>3. y.start \in Nat
    BY <1>1, <2>2
  <2>4. y.frames \in Nat /\ y.frames >= 1
    BY <1>1, <2>2
  <2> QED BY <2>1, <2>2, <2>3, <2>4 DEF End, PackedEnd
<1>5. \A j \in 1..Len(i) :
        /\ i[j] \in Interval /\ i[j].start \in Nat /\ i[j].frames \in 1..Frames /\ i[j].at \in Nat
        /\ End(i[j]) = i[j].start + i[j].frames /\ PackedEnd(i[j]) = i[j].at + i[j].frames
        /\ End(i[j]) \in Nat /\ PackedEnd(i[j]) \in Nat /\ End(i[j]) <= Frames
        /\ i[j].at < PackedEnd(i[j]) /\ i[j].frames \in Nat
  BY DescribedPacked DEF Describes
<1>6. d < PackedEnd(i[k])
  <2>1. PackedEnd(i[k]) \in Nat /\ d + y.frames <= PackedEnd(i[k])
    BY <1>3, <1>4, <1>5
  <2> QED BY <1>2, <1>4, <2>1
<1>7. CASE x = <<>>
  <2>1. d = 0 /\ n = 0
    BY <1>7 DEF UpTo
  <2>2. 1 \in 1..Len(i) /\ i[1].at = 0 /\ 0 < PackedEnd(i[1])
    BY <1>2, <1>3, <1>5 DEF Describes
  <2>3. k = 1
    <3>1. 0 \in Nat /\ i[k].at <= 0 /\ 0 < PackedEnd(i[k]) /\ i[1].at <= 0
      BY <1>3, <1>6, <2>1, <2>2
    <3> QED BY <2>2, <3>1, PackedOnce
  <2>4. Coalesce(x, y) = <<y>>
    BY <1>7 DEF Coalesce
  <2>5. y.start = i[1].start /\ y.at = i[1].at /\ PackedEnd(y) = d + y.frames /\ d + y.frames \in Nat
    <3>1. i[1].start \in Nat /\ i[1].at = 0
      BY <1>5, <2>2
    <3> QED BY <1>3, <1>4, <2>1, <2>3, <3>1
  <2>6. PackedEnd(y) <= PackedEnd(i[1]) /\ 1 <= Len(i)
    BY <1>2, <1>3, <2>3
  <2>7. <<y>> \in Seq(Interval) /\ Len(<<y>>) = 1 /\ <<y>>[1] = y /\ <<y>> # <<>>
    BY <1>4
  <2>8. \A m \in 1..1 : m = 1
    OBVIOUS
  <2> DEFINE u == <<y>>
  <2>9. u \in Seq(Interval) /\ Len(u) = 1 /\ u[1] = y /\ u # <<>>
    BY <2>7
  <2> HIDE DEF u
  <2>10. UpTo(i, u, d + y.frames)
    <3>1. /\ u \in Seq(Interval) /\ d + y.frames \in Nat /\ Len(u) <= Len(i) /\ u # <<>>
      BY <2>5, <2>6, <2>9
    <3>2. ASSUME NEW m \in 1..Len(u)
          PROVE  /\ m < Len(u) => u[m] = i[m]
                 /\ u[m].start = i[m].start /\ u[m].at = i[m].at
                 /\ PackedEnd(u[m]) = d + y.frames /\ d + y.frames <= PackedEnd(i[m])
      <4>1. m = 1 /\ ~(m < Len(u)) /\ u[m] = y
        BY <2>9
      <4> QED BY <2>5, <2>6, <4>1
    <3> QED BY <3>1, <3>2 DEF UpTo
  <2> QED BY <2>4, <2>10 DEF u
<1>8. CASE x # <<>>
  <2>1. n \in 1..n /\ n \in 1..Len(i) /\ Last(x) = x[n]
    BY <1>2, <1>8 DEF Last
  <2>2. /\ x[n].start = i[n].start /\ x[n].at = i[n].at /\ PackedEnd(x[n]) = d /\ d <= PackedEnd(i[n])
        /\ \A m \in 1..n : m < n => x[m] = i[m]
    BY <2>1 DEF UpTo
  <2>3. x[n] \in Interval /\ x[n].frames \in Nat /\ x[n].frames >= 1 /\ x[n].frames <= Frames
        /\ PackedEnd(x[n]) = x[n].at + x[n].frames /\ End(x[n]) = x[n].start + x[n].frames
    <3>1. x[n] \in Interval
      BY <1>2, <2>1
    <3> QED BY <1>1, <3>1 DEF Interval, PackedEnd, End
  <2>4. i[n].at < d /\ i[n].at \in Nat /\ i[n].start \in Nat
    BY <1>2, <1>5, <2>1, <2>2, <2>3
  <2>5. End(x[n]) = i[n].start + (d - i[n].at) /\ End(x[n]) \in Nat
    BY <1>2, <2>2, <2>3, <2>4
  <2>6. CASE d < PackedEnd(i[n])
    <3>1. k = n
      <4>1. i[n].at <= d /\ d < PackedEnd(i[n])
        BY <1>2, <2>4, <2>6
      <4> HIDE DEF n
      <4> QED BY <1>2, <1>3, <1>6, <2>1, <4>1, PackedOnce
    <3>2. y.start = End(x[n])
      BY <1>3, <2>5, <3>1
    <3> DEFINE z == [x[n] EXCEPT !.frames = @ + y.frames]
    <3>3. z = [start |-> x[n].start, frames |-> x[n].frames + y.frames, at |-> x[n].at]
      BY <2>3 DEF Interval
    <3>4. Coalesce(x, y) = Append(Front(x), z)
      BY <1>8, <2>1, <3>2 DEF Coalesce
    <3> HIDE DEF z
    <3>5. z.start = i[n].start /\ z.at = i[n].at /\ z.frames = x[n].frames + y.frames
      BY <2>2, <3>3
    <3>6. PackedEnd(z) = d + y.frames
      BY <1>2, <1>4, <2>2, <2>3, <2>4, <3>5 DEF PackedEnd
    <3>7. PackedEnd(z) <= PackedEnd(i[n])
      BY <1>3, <1>4, <3>1, <3>6
    <3>8. z \in Interval
      <4>1. z.frames <= i[n].frames /\ z.frames \in Nat /\ z.frames >= 1
        <5>1. d + y.frames <= i[n].at + i[n].frames /\ x[n].frames = d - i[n].at /\ i[n].frames \in Nat
          <6>1. PackedEnd(y) <= PackedEnd(i[n]) /\ PackedEnd(i[n]) = i[n].at + i[n].frames /\ i[n].frames \in Nat
            BY <1>3, <1>5, <2>1, <3>1
          <6>2. x[n].at + x[n].frames = d /\ x[n].at = i[n].at
            BY <2>2, <2>3
          <6>3. x[n].frames = d - i[n].at
            BY <1>2, <2>3, <2>4, <6>2
          <6>4. d + y.frames <= i[n].at + i[n].frames
            BY <1>4, <6>1
          <6> QED BY <6>1, <6>3, <6>4
        <5>2. i[n].at \in Nat /\ x[n].frames \in Nat /\ y.frames \in Nat /\ y.frames >= 1
          BY <1>4, <2>3, <2>4
        <5> HIDE DEF n
        <5>3. x[n].frames + y.frames <= i[n].frames
          <6> DEFINE a == i[n].at
                     f == i[n].frames
                     o == x[n].frames
                     m == y.frames
          <6>1. a \in Nat /\ f \in Nat /\ o \in Nat /\ m \in Nat /\ d + m <= a + f /\ o = d - a
            BY <5>1, <5>2
          <6> HIDE DEF a, f, o, m
          <6>2. o + m <= f
            BY <1>2, <6>1, GrownFits
          <6> QED BY <6>2 DEF o, m, f
        <5> QED BY <3>5, <5>2, <5>3
      <4>2. i[n].frames \in 1..Frames /\ i[n].start \in Frame /\ i[n].at \in 0..Frames
        BY <1>5, <2>1 DEF Interval
      <4>3. z.frames \in 1..Frames
        BY <1>1, <4>1, <4>2
      <4> QED BY <3>3, <3>5, <4>2, <4>3 DEF Interval
    <3> DEFINE u == Append(Front(x), z)
    <3>9. /\ u \in Seq(Interval) /\ Len(u) = n /\ u # <<>> /\ u[n] = z
          /\ \A m \in 1..n : m < n => u[m] = x[m]
      <4>1. Front(x) \in Seq(Interval) /\ Len(Front(x)) = n - 1 /\ \A m \in 1..(n - 1) : Front(x)[m] = x[m]
        <5>1. Front(x) = SubSeq(x, 1, n - 1)
          BY DEF Front
        <5> HIDE DEF n
        <5>2. n \in 1..Len(x)
          BY <2>1 DEF n
        <5> QED BY <1>2, <5>1, <5>2, SubSeqGrows
      <4>2. u \in Seq(Interval) /\ Len(u) = n /\ u[n] = z
            /\ \A m \in 1..(n - 1) : u[m] = Front(x)[m]
        BY <1>2, <3>8, <4>1
      <4>3. \A m \in 1..n : m < n => m \in 1..(n - 1)
        BY <1>2
      <4>4. u # <<>>
        BY <2>1, <4>2
      <4> HIDE DEF u
      <4> QED BY <4>1, <4>2, <4>3, <4>4
    <3> HIDE DEF u
    <3>10. d + y.frames \in Nat
      BY <1>2, <1>4
    <3>11. u = Coalesce(x, y)
      BY <3>4 DEF u
    <3> HIDE DEF n
    <3>12. UpTo(i, u, d + y.frames)
      BY <1>2, <2>2, <3>5, <3>6, <3>7, <3>9, <3>10 DEF UpTo
    <3> QED BY <3>11, <3>12
  <2>7. CASE d = PackedEnd(i[n])
    <3>1. n + 1 \in 1..Len(i) /\ k = n + 1 /\ i[n + 1].at = d
      <4>1. ~ (k < n) /\ k # n
        <5>1. k < n => PackedEnd(i[k]) <= i[n].at
          BY <2>1, DescribedPacked
        <5> QED BY <1>2, <1>3, <1>5, <1>6, <2>1, <2>4, <2>7, <5>1
      <4>2. n + 1 \in 1..Len(i) /\ n + 1 > 1 /\ n + 1 - 1 = n
        <5> HIDE DEF n
        <5>1. k \in Nat /\ k <= Len(i)
          BY <1>2
        <5>2. n < k
          BY <1>2, <2>1, <4>1, <5>1
        <5>3. n >= 1
          BY <1>2, <2>1
        <5> QED BY <1>2, <5>1, <5>2, <5>3
      <4>3. i[n + 1].at = d
        BY <2>7, <4>2 DEF Describes
      <4>4. i[n + 1].at <= d /\ d < PackedEnd(i[n + 1])
        BY <1>2, <1>5, <4>2, <4>3
      <4>5. k = n + 1
        BY <1>2, <1>3, <1>6, <4>2, <4>4, PackedOnce
      <4> QED BY <4>2, <4>3, <4>5
    <3>2. y.start = i[n + 1].start /\ End(i[n]) < i[n + 1].start /\ End(x[n]) = End(i[n])
      <4>1. y.start = i[n + 1].start
        BY <1>2, <1>3, <1>5, <3>1
      <4>2. End(i[n]) < i[n + 1].start
        BY <1>2, <2>1, <3>1 DEF Describes
      <4>3. End(x[n]) = End(i[n])
        <5>1. d - i[n].at = i[n].frames /\ i[n].frames \in Nat
          BY <1>2, <1>5, <2>1, <2>4, <2>7
        <5>2. End(i[n]) = i[n].start + i[n].frames
          BY <1>5, <2>1
        <5> QED BY <2>5, <5>1, <5>2
      <4> QED BY <4>1, <4>2, <4>3
    <3>3. End(Last(x)) # y.start
      BY <1>5, <2>1, <2>5, <3>1, <3>2
    <3> DEFINE u == Append(x, y)
    <3>4. Coalesce(x, y) = u
      BY <3>3 DEF Coalesce
    <3>5. /\ u \in Seq(Interval) /\ Len(u) = n + 1 /\ u # <<>> /\ u[n + 1] = y
          /\ \A m \in 1..n : u[m] = x[m]
      <4>1. /\ u \in Seq(Interval) /\ Len(u) = n + 1 /\ u[n + 1] = y
            /\ \A m \in 1..n : u[m] = x[m]
        BY <1>2, <1>4
      <4>2. u # <<>>
        <5> HIDE DEF u, n
        <5> QED BY <1>2, <4>1
      <4> QED BY <4>1, <4>2
    <3>6. \A m \in 1..n : x[m] = i[m]
      <4>1. x[n] = i[n]
        <5>1. x[n].frames = i[n].frames
          <6>1. PackedEnd(i[n]) = i[n].at + i[n].frames /\ i[n].frames \in Nat
            BY <1>5, <2>1
          <6>2. x[n].at + x[n].frames = i[n].at + i[n].frames /\ x[n].at = i[n].at
            BY <2>2, <2>3, <2>7, <6>1
          <6> QED BY <2>3, <2>4, <6>1, <6>2
        <5>2. i[n] \in Interval
          BY <1>5, <2>1
        <5> QED BY <2>2, <2>3, <5>1, <5>2 DEF Interval
      <4>2. \A m \in 1..n : m < n \/ m = n
        BY <1>2
      <4> QED BY <2>2, <4>1, <4>2
    <3> HIDE DEF u, n
    <3>7. /\ \A m \in 1..(n + 1) : m < n + 1 => u[m] = i[m]
      <4>1. \A m \in 1..(n + 1) : m < n + 1 => m \in 1..n
        BY <1>2
      <4> QED BY <3>5, <3>6, <4>1
    <3>8. d + y.frames \in Nat /\ n + 1 <= Len(i)
      BY <1>2, <1>4, <3>1
    <3>9. PackedEnd(y) <= PackedEnd(i[n + 1]) /\ y.at = i[n + 1].at
      BY <1>3, <3>1
    <3>10. UpTo(i, u, d + y.frames)
      BY <1>4, <3>2, <3>5, <3>7, <3>8, <3>9 DEF UpTo
    <3> QED BY <3>4, <3>10
  <2>8. d < PackedEnd(i[n]) \/ d = PackedEnd(i[n])
    BY <1>2, <1>5, <2>1, <2>2
  <2> QED BY <2>6, <2>7, <2>8
<1> QED BY <1>7, <1>8

\* The index of all packed frames is the index.
LEMMA UpToEnd ==
  ASSUME NEW A \in SUBSET Frame, NEW i, Describes(i, A), NEW x, UpTo(i, x, Cardinality(A))
  PROVE  x = i
<1> DEFINE n == Len(x)
           N == Len(i)
<1>1. /\ i \in Seq(Interval) /\ N \in Nat /\ x \in Seq(Interval) /\ n \in Nat /\ n <= N
      /\ PackedFrames(i) = Cardinality(A) /\ Cardinality(A) \in Nat
  BY FrameSets DEF UpTo, Describes
<1>2. \A j \in 1..N :
        /\ i[j] \in Interval /\ i[j].frames \in 1..Frames /\ i[j].at \in Nat /\ PackedEnd(i[j]) \in Nat
        /\ PackedEnd(i[j]) = i[j].at + i[j].frames /\ i[j].at < PackedEnd(i[j])
  BY DescribedPacked
<1>3. Frames \in Nat
  BY PcmAssumption
<1>4. CASE x = <<>>
  <2>1. PackedFrames(i) = 0
    BY <1>1, <1>4 DEF UpTo
  <2>2. i # <<>> => N \in 1..N /\ PackedFrames(i) = PackedEnd(i[N])
    BY <1>1, DescribedPacked
  <2> QED BY <1>2, <1>4, <2>1, <2>2
<1>5. CASE x # <<>>
  <2>1. n \in 1..n /\ n \in 1..N /\ N \in 1..N /\ i # <<>>
    BY <1>1, <1>5
  <2>2. /\ x[n].start = i[n].start /\ x[n].at = i[n].at /\ PackedEnd(x[n]) = Cardinality(A)
        /\ Cardinality(A) <= PackedEnd(i[n]) /\ \A m \in 1..n : m < n => x[m] = i[m]
    BY <2>1 DEF UpTo
  <2>3. PackedFrames(i) = PackedEnd(i[N])
    BY <2>1, DescribedPacked
  <2>4. n = N
    <3>1. n < N => PackedEnd(i[n]) <= i[N].at
      BY <2>1, DescribedPacked
    <3> QED BY <1>1, <1>2, <2>1, <2>2, <2>3, <3>1
  <2>5. x[n] = i[n]
    <3>1. x[n] \in Interval /\ i[n] \in Interval
      BY <1>1, <1>2, <2>1
    <3>2. PackedEnd(x[n]) = x[n].at + x[n].frames /\ x[n].frames \in Nat /\ i[n].frames \in Nat
      BY <1>3, <3>1 DEF PackedEnd, Interval
    <3>3. x[n].frames = i[n].frames
      BY <1>1, <1>2, <2>1, <2>2, <2>3, <2>4, <3>2
    <3> QED BY <2>2, <3>1, <3>3 DEF Interval
  <2>6. \A m \in 1..n : x[m] = i[m]
    <3>1. \A m \in 1..n : m < n \/ m = n
      BY <1>1
    <3> QED BY <2>2, <2>5, <3>1
  <2> QED BY <1>1, <2>4, <2>6, SeqEqual
<1> QED BY <1>4, <1>5

-----------------------------------------------------------------------------
(* The payload, and the interval at which a window starts. *)

LEMMA PackedAre ==
  ASSUME NEW A \in SUBSET Frame, NEW i, Describes(i, A)
  PROVE  /\ Packed(A) \in Seq(1..Frames) /\ Len(Packed(A)) = Cardinality(A) /\ Cardinality(A) \in Nat
         /\ \A k \in 1..Len(i) : \A f \in i[k].start..(End(i[k]) - 1) :
              /\ i[k].at + (f - i[k].start) + 1 \in 1..Cardinality(A)
              /\ Packed(A)[i[k].at + (f - i[k].start) + 1] = Sample(f)
<1> DEFINE n == Cardinality(A)
           P == Packed(A)
<1>1. /\ A \in SUBSET Nat /\ IsFiniteSet(A) /\ n \in Nat /\ Frames \in Nat
      /\ \A f \in A : f < Frames /\ f \in Nat
  BY FrameSets
<1>2. /\ \A k \in 1..n : InOrder(A)[k] \in A
      /\ \A f \in A : Below(A, f) + 1 \in 1..n /\ InOrder(A)[Below(A, f) + 1] = f
  BY <1>1, Ordered
<1>3. P = [k \in 1..n |-> Sample(InOrder(A)[k])]
  BY DEF Packed
<1> HIDE DEF n, P
<1>4. \A k \in 1..n : P[k] \in 1..Frames
  <2> SUFFICES ASSUME NEW k \in 1..n PROVE P[k] \in 1..Frames
    OBVIOUS
  <2>1. InOrder(A)[k] \in A /\ P[k] = Sample(InOrder(A)[k])
    BY <1>2, <1>3
  <2>2. \A f \in A : Sample(f) \in 1..Frames
    BY <1>1 DEF Sample
  <2> QED BY <2>1, <2>2
<1>5. P \in Seq(1..Frames) /\ Len(P) = n
  <2>1. P = [k \in 1..n |-> P[k]]
    BY <1>3
  <2> QED BY <1>1, <1>4, <2>1
<1>6. ASSUME NEW k \in 1..Len(i), NEW f \in i[k].start..(End(i[k]) - 1)
      PROVE  i[k].at + (f - i[k].start) + 1 \in 1..n /\ P[i[k].at + (f - i[k].start) + 1] = Sample(f)
  <2>1. f \in A /\ Below(A, f) = i[k].at + (f - i[k].start)
    BY DEF Describes
  <2>2. Below(A, f) + 1 \in 1..n /\ InOrder(A)[Below(A, f) + 1] = f
    BY <1>2, <2>1
  <2>3. P[Below(A, f) + 1] = Sample(f)
    BY <1>3, <2>2
  <2> QED BY <2>1, <2>2, <2>3
<1> QED BY <1>1, <1>5, <1>6 DEF n, P

\* How many intervals end at a frame or before it.
LEMMA EndedBefore ==
  ASSUME NEW A \in SUBSET Frame, NEW i, Describes(i, A), NEW f \in Nat
  PROVE  \E r \in 0..Len(i) : \A k \in 1..Len(i) : End(i[k]) <= f <=> k <= r
<1>1. /\ Len(i) \in Nat
      /\ \A k \in 1..Len(i) : End(i[k]) \in Nat /\ i[k].start \in Nat /\ i[k].start < End(i[k])
      /\ \A j, k \in 1..Len(i) : j < k => End(i[j]) < i[k].start
  BY DescribedPacked DEF Describes
<1> DEFINE T == {k \in 1..(Len(i) + 1) : k = Len(i) + 1 \/ ~(End(i[k]) <= f)}
<1>2. T \in SUBSET Nat /\ Len(i) + 1 \in T
  BY <1>1
<1>3. PICK m \in T : \A k \in T : m <= k
  <2> HIDE DEF T
  <2> QED BY <1>2, LeastNumber
<1>4. m \in 1..(Len(i) + 1) /\ (m = Len(i) + 1 \/ ~(End(i[m]) <= f))
  OBVIOUS
<1>5. m - 1 \in 0..Len(i)
  BY <1>1, <1>4
<1>6. ASSUME NEW k \in 1..Len(i) PROVE End(i[k]) <= f <=> k <= m - 1
  <2>1. ASSUME k <= m - 1 PROVE End(i[k]) <= f
    <3>1. ~(m <= k) /\ k \in 1..(Len(i) + 1)
      BY <1>1, <1>4, <2>1
    <3>2. k \notin T
      BY <1>3, <3>1
    <3> QED BY <3>1, <3>2
  <2>2. ASSUME ~(k <= m - 1) PROVE ~(End(i[k]) <= f)
    <3>1. m \in 1..Len(i) /\ (m = k \/ m < k) /\ ~(End(i[m]) <= f)
      BY <1>1, <1>4, <2>2
    <3>2. m < k => End(i[m]) < i[k].start
      BY <1>1, <3>1
    <3>3. End(i[m]) \in Nat /\ End(i[k]) \in Nat /\ i[k].start \in Nat /\ i[k].start < End(i[k])
      BY <1>1, <3>1
    <3> QED BY <3>1, <3>2, <3>3
  <2> QED BY <2>1, <2>2
<1> QED BY <1>5, <1>6

\* The bisection finds it.
LEMMA Bisected ==
  ASSUME NEW A \in SUBSET Frame, NEW i, Describes(i, A), NEW f \in Nat,
         NEW r \in 0..Len(i), \A k \in 1..Len(i) : End(i[k]) <= f <=> k <= r
  PROVE  FirstIntersecting(i, f) = r
<1> DEFINE n == Len(i)
           R == (0..n) \X (0..n)
           Mid(x) == x[1] + (x[2] - x[1]) \div 2
           Pass(s, x) == IF x[1] >= x[2] THEN x[1]
                         ELSE IF End(i[Mid(x) + 1]) <= f THEN s[<<Mid(x) + 1, x[2]>>]
                                                         ELSE s[<<x[1], Mid(x)>>]
           Clip(x) == IF x[1] >= x[2] \/ r <= x[1] THEN x[1] ELSE IF r >= x[2] THEN x[2] ELSE r
           Is(s) == s = [x \in R |-> Pass(s, x)]
           g == [x \in R |-> Clip(x)]
           d == CHOOSE s : Is(s)
<1>1. FirstIntersecting(i, f) = d[<<0, n>>]
  BY DEF FirstIntersecting
<1>2. n \in Nat /\ r \in Nat /\ r <= n
  BY DescribedPacked
<1> HIDE DEF n
<1>3. ASSUME NEW x \in R
      PROVE  /\ x[1] \in 0..n /\ x[2] \in 0..n /\ x[1] \in Nat /\ x[2] \in Nat
             /\ ~(x[1] >= x[2]) =>
                  /\ Mid(x) \in Nat /\ x[1] <= Mid(x) /\ Mid(x) < x[2]
                  /\ <<Mid(x) + 1, x[2]>> \in R /\ <<x[1], Mid(x)>> \in R
                  /\ Mid(x) + 1 \in 1..n /\ (End(i[Mid(x) + 1]) <= f <=> Mid(x) + 1 <= r)
  <2>1. x[1] \in 0..n /\ x[2] \in 0..n /\ x[1] \in Nat /\ x[2] \in Nat
    BY <1>2
  <2>2. ASSUME ~(x[1] >= x[2])
        PROVE  Mid(x) \in Nat /\ x[1] <= Mid(x) /\ Mid(x) < x[2]
    <3> DEFINE a == x[1]
               b == x[2]
    <3>1. a \in Nat /\ b \in Nat /\ a < b
      BY <2>1, <2>2
    <3> HIDE DEF a, b
    <3>2. (b - a) \div 2 \in Nat /\ (b - a) \div 2 < b - a /\ b - a \in Nat
      BY <3>1
    <3>3. a + (b - a) \div 2 \in Nat /\ a <= a + (b - a) \div 2 /\ a + (b - a) \div 2 < b
      BY <3>1, <3>2
    <3> QED BY <3>3 DEF a, b
  <2> HIDE DEF Mid
  <2>3. ASSUME ~(x[1] >= x[2])
        PROVE  /\ <<Mid(x) + 1, x[2]>> \in R /\ <<x[1], Mid(x)>> \in R
               /\ Mid(x) + 1 \in 1..n
    BY <1>2, <2>1, <2>2, <2>3
  <2>4. ASSUME ~(x[1] >= x[2])
        PROVE  End(i[Mid(x) + 1]) <= f <=> Mid(x) + 1 <= r
    BY <2>3, <2>4 DEF n
  <2> HIDE DEF R
  <2> QED BY <2>1, <2>2, <2>3, <2>4
<1> HIDE DEF R, Mid
<1>4. ASSUME NEW s, NEW x \in R, ~(x[1] >= x[2]),
             s[<<Mid(x) + 1, x[2]>>] = Clip(<<Mid(x) + 1, x[2]>>), s[<<x[1], Mid(x)>>] = Clip(<<x[1], Mid(x)>>)
      PROVE  Pass(s, x) = Clip(x)
  <2>1. /\ x[1] \in Nat /\ x[2] \in Nat /\ Mid(x) \in Nat /\ x[1] <= Mid(x) /\ Mid(x) < x[2]
        /\ (End(i[Mid(x) + 1]) <= f <=> Mid(x) + 1 <= r)
    BY <1>3, <1>4
  <2>2. CASE Mid(x) + 1 <= r
    <3>1. Pass(s, x) = Clip(<<Mid(x) + 1, x[2]>>)
      BY <1>4, <2>1, <2>2
    <3>2. Clip(<<Mid(x) + 1, x[2]>>) = Clip(x)
      BY <1>2, <1>4, <2>1, <2>2
    <3> QED BY <3>1, <3>2
  <2>3. CASE ~(Mid(x) + 1 <= r)
    <3>1. Pass(s, x) = Clip(<<x[1], Mid(x)>>)
      BY <1>4, <2>1, <2>3
    <3>2. Clip(<<x[1], Mid(x)>>) = Clip(x)
      BY <1>2, <1>4, <2>1, <2>3
    <3> QED BY <3>1, <3>2
  <2> QED BY <2>2, <2>3
<1>5. Is(g)
  <2>1. ASSUME NEW x \in R PROVE Clip(x) = Pass(g, x)
    <3>1. CASE x[1] >= x[2]
      BY <3>1
    <3>2. CASE ~(x[1] >= x[2])
      <4>1. <<Mid(x) + 1, x[2]>> \in R /\ <<x[1], Mid(x)>> \in R
        BY <1>3, <3>2
      <4>2. g[<<Mid(x) + 1, x[2]>>] = Clip(<<Mid(x) + 1, x[2]>>) /\ g[<<x[1], Mid(x)>>] = Clip(<<x[1], Mid(x)>>)
        <5> HIDE DEF Clip
        <5> QED BY <4>1
      <4> HIDE DEF g, Pass, Clip
      <4> QED BY <1>4, <3>2, <4>2
    <3> QED BY <3>1, <3>2
  <2>2. [x \in R |-> Clip(x)] = [x \in R |-> Pass(g, x)]
    <3> HIDE DEF g, Clip, Pass
    <3> QED BY <2>1
  <2> QED BY <2>2
<1>6. Is(d)
  <2> HIDE DEF Is, g
  <2> QED BY <1>5
<1> HIDE DEF d
<1>7. \A x \in R : d[x] = Pass(d, x)
  <2>1. d = [x \in R |-> Pass(d, x)]
    BY <1>6
  <2> HIDE DEF Pass
  <2> QED BY <2>1
<1> DEFINE T == {m \in Nat : \A x \in R : x[2] <= x[1] + m => d[x] = Clip(x)}
<1>8. 0 \in T
  <2> SUFFICES ASSUME NEW x \in R, x[2] <= x[1] + 0 PROVE d[x] = Clip(x)
    OBVIOUS
  <2> DEFINE a == x[1]
             b == x[2]
  <2>1. a \in Nat /\ b \in Nat /\ b <= a + 0
    BY <1>3
  <2> HIDE DEF a, b
  <2>2. a >= b
    BY <2>1
  <2> QED BY <1>7, <2>2 DEF a, b
<1>9. ASSUME NEW m \in T PROVE m + 1 \in T
  <2> SUFFICES ASSUME NEW x \in R, x[2] <= x[1] + (m + 1) PROVE d[x] = Clip(x)
    OBVIOUS
  <2>1. m \in Nat /\ x[1] \in Nat /\ x[2] \in Nat /\ d[x] = Pass(d, x)
    BY <1>3, <1>7
  <2>2. CASE x[1] >= x[2]
    BY <2>1, <2>2
  <2>3. CASE ~(x[1] >= x[2])
    <3>1. /\ <<Mid(x) + 1, x[2]>> \in R /\ <<x[1], Mid(x)>> \in R
          /\ Mid(x) \in Nat /\ x[1] <= Mid(x) /\ Mid(x) < x[2]
      BY <1>3, <2>3
    <3>2. x[2] <= Mid(x) + 1 + m /\ Mid(x) <= x[1] + m
      BY <2>1, <3>1
    <3>3. d[<<Mid(x) + 1, x[2]>>] = Clip(<<Mid(x) + 1, x[2]>>) /\ d[<<x[1], Mid(x)>>] = Clip(<<x[1], Mid(x)>>)
      <4>1. \A y \in R : y[2] <= y[1] + m => d[y] = Clip(y)
        BY <1>9
      <4> DEFINE y == <<Mid(x) + 1, x[2]>>
                 z == <<x[1], Mid(x)>>
      <4>2. y \in R /\ z \in R /\ y[2] <= y[1] + m /\ z[2] <= z[1] + m
        BY <3>1, <3>2
      <4> HIDE DEF y, z, Clip
      <4>3. d[y] = Clip(y) /\ d[z] = Clip(z)
        BY <4>1, <4>2
      <4> QED BY <4>3 DEF y, z
    <3> HIDE DEF Pass, Clip
    <3> QED BY <1>4, <2>1, <2>3, <3>3
  <2> QED BY <2>2, <2>3
<1>10. T = Nat
  <2>1. T \in SUBSET Nat
    OBVIOUS
  <2> HIDE DEF T
  <2> QED BY <1>8, <1>9, <2>1, AllNumbers
<1>11. d[<<0, n>>] = Clip(<<0, n>>)
  <2>1. n \in T
    <3> HIDE DEF T
    <3> QED BY <1>2, <1>10
  <2>2. <<0, n>> \in R
    BY <1>2 DEF R
  <2> DEFINE x == <<0, n>>
  <2>3. x[2] <= x[1] + n
    BY <1>2
  <2> HIDE DEF x, Clip
  <2>4. x \in R
    BY <2>2 DEF x
  <2>5. d[x] = Clip(x)
    BY <2>1, <2>3, <2>4
  <2> QED BY <2>5 DEF x
<1>12. Clip(<<0, n>>) = r
  BY <1>2
<1> QED BY <1>1, <1>11, <1>12

-----------------------------------------------------------------------------
(* Reading a window. *)

LEMMA OfTwo ==
  ASSUME NEW a \in Nat, NEW b \in Nat
  PROVE  /\ Max({a, b}) = (IF a >= b THEN a ELSE b)
         /\ Min({a, b}) = (IF a <= b THEN a ELSE b)
<1>1. CASE a = b
  BY <1>1 DEF Max, Min
<1>2. CASE a < b
  BY <1>2 DEF Max, Min
<1>3. CASE b < a
  BY <1>3 DEF Max, Min
<1> QED BY <1>1, <1>2, <1>3

LEMMA MaxOf ==
  ASSUME NEW T \in SUBSET Nat, NEW x \in T, NEW n \in Nat, \A k \in T : k <= n
  PROVE  Max(T) \in T /\ \A k \in T : k <= Max(T)
<1> DEFINE U == {m \in 0..n : n - m \in T}
<1>1. n - x \in U /\ U \in SUBSET Nat
  OBVIOUS
<1>2. PICK m \in U : \A k \in U : m <= k
  <2> HIDE DEF U
  <2> QED BY <1>1, LeastNumber
<1>3. n - m \in T /\ m \in 0..n
  OBVIOUS
<1>4. ASSUME NEW k \in T PROVE n - m >= k
  <2>1. k \in Nat /\ k <= n
    OBVIOUS
  <2>2. n - (n - k) = k /\ n - k \in 0..n
    BY <2>1
  <2>3. n - k \in U
    BY <2>2
  <2>4. m <= n - k
    BY <1>2, <2>3
  <2> QED BY <1>3, <2>1, <2>4
<1> DEFINE a == n - m
<1>5. \E b \in T : \A k \in T : b >= k
  <2>1. a \in T /\ \A k \in T : a >= k
    BY <1>3, <1>4
  <2> HIDE DEF a
  <2> QED BY <2>1
<1>6. Max(T) \in T /\ \A k \in T : Max(T) >= k
  BY <1>5 DEF Max
<1> QED BY <1>6

LEMMA SliceAt ==
  ASSUME NEW S, NEW P \in Seq(S), NEW a \in Nat, NEW b \in Nat, b <= Len(P),
         NEW q \in Nat, 1 <= q, a + q <= b
  PROVE  SubSeq(P, a + 1, b)[q] = P[a + q]
OBVIOUS

\* Where frame f lies in a slice from a of the payload.
LEMMA PieceAt ==
  ASSUME NEW at \in Nat, NEW lo \in Nat, NEW s \in Nat, NEW a \in Nat, NEW p \in Nat, NEW start \in Nat
  PROVE  a + (at + (lo - s) - a + (p - (lo - start))) = at + ((start + p - 1) - s) + 1
OBVIOUS

LEMMA WindowRead ==
  ASSUME NEW A \in SUBSET Frame, NEW i, Describes(i, A), NEW start \in Frame, NEW count \in 1..(Frames - start)
  PROVE  ReadWindow(i, Packed(A), start, count) = Canonical(A, start, count)
<1> DEFINE P == Packed(A)
           N == Len(i)
           z == start + count
           first == FirstIntersecting(i, start) + 1
           silent == [k \in 1..count |-> Silence]
           Meets(k) == i[k].start < z
           Met == {k \in first..N : \A j \in first..k : Meets(j)}
           last == Max(Met)
           lo(k) == Max({start, i[k].start})
           hi(k) == Min({z, End(i[k])})
           from == i[first].at + (lo(first) - i[first].start)
           to == i[last].at + (hi(last) - i[last].start)
           slice == SubSeq(P, from + 1, to)
           Place(k, p) == i[k].at + (lo(k) - i[k].start) - from + (p - (lo(k) - start))
           Piece(output, k) == [p \in 1..count |-> IF p \in (lo(k) - start + 1)..(hi(k) - start)
                                                     THEN slice[Place(k, p)] ELSE output[p]]
           Pass(s, k) == IF k = first - 1 THEN silent ELSE Piece(s[k - 1], k)
           Is(s) == s = [k \in (first - 1)..last |-> Pass(s, k)]
           copied == CHOOSE s : Is(s)
           Fr(p) == start + p - 1
           Within(k, p) == \E j \in first..k : Fr(p) \in i[j].start..(End(i[j]) - 1)
           Copy(k) == [p \in 1..count |-> IF Within(k, p) THEN Sample(Fr(p)) ELSE Silence]
           g == [k \in (first - 1)..last |-> Copy(k)]
<1>1. ReadWindow(i, P, start, count) = (IF first > N \/ ~Meets(first) THEN silent ELSE copied[last])
  BY DEF ReadWindow
<1>2. /\ start \in Nat /\ count \in Nat /\ z \in Nat /\ z <= Frames /\ Frames \in Nat /\ 1 <= count
      /\ \A p \in 1..count : Fr(p) \in Nat /\ start <= Fr(p) /\ Fr(p) < z /\ p \in Nat
  <2>1. Frames \in Nat \ {0} /\ start \in 0..(Frames - 1)
    BY PcmAssumption DEF Frame
  <2> QED BY <2>1
<1>3. PICK r \in 0..N : \A k \in 1..N : End(i[k]) <= start <=> k <= r
  BY <1>2, EndedBefore
<1>4. first = r + 1
  BY <1>2, <1>3, Bisected
<1>5. /\ N \in Nat /\ r \in Nat /\ first \in Nat /\ first >= 1 /\ r <= N
      /\ \A k \in 1..N : /\ i[k].start \in Nat /\ End(i[k]) \in Nat /\ i[k].at \in Nat /\ PackedEnd(i[k]) \in Nat
                         /\ i[k].start < End(i[k]) /\ End(i[k]) = i[k].start + i[k].frames
                         /\ PackedEnd(i[k]) = i[k].at + i[k].frames /\ i[k].frames \in Nat
      /\ \A j, k \in 1..N : j < k => End(i[j]) < i[k].start /\ PackedEnd(i[j]) <= i[k].at
      /\ \A k \in 1..N : ~(End(i[k]) <= start) <=> first <= k
  <2>1. N \in Nat
    BY DescribedPacked
  <2>2. r \in Nat /\ first \in Nat /\ first >= 1 /\ r <= N
    BY <1>4, <2>1
  <2>3. \A k \in 1..N : /\ i[k].start \in Nat /\ End(i[k]) \in Nat /\ i[k].at \in Nat /\ PackedEnd(i[k]) \in Nat
                        /\ i[k].start < End(i[k]) /\ End(i[k]) = i[k].start + i[k].frames
                        /\ PackedEnd(i[k]) = i[k].at + i[k].frames /\ i[k].frames \in Nat
    BY DescribedPacked
  <2>4. \A j, k \in 1..N : j < k => End(i[j]) < i[k].start /\ PackedEnd(i[j]) <= i[k].at
    BY DescribedPacked DEF Describes
  <2>5. ASSUME NEW k \in 1..N PROVE ~(End(i[k]) <= start) <=> first <= k
    <3>1. End(i[k]) <= start <=> k <= r
      BY <1>3
    <3> HIDE DEF first
    <3> QED BY <1>4, <2>1, <2>2, <3>1
  <2> QED BY <2>1, <2>2, <2>3, <2>4, <2>5
<1>6. /\ P \in Seq(1..Frames) /\ Len(P) = Cardinality(A) /\ Cardinality(A) \in Nat
      /\ \A k \in 1..N : \A f \in i[k].start..(End(i[k]) - 1) :
           /\ i[k].at + (f - i[k].start) + 1 \in 1..Cardinality(A)
           /\ P[i[k].at + (f - i[k].start) + 1] = Sample(f)
  BY PackedAre
<1>7. /\ \A f \in A : \E k \in 1..N : f \in i[k].start..(End(i[k]) - 1)
      /\ \A k \in 1..N : \A f \in i[k].start..(End(i[k]) - 1) : f \in A
  BY DEF Describes
<1> HIDE DEF N, first
\* A frame of the window that is stored lies in an interval that the window meets.
<1>8. ASSUME NEW p \in 1..count, Fr(p) \in A
      PROVE  \E k \in first..N : Fr(p) \in i[k].start..(End(i[k]) - 1) /\ i[k].start < z
  <2>1. PICK k \in 1..N : Fr(p) \in i[k].start..(End(i[k]) - 1)
    BY <1>7, <1>8
  <2>2. Fr(p) \in Nat /\ start <= Fr(p) /\ Fr(p) < z
    BY <1>2
  <2> HIDE DEF Fr, z
  <2>3. i[k].start < z /\ ~(End(i[k]) <= start)
    BY <1>2, <1>5, <2>1, <2>2
  <2>4. k \in first..N
    BY <1>5, <2>3
  <2> QED BY <2>1, <2>3, <2>4
<1>9. CASE first > N \/ ~Meets(first)
  <2>1. ASSUME NEW p \in 1..count PROVE Fr(p) \notin A
    <3> SUFFICES ASSUME Fr(p) \in A PROVE FALSE
      OBVIOUS
    <3>1. PICK k \in first..N : i[k].start < z
      BY <1>8
    <3> HIDE DEF z
    <3>2. k \in 1..N /\ first \in 1..N /\ first <= k
      BY <1>5
    <3>3. first < k => End(i[first]) < i[k].start
      BY <1>5, <3>2
    <3>4. i[first].start <= i[k].start
      BY <1>5, <3>2, <3>3
    <3>5. Meets(first)
      BY <1>2, <1>5, <3>1, <3>2, <3>4
    <3> QED BY <1>5, <1>9, <3>2, <3>5
  <2>2. silent = Canonical(A, start, count)
    BY <2>1 DEF Canonical
  <2> QED BY <1>1, <1>9, <2>2
<1>10. CASE ~(first > N \/ ~Meets(first))
  <2>1. first \in 1..N /\ Meets(first)
    BY <1>5, <1>10
  <2>2. last \in Met /\ \A k \in Met : k <= last
    <3>1. Met \in SUBSET Nat
      BY <1>5
    <3>2. first \in Met
      <4>1. \A j \in first..first : j = first
        BY <1>5
      <4> QED BY <1>5, <2>1, <4>1
    <3>3. \A k \in Met : k <= N
      BY <1>5
    <3> HIDE DEF Met
    <3> QED BY <1>5, <3>1, <3>2, <3>3, MaxOf
  <2> HIDE DEF last
  <2>3. /\ last \in 1..N /\ first <= last /\ last \in Nat
        /\ \A k \in first..last : Meets(k) /\ k \in 1..N
    BY <1>5, <2>2
  <2>4. ASSUME NEW k \in first..N, Meets(k) PROVE k <= last
    <3>1. ASSUME NEW j \in first..k PROVE Meets(j)
      <4>1. j \in 1..N /\ k \in 1..N /\ (j = k \/ j < k)
        BY <1>5
      <4>2. j < k => End(i[j]) < i[k].start
        BY <1>5, <4>1
      <4> HIDE DEF z
      <4>3. i[j].start <= i[k].start /\ i[j].start \in Nat /\ i[k].start \in Nat /\ z \in Nat
        BY <1>2, <1>5, <4>1, <4>2
      <4> QED BY <2>4, <4>3
    <3>2. k \in Met
      <4> HIDE DEF Meets
      <4> QED BY <3>1
    <3> QED BY <2>2, <3>2
  <2> HIDE DEF Met
  <2>5. ASSUME NEW k \in first..last
        PROVE  /\ lo(k) \in Nat /\ hi(k) \in Nat /\ start <= lo(k) /\ i[k].start <= lo(k) /\ lo(k) < hi(k)
               /\ hi(k) <= z /\ hi(k) <= End(i[k])
               /\ \A f \in Nat : start <= f /\ f < z => (f \in i[k].start..(End(i[k]) - 1) <=> lo(k) <= f /\ f < hi(k))
    <3>1. Meets(k) /\ k \in 1..N /\ first <= k
      BY <1>5, <2>3
    <3> HIDE DEF z
    <3>2. /\ i[k].start \in Nat /\ End(i[k]) \in Nat /\ i[k].start < z /\ ~(End(i[k]) <= start) /\ i[k].start < End(i[k])
      BY <1>5, <3>1
    <3>3. start < z
      BY <1>2 DEF z
    <3>4. /\ lo(k) = (IF start >= i[k].start THEN start ELSE i[k].start)
          /\ hi(k) = (IF z <= End(i[k]) THEN z ELSE End(i[k]))
      BY <1>2, <3>2, OfTwo
    <3> HIDE DEF lo, hi
    <3> QED BY <1>2, <3>2, <3>3, <3>4
  <2> HIDE DEF lo, hi
  <2>6. first \in first..last /\ last \in first..last
    BY <1>5, <2>3
  <2>7. /\ from \in Nat /\ to \in Nat /\ to <= Len(P)
        /\ \A k \in first..last : from <= i[k].at + (lo(k) - i[k].start) /\ i[k].at + (hi(k) - i[k].start) <= to
    <3>1. \A k \in first..last : /\ k \in 1..N /\ lo(k) \in Nat /\ hi(k) \in Nat
                                 /\ i[k].start <= lo(k) /\ lo(k) < hi(k) /\ hi(k) <= End(i[k])
      <4> HIDE DEF z
      <4> QED BY <2>3, <2>5
    <3>2. \A k \in first..last : /\ i[k].start \in Nat /\ i[k].at \in Nat /\ i[k].frames \in Nat
                                 /\ End(i[k]) = i[k].start + i[k].frames /\ PackedEnd(i[k]) = i[k].at + i[k].frames
      BY <1>5, <3>1
    <3>3. \A k \in first..last : /\ i[k].at <= i[k].at + (lo(k) - i[k].start)
                                 /\ i[k].at + (lo(k) - i[k].start) < i[k].at + (hi(k) - i[k].start)
                                 /\ i[k].at + (hi(k) - i[k].start) <= PackedEnd(i[k])
                                 /\ i[k].at + (lo(k) - i[k].start) \in Nat /\ i[k].at + (hi(k) - i[k].start) \in Nat
      <4> SUFFICES ASSUME NEW k \in first..last
                   PROVE  /\ i[k].at <= i[k].at + (lo(k) - i[k].start)
                          /\ i[k].at + (lo(k) - i[k].start) < i[k].at + (hi(k) - i[k].start)
                          /\ i[k].at + (hi(k) - i[k].start) <= PackedEnd(i[k])
                          /\ i[k].at + (lo(k) - i[k].start) \in Nat /\ i[k].at + (hi(k) - i[k].start) \in Nat
        OBVIOUS
      <4> DEFINE at == i[k].at
                 s == i[k].start
                 n == i[k].frames
                 l == lo(k)
                 h == hi(k)
      <4>1. /\ at \in Nat /\ s \in Nat /\ n \in Nat /\ l \in Nat /\ h \in Nat
            /\ s <= l /\ l < h /\ h <= s + n /\ PackedEnd(i[k]) = at + n
        BY <3>1, <3>2
      <4> HIDE DEF at, s, n, l, h
      <4>2. /\ at <= at + (l - s) /\ at + (l - s) < at + (h - s) /\ at + (h - s) <= at + n
            /\ at + (l - s) \in Nat /\ at + (h - s) \in Nat
        BY <4>1
      <4> QED BY <4>1, <4>2 DEF at, s, n, l, h
    <3>4. from \in Nat /\ to \in Nat
      BY <2>6, <3>3
    <3>5. ASSUME NEW k \in first..last PROVE from <= i[k].at + (lo(k) - i[k].start)
      <4>1. k = first \/ first < k
        BY <1>5, <2>3
      <4>2. CASE k = first
        BY <4>2, <3>4
      <4>3. CASE first < k
        <5>1. PackedEnd(i[first]) <= i[k].at /\ PackedEnd(i[first]) \in Nat
          BY <1>5, <2>1, <2>3, <4>3
        <5>2. from < PackedEnd(i[first])
          <6>1. /\ from < i[first].at + (hi(first) - i[first].start)
                /\ i[first].at + (hi(first) - i[first].start) <= PackedEnd(i[first])
                /\ i[first].at + (hi(first) - i[first].start) \in Nat
            BY <2>6, <3>3
          <6> HIDE DEF from
          <6> QED BY <3>4, <5>1, <6>1
        <5>3. i[k].at <= i[k].at + (lo(k) - i[k].start) /\ i[k].at \in Nat /\ i[k].at + (lo(k) - i[k].start) \in Nat
          BY <3>2, <3>3
        <5> HIDE DEF from
        <5> QED BY <3>4, <5>1, <5>2, <5>3
      <4> QED BY <4>1, <4>2, <4>3
    <3>6. ASSUME NEW k \in first..last PROVE i[k].at + (hi(k) - i[k].start) <= to
      <4>1. k = last \/ k < last
        BY <1>5, <2>3
      <4>2. CASE k = last
        BY <4>2, <3>4
      <4>3. CASE k < last
        <5>1. PackedEnd(i[k]) <= i[last].at /\ PackedEnd(i[k]) \in Nat
          BY <1>5, <2>3, <4>3
        <5>2. /\ i[last].at <= i[last].at + (lo(last) - i[last].start)
              /\ i[last].at + (lo(last) - i[last].start) < to
              /\ i[last].at + (lo(last) - i[last].start) \in Nat /\ i[last].at \in Nat
          BY <2>6, <3>2, <3>3
        <5>3. i[k].at + (hi(k) - i[k].start) <= PackedEnd(i[k]) /\ i[k].at + (hi(k) - i[k].start) \in Nat
          BY <3>3
        <5> HIDE DEF to
        <5> QED BY <3>4, <5>1, <5>2, <5>3
      <4> QED BY <4>1, <4>2, <4>3
    <3>7. to <= Len(P)
      <4>1. to <= PackedEnd(i[last]) /\ PackedEnd(i[last]) \in Nat
        BY <1>5, <2>3, <2>6, <3>3
      <4>2. PackedEnd(i[last]) <= PackedFrames(i) /\ PackedFrames(i) = Cardinality(A)
        BY <2>3, DescribedPacked DEF N
      <4> HIDE DEF to
      <4> QED BY <1>6, <3>4, <4>1, <4>2
    <3> QED BY <3>4, <3>5, <3>6, <3>7
  <2> HIDE DEF from, to, P
  \* What is copied of an interval are its frames.
  <2>8. ASSUME NEW k \in first..last, NEW p \in 1..count, lo(k) <= Fr(p), Fr(p) < hi(k)
        PROVE  slice[Place(k, p)] = Sample(Fr(p))
    <3> DEFINE q == Place(k, p)
               f == Fr(p)
    <3>1. /\ f \in Nat /\ start <= f /\ f < z /\ p \in Nat /\ k \in 1..N
      BY <1>2, <2>3
    <3>2. /\ lo(k) \in Nat /\ hi(k) \in Nat /\ i[k].start <= lo(k) /\ start <= lo(k) /\ hi(k) <= End(i[k])
          /\ i[k].start \in Nat /\ i[k].at \in Nat /\ End(i[k]) \in Nat
          /\ f \in i[k].start..(End(i[k]) - 1)
      <4>1. f \in i[k].start..(End(i[k]) - 1) <=> lo(k) <= f /\ f < hi(k)
        <5> HIDE DEF f, z
        <5> QED BY <2>5, <3>1
      <4>2. /\ lo(k) \in Nat /\ hi(k) \in Nat /\ i[k].start <= lo(k) /\ start <= lo(k) /\ hi(k) <= End(i[k])
        <5> HIDE DEF z
        <5> QED BY <2>5
      <4>3. i[k].start \in Nat /\ i[k].at \in Nat /\ End(i[k]) \in Nat
        BY <1>5, <3>1
      <4> QED BY <2>8, <4>1, <4>2, <4>3
    <3>3. from + q = i[k].at + (f - i[k].start) + 1
      <4> DEFINE at == i[k].at
                 l == lo(k)
                 s == i[k].start
      <4>1. at \in Nat /\ l \in Nat /\ s \in Nat /\ from \in Nat
        BY <2>7, <3>2
      <4> HIDE DEF at, l, s
      <4>2. from + (at + (l - s) - from + (p - (l - start))) = at + ((start + p - 1) - s) + 1
        BY <1>2, <3>1, <4>1, PieceAt
      <4> QED BY <4>2 DEF at, l, s
    <3>4. q \in Nat /\ 1 <= q /\ from + q <= to
      <4> DEFINE at == i[k].at
                 l == lo(k)
                 h == hi(k)
                 s == i[k].start
      <4>1. /\ at \in Nat /\ l \in Nat /\ s \in Nat /\ from \in Nat /\ h \in Nat /\ to \in Nat
            /\ s <= l /\ from <= at + (l - s) /\ at + (h - s) <= to /\ l <= f /\ f < h
        BY <2>7, <2>8, <3>2
      <4>2. q = at + (l - s) - from + (p - (l - start))
        OBVIOUS
      <4>3. from + q = at + (f - s) + 1
        BY <3>3
      <4> HIDE DEF at, l, s, h, q, f
      <4>4. at + (f - s) + 1 <= to /\ from + 1 <= at + (f - s) + 1 /\ at + (f - s) + 1 \in Nat
        BY <3>1, <4>1
      <4>5. q \in Int
        BY <1>2, <3>1, <4>1, <4>2
      <4> QED BY <4>1, <4>3, <4>4, <4>5
    <3> HIDE DEF q
    <3>5. slice[q] = P[from + q]
      BY <1>6, <2>7, <3>4, SliceAt
    <3>6. P[i[k].at + (f - i[k].start) + 1] = Sample(f)
      <4> HIDE DEF f
      <4> QED BY <1>6, <3>1, <3>2
    <3> QED BY <3>3, <3>5, <3>6 DEF q
  <2> HIDE DEF slice, Place
  <2>9. ASSUME NEW k \in first..last, NEW s, s[k - 1] = Copy(k - 1)
        PROVE  Piece(s[k - 1], k) = Copy(k)
    <3>1. k \in Nat /\ k - 1 \in Nat /\ first <= k /\ k <= last
      BY <1>5, <2>3
    <3>2. ASSUME NEW p \in 1..count
          PROVE  (IF p \in (lo(k) - start + 1)..(hi(k) - start) THEN slice[Place(k, p)] ELSE s[k - 1][p])
                   = (IF Within(k, p) THEN Sample(Fr(p)) ELSE Silence)
      <4>1. Fr(p) \in Nat /\ start <= Fr(p) /\ Fr(p) < z /\ p \in Nat
        BY <1>2
      <4>2. Fr(p) \in i[k].start..(End(i[k]) - 1) <=> lo(k) <= Fr(p) /\ Fr(p) < hi(k)
        <5> HIDE DEF z, Fr
        <5> QED BY <2>5, <4>1
      <4>3. p \in (lo(k) - start + 1)..(hi(k) - start) <=> lo(k) <= Fr(p) /\ Fr(p) < hi(k)
        <5> DEFINE l == lo(k)
                   h == hi(k)
        <5>1. l \in Nat /\ h \in Nat
          BY <2>5
        <5> HIDE DEF l, h
        <5>2. p \in (l - start + 1)..(h - start) <=> l <= Fr(p) /\ Fr(p) < h
          BY <1>2, <4>1, <5>1
        <5> QED BY <5>2 DEF l, h
      <4>4. s[k - 1][p] = (IF Within(k - 1, p) THEN Sample(Fr(p)) ELSE Silence)
        <5> HIDE DEF Within
        <5> QED BY <2>9
      <4>5. Within(k, p) <=> Within(k - 1, p) \/ Fr(p) \in i[k].start..(End(i[k]) - 1)
        <5>1. first..k = (first..(k - 1)) \cup {k}
          BY <1>5, <3>1
        <5> HIDE DEF Fr
        <5> QED BY <5>1
      <4> HIDE DEF Within, Fr
      <4>6. CASE lo(k) <= Fr(p) /\ Fr(p) < hi(k)
        <5>1. slice[Place(k, p)] = Sample(Fr(p))
          BY <2>8, <4>6
        <5> QED BY <4>2, <4>3, <4>5, <4>6, <5>1
      <4>7. CASE ~(lo(k) <= Fr(p) /\ Fr(p) < hi(k))
        BY <4>2, <4>3, <4>4, <4>5, <4>7
      <4> QED BY <4>6, <4>7
    <3> HIDE DEF Within, Fr
    <3> QED BY <3>2
  <2>10. Copy(first - 1) = silent
    <3>1. first..(first - 1) = {}
      BY <1>5
    <3>2. \A p \in 1..count : ~Within(first - 1, p)
      BY <3>1
    <3> HIDE DEF Within
    <3> QED BY <3>2
  <2> DEFINE D == (first - 1)..last
  <2>11. ASSUME NEW k \in D
         PROVE  k \in Nat /\ (k # first - 1 => k \in first..last /\ k - 1 \in D)
    BY <1>5, <2>3
  <2> HIDE DEF Copy, Piece
  <2>12. Is(g)
    <3>1. ASSUME NEW k \in D PROVE Copy(k) = Pass(g, k)
      <4>1. CASE k = first - 1
        BY <2>10, <4>1
      <4>2. CASE k # first - 1
        <5>1. g[k - 1] = Copy(k - 1) /\ k \in first..last
          BY <2>11, <4>2
        <5> HIDE DEF g
        <5>2. Piece(g[k - 1], k) = Copy(k)
          BY <2>9, <5>1
        <5> QED BY <4>2, <5>2
      <4> QED BY <4>1, <4>2
    <3> HIDE DEF g, Pass, D
    <3>2. [k \in D |-> Copy(k)] = [k \in D |-> Pass(g, k)]
      BY <3>1
    <3> QED BY <3>2 DEF g, D
  <2>13. Is(copied)
    <3> HIDE DEF Is, g
    <3> QED BY <2>12
  <2> HIDE DEF copied
  <2>14. \A k \in D : copied[k] = Pass(copied, k)
    <3>1. copied = [k \in D |-> Pass(copied, k)]
      BY <2>13
    <3> HIDE DEF Pass, D
    <3> QED BY <3>1
  <2> HIDE DEF D
  <2> DEFINE T == {m \in Nat : \A k \in D : k <= m => copied[k] = Copy(k)}
  <2>15. ASSUME NEW m \in Nat, \A k \in D : k < m => copied[k] = Copy(k)
         PROVE  \A k \in D : k <= m => copied[k] = Copy(k)
    <3> SUFFICES ASSUME NEW k \in D, k <= m PROVE copied[k] = Copy(k)
      OBVIOUS
    <3>1. CASE k = first - 1
      BY <2>10, <2>14, <3>1
    <3>2. CASE k # first - 1
      <4>1. k \in Nat /\ k \in first..last /\ k - 1 \in D /\ k - 1 < m
        BY <2>11, <3>2
      <4>2. copied[k - 1] = Copy(k - 1)
        BY <2>15, <4>1
      <4>3. Piece(copied[k - 1], k) = Copy(k)
        BY <2>9, <4>1, <4>2
      <4> QED BY <2>14, <3>2, <4>3
    <3> QED BY <3>1, <3>2
  <2>16. T = Nat
    <3>1. 0 \in T
      <4>1. \A k \in D : ~(k < 0)
        BY <2>11
      <4> QED BY <2>15, <4>1
    <3>2. ASSUME NEW m \in T PROVE m + 1 \in T
      <4>1. \A k \in D : k < m + 1 => k <= m
        BY <2>11
      <4>2. \A k \in D : k <= m => copied[k] = Copy(k)
        BY <3>2
      <4>3. m \in Nat /\ m + 1 \in Nat
        BY <3>2
      <4>4. \A k \in D : k <= m + 1 => copied[k] = Copy(k)
        BY <2>15, <4>1, <4>2, <4>3
      <4> QED BY <4>3, <4>4
    <3>3. T \in SUBSET Nat
      OBVIOUS
    <3> HIDE DEF T
    <3> QED BY <3>1, <3>2, <3>3, AllNumbers
  <2>17. copied[last] = Copy(last)
    <3>1. last \in D
      BY <1>5, <2>3 DEF D
    <3>2. last \in T
      <4> HIDE DEF T
      <4> QED BY <2>3, <2>16
    <3> QED BY <2>3, <3>1, <3>2
  <2>18. Copy(last) = Canonical(A, start, count)
    <3>1. ASSUME NEW p \in 1..count PROVE Within(last, p) <=> Fr(p) \in A
      <4>1. ASSUME Within(last, p) PROVE Fr(p) \in A
        <5>1. PICK j \in first..last : Fr(p) \in i[j].start..(End(i[j]) - 1)
          BY <4>1
        <5>2. j \in 1..N
          BY <2>3
        <5> HIDE DEF Fr
        <5> QED BY <1>7, <5>1, <5>2
      <4>2. ASSUME Fr(p) \in A PROVE Within(last, p)
        <5>1. PICK k \in first..N : Fr(p) \in i[k].start..(End(i[k]) - 1) /\ i[k].start < z
          BY <1>8, <4>2
        <5>2. k <= last
          BY <2>4, <5>1
        <5>3. k \in first..last
          BY <1>5, <2>3, <5>2
        <5> HIDE DEF Fr
        <5> QED BY <5>1, <5>3
      <4> QED BY <4>1, <4>2
    <3> HIDE DEF Within
    <3>2. Copy(last) = [p \in 1..count |-> IF Fr(p) \in A THEN Sample(Fr(p)) ELSE Silence]
      BY <3>1 DEF Copy
    <3> QED BY <3>2 DEF Canonical
  <2> QED BY <1>1, <1>10, <2>17, <2>18 DEF P
<1> QED BY <1>9, <1>10

-----------------------------------------------------------------------------
PCs == {"idle", "locking"} \cup Program \cup Mutation
Results == {"none", "descriptor", "missing", "present", "corrupt", "failed"}
OpState == [kind : {"none", "open", "install", "inspect"}, pc : PCs, gen : {0} \cup Gen,
            owns : SUBSET {"data", "marker"}, result : Results]

Typed ==
  /\ op \in [Stores -> OpState]
  /\ DOMAIN payload = Gen /\ \A g \in Gen : DOMAIN payload[g] = {"there", "data"}
  /\ holder \in Stores \cup {NoStore} /\ streamer \in Stores \cup {NoStore}
  /\ iter \in {"none", "open", "closing", "closed"}
  /\ marker.state \in {"none", "partial", "valid"}
  /\ faults \in 0..Faults /\ crashes \in 0..Crashes

\* Who is inside an operation has the lock, and a mutation that is pending is
\* that of its store's present step, with its file owned.
Inside == \A s \in Stores : op[s].pc \in Program \cup Mutation <=> holder = s
Pending == \A m \in muts : /\ m \in [by : Stores, op : Mutation, gen : {0} \cup Gen]
                           /\ m.op = op[m.by].pc /\ m.gen = op[m.by].gen
                           /\ OwnsAt(m.by) = op[m.by].owns
Locked == Inside /\ Pending

\* A stream that is open belongs to the operation that holds the lock, in a step
\* that reads it or waits for its close.
Reading == {"admitting", "createData", "streaming", "writeData", "draining"}
Owned ==
  /\ streamer # NoStore => holder = streamer
  /\ iter \in {"open", "closing"} => streamer # NoStore /\ op[streamer].pc \in Reading

\* What an open stream holds, by the step of its response.
Holding ==
  /\ StreamHeld
  /\ iter = "closing" <=> closing # "none"
  /\ iter = "open" => /\ step # "admission" => permit
                      /\ job # "none" => step # "admission"

Unmarked == {"resolving", "admitting", "createData", "streaming", "writeData", "closeData", "createMarker"}
Whole == {"closeData", "createMarker", "writeMarker", "closeMarker", "checking"}
Owning == {"streaming", "writeData", "closeData", "createMarker", "removeData"}

Marks(s, state) == marker.state = state /\ marker.gen = op[s].gen

\* What each step of an operation knows of the files.
Fits(s) ==
  LET o == op[s] IN
  /\ o.pc \in {"idle", "locking", "looking", "reading", "verifying", "resolving", "admitting", "committed"} =>
       o.owns = {}
  /\ o.pc \in {"idle", "locking"} => o.result = "none"
  /\ o.pc \in Unmarked \cup {"removeData"} => marker.state = "none"
  /\ o.pc = "reading" => marker.state # "none"
  /\ o.pc = "writeMarker" => Marks(s, "partial")
  /\ o.pc \in {"verifying", "closeMarker", "checking", "committed"} => Marks(s, "valid")
  /\ o.pc \in Mutation \cup {"streaming"} => o.gen \in Gen
  /\ o.pc \in Whole => Complete(o.gen)
  /\ o.pc \in {"closeData", "createMarker", "writeMarker"} => PackedFrames(intervals) = Len(Content)
  /\ o.pc \in Owning => "data" \in o.owns
  /\ o.pc \in {"writeMarker", "closeMarker", "checking", "removeMarker"} => "marker" \in o.owns
  /\ o.owns # {} => handed = {} /\ o.gen \in Gen /\ "data" \in o.owns
  /\ o.owns = {"data"} => marker.state = "none"
  /\ "marker" \in o.owns /\ marker.state # "none" => marker.gen = o.gen
  /\ o.result = "descriptor" => o.pc = "releasing" /\ o.owns = {} /\ Marks(s, "valid")

\* A marker, whole or not, names a payload that is complete, and what was handed
\* out is what is committed.
Published ==
  /\ marker.state # "none" => marker.gen \in Gen /\ Complete(marker.gen)
  /\ marker.state = "valid" => PackedFrames(marker.index) = Len(Content)
  /\ \A g \in handed : marker.state = "valid" /\ marker.gen = g

Unharmed == crashes = Crashes /\ faults = Faults

\* Without crashes and failures, whatever is not committed has an owner that will
\* remove it.
Tidy ==
  Unharmed =>
    /\ \A g \in Gen : payload[g].there =>
         \/ marker.state = "valid" /\ marker.gen = g
         \/ \E s \in Stores : "data" \in op[s].owns /\ op[s].gen = g /\ op[s].pc # "releasing"
    /\ marker.state = "partial" =>
         \E s \in Stores : "marker" \in op[s].owns /\ op[s].pc \notin {"releasing", "removeData"}
    /\ \A s \in Stores : op[s].result # "corrupt"

Inv == Typed /\ Locked /\ Owned /\ Holding /\ (\A s \in Stores : Fits(s)) /\ Published /\ Tidy

-----------------------------------------------------------------------------
(* What an operation does with its record. *)

To(s, x, g, w, r) ==
  /\ op' \in [Stores -> OpState] /\ \A t \in Stores \ {s} : op'[t] = op[t]
  /\ op'[s].pc = x /\ op'[s].gen = g /\ op'[s].owns = w /\ op'[s].result = r

LEMMA Steps ==
  /\ PCs = {"idle", "locking", "looking", "reading", "verifying", "resolving", "admitting", "streaming",
            "checking", "committed", "draining", "releasing", "createData", "writeData", "closeData",
            "createMarker", "writeMarker", "closeMarker", "removeMarker", "removeData"}
  /\ Program \cup Mutation = PCs \ {"idle", "locking"}
BY DEF PCs, Program, Mutation, Removal

LEMMA SetTo ==
  ASSUME op \in [Stores -> OpState], NEW s \in Stores, NEW o \in OpState, op' = [op EXCEPT ![s] = o]
  PROVE  To(s, o.pc, o.gen, o.owns, o.result)
BY DEF To

LEMMA MovesTo ==
  ASSUME op \in [Stores -> OpState], NEW s \in Stores, NEW x \in PCs, Moves(s, x)
  PROVE  To(s, x, op[s].gen, op[s].owns, op[s].result)
<1>1. op[s] \in OpState
  OBVIOUS
<1>2. [op[s] EXCEPT !.pc = x] \in OpState
  BY <1>1 DEF OpState
<1> QED BY <1>1, <1>2 DEF To, Moves, OpState

LEMMA AnswersTo ==
  ASSUME op \in [Stores -> OpState], NEW s \in Stores, NEW r \in Results, Answers(s, r)
  PROVE  To(s, "releasing", op[s].gen, op[s].owns, r)
<1>1. op[s] \in OpState /\ "releasing" \in PCs
  BY Steps
<1> QED BY <1>1 DEF To, Answers, OpState

LEMMA FailTo ==
  ASSUME op \in [Stores -> OpState], NEW s \in Stores, Fail(s)
  PROVE  To(s, "draining", op[s].gen, op[s].owns, "failed")
<1>1. op[s] \in OpState /\ "draining" \in PCs /\ "failed" \in Results
  BY Steps DEF Results
<1> QED BY <1>1 DEF To, Fail, OpState

-----------------------------------------------------------------------------
(* Whoever has the lock is the only one inside; the others know nothing of the files. *)

LEMMA Alone ==
  ASSUME Inv, NEW s \in Stores, op[s].pc \in Program \cup Mutation
  PROVE  /\ holder = s /\ s # NoStore
         /\ \A t \in Stores \ {s} : op[t].pc \in {"idle", "locking"} /\ op[t].owns = {} /\ op[t].result = "none"
         /\ \A m \in muts : m.by = s
<1>1. holder = s /\ s # NoStore
  BY StoreAssumption DEF Inv, Locked, Inside
<1>2. \A t \in Stores \ {s} : op[t].pc \in {"idle", "locking"}
  BY <1>1, Steps DEF Inv, Locked, Inside, Typed, OpState
<1>3. \A t \in Stores \ {s} : op[t].owns = {} /\ op[t].result = "none"
  BY <1>2 DEF Inv, Fits
<1>4. \A m \in muts : m.by = s
  BY <1>1 DEF Inv, Locked, Inside, Pending
<1> QED BY <1>1, <1>2, <1>3, <1>4

LEMMA WaitingFits ==
  ASSUME NEW t, op[t]' = op[t], op[t].pc \in {"idle", "locking"}, op[t].owns = {}, op[t].result = "none"
  PROVE  Fits(t)'
BY DEF Fits, Unmarked, Whole, Owning, Mutation, Removal

\* Without(s) pending, nothing is left in flight.
LEMMA NothingPending ==
  ASSUME Inv, NEW s \in Stores, op[s].pc \in Program \cup Mutation, op[s].pc \notin Mutation \/ ~Waiting(s)
  PROVE  muts = {}
BY Alone DEF Inv, Locked, Pending, Waiting

-----------------------------------------------------------------------------
(* A step of the operation that holds the lock, which leaves the files alone. *)

\* Who loses a file to care for has none, or has committed it.
Minds(s, x, g, w) ==
  \/ op[s].owns = {} \/ Marks(s, "valid")
  \/ /\ op[s].owns \subseteq w /\ g = op[s].gen
     /\ x \notin {"releasing", "removeData"} \/ x = op[s].pc \/ (x = "removeData" /\ w = {"data"})

LEMMA Spending ==
  ASSUME Inv
  PROVE  /\ Fault => faults' \in 0..Faults /\ ~Unharmed'
         /\ NoFault => faults' \in 0..Faults /\ (UNCHANGED crashes /\ Unharmed' => Unharmed)
<1>1. faults \in 0..Faults /\ Faults \in Nat
  BY StoreAssumption DEF Inv, Typed
<1>2. Fault => faults' \in 0..Faults /\ faults' < Faults
  BY <1>1 DEF Fault
<1>3. Fault => faults' # Faults
  BY <1>1, <1>2
<1> QED BY <1>1, <1>2, <1>3 DEF Unharmed, NoFault

LEMMA Decided ==
  ASSUME Inv, NEW s \in Stores, op[s].pc \in Program \cup Mutation,
         NEW x \in Program \cup Mutation, NEW g, NEW w, NEW r, To(s, x, g, w, r),
         UNCHANGED <<files, holder, handed>>, UNCHANGED crashes,
         faults' \in 0..Faults, Unharmed' => Unharmed,
         Fits(s)', Pending', Owned', Holding',
         streamer' \in Stores \cup {NoStore}, iter' \in {"none", "open", "closing", "closed"},
         Unharmed' => r # "corrupt" /\ Minds(s, x, g, w)
  PROVE  Inv'
<1>1. /\ holder = s /\ s # NoStore
      /\ \A t \in Stores \ {s} : op[t].pc \in {"idle", "locking"} /\ op[t].owns = {} /\ op[t].result = "none"
  BY Alone
<1>2. op \in [Stores -> OpState] /\ UNCHANGED <<marker, payload, active>> /\ holder' = s
  BY <1>1 DEF files, Inv, Typed
<1>3. /\ op' \in [Stores -> OpState] /\ \A t \in Stores \ {s} : op'[t] = op[t]
      /\ op'[s].pc = x /\ op'[s].gen = g /\ op'[s].owns = w /\ op'[s].result = r
  BY DEF To
<1>4. Typed'
  BY <1>1, <1>2, <1>3 DEF Inv, Typed
<1>5. Inside'
  BY <1>1, <1>2, <1>3, Steps DEF Inside
<1>6. \A t \in Stores : Fits(t)'
  <2>1. \A t \in Stores \ {s} : Fits(t)'
    BY <1>1, <1>3, WaitingFits
  <2> QED BY <2>1
<1>7. Published'
  BY <1>2 DEF Inv, Published, Complete, Content
<1>8. Tidy'
  <2> SUFFICES ASSUME Unharmed' PROVE
        /\ \A k \in Gen : payload[k].there =>
             \/ marker.state = "valid" /\ marker.gen = k
             \/ \E t \in Stores : "data" \in op'[t].owns /\ op'[t].gen = k /\ op'[t].pc # "releasing"
        /\ marker.state = "partial" =>
             \E t \in Stores : "marker" \in op'[t].owns /\ op'[t].pc \notin {"releasing", "removeData"}
        /\ \A t \in Stores : op'[t].result # "corrupt"
    BY <1>2 DEF Tidy
  <2>1. Tidy /\ Unharmed /\ Minds(s, x, g, w) /\ r # "corrupt"
    BY DEF Inv
  <2>2. ASSUME NEW k \in Gen, payload[k].there, ~(marker.state = "valid" /\ marker.gen = k)
        PROVE  \E t \in Stores : "data" \in op'[t].owns /\ op'[t].gen = k /\ op'[t].pc # "releasing"
    <3>1. "data" \in op[s].owns /\ op[s].gen = k /\ op[s].pc # "releasing"
      BY <1>1, <2>1, <2>2 DEF Tidy
    <3> QED BY <1>3, <2>1, <2>2, <3>1 DEF Minds, Marks
  <2>3. ASSUME marker.state = "partial"
        PROVE  \E t \in Stores : "marker" \in op'[t].owns /\ op'[t].pc \notin {"releasing", "removeData"}
    <3>1. "marker" \in op[s].owns /\ op[s].pc \notin {"releasing", "removeData"}
      BY <1>1, <2>1, <2>3 DEF Tidy
    <3> QED BY <1>3, <2>1, <2>3, <3>1 DEF Minds, Marks
  <2>4. \A t \in Stores : op'[t].result # "corrupt"
    BY <1>1, <1>3, <2>1
  <2> QED BY <2>2, <2>3, <2>4
<1> QED BY <1>4, <1>5, <1>6, <1>7, <1>8 DEF Inv, Locked

LEMMA HoldsOn ==
  ASSUME Holding, UNCHANGED <<iter, closing, step, call, permit, epoch, job, block>>
  PROVE  Holding'
BY DEF Holding, StreamHeld

\* A step that the stream does not notice.
LEMMA OwnedOn ==
  ASSUME Inv, NEW s \in Stores, op[s].pc \in Program \cup Mutation,
         NEW x, NEW g, NEW w, NEW r, To(s, x, g, w, r),
         UNCHANGED <<streamer, iter, holder>>,
         x \in Reading \/ op[s].pc \notin Reading \/ iter \notin {"open", "closing"}
  PROVE  Owned'
<1>1. holder = s /\ s # NoStore
  BY Alone
<1>2. op'[s].pc = x
  BY DEF To
<1>3. iter \in {"open", "closing"} => streamer = s
  BY <1>1 DEF Inv, Owned
<1> QED BY <1>1, <1>2, <1>3 DEF Inv, Owned

\* With nothing pending, and nothing done to the stream.
LEMMA DecidedAlone ==
  ASSUME Inv, NEW s \in Stores, op[s].pc \in Program \cup Mutation, op[s].pc \notin Mutation \/ ~Waiting(s),
         NEW x \in Program \cup Mutation, NEW g, NEW w, NEW r, To(s, x, g, w, r),
         UNCHANGED <<files, muts, holder, handed, streamer>>, UNCHANGED crashes,
         UNCHANGED <<iter, closing, step, call, permit, epoch, job, block>>,
         x \in Reading \/ op[s].pc \notin Reading \/ iter \notin {"open", "closing"},
         faults' \in 0..Faults, Unharmed' => Unharmed, Fits(s)',
         Unharmed' => r # "corrupt" /\ Minds(s, x, g, w)
  PROVE  Inv'
<1>1. muts' = {}
  BY NothingPending
<1>2. Pending'
  BY <1>1 DEF Pending
<1>3. Owned'
  BY OwnedOn
<1>4. Holding' /\ streamer' \in Stores \cup {NoStore} /\ iter' \in {"none", "open", "closing", "closed"}
  BY HoldsOn DEF Inv, Typed
<1> HIDE DEF Inv, To
<1> QED BY <1>2, <1>3, <1>4, Decided

LEMMA SameFacts ==
  ASSUME UNCHANGED files
  PROVE  /\ marker' = marker /\ payload' = payload /\ Content' = Content
         /\ \A k : Complete(k)' = Complete(k)
BY DEF files, Content, Complete

\* The operation gives up and cleans up.
LEMMA FailFits ==
  ASSUME Inv, NEW s \in Stores, To(s, "draining", op[s].gen, op[s].owns, "failed"),
         UNCHANGED <<files, handed>>
  PROVE  Fits(s)'
<1>1. marker' = marker /\ handed' = handed /\ Fits(s)
  BY SameFacts DEF Inv
<1>2. /\ op'[s].pc = "draining" /\ op'[s].gen = op[s].gen /\ op'[s].owns = op[s].owns
      /\ op'[s].result = "failed"
  BY DEF To
<1> QED BY <1>1, <1>2 DEF Fits, Unmarked, Whole, Owning, Mutation, Removal

LEMMA FailKeeps ==
  ASSUME Inv, NEW s \in Stores, op[s].pc \in Program \cup Mutation, op[s].pc \notin Mutation \/ ~Waiting(s),
         op[s].pc \notin {"releasing", "removeData"}, Fail(s),
         UNCHANGED <<files, muts, holder, handed, streamer>>, UNCHANGED crashes,
         UNCHANGED <<iter, closing, step, call, permit, epoch, job, block>>,
         NoFault \/ Fault
  PROVE  Inv'
<1>1. To(s, "draining", op[s].gen, op[s].owns, "failed")
  BY FailTo DEF Inv, Typed
<1>2. Fits(s)'
  BY <1>1, FailFits
<1>3. faults' \in 0..Faults /\ (Unharmed' => Unharmed)
  BY Spending
<1>4. Minds(s, "draining", op[s].gen, op[s].owns)
  BY DEF Minds
<1>5. "draining" \in Reading /\ "draining" \in Program \cup Mutation
  BY DEF Reading, Program
<1> QED BY <1>1, <1>2, <1>3, <1>4, <1>5, DecidedAlone

\* The operation answers before it has made a file.
LEMMA AnswerKeeps ==
  ASSUME Inv, NEW s \in Stores, op[s].pc \in Program, op[s].owns = {}, NEW r \in Results, Answers(s, r),
         iter \notin {"open", "closing"} \/ op[s].pc \notin Reading,
         UNCHANGED <<files, muts, holder, handed, streamer>>, UNCHANGED crashes,
         UNCHANGED <<iter, closing, step, call, permit, epoch, job, block>>,
         NoFault \/ Fault, r = "descriptor" => Marks(s, "valid"), r = "corrupt" => ~Unharmed
  PROVE  Inv'
<1>1. To(s, "releasing", op[s].gen, op[s].owns, r)
  BY AnswersTo DEF Inv, Typed
<1>2. Fits(s)'
  <2>1. marker' = marker
    BY SameFacts
  <2>2. op'[s].pc = "releasing" /\ op'[s].gen = op[s].gen /\ op'[s].owns = {} /\ op'[s].result = r
    BY <1>1 DEF To
  <2> QED BY <2>1, <2>2 DEF Fits, Marks, Unmarked, Whole, Owning, Mutation, Removal
<1>3. faults' \in 0..Faults /\ (Unharmed' => Unharmed)
  BY Spending
<1>4. Minds(s, "releasing", op[s].gen, op[s].owns)
  BY DEF Minds
<1>5. /\ op[s].pc \notin Mutation /\ op[s].pc \in Program \cup Mutation
      /\ "releasing" \in Program \cup Mutation
  BY DEF Program, Mutation, Removal
<1> QED BY <1>1, <1>2, <1>3, <1>4, <1>5, DecidedAlone

LEMMA LookKeeps == ASSUME Inv, NEW s \in Stores, Look(s) PROVE Inv'
<1>1. /\ op[s].pc = "looking" /\ UNCHANGED streamVars
      /\ UNCHANGED <<files, muts, holder, streamer, handed, crashes>>
  BY DEF Look, At
<1>2. op[s].pc \in Program /\ op[s].pc \notin Reading /\ op[s].owns = {} /\ op[s].pc \notin Mutation
  BY <1>1 DEF Program, Reading, Inv, Fits, Mutation, Removal
<1>3. UNCHANGED <<iter, closing, step, call, permit, epoch, job, block>>
  BY <1>1 DEF streamVars
<1>4. CASE \E r \in {"failed", "missing"} : Answers(s, r) /\ (NoFault \/ Fault)
  <2>1. "failed" \in Results /\ "missing" \in Results
    BY DEF Results
  <2> QED BY <1>1, <1>2, <1>3, <1>4, <2>1, AnswerKeeps
<1>5. CASE NoFault /\ \/ marker.state # "none" /\ Moves(s, "reading")
                      \/ marker.state = "none" /\ Moves(s, "resolving")
  <2>1. PICK x \in {"reading", "resolving"} : /\ Moves(s, x) /\ (x = "resolving" => marker.state = "none")
                                                /\ (x = "reading" => marker.state # "none")
    BY <1>5
  <2>2. x \in PCs /\ x \in Program \cup Mutation
    BY Steps
  <2>3. To(s, x, op[s].gen, op[s].owns, op[s].result)
    BY <2>1, <2>2, MovesTo DEF Inv, Typed
  <2>4. Fits(s)'
    <3>1. marker' = marker /\ op[s].result # "descriptor"
      BY <1>1, SameFacts DEF Inv, Fits
    <3>2. op'[s].pc = x /\ op'[s].gen = op[s].gen /\ op'[s].owns = {} /\ op'[s].result = op[s].result
      BY <1>2, <2>3 DEF To
    <3> QED BY <2>1, <3>1, <3>2 DEF Fits, Unmarked, Whole, Owning, Mutation, Removal
  <2>5. faults' \in 0..Faults /\ (Unharmed' => Unharmed)
    BY <1>1, <1>5, Spending
  <2>6. Unharmed => op[s].result # "corrupt"
    BY DEF Inv, Tidy
  <2>7. Minds(s, x, op[s].gen, op[s].owns)
    BY <1>2 DEF Minds
  <2> QED BY <1>1, <1>2, <1>3, <2>2, <2>3, <2>4, <2>5, <2>6, <2>7, DecidedAlone
<1> QED BY <1>4, <1>5 DEF Look

LEMMA ReadMarkerKeeps == ASSUME Inv, NEW s \in Stores, ReadMarker(s) PROVE Inv'
<1>1. /\ op[s].pc = "reading" /\ UNCHANGED streamVars
      /\ UNCHANGED <<files, muts, holder, streamer, handed, crashes>>
  BY DEF ReadMarker, At
<1>2. /\ op[s].pc \in Program /\ op[s].pc \notin Reading /\ op[s].owns = {} /\ op[s].pc \notin Mutation
      /\ marker.state # "none"
  BY <1>1 DEF Program, Reading, Inv, Fits, Mutation, Removal
<1>3. UNCHANGED <<iter, closing, step, call, permit, epoch, job, block>>
  BY <1>1 DEF streamVars
<1>4. Unharmed => Admitted
  <2> SUFFICES ASSUME Unharmed PROVE Admitted
    OBVIOUS
  <2>1. \A t \in Stores : op[t].owns = {}
    BY <1>2, Alone
  <2>2. marker.state = "valid"
    BY <1>2, <2>1 DEF Inv, Tidy, Typed
  <2> QED BY <2>2 DEF Admitted, Inv, Published, Complete
<1>5. CASE \E r \in {"failed", "present"} : Answers(s, r) /\ (NoFault \/ Fault)
  <2>1. "failed" \in Results /\ "present" \in Results
    BY DEF Results
  <2> QED BY <1>1, <1>2, <1>3, <1>5, <2>1, AnswerKeeps
<1>6. CASE ~Admitted /\ Answers(s, "corrupt") /\ NoFault
  <2>1. "corrupt" \in Results
    BY DEF Results
  <2> QED BY <1>1, <1>2, <1>3, <1>4, <1>6, <2>1, AnswerKeeps
<1>7. CASE NoFault /\ Admitted /\ op' = [op EXCEPT ![s].pc = "verifying", ![s].gen = marker.gen]
  <2>1. marker.state = "valid" /\ marker.gen \in Gen
    BY <1>7 DEF Admitted, Inv, Published
  <2>2. op \in [Stores -> OpState] /\ "verifying" \in PCs
    BY Steps DEF Inv, Typed
  <2>3. To(s, "verifying", marker.gen, op[s].owns, op[s].result)
    <3>1. op[s] \in OpState
      BY <2>2
    <3> QED BY <1>7, <2>1, <2>2, <3>1 DEF To, OpState
  <2>4. Fits(s)'
    <3>1. marker' = marker /\ op[s].result # "descriptor"
      BY <1>1, SameFacts DEF Inv, Fits
    <3>2. op'[s].pc = "verifying" /\ op'[s].gen = marker.gen /\ op'[s].owns = {} /\ op'[s].result = op[s].result
      BY <1>2, <2>3 DEF To
    <3> QED BY <2>1, <3>1, <3>2 DEF Fits, Marks, Unmarked, Whole, Owning, Mutation, Removal
  <2>5. faults' \in 0..Faults /\ (Unharmed' => Unharmed)
    BY <1>1, <1>7, Spending
  <2>6. Unharmed => op[s].result # "corrupt"
    BY DEF Inv, Tidy
  <2>7. Minds(s, "verifying", marker.gen, op[s].owns)
    BY <1>2 DEF Minds
  <2>8. "verifying" \in Program \cup Mutation /\ op[s].pc \in Program \cup Mutation
    BY <1>2, Steps
  <2> QED BY <1>1, <1>2, <1>3, <2>3, <2>4, <2>5, <2>6, <2>7, <2>8, DecidedAlone
<1> QED BY <1>5, <1>6, <1>7 DEF ReadMarker

LEMMA VerifyKeeps == ASSUME Inv, NEW s \in Stores, Verify(s) PROVE Inv'
<1>1. /\ op[s].pc = "verifying" /\ UNCHANGED streamVars
      /\ UNCHANGED <<files, muts, holder, streamer, handed, crashes>>
  BY DEF Verify, At
<1>2. /\ op[s].pc \in Program /\ op[s].pc \notin Reading /\ op[s].owns = {} /\ op[s].pc \notin Mutation
      /\ Marks(s, "valid")
  BY <1>1 DEF Program, Reading, Inv, Fits, Mutation, Removal
<1>3. UNCHANGED <<iter, closing, step, call, permit, epoch, job, block>>
  BY <1>1 DEF streamVars
<1>4. Complete(op[s].gen)
  BY <1>2 DEF Marks, Inv, Published
<1>5. \E r \in {"failed", "descriptor"} : Answers(s, r) /\ (NoFault \/ Fault)
  BY <1>4 DEF Verify
<1>6. "failed" \in Results /\ "descriptor" \in Results
  BY DEF Results
<1> QED BY <1>1, <1>2, <1>3, <1>5, <1>6, AnswerKeeps

\* What was written adds up before it is committed.
LEMMA EndOfSpansKeeps == ASSUME Inv, NEW s \in Stores, EndOfSpans(s) PROVE Inv'
<1>1. /\ op[s].pc = "streaming" /\ UNCHANGED streamVars /\ iter = "closed"
      /\ UNCHANGED <<files, muts, holder, streamer, handed, crashes, intervals, faults>>
  BY DEF EndOfSpans, At, budgets
<1>2. /\ op[s].pc \in Program \cup Mutation /\ op[s].pc \notin Mutation
      /\ "data" \in op[s].owns /\ op[s].gen \in Gen /\ marker.state = "none" /\ handed = {}
  BY <1>1, Steps DEF Inv, Fits, Mutation, Removal, Owning, Unmarked
<1>3. UNCHANGED <<iter, closing, step, call, permit, epoch, job, block>>
  BY <1>1 DEF streamVars
<1>4. CASE Fail(s)
  BY <1>1, <1>2, <1>3, <1>4, FailKeeps DEF NoFault
<1>5. CASE /\ ValidIndex(intervals, Len(payload[op[s].gen].data)) /\ Complete(op[s].gen)
           /\ Moves(s, "closeData")
  <2>1. PackedFrames(intervals) = Len(Content)
    BY <1>5 DEF ValidIndex, Complete
  <2>2. "closeData" \in PCs /\ "closeData" \in Program \cup Mutation
    BY Steps
  <2>3. To(s, "closeData", op[s].gen, op[s].owns, op[s].result)
    BY <1>5, <2>2, MovesTo DEF Inv, Typed
  <2>4. Fits(s)'
    <3>1. /\ marker' = marker /\ op[s].result # "descriptor" /\ intervals' = intervals
          /\ payload' = payload /\ Content' = Content /\ handed' = handed
      BY <1>1, SameFacts DEF Inv, Fits
    <3>2. /\ op'[s].pc = "closeData" /\ op'[s].gen = op[s].gen /\ op'[s].owns = op[s].owns
          /\ op'[s].result = op[s].result
      BY <2>3 DEF To
    <3> QED BY <1>2, <1>5, <2>1, <3>1, <3>2 DEF Fits, Complete, Marks, Unmarked, Whole, Owning, Mutation, Removal
  <2>5. faults' \in 0..Faults /\ (Unharmed' => Unharmed)
    BY <1>1, Spending DEF NoFault
  <2>6. Unharmed => op[s].result # "corrupt"
    BY DEF Inv, Tidy
  <2>7. Minds(s, "closeData", op[s].gen, op[s].owns)
    BY DEF Minds
  <2>8. "closeData" \in Reading \/ iter \notin {"open", "closing"}
    BY <1>1
  <2> QED BY <1>1, <1>2, <1>3, <2>2, <2>3, <2>4, <2>5, <2>6, <2>7, <2>8, DecidedAlone
<1> QED BY <1>4, <1>5 DEF EndOfSpans

\* An operation that moves on, with the files it owns.
LEMMA MoveKeeps ==
  ASSUME Inv, NEW s \in Stores, op[s].pc \in Program, NEW x \in Program \cup Mutation, Moves(s, x),
         UNCHANGED <<files, muts, holder, handed, streamer>>, UNCHANGED crashes,
         UNCHANGED <<iter, closing, step, call, permit, epoch, job, block>>,
         x \in Reading \/ op[s].pc \notin Reading \/ iter \notin {"open", "closing"},
         NoFault \/ Fault, Fits(s)', op[s].result = "corrupt" => ~Unharmed,
         Minds(s, x, op[s].gen, op[s].owns)
  PROVE  Inv'
<1>1. To(s, x, op[s].gen, op[s].owns, op[s].result)
  BY Steps, MovesTo DEF Inv, Typed
<1>2. faults' \in 0..Faults /\ (Unharmed' => Unharmed)
  BY Spending
<1>3. op[s].pc \in Program \cup Mutation /\ op[s].pc \notin Mutation
  BY DEF Program, Mutation, Removal
<1> QED BY <1>1, <1>2, <1>3, DecidedAlone

LEMMA NotCorrupt == ASSUME Inv, NEW s \in Stores PROVE op[s].result = "corrupt" => ~Unharmed
BY DEF Inv, Tidy

LEMMA SpanLateKeeps == ASSUME Inv, NEW s \in Stores, SpanLate(s) PROVE Inv'
<1>1. /\ op[s].pc = "streaming" /\ UNCHANGED streamVars /\ Fault /\ Fail(s)
      /\ UNCHANGED <<files, muts, holder, streamer, handed, crashes>>
  BY DEF SpanLate, At
<1>2. op[s].pc \in Program \cup Mutation /\ op[s].pc \notin Mutation
  BY <1>1, Steps DEF Mutation, Removal
<1> QED BY <1>1, <1>2, FailKeeps DEF streamVars

LEMMA TakeSpanKeeps == ASSUME Inv, NEW s \in Stores, TakeSpan(s) PROVE Inv'
<1>1. /\ op[s].pc = "streaming" /\ UNCHANGED <<iter, closing, step, call, permit, epoch, job, block>>
      /\ UNCHANGED <<files, muts, holder, streamer, handed, crashes>>
  BY DEF TakeSpan, At, response, holdings, decoder
<1>2. op[s].pc \in Program \cup Mutation /\ op[s].pc \notin Mutation /\ op[s].pc \in Program
  BY <1>1, Steps DEF Mutation, Removal, Program
<1>3. CASE Fail(s) /\ (NoFault \/ Fault)
  BY <1>1, <1>2, <1>3, FailKeeps
<1>4. CASE Moves(s, "writeData") /\ NoFault
  <2>1. To(s, "writeData", op[s].gen, op[s].owns, op[s].result)
    BY <1>4, Steps, MovesTo DEF Inv, Typed
  <2>2. Fits(s)'
    <3>1. marker' = marker /\ handed' = handed /\ Fits(s)
      BY <1>1, SameFacts DEF Inv
    <3>2. /\ op'[s].pc = "writeData" /\ op'[s].gen = op[s].gen /\ op'[s].owns = op[s].owns
          /\ op'[s].result = op[s].result
      BY <2>1 DEF To
    <3> QED BY <1>1, <3>1, <3>2 DEF Fits, Unmarked, Whole, Owning, Mutation, Removal
  <2>3. Minds(s, "writeData", op[s].gen, op[s].owns)
    BY DEF Minds
  <2>4. "writeData" \in Reading /\ "writeData" \in Program \cup Mutation
    BY Steps DEF Reading
  <2> QED BY <1>1, <1>2, <1>4, <2>2, <2>3, <2>4, NotCorrupt, MoveKeeps
<1> QED BY <1>3, <1>4 DEF TakeSpan

LEMMA RefuseKeeps == ASSUME Inv, NEW s \in Stores, Refuse(s) PROVE Inv'
<1>1. /\ op[s].pc \in Mutation \ Removal /\ ~Waiting(s) /\ UNCHANGED streamVars /\ Fail(s)
      /\ UNCHANGED <<files, muts, holder, streamer, handed, crashes>> /\ (NoFault \/ Fault)
  BY DEF Refuse
<1>2. op[s].pc \in Program \cup Mutation /\ op[s].pc \notin {"releasing", "removeData"}
  BY <1>1 DEF Mutation, Removal
<1>3. UNCHANGED <<iter, closing, step, call, permit, epoch, job, block>>
  BY <1>1 DEF streamVars
<1> QED BY <1>1, <1>2, <1>3, FailKeeps

LEMMA CheckKeeps == ASSUME Inv, NEW s \in Stores, Check(s) PROVE Inv'
<1>1. /\ op[s].pc = "checking" /\ UNCHANGED streamVars
      /\ UNCHANGED <<files, muts, holder, streamer, handed, crashes>>
  BY DEF Check, At
<1>2. /\ op[s].pc \in Program \cup Mutation /\ op[s].pc \notin Mutation /\ op[s].pc \notin Reading
      /\ Marks(s, "valid")
  BY <1>1, Steps DEF Mutation, Removal, Reading, Inv, Fits
<1>3. UNCHANGED <<iter, closing, step, call, permit, epoch, job, block>>
  BY <1>1 DEF streamVars
<1>4. CASE Fail(s) /\ (NoFault \/ Fault)
  BY <1>1, <1>2, <1>3, <1>4, FailKeeps
<1>5. CASE NoFault /\ op' = [op EXCEPT ![s].pc = "committed", ![s].owns = {}]
  <2>1. op \in [Stores -> OpState] /\ "committed" \in PCs /\ "committed" \in Program \cup Mutation
    BY Steps DEF Inv, Typed
  <2>2. To(s, "committed", op[s].gen, {}, op[s].result)
    <3>1. op[s] \in OpState
      BY <2>1
    <3> QED BY <1>5, <2>1, <3>1 DEF To, OpState
  <2>3. Fits(s)'
    <3>1. marker' = marker /\ op[s].result # "descriptor"
      BY <1>1, SameFacts DEF Inv, Fits
    <3>2. op'[s].pc = "committed" /\ op'[s].gen = op[s].gen /\ op'[s].owns = {} /\ op'[s].result = op[s].result
      BY <2>2 DEF To
    <3> QED BY <1>2, <3>1, <3>2 DEF Fits, Marks, Unmarked, Whole, Owning, Mutation, Removal
  <2>4. faults' \in 0..Faults /\ (Unharmed' => Unharmed)
    BY <1>1, <1>5, Spending
  <2>5. Minds(s, "committed", op[s].gen, {})
    BY <1>2 DEF Minds
  <2>6. Unharmed => op[s].result # "corrupt"
    BY NotCorrupt
  <2> QED BY <1>1, <1>2, <1>3, <2>1, <2>2, <2>3, <2>4, <2>5, <2>6, DecidedAlone
<1> QED BY <1>4, <1>5 DEF Check

LEMMA FinishKeeps == ASSUME Inv, NEW s \in Stores, Finish(s) PROVE Inv'
<1>1. /\ op[s].pc = "committed" /\ UNCHANGED streamVars
      /\ UNCHANGED <<files, muts, holder, streamer, handed, crashes, faults>>
      /\ \E r \in {"failed", "descriptor"} : Answers(s, r)
  BY DEF Finish, At, budgets
<1>2. op[s].pc \in Program /\ op[s].pc \notin Reading /\ op[s].owns = {} /\ Marks(s, "valid")
  BY <1>1 DEF Program, Reading, Inv, Fits
<1>3. UNCHANGED <<iter, closing, step, call, permit, epoch, job, block>> /\ NoFault
  BY <1>1 DEF streamVars, NoFault
<1>4. "failed" \in Results /\ "descriptor" \in Results
  BY DEF Results
<1> QED BY <1>1, <1>2, <1>3, <1>4, AnswerKeeps

\* The marker is removed before the payload.
LEMMA CleanUpKeeps == ASSUME Inv, NEW s \in Stores, CleanUp(s) PROVE Inv'
<1>1. /\ op[s].pc = "draining" /\ ~Streams(s) /\ Moves(s, After(s)) /\ UNCHANGED streamVars
      /\ UNCHANGED <<files, muts, holder, streamer, handed, crashes, faults>>
  BY DEF CleanUp, At, budgets
<1>2. op[s].pc \in Program /\ op[s].pc \in Program \cup Mutation
  BY <1>1 DEF Program
<1>3. UNCHANGED <<iter, closing, step, call, permit, epoch, job, block>> /\ NoFault
  BY <1>1 DEF streamVars, NoFault
<1>4. iter \notin {"open", "closing"}
  BY <1>1, <1>2, Alone DEF Streams, Inv, Owned
<1> DEFINE x == After(s)
<1>5. \/ x = "removeMarker" /\ "marker" \in op[s].owns
      \/ x = "removeData" /\ "marker" \notin op[s].owns /\ "data" \in op[s].owns
      \/ x = "releasing" /\ "marker" \notin op[s].owns /\ "data" \notin op[s].owns
  BY <1>1 DEF After, At
<1> HIDE DEF x
<1>6. x \in PCs /\ x \in Program \cup Mutation
  BY <1>5, Steps
<1>7. op[s].owns \subseteq {"data", "marker"}
  BY DEF Inv, Typed, OpState
<1>8. To(s, x, op[s].gen, op[s].owns, op[s].result)
  BY <1>1, <1>6, MovesTo DEF Inv, Typed, x
<1>9. Fits(s)'
  <2>1. marker' = marker /\ handed' = handed /\ Fits(s)
    BY <1>1, SameFacts DEF Inv
  <2>2. op'[s].pc = x /\ op'[s].gen = op[s].gen /\ op'[s].owns = op[s].owns /\ op'[s].result = op[s].result
    BY <1>8 DEF To
  <2>3. "marker" \notin op[s].owns /\ "data" \in op[s].owns => op[s].owns = {"data"}
    BY <1>7
  <2>4. op[s].owns # {} => "data" \in op[s].owns
    BY <2>1 DEF Fits
  <2>5. op[s].result # "descriptor"
    BY <1>1, <2>1 DEF Fits
  <2> QED BY <1>5, <2>1, <2>2, <2>3, <2>4, <2>5 DEF Fits, Unmarked, Whole, Owning, Mutation, Removal
<1>10. Minds(s, x, op[s].gen, op[s].owns)
  BY <1>5, <1>7 DEF Minds
<1>11. Moves(s, x)
  BY <1>1 DEF x
<1> QED BY <1>1, <1>2, <1>3, <1>4, <1>6, <1>9, <1>10, <1>11, NotCorrupt, MoveKeeps

\* The resolver's stream starts with the lock, and with nothing in its hands.
LEMMA ResolveSourceKeeps == ASSUME Inv, NEW s \in Stores, ResolveSource(s) PROVE Inv'
<1>1. /\ op[s].pc = "resolving" /\ UNCHANGED <<files, muts, holder, handed, crashes, faults>>
  BY DEF ResolveSource, At, budgets
<1>2. /\ op[s].pc \in Program \cup Mutation /\ op[s].pc \notin Mutation /\ op[s].owns = {}
      /\ marker.state = "none" /\ op[s].result # "descriptor"
  BY <1>1, Steps DEF Mutation, Removal, Inv, Fits, Unmarked
<1>3. CASE Fail(s) /\ UNCHANGED <<streamVars, streamer>>
  <2>1. UNCHANGED <<iter, closing, step, call, permit, epoch, job, block>> /\ UNCHANGED streamer
    BY <1>3 DEF streamVars
  <2> QED BY <1>1, <1>2, <1>3, <2>1, FailKeeps DEF NoFault
<1>4. CASE Moves(s, "admitting") /\ Resolve(Source) /\ streamer' = s
  <2>1. "admitting" \in PCs /\ "admitting" \in Program \cup Mutation /\ "admitting" \in Reading
    BY Steps DEF Reading
  <2>2. To(s, "admitting", op[s].gen, op[s].owns, op[s].result)
    BY <1>4, <2>1, MovesTo DEF Inv, Typed
  <2>3. op'[s].pc = "admitting" /\ op'[s].gen = op[s].gen /\ op'[s].owns = {} /\ op'[s].result = op[s].result
    BY <1>2, <2>2 DEF To
  <2>4. marker' = marker
    BY <1>1, SameFacts
  <2>5. Fits(s)'
    BY <1>2, <2>3, <2>4 DEF Fits, Unmarked, Whole, Owning, Mutation, Removal
  <2>6. Pending'
    BY <1>1, <1>2, NothingPending DEF Pending
  <2>7. holder' = s /\ s # NoStore
    BY <1>1, <1>2, Alone
  <2>8. Owned'
    BY <1>4, <2>1, <2>3, <2>7 DEF Owned
  <2>9. Holding' /\ iter' = "open"
    BY <1>4 DEF Resolve, Holding, StreamHeld
  <2>10. Minds(s, "admitting", op[s].gen, op[s].owns)
    BY <1>2 DEF Minds
  <2>11. faults' \in 0..Faults /\ (Unharmed' => Unharmed)
    BY <1>1, Spending DEF NoFault
  <2> QED BY <1>1, <1>2, <1>4, <2>1, <2>2, <2>5, <2>6, <2>8, <2>9, <2>10, <2>11, NotCorrupt, Decided
<1> QED BY <1>3, <1>4 DEF ResolveSource

LEMMA LeastOf == ASSUME NEW S \in SUBSET Nat, S # {} PROVE Min(S) \in S
BY LeastNumber DEF Min

\* A payload generation has a name that no file has.
LEMMA NewGenerationKeeps == ASSUME Inv, NEW s \in Stores, NewGeneration(s) PROVE Inv'
<1> DEFINE fresh == {g \in Gen : ~payload[g].there}
<1>1. /\ op[s].pc = "admitting" /\ UNCHANGED streamVars
      /\ UNCHANGED <<files, muts, holder, streamer, handed, crashes>>
  BY DEF NewGeneration, At
<1>2. /\ op[s].pc \in Program \cup Mutation /\ op[s].pc \notin Mutation /\ op[s].owns = {}
      /\ marker.state = "none" /\ op[s].result # "descriptor"
  BY <1>1, Steps DEF Mutation, Removal, Inv, Fits, Unmarked
<1>3. UNCHANGED <<iter, closing, step, call, permit, epoch, job, block>>
  BY <1>1 DEF streamVars
<1>4. CASE Fail(s) /\ (NoFault \/ Fault)
  BY <1>1, <1>2, <1>3, <1>4, FailKeeps
<1>5. CASE NoFault /\ fresh # {} /\ op' = [op EXCEPT ![s].pc = "createData", ![s].gen = Min(fresh)]
  <2>1. /\ op \in [Stores -> OpState] /\ "createData" \in PCs /\ "createData" \in Program \cup Mutation
        /\ "createData" \in Reading
    BY Steps DEF Inv, Typed, Reading
  <2>2. Min(fresh) \in Gen
    <3>1. fresh \subseteq Nat /\ fresh \subseteq Gen
      BY DEF Gen
    <3> HIDE DEF fresh
    <3> QED BY <1>5, <3>1, LeastOf
  <2> HIDE DEF fresh
  <2>3. To(s, "createData", Min(fresh), op[s].owns, op[s].result)
    <3>1. op[s] \in OpState
      BY <2>1
    <3> QED BY <1>5, <2>1, <2>2, <3>1 DEF To, OpState
  <2>4. Fits(s)'
    <3>1. marker' = marker
      BY <1>1, SameFacts
    <3>2. /\ op'[s].pc = "createData" /\ op'[s].gen \in Gen /\ op'[s].owns = {}
          /\ op'[s].result = op[s].result
      BY <1>2, <2>2, <2>3 DEF To
    <3> QED BY <1>2, <3>1, <3>2 DEF Fits, Unmarked, Whole, Owning, Mutation, Removal
  <2>5. Minds(s, "createData", Min(fresh), op[s].owns)
    BY <1>2 DEF Minds
  <2>6. faults' \in 0..Faults /\ (Unharmed' => Unharmed)
    BY <1>1, <1>5, Spending
  <2> QED BY <1>1, <1>2, <1>3, <2>1, <2>3, <2>4, <2>5, <2>6, NotCorrupt, DecidedAlone
<1> QED BY <1>4, <1>5 DEF NewGeneration

\* A file is owned before its creation is asked for.
LEMMA BeginKeeps == ASSUME Inv, NEW s \in Stores, Begin(s) PROVE Inv'
<1> DEFINE m == [by |-> s, op |-> op[s].pc, gen |-> op[s].gen]
           w == OwnsAt(s)
<1>1. /\ op[s].pc \in Mutation /\ ~Waiting(s) /\ muts' = muts \cup {m}
      /\ op' = [op EXCEPT ![s].owns = w]
      /\ UNCHANGED streamVars /\ UNCHANGED <<files, holder, streamer, handed, crashes, faults>>
      /\ UNCHANGED intervals
  BY DEF Begin, budgets
<1>2. op \in [Stores -> OpState] /\ op[s] \in OpState /\ op[s].pc \in Program \cup Mutation
  BY <1>1 DEF Inv, Typed
<1>3. muts' = {m}
  BY <1>1, <1>2, NothingPending
<1>4. /\ w \in SUBSET {"data", "marker"} /\ op[s].owns \subseteq w
      /\ w = op[s].owns \cup (CASE op[s].pc = "createData" -> {"data"}
                                [] op[s].pc = "createMarker" -> {"marker"} [] OTHER -> {})
  BY <1>2 DEF OwnsAt, At, OpState
<1> HIDE DEF w
<1>5. To(s, op[s].pc, op[s].gen, w, op[s].result)
  BY <1>1, <1>2, <1>4 DEF To, OpState
<1>6. /\ op'[s].pc = op[s].pc /\ op'[s].gen = op[s].gen /\ op'[s].owns = w
      /\ op'[s].result = op[s].result
  BY <1>5 DEF To
<1>7. marker' = marker /\ payload' = payload /\ Content' = Content /\ handed' = handed /\ intervals' = intervals
  BY <1>1, SameFacts
<1>8. Fits(s)'
  <2>1. Fits(s) /\ (handed # {} => marker.state # "none")
    BY DEF Inv, Published
  <2>2. op[s].pc \in {"createData", "createMarker"} => handed = {}
    BY <2>1 DEF Fits, Unmarked
  <2>3. op[s].pc = "createMarker" => "data" \in op[s].owns /\ marker.state = "none"
    BY <2>1 DEF Fits, Owning, Unmarked
  <2>4. op[s].pc = "createData" => marker.state = "none" /\ "data" \in w
    BY <1>4, <2>1 DEF Fits, Unmarked
  <2>5. op[s].pc \notin {"createData", "createMarker"} => w = op[s].owns
    BY <1>4
  <2>6. op[s].gen \in Gen
    BY <1>1, <2>1 DEF Fits
  <2>7. op[s].owns # {} => "data" \in op[s].owns
    BY <2>1 DEF Fits
  <2>8. w # {} => handed = {} /\ "data" \in w
    BY <1>4, <2>1, <2>2, <2>3, <2>4, <2>5 DEF Fits
  <2>9. w = {"data"} => marker.state = "none"
    BY <1>4, <2>1, <2>3, <2>4, <2>5 DEF Fits
  <2>10. "marker" \in w /\ marker.state # "none" => marker.gen = op[s].gen
    BY <1>4, <2>1, <2>3, <2>4, <2>5 DEF Fits
  <2> QED BY <1>1, <1>4, <1>6, <1>7, <2>1, <2>6, <2>8, <2>9, <2>10
       DEF Fits, Complete, Marks, Unmarked, Whole, Owning, Mutation, Removal
<1>9. Pending'
  <2>1. m \in [by : Stores, op : Mutation, gen : {0} \cup Gen] /\ m.op = op'[s].pc /\ m.gen = op'[s].gen /\ m.by = s
    BY <1>1, <1>2, <1>6 DEF OpState
  <2>2. OwnsAt(s)' = op'[s].owns
    BY <1>4, <1>6 DEF OwnsAt, At
  <2> HIDE DEF m
  <2> QED BY <1>3, <2>1, <2>2 DEF Pending
<1>10. UNCHANGED <<iter, closing, step, call, permit, epoch, job, block>>
  BY <1>1 DEF streamVars
<1>11. Owned'
  <2>1. op[s].pc \in Reading \/ op[s].pc \notin Reading \/ iter \notin {"open", "closing"}
    OBVIOUS
  <2> QED BY <1>1, <1>2, <1>5, <1>10, OwnedOn
<1>12. Holding'
  BY <1>10, HoldsOn DEF Inv
<1>13. Minds(s, op[s].pc, op[s].gen, w)
  BY <1>4 DEF Minds
<1>14. faults' \in 0..Faults /\ (Unharmed' => Unharmed)
  BY <1>1, Spending DEF NoFault
<1>15. streamer' \in Stores \cup {NoStore} /\ iter' \in {"none", "open", "closing", "closed"}
  BY <1>1, <1>10 DEF Inv, Typed
<1> QED BY <1>1, <1>2, <1>5, <1>8, <1>9, <1>11, <1>12, <1>13, <1>14, <1>15, NotCorrupt, Decided

-----------------------------------------------------------------------------
(* Steps that do not decide anything: the stream's, and those outside the lock. *)

LEMMA SameFits ==
  ASSUME NEW t, Fits(t), op'[t] = op[t], UNCHANGED <<files, intervals, handed>>
  PROVE  Fits(t)'
<1>1. /\ marker' = marker /\ payload' = payload /\ Content' = Content
      /\ intervals' = intervals /\ handed' = handed
  BY SameFacts
<1> QED BY <1>1 DEF Fits, Complete, Marks

LEMMA SamePublished == ASSUME Published, UNCHANGED <<files, handed>> PROVE Published'
<1>1. marker' = marker /\ payload' = payload /\ Content' = Content /\ handed' = handed
  BY SameFacts
<1> QED BY <1>1 DEF Published, Complete

LEMMA StreamOnly ==
  ASSUME Inv, UNCHANGED <<files, muts, holder, op, streamer, intervals, handed, faults, crashes>>,
         Holding', iter' \in {"none", "open", "closing", "closed"},
         iter' \in {"open", "closing"} => iter \in {"open", "closing"}
  PROVE  Inv'
<1>1. marker' = marker /\ payload' = payload
  BY SameFacts
<1>2. \A s \in Stores : Fits(s)'
  BY SameFits DEF Inv
<1>3. Published'
  BY SamePublished DEF Inv
<1>4. Tidy'
  BY <1>1 DEF Inv, Tidy, Unharmed
<1>5. Typed'
  BY <1>1 DEF Inv, Typed
<1>6. Locked'
  BY DEF Inv, Locked, Inside, Pending, OwnsAt, At
<1>7. Owned'
  BY DEF Inv, Owned
<1> QED BY <1>2, <1>3, <1>4, <1>5, <1>6, <1>7 DEF Inv

\* The stream's permit, epoch, job and block are given back before it is closed.
LEMMA StreamKeeps == ASSUME Inv, Stream PROVE Inv'
<1>1. Holding /\ iter \in {"none", "open", "closing", "closed"}
  BY DEF Inv, Typed
<1>2. /\ Holding' /\ iter' \in {"none", "open", "closing", "closed"}
      /\ iter' \in {"open", "closing"} => iter \in {"open", "closing"}
  <2>1. CASE PullFails \/ Admit
    BY <1>1, <2>1 DEF PullFails, Admit, Running, Ended, Holding, StreamHeld, response, holdings, decoder
  <2>2. CASE Settles
    BY <1>1, <2>2 DEF Settles, Continue, Running, Ended, Holding, StreamHeld, holdings
  <2>3. CASE EmitSpan \/ StartChunk \/ JobReads
    BY <1>1, <2>3 DEF EmitSpan, StartChunk, JobReads, Running, Holding, StreamHeld, response, holdings, decoder
  <2>4. CASE JobResolves \/ TakeBlock \/ ChunkEnds \/ AssertEof
    BY <1>1, <2>4 DEF JobResolves, TakeBlock, ChunkEnds, AssertEof, Running, Holding, StreamHeld, response,
                      holdings, decoder
  <2>5. CASE CloseDecoder \/ CloseResponse \/ CloseEpoch
    BY <1>1, <2>5 DEF CloseDecoder, CloseResponse, CloseEpoch, Forget, Holding, StreamHeld, response,
                      holdings, decoder
  <2> QED BY <2>1, <2>2, <2>3, <2>4, <2>5 DEF Stream, StreamSteps
<1> QED BY <1>2, StreamOnly DEF Stream, budgets

LEMMA PullKeeps ==
  ASSUME Inv, NEW s \in Stores, PullSpan(s) \/ AbortSource(s) \/ ReturnSource(s) \/ Abort(s)
  PROVE  Inv'
<1>1. Holding /\ iter \in {"none", "open", "closing", "closed"}
  BY DEF Inv, Typed
<1>2. UNCHANGED <<files, muts, holder, op, streamer, intervals, handed, faults, crashes>>
  BY DEF PullSpan, AbortSource, ReturnSource, Abort, budgets
<1>3. CASE PullSpan(s)
  <2>1. UNCHANGED <<iter, closing, step, call, permit, epoch, job, block>>
    BY <1>3 DEF PullSpan, Pull, response, holdings
  <2> QED BY <1>1, <1>2, <2>1, HoldsOn, StreamOnly
<1>4. CASE AbortSource(s) \/ Abort(s)
  <2>1. UNCHANGED <<iter, closing, step, call, permit, epoch, job, block>>
    BY <1>4 DEF AbortSource, Abort, response, holdings, decoder
  <2> QED BY <1>1, <1>2, <2>1, HoldsOn, StreamOnly
<1>5. CASE ReturnSource(s)
  <2>1. /\ iter = "open" /\ iter' = "closing" /\ closing' = "decoder"
        /\ UNCHANGED <<step, call, permit, epoch, job, block>>
    BY <1>5 DEF ReturnSource, Return, response, holdings, decoder
  <2>2. Holding'
    BY <1>1, <2>1 DEF Holding, StreamHeld
  <2> QED BY <1>1, <1>2, <2>1, <2>2, StreamOnly
<1> QED BY <1>3, <1>4, <1>5

LEMMA IdleState == Idle \in OpState /\ Idle.pc = "idle" /\ Idle.owns = {} /\ Idle.result = "none" /\ Idle.gen = 0
BY Steps DEF Idle, OpState, Results

\* A store that is not inside changes its mind, whoever has the lock.
LEMMA Outside ==
  ASSUME Inv, NEW s \in Stores, op[s].pc \in {"idle", "locking"},
         NEW x \in {"idle", "locking"}, To(s, x, 0, {}, "none"),
         UNCHANGED streamVars, UNCHANGED <<files, muts, holder, streamer, intervals, handed>>,
         faults' \in 0..Faults, crashes' \in 0..Crashes, Unharmed' => Unharmed
  PROVE  Inv'
<1>1. /\ op[s].pc \in {"idle", "locking"}
      /\ UNCHANGED streamVars /\ UNCHANGED <<files, muts, holder, streamer, intervals, handed>>
      /\ faults' \in 0..Faults /\ crashes' \in 0..Crashes
  OBVIOUS
<1>3. To(s, x, 0, {}, "none")
  OBVIOUS
<1>4. /\ op' \in [Stores -> OpState] /\ \A t \in Stores \ {s} : op'[t] = op[t]
      /\ op'[s].pc = x /\ op'[s].gen = 0 /\ op'[s].owns = {} /\ op'[s].result = "none"
  BY <1>3 DEF To
<1>5. holder # s /\ op[s].owns = {}
  BY <1>1, Steps DEF Inv, Locked, Inside, Fits
<1>6. UNCHANGED <<iter, closing, step, call, permit, epoch, job, block>> /\ marker' = marker /\ payload' = payload
  BY <1>1, SameFacts DEF streamVars
<1>7. Typed'
  BY <1>1, <1>4, <1>6 DEF Inv, Typed
<1>8. Inside'
  BY <1>1, <1>4, <1>5, Steps DEF Inv, Locked, Inside
<1>9. Pending'
  <2> SUFFICES ASSUME NEW m \in muts
               PROVE  /\ m \in [by : Stores, op : Mutation, gen : {0} \cup Gen]
                      /\ m.op = op'[m.by].pc /\ m.gen = op'[m.by].gen /\ OwnsAt(m.by)' = op'[m.by].owns
    BY <1>1 DEF Pending
  <2>1. /\ m \in [by : Stores, op : Mutation, gen : {0} \cup Gen] /\ m.by \in Stores /\ m.op \in Mutation
        /\ m.op = op[m.by].pc /\ m.gen = op[m.by].gen /\ OwnsAt(m.by) = op[m.by].owns
    BY DEF Inv, Locked, Pending
  <2>2. m.by # s
    BY <1>1, <2>1 DEF Mutation, Removal
  <2>3. op'[m.by] = op[m.by]
    BY <1>4, <2>1, <2>2
  <2> QED BY <2>1, <2>3 DEF OwnsAt, At
<1>10. Owned'
  <2>1. streamer # NoStore => streamer \in Stores \ {s}
    BY <1>5 DEF Inv, Owned, Typed
  <2> QED BY <1>1, <1>4, <1>6, <2>1 DEF Inv, Owned
<1>11. Holding'
  BY <1>6, HoldsOn DEF Inv
<1>12. \A t \in Stores : Fits(t)'
  <2>1. \A t \in Stores \ {s} : Fits(t)'
    BY <1>1, <1>4, SameFits DEF Inv
  <2>2. Fits(s)'
    BY <1>4 DEF Fits, Unmarked, Whole, Owning, Mutation, Removal
  <2> QED BY <2>1, <2>2
<1>13. Published'
  BY <1>1, SamePublished DEF Inv
<1>14. Tidy'
  BY <1>1, <1>4, <1>5, <1>6 DEF Inv, Tidy
<1> QED BY <1>7, <1>8, <1>9, <1>10, <1>11, <1>12, <1>13, <1>14 DEF Inv, Locked

LEMMA OutsideKeeps ==
  ASSUME Inv, NEW s \in Stores, Start(s) \/ Withdraw(s)
  PROVE  Inv'
<1>1. /\ op[s].pc \in {"idle", "locking"}
      /\ UNCHANGED streamVars /\ UNCHANGED <<files, muts, holder, streamer, intervals, handed>>
      /\ UNCHANGED <<faults, crashes>>
  BY DEF Start, Withdraw, At, budgets
<1>2. op \in [Stores -> OpState] /\ "locking" \in PCs
  BY Steps DEF Inv, Typed
<1>3. PICK x \in {"idle", "locking"} : To(s, x, 0, {}, "none")
  <2>1. CASE Start(s)
    <3>1. PICK kind \in {"open", "install", "inspect"} :
            op' = [op EXCEPT ![s] = [Idle EXCEPT !.kind = kind, !.pc = "locking"]]
      BY <2>1 DEF Start
    <3> DEFINE o == [Idle EXCEPT !.kind = kind, !.pc = "locking"]
    <3>2. o \in OpState /\ o.pc = "locking" /\ o.gen = 0 /\ o.owns = {} /\ o.result = "none"
      BY <1>2, IdleState DEF OpState
    <3> HIDE DEF o
    <3>3. To(s, "locking", 0, {}, "none")
      BY <1>2, <3>1, <3>2 DEF To, o
    <3> QED BY <3>3
  <2>2. CASE Withdraw(s)
    <3>1. op' = [op EXCEPT ![s] = Idle]
      BY <2>2 DEF Withdraw
    <3>2. To(s, "idle", 0, {}, "none")
      BY <1>2, <3>1, IdleState DEF To
    <3> QED BY <3>2
  <2> QED BY <2>1, <2>2
<1>4. faults' \in 0..Faults /\ crashes' \in 0..Crashes /\ (Unharmed' => Unharmed)
  BY <1>1 DEF Inv, Typed, Unharmed
<1> HIDE DEF Inv, To, Start, Withdraw
<1> QED BY <1>1, <1>3, <1>4, Outside

\* The lock is granted when nobody is inside, so nothing is pending or streamed.
LEMMA GrantKeeps == ASSUME Inv, NEW s \in Stores, Grant(s) PROVE Inv'
<1>1. /\ op[s].pc = "locking" /\ holder = NoStore /\ holder' = s /\ s # NoStore
      /\ UNCHANGED <<streamVars, files, muts, streamer, intervals, handed, faults, crashes>>
  BY StoreAssumption DEF Grant, At, budgets
<1>2. /\ op \in [Stores -> OpState] /\ "looking" \in PCs /\ "failed" \in Results
      /\ op[s].owns = {} /\ op[s].result = "none"
  BY <1>1, Steps DEF Inv, Typed, Fits, Results
<1>3. PICK x \in {"looking", "releasing"}, r \in {"none", "failed"} : To(s, x, op[s].gen, {}, r)
  BY <1>2, MovesTo, AnswersTo DEF Grant
<1>4. /\ op' \in [Stores -> OpState] /\ \A t \in Stores \ {s} : op'[t] = op[t]
      /\ op'[s].pc = x /\ op'[s].gen = op[s].gen /\ op'[s].owns = {} /\ op'[s].result = r
  BY <1>3 DEF To
<1>5. /\ \A t \in Stores : op[t].pc \in {"idle", "locking"}
      /\ NoStore \notin Stores /\ muts = {} /\ streamer = NoStore /\ iter \notin {"open", "closing"}
  BY <1>1, Steps, StoreAssumption DEF Inv, Locked, Inside, Pending, Owned, Typed, OpState
<1>6. UNCHANGED <<iter, closing, step, call, permit, epoch, job, block>> /\ marker' = marker /\ payload' = payload
  BY <1>1, SameFacts DEF streamVars
<1>7. Typed'
  BY <1>1, <1>4, <1>6 DEF Inv, Typed
<1>8. Inside'
  BY <1>1, <1>4, <1>5, Steps DEF Inside
<1>9. Pending' /\ Owned'
  BY <1>1, <1>5, <1>6 DEF Pending, Owned
<1>10. Holding'
  BY <1>6, HoldsOn DEF Inv
<1>11. \A t \in Stores : Fits(t)'
  <2>1. \A t \in Stores \ {s} : Fits(t)'
    BY <1>1, <1>4, SameFits DEF Inv
  <2>2. Fits(s)'
    BY <1>4 DEF Fits, Unmarked, Whole, Owning, Mutation, Removal
  <2> QED BY <2>1, <2>2
<1>12. Published'
  BY <1>1, SamePublished DEF Inv
<1>13. Tidy'
  <2>1. \A t \in Stores : op'[t].owns = op[t].owns /\ op[t].owns = {}
    BY <1>2, <1>4, <1>5 DEF Inv, Fits
  <2>2. \A t \in Stores : op'[t].result # "corrupt" \/ op'[t].result = op[t].result
    BY <1>4
  <2> QED BY <1>1, <1>6, <2>1, <2>2 DEF Inv, Tidy, Unharmed
<1> QED BY <1>7, <1>8, <1>9, <1>10, <1>11, <1>12, <1>13 DEF Inv, Locked

\* A descriptor is handed out for what is committed, and the lock goes back when
\* no stream is open.
LEMMA ReleaseKeeps == ASSUME Inv, NEW s \in Stores, Release(s) PROVE Inv'
<1>1. /\ op[s].pc = "releasing" /\ holder' = NoStore /\ op' = [op EXCEPT ![s] = Idle]
      /\ handed' = (IF op[s].result = "descriptor" THEN handed \cup {op[s].gen} ELSE handed)
      /\ streamer' = NoStore /\ iter' = "none"
      /\ UNCHANGED <<closing, step, call, permit, epoch, job, block>>
      /\ UNCHANGED <<files, muts, faults, crashes>>
  BY DEF Release, At, response, holdings, decoder, budgets
<1>2. op[s].pc \in Program \cup Mutation /\ op[s].pc \notin Mutation /\ op[s].pc \notin Reading
  BY <1>1, Steps DEF Mutation, Removal, Reading
<1>3. /\ holder = s /\ muts = {} /\ NoStore \notin Stores
      /\ \A t \in Stores \ {s} : op[t].pc \in {"idle", "locking"} /\ op[t].owns = {} /\ op[t].result = "none"
  BY <1>2, Alone, NothingPending, StoreAssumption
<1>4. iter \in {"none", "closed"}
  BY <1>2, <1>3 DEF Inv, Owned, Typed
<1>5. marker' = marker /\ payload' = payload
  BY <1>1, SameFacts
<1>6. op \in [Stores -> OpState] /\ op' \in [Stores -> OpState] /\ op'[s] = Idle /\ \A t \in Stores \ {s} : op'[t] = op[t]
  BY <1>1, IdleState DEF Inv, Typed
<1>7. \A t \in Stores : op'[t].pc \in {"idle", "locking"} /\ op'[t].owns = {} /\ op'[t].result = "none"
  BY <1>3, <1>6, IdleState
<1>8. Typed'
  BY <1>1, <1>5, <1>6 DEF Inv, Typed
<1>9. Inside'
  BY <1>1, <1>3, <1>7, Steps DEF Inside
<1>10. Pending' /\ Owned'
  BY <1>1, <1>3 DEF Pending, Owned
<1>11. Holding'
  BY <1>1, <1>4 DEF Inv, Holding, StreamHeld
<1>12. \A t \in Stores : Fits(t)'
  BY <1>7 DEF Fits, Unmarked, Whole, Owning, Mutation, Removal
<1>13. Published'
  <2>1. op[s].result = "descriptor" => Marks(s, "valid")
    BY DEF Inv, Fits
  <2>2. \A g \in handed' : marker.state = "valid" /\ marker.gen = g
    BY <1>1, <2>1 DEF Inv, Published, Marks
  <2>3. Content' = Content
    BY <1>1, SameFacts
  <2> QED BY <1>5, <2>2, <2>3 DEF Inv, Published, Complete
<1>14. Tidy'
  <2>1. ASSUME Unharmed', NEW g \in Gen, payload[g].there PROVE marker.state = "valid" /\ marker.gen = g
    <3>1. Unharmed
      BY <1>1, <2>1 DEF Unharmed
    <3> QED BY <1>1, <1>3, <2>1, <3>1 DEF Inv, Tidy
  <2>2. Unharmed' => marker.state # "partial"
    BY <1>1, <1>3 DEF Inv, Tidy, Unharmed
  <2> QED BY <1>5, <1>7, <2>1, <2>2 DEF Tidy
<1> QED BY <1>8, <1>9, <1>10, <1>11, <1>12, <1>13, <1>14 DEF Inv, Locked

-----------------------------------------------------------------------------
(* Mutations that take effect. *)

\* The effect of a mutation on the files, by its kind.
Effect(m) ==
  /\ marker' = marker \/ m.op \in {"createMarker", "writeMarker", "removeMarker"}
  /\ m.op = "createMarker" => marker'.state = "partial" /\ marker'.gen = m.gen
  /\ m.op = "writeMarker" =>
       marker'.state = "valid" /\ marker'.gen = m.gen /\ marker'.index = intervals
  /\ m.op = "removeMarker" => marker'.state = "none" /\ marker'.gen = 0
  /\ payload' = payload \/ m.op \in {"createData", "writeData", "removeData"}
  /\ m.op = "createData" => payload'[m.gen].there
  /\ m.op = "removeData" => ~payload'[m.gen].there
  /\ DOMAIN payload' = Gen /\ \A g \in Gen : DOMAIN payload'[g] = {"there", "data"}
  /\ \A g \in Gen : g # m.gen => payload'[g] = payload[g]
  /\ marker'.state \in {"none", "partial", "valid"} /\ Content' = Content

LEMMA PendingFacts ==
  ASSUME Inv, NEW m \in muts
  PROVE  /\ m.by \in Stores /\ m.op \in Mutation /\ m.op = op[m.by].pc /\ m.gen = op[m.by].gen /\ m.gen \in Gen
         /\ OwnsAt(m.by) = op[m.by].owns /\ Fits(m.by) /\ op[m.by].pc \in Program \cup Mutation
         /\ muts = {m}
<1>1. /\ m \in [by : Stores, op : Mutation, gen : {0} \cup Gen]
      /\ m.by \in Stores /\ m.op \in Mutation /\ m.op = op[m.by].pc /\ m.gen = op[m.by].gen
      /\ OwnsAt(m.by) = op[m.by].owns /\ Fits(m.by)
  BY DEF Inv, Locked, Pending
<1>2. m.gen \in Gen
  BY <1>1 DEF Fits
<1>3. op[m.by].pc \in Program \cup Mutation
  BY <1>1
<1>4. ASSUME NEW n \in muts PROVE n = m
  <2>1. n.by = m.by
    BY <1>1, <1>3, Alone
  <2>2. /\ n \in [by : Stores, op : Mutation, gen : {0} \cup Gen] /\ n.op = op[n.by].pc
        /\ n.gen = op[n.by].gen
    BY DEF Inv, Locked, Pending
  <2> QED BY <1>1, <2>1, <2>2
<1> QED BY <1>1, <1>2, <1>3, <1>4

LEMMA Effects ==
  ASSUME Inv, NEW m \in muts, NEW good \in BOOLEAN, AfterMutation(m, good)
  PROVE  Effect(m)
<1>1. m.op \in Mutation /\ m.gen \in Gen
  BY PendingFacts
<1>2. active' = active /\ Content' = Content
  BY DEF AfterMutation, Content
<1>3. DOMAIN payload = Gen /\ (\A g \in Gen : DOMAIN payload[g] = {"there", "data"}) /\ marker.state \in {"none", "partial", "valid"}
  BY DEF Inv, Typed
<1>4. marker' = (CASE m.op = "createMarker" -> [state |-> "partial", gen |-> m.gen, index |-> <<>>]
                   [] m.op = "writeMarker"  -> [state |-> "valid", gen |-> m.gen, index |-> intervals]
                   [] m.op = "removeMarker" -> NoMarker
                   [] OTHER -> marker)
  BY DEF AfterMutation
<1>5. /\ m.op \notin {"createMarker", "writeMarker", "removeMarker"} => marker' = marker
      /\ m.op = "createMarker" => marker'.state = "partial" /\ marker'.gen = m.gen
      /\ m.op = "writeMarker" => marker'.state = "valid" /\ marker'.gen = m.gen /\ marker'.index = intervals
      /\ m.op = "removeMarker" => marker'.state = "none" /\ marker'.gen = 0
  BY <1>4 DEF NoMarker
<1>6. \E d : payload' = (CASE m.op = "createData" -> [payload EXCEPT ![m.gen] = [there |-> TRUE, data |-> <<>>]]
                           [] m.op = "writeData"  -> [payload EXCEPT ![m.gen].data = d]
                           [] m.op = "removeData" -> [payload EXCEPT ![m.gen] = Absent]
                           [] OTHER -> payload)
  BY DEF AfterMutation
<1>7. PICK d : payload' = (CASE m.op = "createData" -> [payload EXCEPT ![m.gen] = [there |-> TRUE, data |-> <<>>]]
                             [] m.op = "writeData"  -> [payload EXCEPT ![m.gen].data = d]
                             [] m.op = "removeData" -> [payload EXCEPT ![m.gen] = Absent]
                             [] OTHER -> payload)
  BY <1>6
<1>8. /\ m.op \notin {"createData", "writeData", "removeData"} => payload' = payload
      /\ m.op = "createData" => payload'[m.gen].there
      /\ m.op = "removeData" => ~payload'[m.gen].there
      /\ DOMAIN payload' = Gen /\ \A g \in Gen : DOMAIN payload'[g] = {"there", "data"}
      /\ \A g \in Gen : g # m.gen => payload'[g] = payload[g]
  <2>1. CASE m.op = "createData"
    BY <1>1, <1>3, <1>7, <2>1
  <2>2. CASE m.op = "writeData"
    BY <1>1, <1>3, <1>7, <2>2
  <2>3. CASE m.op = "removeData"
    BY <1>1, <1>3, <1>7, <2>3 DEF Absent
  <2>4. CASE m.op \notin {"createData", "writeData", "removeData"}
    BY <1>3, <1>7, <2>4
  <2> QED BY <2>1, <2>2, <2>3, <2>4
<1>9. marker'.state \in {"none", "partial", "valid"}
  BY <1>3, <1>5
<1> QED BY <1>2, <1>5, <1>8, <1>9 DEF Effect

\* Who asked for a mutation owns what it writes, and nothing is handed out yet.
LEMMA PendingOwns ==
  ASSUME Inv, NEW m \in muts
  PROVE  /\ handed = {} /\ "data" \in op[m.by].owns /\ op[m.by].result # "descriptor"
         /\ m.op \in {"createMarker", "writeMarker", "closeMarker", "removeMarker"} => "marker" \in op[m.by].owns
         /\ "marker" \notin op[m.by].owns => marker.state = "none"
         /\ marker.state # "none" => marker.gen = m.gen
<1> DEFINE o == op[m.by]
<1>1. /\ m.by \in Stores /\ m.op = o.pc /\ m.gen = o.gen /\ OwnsAt(m.by) = o.owns /\ Fits(m.by)
      /\ m.op \in Mutation
  BY PendingFacts
<1>2. o.owns \subseteq {"data", "marker"}
  BY <1>1 DEF Inv, Typed, OpState
<1>3. o.pc = "createData" => "data" \in o.owns
  BY <1>1 DEF OwnsAt, At
<1>4. o.pc = "createMarker" => "marker" \in o.owns
  BY <1>1 DEF OwnsAt, At
<1>5. o.owns # {}
  BY <1>1, <1>3 DEF Fits, Mutation, Removal, Owning
<1>6. handed = {} /\ "data" \in o.owns /\ o.result # "descriptor"
  BY <1>1, <1>5 DEF Fits
<1>7. m.op \in {"createMarker", "writeMarker", "closeMarker", "removeMarker"} => "marker" \in o.owns
  BY <1>1, <1>4 DEF Fits
<1>8. "marker" \notin o.owns => o.owns = {"data"}
  BY <1>2, <1>6
<1>9. "marker" \notin o.owns => marker.state = "none"
  BY <1>1, <1>8 DEF Fits
<1>10. marker.state # "none" => marker.gen = m.gen
  BY <1>1, <1>9 DEF Fits
<1> QED BY <1>6, <1>7, <1>9, <1>10

\* A marker is created and written for a payload that is complete.
LEMMA EffectPublished ==
  ASSUME Inv, NEW m \in muts, Effect(m), handed' = handed
  PROVE  Published'
<1>1. /\ m.by \in Stores /\ m.op \in Mutation /\ m.op = op[m.by].pc /\ m.gen = op[m.by].gen /\ m.gen \in Gen
      /\ Fits(m.by) /\ handed' = {}
  BY PendingFacts, PendingOwns
<1>2. m.op \in {"createData", "writeData", "removeData", "createMarker"} => marker.state = "none"
  BY <1>1 DEF Fits, Unmarked
<1>3. m.op \in {"createMarker", "writeMarker"} => Complete(m.gen)
  BY <1>1 DEF Fits, Whole
<1>4. m.op = "writeMarker" => PackedFrames(intervals) = Len(Content)
  BY <1>1 DEF Fits
<1>5. /\ marker.state # "none" => marker.gen \in Gen /\ Complete(marker.gen)
      /\ marker.state = "valid" => PackedFrames(marker.index) = Len(Content)
  BY DEF Inv, Published
<1>6. marker'.state # "none" => marker'.gen \in Gen /\ payload' = payload /\ Complete(marker'.gen)
  BY <1>1, <1>2, <1>3, <1>5 DEF Effect
<1>7. marker'.state = "valid" => PackedFrames(marker'.index) = Len(Content)
  BY <1>1, <1>2, <1>4, <1>5 DEF Effect
<1>8. Content' = Content
  BY DEF Effect
<1> QED BY <1>1, <1>6, <1>7, <1>8 DEF Published, Complete

\* A step of the operation that settles its mutation.
LEMMA Landed ==
  ASSUME Inv, NEW s \in Stores, op[s].pc \in Program \cup Mutation,
         NEW x \in Program \cup Mutation, NEW g, NEW w, NEW r, To(s, x, g, w, r),
         muts' = {}, UNCHANGED <<holder, streamer>>, UNCHANGED crashes, faults' \in 0..Faults,
         UNCHANGED <<iter, closing, step, call, permit, epoch, job, block>>,
         x \in Reading \/ op[s].pc \notin Reading \/ iter \notin {"open", "closing"},
         DOMAIN payload' = Gen, \A k \in Gen : DOMAIN payload'[k] = {"there", "data"},
         marker'.state \in {"none", "partial", "valid"},
         Fits(s)', Published', Tidy'
  PROVE  Inv'
<1>1. /\ holder = s /\ s # NoStore /\ holder' = s
      /\ \A t \in Stores \ {s} : op[t].pc \in {"idle", "locking"} /\ op[t].owns = {} /\ op[t].result = "none"
  BY Alone
<1>2. /\ op' \in [Stores -> OpState] /\ \A t \in Stores \ {s} : op'[t] = op[t]
      /\ op'[s].pc = x
  BY DEF To
<1>3. Typed'
  BY <1>1, <1>2 DEF Inv, Typed
<1>4. Inside'
  BY <1>1, <1>2, Steps DEF Inside
<1>5. Pending'
  BY DEF Pending
<1>6. Owned'
  <2> HIDE DEF Inv, To
  <2> QED BY OwnedOn
<1>7. Holding'
  BY HoldsOn DEF Inv
<1>8. \A t \in Stores : Fits(t)'
  <2>1. \A t \in Stores \ {s} : Fits(t)'
    BY <1>1, <1>2, WaitingFits
  <2> QED BY <2>1
<1> QED BY <1>3, <1>4, <1>5, <1>6, <1>7, <1>8 DEF Inv, Locked

\* A mutation that does not lead to the next step leaves the files to the cleanup,
\* or to the next opener when it was the cleanup's.
LEMMA BrokenFits ==
  ASSUME Inv, NEW m \in muts, Effect(m) \/ UNCHANGED files, handed' = handed,
         NEW x \in {"draining", "releasing"}, To(m.by, x, op[m.by].gen, op[m.by].owns, "failed")
  PROVE  Fits(m.by)'
<1> DEFINE o == op[m.by]
<1>1. /\ m.by \in Stores /\ m.op = o.pc /\ m.gen = o.gen /\ m.gen \in Gen /\ m.op \in Mutation
      /\ handed = {} /\ "data" \in o.owns
      /\ m.op \in {"createMarker", "writeMarker", "closeMarker", "removeMarker"} => "marker" \in o.owns
      /\ "marker" \notin o.owns => marker.state = "none"
      /\ marker.state # "none" => marker.gen = m.gen
  BY PendingFacts, PendingOwns
<1>2. /\ "marker" \notin o.owns => marker'.state = "none"
      /\ marker'.state # "none" => marker'.gen = m.gen
  <2>1. CASE Effect(m)
    BY <1>1, <2>1 DEF Effect
  <2>2. CASE UNCHANGED files
    BY <1>1, <2>2 DEF files
  <2> QED BY <2>1, <2>2
<1>3. /\ op'[m.by].pc = x /\ op'[m.by].gen = m.gen /\ op'[m.by].owns = o.owns
      /\ op'[m.by].result = "failed"
  BY <1>1 DEF To
<1> HIDE DEF o
<1> QED BY <1>1, <1>2, <1>3 DEF Fits, Unmarked, Whole, Owning, Mutation, Removal

\* What the next step relies on, the mutation has brought about.
LEMMA NextFits ==
  ASSUME Inv, NEW m \in muts, Effect(m), handed' = handed, m.op # "writeData" => intervals' = intervals,
         To(m.by, After(m.by), op[m.by].gen, op[m.by].owns, op[m.by].result)
  PROVE  Fits(m.by)'
<1> DEFINE s == m.by
           o == op[m.by]
           x == After(m.by)
<1>1. /\ s \in Stores /\ m.op = o.pc /\ m.gen = o.gen /\ m.gen \in Gen /\ m.op \in Mutation /\ Fits(s)
      /\ handed' = {} /\ "data" \in o.owns /\ o.result # "descriptor"
      /\ m.op \in {"createMarker", "writeMarker", "closeMarker", "removeMarker"} => "marker" \in o.owns
      /\ "marker" \notin o.owns => marker.state = "none"
      /\ marker.state # "none" => marker.gen = m.gen
  BY PendingFacts, PendingOwns
<1>2. op'[s].pc = x /\ op'[s].gen = m.gen /\ op'[s].owns = o.owns /\ op'[s].result = o.result
  BY <1>1 DEF To
<1>3. CASE m.op \in {"createData", "writeData"}
  <2>1. x = "streaming"
    BY <1>1, <1>3 DEF After, At
  <2>2. marker' = marker /\ marker.state = "none"
    BY <1>1, <1>3 DEF Effect, Fits, Unmarked
  <2> HIDE DEF x, o
  <2> QED BY <1>1, <1>2, <2>1, <2>2 DEF Fits, Unmarked, Whole, Owning, Mutation, Removal
<1>4. CASE m.op = "closeData"
  <2>1. x = "createMarker" /\ intervals' = intervals
    BY <1>1, <1>4 DEF After, At
  <2>2. marker' = marker /\ marker.state = "none" /\ payload' = payload /\ Content' = Content
    BY <1>1, <1>4 DEF Effect, Fits, Unmarked
  <2>3. Complete(m.gen) /\ PackedFrames(intervals) = Len(Content)
    BY <1>1, <1>4 DEF Fits, Whole
  <2> HIDE DEF x, o
  <2> QED BY <1>1, <1>2, <2>1, <2>2, <2>3 DEF Fits, Complete, Unmarked, Whole, Owning, Mutation, Removal
<1>5. CASE m.op = "createMarker"
  <2>1. x = "writeMarker" /\ intervals' = intervals
    BY <1>1, <1>5 DEF After, At
  <2>2. marker'.state = "partial" /\ marker'.gen = m.gen /\ payload' = payload /\ Content' = Content
    BY <1>1, <1>5 DEF Effect
  <2>3. Complete(m.gen) /\ PackedFrames(intervals) = Len(Content)
    BY <1>1, <1>5 DEF Fits, Whole
  <2> HIDE DEF x, o
  <2> QED BY <1>1, <1>2, <1>5, <2>1, <2>2, <2>3 DEF Fits, Complete, Marks, Unmarked, Whole, Owning, Mutation, Removal
<1>6. CASE m.op = "writeMarker"
  <2>1. x = "closeMarker" /\ intervals' = intervals
    BY <1>1, <1>6 DEF After, At
  <2>2. marker'.state = "valid" /\ marker'.gen = m.gen /\ payload' = payload /\ Content' = Content
    BY <1>1, <1>6 DEF Effect
  <2>3. Complete(m.gen)
    BY <1>1, <1>6 DEF Fits, Whole
  <2> HIDE DEF x, o
  <2> QED BY <1>1, <1>2, <1>6, <2>1, <2>2, <2>3 DEF Fits, Complete, Marks, Unmarked, Whole, Owning, Mutation, Removal
<1>7. CASE m.op = "closeMarker"
  <2>1. x = "checking"
    BY <1>1, <1>7 DEF After, At
  <2>2. marker' = marker /\ marker.state = "valid" /\ payload' = payload /\ Content' = Content
    BY <1>1, <1>7 DEF Effect, Fits, Marks
  <2>3. Complete(m.gen)
    BY <1>1, <1>7 DEF Fits, Whole
  <2> HIDE DEF x, o
  <2> QED BY <1>1, <1>2, <1>7, <2>1, <2>2, <2>3 DEF Fits, Complete, Marks, Unmarked, Whole, Owning, Mutation, Removal
<1>8. CASE m.op = "removeMarker"
  <2>1. x = "removeData"
    BY <1>1, <1>8 DEF After, At
  <2>2. marker'.state = "none"
    BY <1>8 DEF Effect
  <2> HIDE DEF x, o
  <2> QED BY <1>1, <1>2, <2>1, <2>2 DEF Fits, Unmarked, Whole, Owning, Mutation, Removal
<1>9. CASE m.op = "removeData"
  <2>1. x = "releasing"
    BY <1>1, <1>9 DEF After, At
  <2>2. marker' = marker /\ marker.state = "none"
    BY <1>1, <1>9 DEF Effect, Fits
  <2> HIDE DEF x, o
  <2> QED BY <1>1, <1>2, <2>1, <2>2 DEF Fits, Unmarked, Whole, Owning, Mutation, Removal
<1> QED BY <1>1, <1>3, <1>4, <1>5, <1>6, <1>7, <1>8, <1>9 DEF Mutation, Removal

\* Without failures a mutation leaves no file without an owner.
LEMMA EffectTidy ==
  ASSUME Inv, NEW m \in muts, Effect(m), Unharmed, NEW x, NEW r, r # "corrupt",
         To(m.by, x, op[m.by].gen, op[m.by].owns, r),
         x \in {"releasing", "removeData"} => m.op \in Removal,
         x = "releasing" => m.op = "removeData"
  PROVE  Tidy'
<1> DEFINE s == m.by
           o == op[m.by]
<1>1. /\ s \in Stores /\ m.op = o.pc /\ m.gen = o.gen /\ m.gen \in Gen /\ "data" \in o.owns
      /\ o.pc \in Program \cup Mutation
      /\ m.op \in {"createMarker", "writeMarker", "closeMarker", "removeMarker"} => "marker" \in o.owns
      /\ marker.state # "none" => marker.gen = m.gen
  BY PendingFacts, PendingOwns
<1>2. \A t \in Stores \ {s} : op[t].owns = {} /\ op[t].result = "none"
  BY <1>1, Alone
<1>3. /\ \A t \in Stores \ {s} : op'[t] = op[t]
      /\ op'[s].pc = x /\ op'[s].gen = m.gen /\ op'[s].owns = o.owns /\ op'[s].result = r
  BY <1>1 DEF To
<1>4. Tidy
  BY DEF Inv
<1>5. ASSUME NEW k \in Gen, payload'[k].there
      PROVE  \E t \in Stores : "data" \in op'[t].owns /\ op'[t].gen = k /\ op'[t].pc # "releasing"
  <2>1. CASE k = m.gen
    BY <1>1, <1>3, <1>5, <2>1 DEF Effect
  <2>2. CASE k # m.gen
    <3>1. payload[k].there
      BY <1>5, <2>2 DEF Effect
    <3> QED BY <1>1, <1>2, <1>4, <2>2, <3>1 DEF Tidy
  <2> QED BY <2>1, <2>2
<1>6. ASSUME marker'.state = "partial"
      PROVE  "marker" \in op'[s].owns /\ op'[s].pc \notin {"releasing", "removeData"}
  <2>1. CASE m.op = "createMarker"
    BY <1>1, <1>3, <2>1 DEF Removal
  <2>2. CASE m.op # "createMarker"
    <3>1. marker' = marker /\ m.op # "removeMarker"
      BY <1>6, <2>2 DEF Effect
    <3>2. "marker" \in o.owns /\ o.pc # "removeData"
      BY <1>1, <1>2, <1>4, <1>6, <3>1 DEF Tidy
    <3> QED BY <1>1, <1>3, <3>1, <3>2 DEF Removal
  <2> QED BY <2>1, <2>2
<1>7. \A t \in Stores : op'[t].result # "corrupt"
  BY <1>2, <1>3
<1> HIDE DEF o
<1> QED BY <1>1, <1>5, <1>6, <1>7 DEF Tidy

LEMMA AfterSteps ==
  ASSUME Inv, NEW m \in muts
  PROVE  /\ After(m.by) \in Program \cup Mutation
         /\ After(m.by) \in Reading \/ m.op \notin Reading
         /\ After(m.by) \in {"releasing", "removeData"} => m.op \in Removal
         /\ After(m.by) = "releasing" => m.op = "removeData"
<1>1. m.op \in Mutation /\ m.op = op[m.by].pc
  BY PendingFacts
<1>2. "data" \in op[m.by].owns
  BY PendingOwns
<1>3. /\ m.op \in {"createData", "writeData"} => After(m.by) = "streaming"
      /\ m.op = "closeData" => After(m.by) = "createMarker"
      /\ m.op = "createMarker" => After(m.by) = "writeMarker"
      /\ m.op = "writeMarker" => After(m.by) = "closeMarker"
      /\ m.op = "closeMarker" => After(m.by) = "checking"
      /\ m.op = "removeMarker" => After(m.by) = "removeData"
      /\ m.op = "removeData" => After(m.by) = "releasing"
  BY <1>1, <1>2 DEF After, At
<1>4. m.op \in {"createData", "writeData", "closeData", "createMarker", "writeMarker", "closeMarker",
                "removeMarker", "removeData"}
  BY <1>1 DEF Mutation, Removal
<1> QED BY <1>3, <1>4 DEF Program, Mutation, Removal, Reading

\* Nothing else is pending when a mutation settles, and the stream is not its business.
LEMMA LandsKeeps == ASSUME Inv, NEW s \in Stores, Lands(s) PROVE Inv'
<1>1. PICK m \in muts :
        /\ m.by = s /\ muts' = muts \ {m}
        /\ \E good \in BOOLEAN : /\ good \/ m.op = "writeData"
                                 /\ IF good THEN NoFault ELSE Fault
                                 /\ AfterMutation(m, good)
        /\ IF aborted[s] /\ m.op \notin Removal
             THEN Fail(s) /\ UNCHANGED intervals
             ELSE /\ Moves(s, After(s))
                  /\ intervals' = IF m.op = "writeData" THEN Coalesce(intervals, span) ELSE intervals
        /\ UNCHANGED streamVars /\ UNCHANGED <<holder, streamer, handed>> /\ UNCHANGED crashes
  BY DEF Lands
<1>2. /\ m.op = op[s].pc /\ op[s].pc \in Program \cup Mutation /\ muts' = {}
  BY <1>1, PendingFacts
<1>3. PICK good \in BOOLEAN : (NoFault \/ Fault) /\ AfterMutation(m, good)
  BY <1>1
<1>4. Effect(m)
  BY <1>3, Effects
<1>5. Published'
  BY <1>1, <1>4, EffectPublished
<1>6. faults' \in 0..Faults /\ (Unharmed' => Unharmed)
  BY <1>1, <1>3, Spending
<1>7. /\ UNCHANGED <<iter, closing, step, call, permit, epoch, job, block>>
      /\ DOMAIN payload' = Gen /\ \A k \in Gen : DOMAIN payload'[k] = {"there", "data"}
      /\ marker'.state \in {"none", "partial", "valid"}
  BY <1>1, <1>4 DEF streamVars, Effect
<1>8. op \in [Stores -> OpState] /\ UNCHANGED <<holder, streamer>> /\ handed' = handed /\ UNCHANGED crashes
  BY <1>1 DEF Inv, Typed
<1>9. CASE Fail(s) /\ m.op \notin Removal
  <2>1. To(s, "draining", op[s].gen, op[s].owns, "failed")
    BY <1>8, <1>9, FailTo
  <2>2. Fits(s)'
    BY <1>1, <1>4, <1>8, <2>1, BrokenFits
  <2>3. Tidy'
    <3>1. Unharmed' => Tidy'
      BY <1>1, <1>4, <1>6, <2>1, EffectTidy
    <3> QED BY <3>1 DEF Tidy
  <2>4. "draining" \in Reading /\ "draining" \in Program \cup Mutation
    BY Steps DEF Reading
  <2> HIDE DEF Inv, To
  <2> QED BY <1>1, <1>2, <1>5, <1>6, <1>7, <1>8, <2>1, <2>2, <2>3, <2>4, Landed
<1>10. CASE Moves(s, After(s)) /\ (m.op # "writeData" => intervals' = intervals)
  <2>1. /\ After(s) \in Program \cup Mutation /\ (After(s) \in Reading \/ op[s].pc \notin Reading)
        /\ After(s) \in {"releasing", "removeData"} => m.op \in Removal
        /\ After(s) = "releasing" => m.op = "removeData"
    BY <1>1, <1>2, AfterSteps
  <2>2. After(s) \in PCs
    BY <2>1, Steps
  <2>3. To(s, After(s), op[s].gen, op[s].owns, op[s].result)
    BY <1>8, <1>10, <2>2, MovesTo
  <2>4. Fits(s)'
    BY <1>1, <1>4, <1>8, <1>10, <2>3, NextFits
  <2>5. Tidy'
    <3>1. Unharmed' => Tidy'
      BY <1>1, <1>4, <1>6, <2>1, <2>3, EffectTidy, NotCorrupt
    <3> QED BY <3>1 DEF Tidy
  <2> DEFINE x == After(s)
  <2>6. x \in Program \cup Mutation /\ (x \in Reading \/ op[s].pc \notin Reading) /\ To(s, x, op[s].gen, op[s].owns, op[s].result)
    BY <2>1, <2>3
  <2> HIDE DEF Inv, To, x
  <2> QED BY <1>2, <1>5, <1>6, <1>7, <1>8, <2>4, <2>5, <2>6, Landed
<1> QED BY <1>1, <1>9, <1>10

LEMMA LandsFailedKeeps == ASSUME Inv, NEW s \in Stores, LandsFailed(s) PROVE Inv'
<1>1. PICK m \in muts :
        /\ m.by = s /\ muts' = muts \ {m} /\ Fault
        /\ UNCHANGED files \/ AfterMutation(m, TRUE)
        /\ IF m.op \in Removal THEN Answers(s, "failed") ELSE Fail(s)
        /\ UNCHANGED streamVars /\ UNCHANGED <<holder, streamer, handed>> /\ UNCHANGED crashes
  BY DEF LandsFailed
<1>2. m.op = op[s].pc /\ op[s].pc \in Program \cup Mutation /\ muts' = {}
  BY <1>1, PendingFacts
<1>3. Effect(m) \/ UNCHANGED files
  BY <1>1, Effects
<1>4. Published'
  <2>1. CASE Effect(m)
    BY <1>1, <2>1, EffectPublished
  <2>2. CASE UNCHANGED files
    BY <1>1, <2>2, SamePublished DEF Inv
  <2> QED BY <1>3, <2>1, <2>2
<1>5. faults' \in 0..Faults /\ ~Unharmed'
  BY <1>1, Spending
<1>6. UNCHANGED <<iter, closing, step, call, permit, epoch, job, block>>
  BY <1>1 DEF streamVars
<1>7. /\ DOMAIN payload' = Gen /\ \A k \in Gen : DOMAIN payload'[k] = {"there", "data"}
      /\ marker'.state \in {"none", "partial", "valid"}
  BY <1>3 DEF files, Effect, Inv, Typed
<1>8. op \in [Stores -> OpState] /\ UNCHANGED <<holder, streamer>> /\ handed' = handed /\ UNCHANGED crashes
  BY <1>1 DEF Inv, Typed
<1>9. Tidy'
  BY <1>5 DEF Tidy
<1>10. PICK x \in {"draining", "releasing"} :
         /\ To(s, x, op[s].gen, op[s].owns, "failed")
         /\ x \in Reading \/ op[s].pc \notin Reading
  <2>1. "failed" \in Results
    BY DEF Results
  <2>2. CASE m.op \in Removal /\ Answers(s, "failed")
    <3>1. op[s].pc \notin Reading
      BY <1>2, <2>2 DEF Removal, Reading
    <3> QED BY <1>8, <2>1, <2>2, <3>1, AnswersTo
  <2>3. CASE Fail(s)
    <3>1. "draining" \in Reading
      BY DEF Reading
    <3> QED BY <1>8, <2>3, <3>1, FailTo
  <2> QED BY <1>1, <2>2, <2>3
<1>11. Fits(s)'
  BY <1>1, <1>3, <1>8, <1>10, BrokenFits
<1>12. x \in Program \cup Mutation
  BY Steps
<1> HIDE DEF Inv, To
<1> QED BY <1>2, <1>4, <1>5, <1>6, <1>7, <1>8, <1>9, <1>10, <1>11, <1>12, Landed

\* The browser frees a lock whose tab died; its mutations have landed or never will.
LEMMA CrashKeeps == ASSUME Inv, NEW s \in Stores, Crash(s) PROVE Inv'
<1>1. /\ op[s].pc # "idle" /\ crashes > 0 /\ crashes' = crashes - 1
      /\ UNCHANGED files \/ \E m \in muts : m.by = s /\ AfterMutation(m, TRUE)
      /\ muts' = {m \in muts : m.by # s}
      /\ holder' = (IF holder = s THEN NoStore ELSE holder) /\ op' = [op EXCEPT ![s] = Idle]
      /\ IF streamer = s
           THEN streamer' = NoStore /\ iter' = "none" /\ Forget /\ intervals' = <<>>
           ELSE UNCHANGED streamVars /\ UNCHANGED streamer /\ UNCHANGED intervals
      /\ handed' = handed /\ faults' = faults
  BY DEF Crash, At
<1>2. /\ op \in [Stores -> OpState] /\ NoStore \notin Stores
      /\ faults' \in 0..Faults /\ crashes' \in 0..Crashes /\ ~Unharmed'
  <2>1. crashes \in 0..Crashes /\ Crashes \in Nat
    BY StoreAssumption DEF Inv, Typed
  <2>2. crashes' \in 0..Crashes /\ crashes' # Crashes
    BY <1>1, <2>1
  <2> QED BY <1>1, <2>2, StoreAssumption DEF Inv, Typed, Unharmed
<1>3. To(s, "idle", 0, {}, "none")
  BY <1>1, <1>2, IdleState DEF To
<1>4. CASE op[s].pc = "locking"
  <2>1. holder # s
    BY <1>4, Steps DEF Inv, Locked, Inside
  <2>2. \A m \in muts : m.by # s
    BY <1>4 DEF Inv, Locked, Pending, Mutation, Removal
  <2>3. streamer # s
    BY <1>2, <2>1 DEF Inv, Owned
  <2>4. UNCHANGED streamVars /\ UNCHANGED <<files, muts, holder, streamer, intervals, handed>>
    BY <1>1, <2>1, <2>2, <2>3
  <2> HIDE DEF Inv, To
  <2> QED BY <1>2, <1>3, <1>4, <2>4, Outside
<1>5. CASE op[s].pc \in Program \cup Mutation
  <2>1. /\ holder = s /\ holder' = NoStore /\ muts' = {}
        /\ \A t \in Stores \ {s} : op[t].pc \in {"idle", "locking"} /\ op[t].owns = {} /\ op[t].result = "none"
    BY <1>1, <1>5, Alone
  <2>2. /\ op' \in [Stores -> OpState]
        /\ \A t \in Stores : op'[t].pc \in {"idle", "locking"} /\ op'[t].owns = {} /\ op'[t].result = "none"
    BY <1>3, <2>1 DEF To
  <2>3. streamer' = NoStore /\ iter' \in {"none", "closed"} /\ Holding'
    <3>1. CASE streamer = s
      BY <1>1, <3>1 DEF Forget, Holding, StreamHeld
    <3>2. CASE streamer # s
      <4>1. streamer = NoStore /\ iter \in {"none", "closed"} /\ Holding
        BY <2>1, <3>2 DEF Inv, Owned, Typed
      <4>2. UNCHANGED <<iter, closing, step, call, permit, epoch, job, block>> /\ streamer' = streamer
        BY <1>1, <3>2 DEF streamVars
      <4> QED BY <4>1, <4>2, HoldsOn
    <3> QED BY <3>1, <3>2
  <2>4. /\ Published' /\ DOMAIN payload' = Gen /\ \A k \in Gen : DOMAIN payload'[k] = {"there", "data"}
        /\ marker'.state \in {"none", "partial", "valid"}
    <3>1. CASE UNCHANGED files
      <4>1. marker' = marker /\ payload' = payload
        BY <3>1, SameFacts
      <4>2. Published'
        BY <1>1, <3>1, SamePublished DEF Inv
      <4> QED BY <4>1, <4>2 DEF Inv, Typed
    <3>2. CASE \E m \in muts : m.by = s /\ AfterMutation(m, TRUE)
      <4>1. PICK m \in muts : Effect(m)
        BY <3>2, Effects
      <4>2. Published'
        BY <1>1, <4>1, EffectPublished
      <4> QED BY <4>1, <4>2 DEF Effect
    <3> QED BY <1>1, <3>1, <3>2
  <2>5. Typed'
    BY <1>2, <2>1, <2>2, <2>3, <2>4 DEF Typed
  <2>6. Locked'
    BY <1>2, <2>1, <2>2, Steps DEF Locked, Inside, Pending
  <2>7. Owned'
    BY <2>3 DEF Owned
  <2>8. \A t \in Stores : Fits(t)'
    BY <2>2 DEF Fits, Unmarked, Whole, Owning, Mutation, Removal
  <2>9. Tidy'
    BY <1>2 DEF Tidy
  <2> QED BY <2>3, <2>4, <2>5, <2>6, <2>7, <2>8, <2>9 DEF Inv
<1> QED BY <1>1, <1>2, <1>4, <1>5, Steps DEF OpState

-----------------------------------------------------------------------------
(* The theorems. *)

LEMMA InitKeeps == ASSUME Init PROVE Inv
<1>1. /\ marker = NoMarker /\ payload = [g \in Gen |-> Absent] /\ muts = {} /\ holder = NoStore
      /\ op = [s \in Stores |-> Idle] /\ streamer = NoStore /\ handed = {}
      /\ faults = Faults /\ crashes = Crashes /\ StreamInit
  BY DEF Init
<1>2. NoStore \notin Stores /\ Faults \in Nat /\ Crashes \in Nat
  BY StoreAssumption
<1>3. /\ op \in [Stores -> OpState]
      /\ \A s \in Stores : op[s].pc = "idle" /\ op[s].owns = {} /\ op[s].result = "none"
  BY <1>1, IdleState
<1>4. iter = "none"
  BY <1>1 DEF StreamInit
<1>5. Typed
  BY <1>1, <1>2, <1>3, <1>4 DEF Typed, NoMarker, Absent
<1>6. Locked /\ Owned
  BY <1>1, <1>2, <1>3, <1>4, Steps DEF Locked, Inside, Pending, Owned
<1>7. Holding
  BY <1>1 DEF StreamInit, Holding, StreamHeld
<1>8. \A s \in Stores : Fits(s)
  BY <1>3 DEF Fits, Unmarked, Whole, Owning, Mutation, Removal
<1>9. Published /\ Tidy
  BY <1>1, <1>3 DEF Published, Tidy, NoMarker, Absent
<1> QED BY <1>5, <1>6, <1>7, <1>8, <1>9 DEF Inv

LEMMA StutterKeeps == ASSUME Inv, UNCHANGED vars PROVE Inv'
<1>1. UNCHANGED streamVars /\ UNCHANGED <<files, muts, holder, op, streamer, intervals, handed, faults, crashes>>
  BY DEF vars, budgets
<1>2. UNCHANGED <<iter, closing, step, call, permit, epoch, job, block>>
  BY <1>1 DEF streamVars
<1>3. Holding' /\ iter' \in {"none", "open", "closing", "closed"} /\ iter' = iter
  BY <1>2, HoldsOn DEF Inv, Typed
<1> QED BY <1>1, <1>3, StreamOnly

LEMMA NextKeeps == ASSUME Inv, [Next]_vars PROVE Inv'
<1>1. CASE UNCHANGED vars
  BY <1>1, StutterKeeps
<1>2. CASE Stream
  BY <1>2, StreamKeeps
<1>3. ASSUME NEW s \in Stores, Start(s) \/ Abort(s) \/ Crash(s) \/ Progress(s) PROVE Inv'
  <2> HIDE DEF Inv
  <2>1. CASE Start(s) \/ Withdraw(s)
    BY <2>1, OutsideKeeps
  <2>2. CASE PullSpan(s) \/ AbortSource(s) \/ ReturnSource(s) \/ Abort(s)
    BY <2>2, PullKeeps
  <2>3. CASE Crash(s) \/ Grant(s) \/ Release(s)
    BY <2>3, CrashKeeps, GrantKeeps, ReleaseKeeps
  <2>4. CASE Look(s) \/ ReadMarker(s) \/ Verify(s)
    BY <2>4, LookKeeps, ReadMarkerKeeps, VerifyKeeps
  <2>5. CASE ResolveSource(s) \/ NewGeneration(s) \/ SpanLate(s) \/ TakeSpan(s) \/ EndOfSpans(s)
    BY <2>5, ResolveSourceKeeps, NewGenerationKeeps, SpanLateKeeps, TakeSpanKeeps, EndOfSpansKeeps
  <2>6. CASE Begin(s) \/ Refuse(s) \/ Lands(s) \/ LandsFailed(s)
    BY <2>6, BeginKeeps, RefuseKeeps, LandsKeeps, LandsFailedKeeps
  <2>7. CASE Check(s) \/ Finish(s) \/ CleanUp(s)
    BY <2>7, CheckKeeps, FinishKeeps, CleanUpKeeps
  <2> QED BY <1>3, <2>1, <2>2, <2>3, <2>4, <2>5, <2>6, <2>7 DEF Progress
<1> QED BY <1>1, <1>2, <1>3 DEF Next

\* The invariant above holds in every state, for every number of stores,
\* operations, generations, faults and crashes and for every source: who is
\* inside an operation holds the lock, each step finds the files as the steps
\* before it left them, a marker names a complete payload, and nothing lies about
\* without an owner.
THEOREM InvAlways == Spec => []Inv
<1>1. Init => Inv
  BY InitKeeps
<1>2. Inv /\ [Next]_vars => Inv'
  BY NextKeeps
<1> QED BY <1>1, <1>2, PTL DEF Spec

\* LockCovers: a physical mutation that may still land, an open stream with its
\* permit and epoch, and a step of an operation are all under the lock
\* (sparse-store.ts:210), also after a crash, an abort or a failure.
THEOREM LockAlwaysCovers == Spec => []LockCovers
<1>1. ASSUME Inv PROVE LockCovers
  <2>1. ASSUME NEW m \in muts PROVE holder = m.by /\ ~At(m.by, "idle")
    <3>1. m.by \in Stores /\ op[m.by].pc \in Program \cup Mutation
      BY <1>1, PendingFacts
    <3>2. holder = m.by
      BY <1>1, <3>1, Alone
    <3> QED BY <3>1, <3>2, Steps DEF At
  <2>2. iter \in {"open", "closing"} => holder = streamer
    BY <1>1 DEF Inv, Owned
  <2>3. StreamHeld /\ \A s \in Stores : op[s].pc \in Program \cup Mutation => holder = s
    BY <1>1 DEF Inv, Holding, Locked, Inside
  <2> QED BY <2>1, <2>2, <2>3 DEF LockCovers
<1> QED BY <1>1, InvAlways, PTL

\* CleanWhenSettled: unless a tab crashed or storage failed, a free lock leaves
\* either what is committed or nothing (sparse-store.ts:1010), however the
\* operations were aborted, and nobody is told of corruption.
THEOREM SettledAlwaysClean == Spec => []CleanWhenSettled
<1>1. ASSUME Inv PROVE CleanWhenSettled
  <2> SUFFICES ASSUME Unharmed
               PROVE  /\ holder = NoStore => /\ marker.state # "partial"
                                             /\ \A g \in Gen : payload[g].there => marker.gen = g
                      /\ \A s \in Stores : op[s].result # "corrupt"
    BY DEF CleanWhenSettled, Unharmed
  <2>1. holder = NoStore => \A s \in Stores : op[s].owns = {}
    BY <1>1, StoreAssumption, Steps DEF Inv, Locked, Inside, Fits, Typed, OpState
  <2>2. Tidy
    BY <1>1 DEF Inv
  <2> QED BY <2>1, <2>2 DEF Tidy
<1> QED BY <1>1, InvAlways, PTL

\* A descriptor that was handed out is final: no later operation of any store
\* changes the marker or a payload, or withdraws it, not even as it crashes.
HandedStays == [][handed # {} => UNCHANGED files /\ handed \subseteq handed']_vars

LEMMA HandedKept == ASSUME Inv, [Next]_vars PROVE handed # {} => UNCHANGED files /\ handed \subseteq handed'
<1> SUFFICES ASSUME handed # {} PROVE UNCHANGED files /\ handed \subseteq handed'
  OBVIOUS
<1>1. muts = {}
  BY PendingOwns
<1>2. CASE UNCHANGED vars
  BY <1>2 DEF vars
<1>3. CASE Stream
  BY <1>3 DEF Stream
<1>4. ASSUME NEW s \in Stores, Start(s) \/ Abort(s) \/ Crash(s) \/ Progress(s)
      PROVE  UNCHANGED files /\ handed \subseteq handed'
  <2>1. CASE Crash(s) \/ Lands(s) \/ LandsFailed(s)
    BY <1>1, <2>1 DEF Crash, Lands, LandsFailed
  <2>2. CASE Release(s)
    BY <2>2 DEF Release
  <2>3. CASE Start(s) \/ Abort(s) \/ Grant(s) \/ Withdraw(s) \/ Look(s) \/ ReadMarker(s) \/ Verify(s)
    BY <2>3 DEF Start, Abort, Grant, Withdraw, Look, ReadMarker, Verify
  <2>4. CASE \/ ResolveSource(s) \/ NewGeneration(s) \/ PullSpan(s) \/ SpanLate(s) \/ TakeSpan(s)
             \/ EndOfSpans(s) \/ Begin(s)
    BY <2>4 DEF ResolveSource, NewGeneration, PullSpan, SpanLate, TakeSpan, EndOfSpans, Begin
  <2>5. CASE Refuse(s) \/ Check(s) \/ Finish(s) \/ AbortSource(s) \/ ReturnSource(s) \/ CleanUp(s)
    BY <2>5 DEF Refuse, Check, Finish, AbortSource, ReturnSource, CleanUp
  <2> QED BY <1>4, <2>1, <2>2, <2>3, <2>4, <2>5 DEF Progress
<1> QED BY <1>2, <1>3, <1>4 DEF Next

THEOREM HandedAlwaysStays == Spec => HandedStays
<1>1. Inv /\ [Next]_vars => [handed # {} => UNCHANGED files /\ handed \subseteq handed']_vars
  BY HandedKept
<1> QED BY <1>1, InvAlways, PTL DEF Spec, HandedStays

-----------------------------------------------------------------------------
(* What is committed: the stream, the files and what an installation has read. *)

\* The stream: the manifest it reads is the source's, the frames it has handed
\* out and those it has decoded are the manifest's, and a span lies in one interval.
Streamed ==
  /\ manifest = (IF iter \in {"open", "closing"} THEN Source ELSE NoManifest)
  /\ closing \in {"none", "decoder", "response", "epoch"}
  /\ pull \in {"idle", "running", "span", "done", "failed"}
  /\ step \in {"admission", "locator", "headers", "manifest", "feed", "eof"}
  /\ call \in {"none", "locator", "fetch", "read"}
  /\ {permit, epoch, signal, fed} \subseteq BOOLEAN
  /\ job \in {"none", "resolving", "output"}
  /\ chunk \in 1..(Len(manifest.chunks) + 1) /\ (job # "none" => chunk <= Len(manifest.chunks))
  /\ packed \in 0..PackedFrames(manifest.intervals)
  /\ block = 0 \/ block \in packed..PackedFrames(manifest.intervals)
  /\ span = NoSpan \/ (PartOf(Index, span) /\ span.frames <= MaxSpanFrames)

\* The files, and a whole marker's index.
Stored ==
  /\ active \in Sources
  /\ marker \in [state : {"none", "partial", "valid"}, gen : 0..Generations, index : Seq(Interval)]
  /\ marker.state = "valid" => marker.index = Index
  /\ \A g \in Gen : payload[g].there \in BOOLEAN /\ payload[g].data \in Seq(0..Frames)
  /\ intervals \in Seq(Interval) /\ aborted \in [Stores -> BOOLEAN] /\ left \in 0..Operations

\* The span that was taken and is not yet written.
Due(s) == PartOf(Index, span) /\ span.at = Len(payload[op[s].gen].data)

\* What an installation has derived of the index is that of the frames it has
\* written, and the stream is as far as that, but for a span that is due.
Grown(s) ==
  /\ At(s, "admitting") \/ At(s, "createData") => iter = "open" /\ pull = "idle" /\ packed = 0
  /\ At(s, "createData") => intervals = <<>>
  /\ At(s, "streaming") \/ At(s, "writeData") => UpTo(Index, intervals, Len(payload[op[s].gen].data))
  /\ At(s, "streaming") /\ pull = "span" => iter = "open" /\ Due(s)
  /\ At(s, "streaming") /\ iter = "open" =>
       packed = Len(payload[op[s].gen].data) + (IF pull = "span" THEN span.frames ELSE 0)
  /\ At(s, "writeData") => /\ iter = "open" /\ pull = "idle" /\ Due(s)
                           /\ packed = Len(payload[op[s].gen].data) + span.frames
  /\ At(s, "closeData") \/ At(s, "createMarker") \/ At(s, "writeMarker") => intervals = Index

Exact == Streamed /\ Stored /\ \A s \in Stores : Grown(s)

Growing == {"admitting", "createData", "streaming", "writeData", "closeData", "createMarker", "writeMarker"}

LEMMA FixedSource == ASSUME UNCHANGED active PROVE Source' = Source /\ Index' = Index /\ Content' = Content
BY DEF Source, Index, Content

LEMMA SeqWider ==
  ASSUME NEW S, NEW T, S \subseteq T, NEW c \in Seq(S)
  PROVE  c \in Seq(T)
<1>1. c = [k \in 1..Len(c) |-> c[k]] /\ Len(c) \in Nat /\ \A k \in 1..Len(c) : c[k] \in T
  OBVIOUS
<1> QED BY <1>1

LEMMA SourceFacts ==
  ASSUME active \in Sources
  PROVE  /\ active \in SUBSET Frame /\ Index = Source.intervals /\ Describes(Index, active)
         /\ ValidManifest(Source) /\ Cardinality(active) \in Nat /\ PackedFrames(Index) = Cardinality(active)
         /\ Content \in Seq(0..Frames) /\ Len(Content) = Cardinality(active)
         /\ Len(Source.chunks) \in Nat
         /\ \A k \in 1..Len(Source.chunks) :
              /\ Source.chunks[k].at \in Nat /\ Source.chunks[k].frames \in Nat
              /\ Source.chunks[k].at + Source.chunks[k].frames <= Cardinality(active)
<1>1. active \in SUBSET Frame
  BY StoreAssumption
<1>2. Index = Source.intervals
  BY <1>1, IndexDerived DEF Index, Source
<1>3. Describes(Index, active)
  BY <1>1, <1>2, ManifestDescribes DEF Source
<1>4. ValidManifest(Source)
  BY <1>1, ManifestValid DEF Source
<1>5. PackedFrames(Index) = Cardinality(active)
  BY <1>3 DEF Describes
<1>6. Content \in Seq(1..Frames) /\ Len(Content) = Cardinality(active) /\ Cardinality(active) \in Nat
  BY <1>1, <1>3, PackedAre DEF Content
<1>7. Content \in Seq(0..Frames)
  <2>1. 1..Frames \subseteq 0..Frames
    BY PcmAssumption
  <2> QED BY <1>6, <2>1, SeqWider
<1>8. /\ Len(Source.chunks) \in Nat
      /\ \A k \in 1..Len(Source.chunks) :
           /\ Source.chunks[k].at \in Nat /\ Source.chunks[k].frames \in 1..MaxChunkFrames
           /\ Source.chunks[k].at + Source.chunks[k].frames <= Cardinality(active)
  BY <1>1, ChunksCover DEF Source
<1>9. \A n : n \in 1..MaxChunkFrames => n \in Nat
  BY PcmAssumption
<1> QED BY <1>1, <1>2, <1>3, <1>4, <1>5, <1>6, <1>7, <1>8, <1>9

LEMMA NoManifestFacts ==
  ValidManifest(NoManifest) /\ Len(NoManifest.chunks) = 0 /\ PackedFrames(NoManifest.intervals) = 0
BY DEF ValidManifest, NoManifest, PackedFrames

\* The manifest, open or not.
LEMMA ManifestFacts ==
  ASSUME Streamed, active \in Sources
  PROVE  /\ ValidManifest(manifest) /\ Len(manifest.chunks) \in Nat /\ PackedFrames(manifest.intervals) \in Nat
         /\ iter = "open" => manifest = Source /\ manifest.intervals = Index
<1>1. CASE iter \in {"open", "closing"}
  BY <1>1, SourceFacts DEF Streamed
<1>2. CASE iter \notin {"open", "closing"}
  BY <1>2, NoManifestFacts DEF Streamed
<1> QED BY <1>1, <1>2

LEMMA StreamedOn ==
  ASSUME Streamed, UNCHANGED streamVars, UNCHANGED active
  PROVE  Streamed'
<1>1. Source' = Source /\ Index' = Index
  BY FixedSource
<1> QED BY <1>1 DEF Streamed, streamVars

LEMMA StoredOn ==
  ASSUME Stored, UNCHANGED files, intervals' \in Seq(Interval), aborted' \in [Stores -> BOOLEAN],
         left' \in 0..Operations
  PROVE  Stored'
<1>1. Index' = Index /\ marker' = marker /\ payload' = payload /\ active' = active
  BY FixedSource DEF files
<1> QED BY <1>1 DEF Stored

LEMMA GrownOn ==
  ASSUME NEW s, Grown(s), UNCHANGED <<iter, pull, packed, span>>, UNCHANGED <<intervals, active, payload>>,
         op'[s].pc \notin Growing \/ (op'[s].pc = op[s].pc /\ op'[s].gen = op[s].gen)
  PROVE  Grown(s)'
<1>1. CASE op'[s].pc \notin Growing
  BY <1>1 DEF Grown, At, Growing
<1>2. CASE op'[s].pc = op[s].pc /\ op'[s].gen = op[s].gen
  <2>1. Index' = Index
    BY FixedSource
  <2> QED BY <1>2, <2>1 DEF Grown, At, Due
<1> QED BY <1>1, <1>2

\* A step that reads nothing and writes nothing.
LEMMA QuietExact ==
  ASSUME Exact, UNCHANGED streamVars, UNCHANGED files, UNCHANGED intervals,
         aborted' \in [Stores -> BOOLEAN], left' \in 0..Operations,
         \A t \in Stores : op'[t].pc \notin Growing \/ (op'[t].pc = op[t].pc /\ op'[t].gen = op[t].gen)
  PROVE  Exact'
<1>1. UNCHANGED <<active, marker, payload>>
  BY DEF files
<1>2. UNCHANGED <<iter, pull, packed, span>>
  BY DEF streamVars
<1>3. Streamed'
  BY <1>1, StreamedOn DEF Exact
<1>4. intervals' \in Seq(Interval)
  BY DEF Exact, Stored
<1>5. Stored'
  BY <1>4, StoredOn DEF Exact
<1>6. \A t \in Stores : Grown(t)'
  BY <1>1, <1>2, GrownOn DEF Exact
<1> QED BY <1>3, <1>5, <1>6 DEF Exact

LEMMA QuietTo ==
  ASSUME Exact, NEW s \in Stores, NEW x, NEW g, NEW w, NEW r, To(s, x, g, w, r),
         x \notin Growing \/ (x = op[s].pc /\ g = op[s].gen),
         UNCHANGED streamVars, UNCHANGED files, UNCHANGED intervals,
         aborted' \in [Stores -> BOOLEAN], left' \in 0..Operations
  PROVE  Exact'
<1>1. \A t \in Stores : op'[t].pc \notin Growing \/ (op'[t].pc = op[t].pc /\ op'[t].gen = op[t].gen)
  BY DEF To
<1> QED BY <1>1, QuietExact

LEMMA AnswersExact ==
  ASSUME Inv, Exact, NEW s \in Stores, NEW r \in Results, Answers(s, r),
         UNCHANGED streamVars, UNCHANGED files, UNCHANGED <<intervals, aborted, left>>
  PROVE  Exact'
<1>1. To(s, "releasing", op[s].gen, op[s].owns, r)
  BY AnswersTo DEF Inv, Typed
<1>2. "releasing" \notin Growing
  BY DEF Growing
<1>3. aborted' \in [Stores -> BOOLEAN] /\ left' \in 0..Operations
  BY DEF Exact, Stored
<1> QED BY <1>1, <1>2, <1>3, QuietTo

LEMMA MovesExact ==
  ASSUME Inv, Exact, NEW s \in Stores, NEW x \in PCs \ Growing, Moves(s, x),
         UNCHANGED streamVars, UNCHANGED files, UNCHANGED <<intervals, aborted, left>>
  PROVE  Exact'
<1>1. To(s, x, op[s].gen, op[s].owns, op[s].result)
  BY MovesTo DEF Inv, Typed
<1>2. aborted' \in [Stores -> BOOLEAN] /\ left' \in 0..Operations
  BY DEF Exact, Stored
<1> QED BY <1>1, <1>2, QuietTo

LEMMA FailExact ==
  ASSUME Inv, Exact, NEW s \in Stores, Fail(s),
         UNCHANGED streamVars, UNCHANGED files, UNCHANGED <<intervals, aborted, left>>
  PROVE  Exact'
<1>1. To(s, "draining", op[s].gen, op[s].owns, "failed")
  BY FailTo DEF Inv, Typed
<1>2. "draining" \notin Growing
  BY DEF Growing
<1>3. aborted' \in [Stores -> BOOLEAN] /\ left' \in 0..Operations
  BY DEF Exact, Stored
<1> QED BY <1>1, <1>2, <1>3, QuietTo

\* Steps of the operation that leave the stream and the files alone.
LEMMA QuietSteps ==
  ASSUME Inv, Exact, NEW s \in Stores,
         \/ Look(s) \/ ReadMarker(s) \/ Verify(s) \/ Grant(s) \/ SpanLate(s) \/ Refuse(s) \/ Finish(s) \/ CleanUp(s)
  PROVE  Exact'
<1>1. {"failed", "missing", "corrupt", "present", "descriptor"} \subseteq Results
  BY DEF Results
<1>2. {"looking", "reading", "resolving"} \subseteq PCs \ Growing
  BY Steps DEF Growing
<1>3. CASE Look(s)
  <2>1. UNCHANGED streamVars /\ UNCHANGED files /\ UNCHANGED <<intervals, aborted, left>>
    BY <1>3 DEF Look
  <2>2. (\E r \in Results : Answers(s, r)) \/ (\E x \in PCs \ Growing : Moves(s, x))
    BY <1>1, <1>2, <1>3 DEF Look
  <2> QED BY <2>1, <2>2, AnswersExact, MovesExact
<1>4. CASE ReadMarker(s)
  <2>1. UNCHANGED streamVars /\ UNCHANGED files /\ UNCHANGED <<intervals, aborted, left>>
    BY <1>4 DEF ReadMarker
  <2>2. CASE \E r \in Results : Answers(s, r)
    BY <2>1, <2>2, AnswersExact
  <2>3. CASE op' = [op EXCEPT ![s].pc = "verifying", ![s].gen = marker.gen]
    <3>1. op'[s].pc = "verifying" /\ \A t \in Stores \ {s} : op'[t] = op[t]
      BY <2>3 DEF Inv, Typed, OpState
    <3>2. \A t \in Stores : op'[t].pc \notin Growing \/ (op'[t].pc = op[t].pc /\ op'[t].gen = op[t].gen)
      BY <3>1 DEF Growing
    <3>3. aborted' \in [Stores -> BOOLEAN] /\ left' \in 0..Operations
      BY <2>1 DEF Exact, Stored
    <3> QED BY <2>1, <3>2, <3>3, QuietExact
  <2> QED BY <1>1, <1>4, <2>2, <2>3 DEF ReadMarker
<1>5. CASE Verify(s)
  <2>1. UNCHANGED streamVars /\ UNCHANGED files /\ UNCHANGED <<intervals, aborted, left>>
    BY <1>5 DEF Verify
  <2>2. \E r \in Results : Answers(s, r)
    BY <1>1, <1>5 DEF Verify
  <2> QED BY <2>1, <2>2, AnswersExact
<1>6. CASE Grant(s)
  <2>1. UNCHANGED streamVars /\ UNCHANGED files /\ UNCHANGED <<intervals, aborted, left>>
    BY <1>6 DEF Grant, budgets
  <2>2. (\E r \in Results : Answers(s, r)) \/ (\E x \in PCs \ Growing : Moves(s, x))
    BY <1>1, <1>2, <1>6 DEF Grant
  <2> QED BY <2>1, <2>2, AnswersExact, MovesExact
<1>7. CASE SpanLate(s)
  BY <1>7, FailExact DEF SpanLate
<1>8. CASE Refuse(s)
  BY <1>8, FailExact DEF Refuse
<1>9. CASE Finish(s)
  <2>1. UNCHANGED streamVars /\ UNCHANGED files /\ UNCHANGED <<intervals, aborted, left>>
    BY <1>9 DEF Finish, budgets
  <2>2. \E r \in Results : Answers(s, r)
    BY <1>1, <1>9 DEF Finish
  <2> QED BY <2>1, <2>2, AnswersExact
<1>10. CASE CleanUp(s)
  <2>1. UNCHANGED streamVars /\ UNCHANGED files /\ UNCHANGED <<intervals, aborted, left>>
    BY <1>10 DEF CleanUp, budgets
  <2>2. After(s) \in {"removeMarker", "removeData", "releasing"} /\ Moves(s, After(s))
    BY <1>10 DEF CleanUp, After, At
  <2>3. After(s) \in PCs \ Growing
    BY <2>2, Steps DEF Growing
  <2> QED BY <2>1, <2>2, <2>3, MovesExact
<1> QED BY <1>3, <1>4, <1>5, <1>6, <1>7, <1>8, <1>9, <1>10

\* The same of the caller, and of what is kept of an operation.
LEMMA RecordSteps ==
  ASSUME Inv, Exact, NEW s \in Stores, Start(s) \/ Withdraw(s) \/ Begin(s) \/ Check(s)
  PROVE  Exact'
<1>1. op \in [Stores -> OpState] /\ aborted \in [Stores -> BOOLEAN] /\ left \in 0..Operations /\ Operations \in Nat
  BY StoreAssumption DEF Inv, Typed, Exact, Stored
<1>2. UNCHANGED streamVars /\ UNCHANGED files /\ UNCHANGED intervals
  BY DEF Start, Withdraw, Begin, Check
<1>3. aborted' \in [Stores -> BOOLEAN] /\ left' \in 0..Operations
  <2>1. CASE Start(s)
    BY <1>1, <2>1 DEF Start
  <2>2. CASE Withdraw(s) \/ Begin(s)
    BY <1>1, <2>2 DEF Withdraw, Begin, budgets
  <2>3. CASE Check(s)
    BY <1>1, <2>3 DEF Check
  <2> QED BY <2>1, <2>2, <2>3
<1>4. CASE Fail(s)
  <2>1. To(s, "draining", op[s].gen, op[s].owns, "failed")
    BY <1>1, <1>4, FailTo
  <2>2. "draining" \notin Growing
    BY DEF Growing
  <2> QED BY <1>2, <1>3, <2>1, <2>2, QuietTo
<1>5. CASE ~Fail(s)
  <2>1. \A t \in Stores : op'[t].pc \notin Growing \/ (op'[t].pc = op[t].pc /\ op'[t].gen = op[t].gen)
    <3>1. CASE Start(s)
      <4>1. PICK kind \in {"open", "install", "inspect"} :
              op' = [op EXCEPT ![s] = [Idle EXCEPT !.kind = kind, !.pc = "locking"]]
        BY <3>1 DEF Start
      <4>2. op'[s].pc = "locking" /\ \A t \in Stores \ {s} : op'[t] = op[t]
        BY <1>1, <4>1 DEF Idle
      <4> QED BY <4>2 DEF Growing
    <3>2. CASE Withdraw(s)
      <4>1. op'[s].pc = "idle" /\ \A t \in Stores \ {s} : op'[t] = op[t]
        BY <1>1, <3>2 DEF Withdraw, Idle
      <4> QED BY <4>1 DEF Growing
    <3>3. CASE Begin(s)
      <4>1. op'[s].pc = op[s].pc /\ op'[s].gen = op[s].gen /\ \A t \in Stores \ {s} : op'[t] = op[t]
        BY <1>1, <3>3 DEF Begin, OpState
      <4> QED BY <4>1
    <3>4. CASE Check(s)
      <4>1. op' = [op EXCEPT ![s].pc = "committed", ![s].owns = {}]
        BY <1>5, <3>4 DEF Check
      <4>2. op'[s].pc = "committed" /\ \A t \in Stores \ {s} : op'[t] = op[t]
        BY <1>1, <4>1 DEF OpState
      <4> QED BY <4>2 DEF Growing
    <3> QED BY <3>1, <3>2, <3>3, <3>4
  <2> QED BY <1>2, <1>3, <2>1, QuietExact
<1> QED BY <1>4, <1>5

\* Only the operation that holds the lock can be growing a payload.
LEMMA GrownAlone ==
  ASSUME Inv, NEW s \in Stores, op[s].pc \in Program \cup Mutation, \A t \in Stores \ {s} : op'[t] = op[t], Grown(s)'
  PROVE  \A t \in Stores : Grown(t)'
<1>1. \A t \in Stores \ {s} : op'[t].pc \in {"idle", "locking"}
  BY Alone
<1>2. \A t \in Stores \ {s} : Grown(t)'
  BY <1>1 DEF Grown, At
<1> QED BY <1>2

LEMMA EndOfSpansExact == ASSUME Inv, Exact, NEW s \in Stores, EndOfSpans(s) PROVE Exact'
<1>1. /\ op[s].pc = "streaming" /\ UNCHANGED streamVars /\ UNCHANGED files /\ UNCHANGED <<intervals, aborted, left>>
  BY DEF EndOfSpans, At, budgets
<1>2. CASE Fail(s)
  BY <1>1, <1>2, FailExact
<1>3. CASE Complete(op[s].gen) /\ Moves(s, "closeData")
  <2>1. active \in Sources /\ UpTo(Index, intervals, Len(payload[op[s].gen].data))
    BY <1>1 DEF Exact, Stored, Grown, At
  <2>2. Len(payload[op[s].gen].data) = Cardinality(active) /\ Describes(Index, active) /\ active \in SUBSET Frame
    BY <1>3, <2>1, SourceFacts DEF Complete
  <2>3. intervals = Index
    BY <2>1, <2>2, UpToEnd
  <2>4. To(s, "closeData", op[s].gen, op[s].owns, op[s].result)
    BY <1>3, Steps, MovesTo DEF Inv, Typed
  <2>5. op'[s].pc = "closeData" /\ \A t \in Stores \ {s} : op'[t] = op[t]
    BY <2>4 DEF To
  <2>6. UNCHANGED active /\ Index' = Index
    BY <1>1, FixedSource DEF files
  <2>7. Grown(s)'
    BY <1>1, <2>3, <2>5, <2>6 DEF Grown, At
  <2>8. op[s].pc \in Program \cup Mutation
    BY <1>1 DEF Program
  <2>9. \A t \in Stores : Grown(t)'
    BY <2>5, <2>7, <2>8, GrownAlone
  <2>10. Streamed'
    BY <1>1, <2>6, StreamedOn DEF Exact
  <2>11. Stored'
    <3>1. intervals' \in Seq(Interval) /\ aborted' \in [Stores -> BOOLEAN] /\ left' \in 0..Operations
      BY <1>1 DEF Exact, Stored
    <3> QED BY <1>1, <3>1, StoredOn DEF Exact
  <2> QED BY <2>9, <2>10, <2>11 DEF Exact
<1> QED BY <1>2, <1>3 DEF EndOfSpans

LEMMA NewGenerationExact == ASSUME Inv, Exact, NEW s \in Stores, NewGeneration(s) PROVE Exact'
<1>1. /\ op[s].pc = "admitting" /\ UNCHANGED streamVars /\ UNCHANGED files /\ UNCHANGED <<aborted, left>>
  BY DEF NewGeneration, At
<1>2. CASE Fail(s) /\ UNCHANGED intervals
  BY <1>1, <1>2, FailExact
<1>3. CASE \E g : op' = [op EXCEPT ![s].pc = "createData", ![s].gen = g] /\ intervals' = <<>>
  <2>1. op'[s].pc = "createData" /\ \A t \in Stores \ {s} : op'[t] = op[t]
    BY <1>3 DEF Inv, Typed, OpState
  <2>2. UNCHANGED <<iter, pull, packed, active>> /\ intervals' = <<>>
    BY <1>1, <1>3 DEF streamVars, files
  <2>3. iter = "open" /\ pull = "idle" /\ packed = 0
    BY <1>1 DEF Exact, Grown, At
  <2>4. Grown(s)'
    BY <2>1, <2>2, <2>3 DEF Grown, At
  <2>5. op[s].pc \in Program \cup Mutation
    BY <1>1 DEF Program
  <2>6. \A t \in Stores : Grown(t)'
    BY <2>1, <2>4, <2>5, GrownAlone
  <2>7. Streamed'
    BY <1>1, <2>2, StreamedOn DEF Exact
  <2>8. Stored'
    <3>1. intervals' \in Seq(Interval) /\ aborted' \in [Stores -> BOOLEAN] /\ left' \in 0..Operations
      BY <1>1, <2>2 DEF Exact, Stored
    <3> QED BY <1>1, <3>1, StoredOn DEF Exact
  <2> QED BY <2>6, <2>7, <2>8 DEF Exact
<1> QED BY <1>2, <1>3 DEF NewGeneration

\* The operation's signal, the caller's, and the close of the source.
LEMMA SignalExact ==
  ASSUME Inv, Exact, NEW s \in Stores, Abort(s) \/ AbortSource(s) \/ ReturnSource(s)
  PROVE  Exact'
<1>1. /\ UNCHANGED files /\ UNCHANGED <<intervals, left, op, active>>
      /\ UNCHANGED <<step, call, permit, epoch, manifest, chunk, job, fed, block, packed, span, pull>>
  BY DEF Abort, AbortSource, ReturnSource, Return, response, holdings, decoder, budgets, files
<1>2. Source' = Source /\ Index' = Index
  BY <1>1, FixedSource
<1>3. Stored'
  <2>1. CASE Abort(s)
    <3>1. aborted' \in [Stores -> BOOLEAN] /\ left' \in 0..Operations /\ intervals' \in Seq(Interval)
      BY <1>1, <2>1 DEF Abort, Exact, Stored
    <3> QED BY <1>1, <3>1, StoredOn DEF Exact
  <2>2. CASE AbortSource(s) \/ ReturnSource(s)
    <3>1. aborted' \in [Stores -> BOOLEAN] /\ left' \in 0..Operations /\ intervals' \in Seq(Interval)
      BY <1>1, <2>2 DEF AbortSource, ReturnSource, Exact, Stored
    <3> QED BY <1>1, <3>1, StoredOn DEF Exact
  <2> QED BY <2>1, <2>2
<1>4. signal' \in BOOLEAN
  <2>1. signal \in BOOLEAN
    BY DEF Exact, Streamed
  <2>2. CASE Abort(s)
    BY <2>2 DEF Abort
  <2>3. CASE AbortSource(s)
    BY <2>3 DEF AbortSource
  <2>4. CASE ReturnSource(s)
    BY <2>1, <2>4 DEF ReturnSource, Return
  <2> QED BY <2>2, <2>3, <2>4
<1>5. CASE Abort(s) \/ AbortSource(s)
  <2>1. UNCHANGED <<iter, closing>>
    BY <1>5 DEF Abort, AbortSource
  <2>2. Streamed'
    BY <1>1, <1>2, <1>4, <2>1 DEF Streamed, Exact
  <2>3. \A t \in Stores : Grown(t)'
    BY <1>1, <2>1, GrownOn DEF Exact, files
  <2> QED BY <1>3, <2>2, <2>3 DEF Exact
<1>6. CASE ReturnSource(s)
  <2>1. op[s].pc = "draining" /\ iter = "open" /\ iter' = "closing" /\ closing' = "decoder"
    BY <1>6 DEF ReturnSource, Return, At
  <2>2. Streamed'
    BY <1>1, <1>2, <1>4, <2>1 DEF Streamed, Exact
  <2>3. op'[s].pc = "draining" /\ \A t \in Stores \ {s} : op'[t] = op[t]
    BY <1>1, <2>1
  <2>4. Grown(s)'
    BY <2>3 DEF Grown, At
  <2>5. op[s].pc \in Program \cup Mutation
    BY <2>1 DEF Program
  <2>6. \A t \in Stores : Grown(t)'
    BY <2>3, <2>4, <2>5, GrownAlone
  <2> QED BY <1>3, <2>2, <2>6 DEF Exact
<1> QED BY <1>5, <1>6

LEMMA PullSpanExact == ASSUME Inv, Exact, NEW s \in Stores, PullSpan(s) PROVE Exact'
<1>1. /\ op[s].pc = "streaming" /\ pull = "idle" /\ iter = "open" /\ pull' = "running" /\ span' = NoSpan
      /\ UNCHANGED files /\ UNCHANGED <<intervals, left, aborted, op, active, payload>>
      /\ UNCHANGED <<iter, closing, step, call, permit, epoch, manifest, chunk, job, fed, block, packed, signal>>
  BY DEF PullSpan, Pull, At, response, holdings, budgets, files
<1>2. Source' = Source /\ Index' = Index
  BY <1>1, FixedSource
<1>3. Streamed'
  BY <1>1, <1>2 DEF Streamed, Exact
<1>4. Stored'
  <2>1. aborted' \in [Stores -> BOOLEAN] /\ left' \in 0..Operations /\ intervals' \in Seq(Interval)
    BY <1>1 DEF Exact, Stored
  <2> QED BY <1>1, <2>1, StoredOn DEF Exact
<1>5. Grown(s)'
  BY <1>1, <1>2 DEF Grown, At, Exact
<1>6. op[s].pc \in Program \cup Mutation
  BY <1>1 DEF Program
<1>7. \A t \in Stores : Grown(t)'
  BY <1>1, <1>5, <1>6, GrownAlone
<1> QED BY <1>3, <1>4, <1>7 DEF Exact

LEMMA TakeSpanExact == ASSUME Inv, Exact, NEW s \in Stores, TakeSpan(s) PROVE Exact'
<1>1. /\ op[s].pc = "streaming" /\ pull = "span" /\ pull' = "idle" /\ (Moves(s, "writeData") \/ Fail(s))
      /\ UNCHANGED files /\ UNCHANGED <<intervals, left, aborted, active, payload>>
      /\ UNCHANGED <<iter, closing, step, call, permit, epoch, manifest, chunk, job, fed, block, packed, signal, span>>
  BY DEF TakeSpan, At, response, holdings, decoder, files
<1>2. Source' = Source /\ Index' = Index
  BY <1>1, FixedSource
<1>3. Streamed'
  BY <1>1, <1>2 DEF Streamed, Exact
<1>4. Stored'
  <2>1. aborted' \in [Stores -> BOOLEAN] /\ left' \in 0..Operations /\ intervals' \in Seq(Interval)
    BY <1>1 DEF Exact, Stored
  <2> QED BY <1>1, <2>1, StoredOn DEF Exact
<1>5. PICK x \in {"writeData", "draining"} :
        op'[s].pc = x /\ op'[s].gen = op[s].gen /\ \A t \in Stores \ {s} : op'[t] = op[t]
  <2>1. op \in [Stores -> OpState] /\ "writeData" \in PCs
    BY Steps DEF Inv, Typed
  <2>2. CASE Moves(s, "writeData")
    BY <2>1, <2>2, MovesTo DEF To
  <2>3. CASE Fail(s)
    BY <2>1, <2>3, FailTo DEF To
  <2> QED BY <1>1, <2>2, <2>3
<1>6. Grown(s)'
  <2>1. CASE x = "draining"
    BY <1>5, <2>1 DEF Grown, At
  <2>2. CASE x = "writeData"
    BY <1>1, <1>2, <1>5, <2>2 DEF Grown, At, Due, Exact
  <2> QED BY <2>1, <2>2
<1>7. op[s].pc \in Program \cup Mutation
  BY <1>1 DEF Program
<1>8. \A t \in Stores : Grown(t)'
  BY <1>5, <1>6, <1>7, GrownAlone
<1> QED BY <1>3, <1>4, <1>8 DEF Exact

LEMMA ResolveSourceExact == ASSUME Inv, Exact, NEW s \in Stores, ResolveSource(s) PROVE Exact'
<1>1. /\ op[s].pc = "resolving" /\ UNCHANGED files /\ UNCHANGED <<intervals, left, aborted, active>>
  BY DEF ResolveSource, At, budgets, files
<1>2. CASE Fail(s) /\ UNCHANGED streamVars
  BY <1>1, <1>2, FailExact
<1>3. CASE Moves(s, "admitting") /\ Resolve(Source)
  <2>1. Source' = Source /\ Index' = Index
    BY <1>1, FixedSource
  <2>2. active \in Sources /\ PackedFrames(Source.intervals) \in Nat /\ Len(Source.chunks) \in Nat
    BY SourceFacts DEF Exact, Stored
  <2>3. Streamed'
    <3>1. /\ iter' = "open" /\ epoch' = TRUE /\ manifest' = Source
          /\ closing' = "none" /\ pull' = "idle" /\ step' = "admission" /\ call' = "none"
          /\ permit' = FALSE /\ signal' = FALSE
          /\ chunk' = 1 /\ job' = "none" /\ fed' = FALSE /\ block' = 0 /\ packed' = 0 /\ span' = NoSpan
      BY <1>3 DEF Resolve
    <3>2. manifest' = (IF iter' \in {"open", "closing"} THEN Source' ELSE NoManifest)
      BY <2>1, <3>1
    <3>3. chunk' \in 1..(Len(manifest'.chunks) + 1) /\ packed' \in 0..PackedFrames(manifest'.intervals)
      BY <2>2, <3>1
    <3>4. {permit', epoch', signal', fed'} \subseteq BOOLEAN
      BY <3>1
    <3> QED BY <3>1, <3>2, <3>3, <3>4 DEF Streamed
  <2>4. Stored'
    <3>1. aborted' \in [Stores -> BOOLEAN] /\ left' \in 0..Operations /\ intervals' \in Seq(Interval)
      BY <1>1 DEF Exact, Stored
    <3> QED BY <1>1, <3>1, StoredOn DEF Exact
  <2>5. op'[s].pc = "admitting" /\ \A t \in Stores \ {s} : op'[t] = op[t]
    BY <1>3, Steps, MovesTo DEF Inv, Typed, To
  <2>6. Grown(s)'
    BY <1>3, <2>5 DEF Grown, At, Resolve
  <2>7. op[s].pc \in Program \cup Mutation
    BY <1>1 DEF Program
  <2>8. \A t \in Stores : Grown(t)'
    BY <2>5, <2>6, <2>7, GrownAlone
  <2> QED BY <2>3, <2>4, <2>8 DEF Exact
<1> QED BY <1>2, <1>3 DEF ResolveSource

LEMMA ReleaseExact == ASSUME Inv, Exact, NEW s \in Stores, Release(s) PROVE Exact'
<1>1. /\ op[s].pc = "releasing" /\ op' = [op EXCEPT ![s] = Idle] /\ iter' = "none" /\ pull' = "idle" /\ intervals' = <<>>
      /\ UNCHANGED files /\ UNCHANGED <<left, aborted, active>>
      /\ UNCHANGED <<closing, step, call, permit, epoch, manifest, signal, chunk, job, fed, block, packed, span>>
  BY DEF Release, At, response, holdings, decoder, budgets, files
<1>2. op[s].pc \in Program \cup Mutation
  BY <1>1 DEF Program
<1>3. iter \notin {"open", "closing"}
  BY <1>1, <1>2, Alone DEF Inv, Owned, Reading
<1>4. Source' = Source /\ Index' = Index
  BY <1>1, FixedSource
<1>5. Streamed'
  BY <1>1, <1>3, <1>4 DEF Streamed, Exact
<1>6. Stored'
  <2>1. aborted' \in [Stores -> BOOLEAN] /\ left' \in 0..Operations /\ intervals' \in Seq(Interval)
    BY <1>1 DEF Exact, Stored
  <2> QED BY <1>1, <2>1, StoredOn DEF Exact
<1>7. op'[s].pc = "idle" /\ \A t \in Stores \ {s} : op'[t] = op[t]
  BY <1>1, IdleState DEF Inv, Typed
<1>8. Grown(s)'
  BY <1>7 DEF Grown, At
<1>9. \A t \in Stores : Grown(t)'
  BY <1>2, <1>7, <1>8, GrownAlone
<1> QED BY <1>5, <1>6, <1>9 DEF Exact

\* What the steps of the stream leave to the operation.
LEMMA StreamGrown ==
  ASSUME Inv, Exact, StreamSteps, UNCHANGED <<op, intervals, active, payload>>, NEW s \in Stores
  PROVE  Grown(s)'
<1>1. Index' = Index /\ Grown(s) /\ (iter = "closing" <=> closing # "none")
  BY FixedSource DEF Exact, Inv, Holding
<1>2. CASE Admit \/ StartChunk \/ JobReads \/ JobResolves \/ TakeBlock \/ ChunkEnds \/ AssertEof \/ CloseDecoder \/ CloseResponse
  <2>1. UNCHANGED <<iter, pull, packed, span>>
    BY <1>2 DEF Admit, StartChunk, JobReads, JobResolves, TakeBlock, ChunkEnds, AssertEof, CloseDecoder, CloseResponse, decoder
  <2> QED BY <1>1, <2>1, GrownOn
<1>3. CASE PullFails \/ Settles
  <2>1. UNCHANGED <<packed, span>>
    BY <1>3 DEF PullFails, Settles, decoder
  <2>2. \/ UNCHANGED <<iter, pull>>
        \/ pull = "running" /\ iter = "open" /\ pull' \in {"done", "failed"} /\ iter' = "closing"
    BY <1>3 DEF PullFails, Settles, Continue, Ended, Running
  <2>3. CASE UNCHANGED <<iter, pull>>
    BY <1>1, <2>1, <2>3, GrownOn
  <2>4. CASE pull = "running" /\ iter = "open" /\ pull' \in {"done", "failed"} /\ iter' = "closing"
    BY <1>1, <2>4 DEF Grown, At
  <2> QED BY <2>2, <2>3, <2>4
<1>4. CASE EmitSpan
  <2>1. /\ pull = "running" /\ iter = "open" /\ ~Exhausted /\ span' = NextSpan(manifest.intervals, packed, block)
        /\ packed' = packed + span'.frames /\ pull' = "span" /\ iter' = iter
    BY <1>4 DEF EmitSpan, Running
  <2>2. Streamed /\ active \in Sources
    BY DEF Exact, Stored
  <2>3. /\ manifest.intervals = Index /\ Describes(Index, active) /\ active \in SUBSET Frame
        /\ packed \in Nat /\ block \in Nat /\ packed < block /\ block <= PackedFrames(Index)
    <3>1. manifest.intervals = Index /\ Describes(Index, active) /\ active \in SUBSET Frame /\ PackedFrames(Index) \in Nat
      BY <2>1, <2>2, ManifestFacts, SourceFacts
    <3>2. packed \in 0..PackedFrames(Index) /\ block \in packed..PackedFrames(Index) /\ packed # block
      BY <2>1, <2>2, <3>1 DEF Streamed, Exhausted
    <3> QED BY <3>1, <3>2
  <2>4. PartOf(Index, span') /\ span'.at = packed /\ span'.frames \in Nat
    BY <2>1, <2>3, SpanIsPart
  <2>5. CASE op[s].pc = "streaming"
    <3>1. packed = Len(payload[op[s].gen].data) /\ UpTo(Index, intervals, Len(payload[op[s].gen].data))
      <4>1. packed = Len(payload[op[s].gen].data) + 0 /\ UpTo(Index, intervals, Len(payload[op[s].gen].data))
        BY <1>1, <2>1, <2>5 DEF Grown, At
      <4> QED BY <4>1 DEF UpTo
    <3> QED BY <1>1, <2>1, <2>4, <2>5, <3>1 DEF Grown, At, Due
  <2>6. CASE op[s].pc # "streaming"
    BY <1>1, <2>1, <2>6 DEF Grown, At
  <2> QED BY <2>5, <2>6
<1>5. CASE CloseEpoch
  <2>1. iter = "closing" /\ iter' = "closed" /\ pull' = pull
    BY <1>1, <1>5 DEF CloseEpoch
  <2> QED BY <1>1, <2>1 DEF Grown, At
<1> QED BY <1>2, <1>3, <1>4, <1>5 DEF StreamSteps

LEMMA StreamStreamed ==
  ASSUME Inv, Exact, StreamSteps, UNCHANGED active
  PROVE  Streamed'
<1>1. Source' = Source /\ Index' = Index /\ Streamed /\ active \in Sources
  BY FixedSource DEF Exact, Stored
<1>2. /\ Len(manifest.chunks) \in Nat /\ PackedFrames(manifest.intervals) \in Nat
      /\ iter = "open" => manifest = Source /\ manifest.intervals = Index
  BY <1>1, ManifestFacts
<1>3. packed \in 0..PackedFrames(manifest.intervals) /\ chunk \in 1..(Len(manifest.chunks) + 1)
  BY <1>1 DEF Streamed
<1>4. iter = "closing" <=> closing # "none"
  BY DEF Inv, Holding
<1>5. CASE PullFails \/ Admit \/ Settles
  <2>1. UNCHANGED <<manifest, chunk, job, block, packed, span, epoch, signal>>
    BY <1>5 DEF PullFails, Admit, Settles, holdings, decoder
  <2>2. \/ UNCHANGED <<iter, pull, closing>>
        \/ iter = "open" /\ pull' \in {"done", "failed"} /\ iter' = "closing" /\ closing' = "decoder"
    BY <1>5 DEF PullFails, Admit, Settles, Continue, Ended, Running
  <2>3. /\ step' \in {"admission", "locator", "headers", "manifest", "feed", "eof"}
        /\ call' \in {"none", "locator", "fetch", "read"} /\ permit' \in BOOLEAN
    <3>1. CASE PullFails \/ Admit
      BY <1>1, <3>1 DEF PullFails, Admit, response, Streamed
    <3>2. CASE Settles
      BY <1>1, <3>2 DEF Settles, Continue, Streamed
    <3> QED BY <1>5, <3>1, <3>2
  <2>4. fed' \in BOOLEAN
    <3>1. fed \in BOOLEAN
      BY <1>1 DEF Streamed
    <3>2. CASE PullFails \/ Admit
      BY <3>1, <3>2 DEF PullFails, Admit, decoder
    <3>3. CASE Settles
      <4>1. fed' = fed \/ fed' = (fed \/ (step = "feed" /\ job # "none"))
        BY <3>3 DEF Settles
      <4> QED BY <3>1, <4>1
    <3> QED BY <1>5, <3>2, <3>3
  <2>5. manifest' = (IF iter' \in {"open", "closing"} THEN Source' ELSE NoManifest)
    BY <1>1, <2>1, <2>2 DEF Streamed
  <2> QED BY <1>1, <2>1, <2>2, <2>3, <2>4, <2>5 DEF Streamed
<1>6. CASE EmitSpan
  <2>1. /\ iter = "open" /\ ~Exhausted /\ span' = NextSpan(manifest.intervals, packed, block)
        /\ packed' = packed + span'.frames /\ pull' = "span"
        /\ UNCHANGED <<iter, closing, step, call, permit, epoch, manifest, signal, chunk, job, fed, block>>
    BY <1>6 DEF EmitSpan, Running, response, holdings
  <2>2. /\ Describes(Index, active) /\ active \in SUBSET Frame /\ manifest.intervals = Index
        /\ packed \in Nat /\ block \in Nat /\ packed < block /\ block <= PackedFrames(Index) /\ PackedFrames(Index) \in Nat
    <3>1. manifest.intervals = Index /\ Describes(Index, active) /\ active \in SUBSET Frame /\ PackedFrames(Index) \in Nat
      BY <1>1, <1>2, <2>1, SourceFacts
    <3>2. packed \in 0..PackedFrames(Index) /\ block \in packed..PackedFrames(Index) /\ packed # block
      BY <1>1, <2>1, <3>1 DEF Streamed, Exhausted
    <3> QED BY <3>1, <3>2
  <2>3. PartOf(Index, span') /\ span'.frames \in 1..MaxSpanFrames /\ packed + span'.frames <= block /\ span'.frames \in Nat
    BY <2>1, <2>2, SpanIsPart
  <2>4. span'.frames <= MaxSpanFrames
    BY <2>3, PcmAssumption
  <2>5. packed' \in 0..PackedFrames(manifest.intervals) /\ block \in packed'..PackedFrames(manifest.intervals)
    BY <2>1, <2>2, <2>3
  <2> QED BY <1>1, <2>1, <2>3, <2>4, <2>5 DEF Streamed
<1>7. CASE StartChunk \/ JobReads \/ JobResolves \/ AssertEof
  <2>1. UNCHANGED <<iter, closing, pull, permit, epoch, manifest, signal, chunk, packed, span>>
    BY <1>7 DEF StartChunk, JobReads, JobResolves, AssertEof, response, holdings, decoder
  <2>2. /\ step' \in {"admission", "locator", "headers", "manifest", "feed", "eof"}
        /\ call' \in {"none", "locator", "fetch", "read"} /\ fed' \in BOOLEAN
    BY <1>1, <1>7 DEF StartChunk, JobReads, JobResolves, AssertEof, response, decoder, Streamed
  <2>3. /\ job' \in {"none", "resolving", "output"} /\ (job' # "none" => chunk <= Len(manifest.chunks))
        /\ block' = 0 \/ block' = block
    BY <1>1, <1>7 DEF StartChunk, JobReads, JobResolves, AssertEof, decoder, Streamed
  <2> QED BY <1>1, <2>1, <2>2, <2>3 DEF Streamed
<1>8. CASE TakeBlock
  <2>1. /\ iter = "open" /\ job = "output" /\ packed < ChunkEnd(chunk) /\ block' \in (packed + 1)..ChunkEnd(chunk)
        /\ UNCHANGED <<iter, closing, pull, step, call, permit, epoch, manifest, signal, chunk, job, fed, packed, span>>
    BY <1>8 DEF TakeBlock, Running, response, holdings
  <2>2. chunk \in 1..Len(Source.chunks) /\ manifest = Source
    BY <1>1, <1>2, <1>3, <2>1 DEF Streamed
  <2>3. ChunkEnd(chunk) \in Nat /\ ChunkEnd(chunk) <= PackedFrames(Source.intervals)
    <3>1. /\ Source.chunks[chunk].at \in Nat /\ Source.chunks[chunk].frames \in Nat
          /\ Source.chunks[chunk].at + Source.chunks[chunk].frames <= Cardinality(active)
          /\ PackedFrames(Source.intervals) = Cardinality(active)
      BY <1>1, <2>2, SourceFacts
    <3> QED BY <2>2, <3>1 DEF ChunkEnd
  <2>4. block' \in packed..PackedFrames(manifest.intervals)
    BY <1>2, <1>3, <2>1, <2>2, <2>3
  <2> QED BY <1>1, <2>1, <2>4 DEF Streamed
<1>9. CASE ChunkEnds
  <2>1. /\ job = "output" /\ job' = "none" /\ block' = 0 /\ chunk' = chunk + 1
        /\ UNCHANGED <<iter, closing, pull, step, call, permit, epoch, manifest, signal, fed, packed, span>>
    BY <1>9 DEF ChunkEnds, response, holdings
  <2>2. chunk' \in 1..(Len(manifest.chunks) + 1)
    <3>1. chunk <= Len(manifest.chunks)
      BY <1>1, <2>1 DEF Streamed
    <3> QED BY <1>2, <1>3, <2>1, <3>1
  <2> QED BY <1>1, <2>1, <2>2 DEF Streamed
<1>10. CASE CloseDecoder \/ CloseResponse
  <2>1. UNCHANGED <<iter, pull, step, call, epoch, manifest, chunk, fed, packed, span>>
    BY <1>10 DEF CloseDecoder, CloseResponse, response, holdings, decoder
  <2>2. /\ closing' \in {"response", "epoch"} /\ (job' = "none" \/ job' = job) /\ (block' = 0 \/ block' = block)
        /\ (permit' = FALSE \/ permit' = permit) /\ (signal' = TRUE \/ signal' = signal)
    BY <1>10 DEF CloseDecoder, CloseResponse, response, holdings, decoder
  <2>3. permit' \in BOOLEAN /\ signal' \in BOOLEAN
    <3>1. permit \in BOOLEAN /\ signal \in BOOLEAN
      BY <1>1 DEF Streamed
    <3> QED BY <2>2, <3>1
  <2> QED BY <1>1, <2>1, <2>2, <2>3 DEF Streamed
<1>11. CASE CloseEpoch
  <2>1. iter' = "closed" /\ pull' = pull /\ Forget
    BY <1>11 DEF CloseEpoch
  <2>2. /\ closing' = "none" /\ step' = "admission" /\ call' = "none" /\ permit' = FALSE
        /\ epoch' = FALSE /\ signal' = FALSE /\ manifest' = NoManifest /\ chunk' = 1
        /\ job' = "none" /\ fed' = FALSE /\ block' = 0 /\ packed' = 0 /\ span' = NoSpan
    BY <2>1 DEF Forget
  <2>3. chunk' \in 1..(Len(manifest'.chunks) + 1) /\ packed' \in 0..PackedFrames(manifest'.intervals)
    BY <2>2, NoManifestFacts
  <2>4. manifest' = (IF iter' \in {"open", "closing"} THEN Source' ELSE NoManifest)
    BY <2>1, <2>2
  <2>5. {permit', epoch', signal', fed'} \subseteq BOOLEAN /\ pull' \in {"idle", "running", "span", "done", "failed"}
    BY <1>1, <2>1, <2>2 DEF Streamed
  <2> QED BY <2>2, <2>3, <2>4, <2>5 DEF Streamed
<1> QED BY <1>5, <1>6, <1>7, <1>8, <1>9, <1>10, <1>11 DEF StreamSteps

LEMMA StreamExact == ASSUME Inv, Exact, Stream PROVE Exact'
<1>1. StreamSteps /\ UNCHANGED files /\ UNCHANGED <<op, intervals, aborted, left, active, payload>>
  BY DEF Stream, files, budgets
<1>2. Stored'
  <2>1. aborted' \in [Stores -> BOOLEAN] /\ left' \in 0..Operations /\ intervals' \in Seq(Interval)
    BY <1>1 DEF Exact, Stored
  <2> QED BY <1>1, <2>1, StoredOn DEF Exact
<1>3. Streamed' /\ \A s \in Stores : Grown(s)'
  BY <1>1, StreamStreamed, StreamGrown
<1> QED BY <1>2, <1>3 DEF Exact

LEMMA SeqMade ==
  ASSUME NEW S, NEW n \in Nat, NEW w, w = [k \in 1..n |-> w[k]], \A k \in 1..n : w[k] \in S
  PROVE  w \in Seq(S) /\ Len(w) = n
OBVIOUS

LEMMA SeqJoined ==
  ASSUME NEW S, NEW c \in Seq(S), NEW w \in Seq(S)
  PROVE  c \o w \in Seq(S) /\ Len(c \o w) = Len(c) + Len(w)
OBVIOUS

\* What a span writes.
LEMMA Written ==
  ASSUME PartOf(Index, span), NEW good \in BOOLEAN
  PROVE  LET w == [k \in 1..span.frames |-> IF good THEN Sample(span.start + k - 1) ELSE Silence]
         IN w \in Seq(0..Frames) /\ Len(w) = span.frames /\ span.frames \in Nat
<1> DEFINE w == [k \in 1..span.frames |-> IF good THEN Sample(span.start + k - 1) ELSE Silence]
<1>1. span.start \in Nat /\ span.frames \in Nat /\ span.start + span.frames <= Frames /\ Frames \in Nat
  <2>1. span \in Interval /\ End(span) <= Frames /\ Frames \in Nat
    BY PcmAssumption DEF PartOf
  <2> QED BY <2>1 DEF Interval, Frame, End
<1>2. \A k \in 1..span.frames : w[k] \in 0..Frames
  BY <1>1 DEF Sample, Silence
<1>3. w = [k \in 1..span.frames |-> w[k]]
  OBVIOUS
<1> HIDE DEF w
<1>4. w \in Seq(0..Frames) /\ Len(w) = span.frames
  BY <1>1, <1>2, <1>3, SeqMade
<1> QED BY <1>1, <1>4 DEF w

\* A mutation that takes effect leaves a marker and payloads of their types, a
\* whole marker with the index, and the written frames after the others.
LEMMA MutationExact ==
  ASSUME Inv, Exact, NEW m \in muts, NEW good \in BOOLEAN, AfterMutation(m, good)
  PROVE  /\ active' = active
         /\ marker' \in [state : {"none", "partial", "valid"}, gen : 0..Generations, index : Seq(Interval)]
         /\ marker'.state = "valid" => marker'.index = Index
         /\ \A g \in Gen : payload'[g].there \in BOOLEAN /\ payload'[g].data \in Seq(0..Frames)
         /\ m.op = "createData" => payload'[m.gen].data = <<>>
         /\ m.op = "writeData" => Len(payload'[m.gen].data) = Len(payload[m.gen].data) + span.frames
         /\ m.op \notin {"createData", "writeData", "removeData"} => payload' = payload
<1>1. /\ m.by \in Stores /\ m.op \in Mutation /\ m.op = op[m.by].pc /\ m.gen = op[m.by].gen /\ m.gen \in Gen
  BY PendingFacts
<1>2. /\ Stored /\ Grown(m.by) /\ DOMAIN payload = Gen /\ \A g \in Gen : DOMAIN payload[g] = {"there", "data"}
  BY <1>1 DEF Exact, Inv, Typed
<1>3. m.gen \in 0..Generations /\ 0 \in 0..Generations
  BY <1>1, StoreAssumption DEF Gen
<1>4. <<>> \in Seq(Interval) /\ <<>> \in Seq(0..Frames)
  OBVIOUS
<1>5. /\ marker' \in [state : {"none", "partial", "valid"}, gen : 0..Generations, index : Seq(Interval)]
      /\ marker'.state = "valid" => marker'.index = Index
  <2>1. marker' = (CASE m.op = "createMarker" -> [state |-> "partial", gen |-> m.gen, index |-> <<>>]
                     [] m.op = "writeMarker"  -> [state |-> "valid", gen |-> m.gen, index |-> intervals]
                     [] m.op = "removeMarker" -> NoMarker
                     [] OTHER -> marker)
    BY DEF AfterMutation
  <2>2. CASE m.op = "createMarker"
    BY <1>3, <1>4, <2>1, <2>2
  <2>3. CASE m.op = "writeMarker"
    <3>1. intervals = Index /\ intervals \in Seq(Interval)
      BY <1>1, <1>2, <2>3 DEF Grown, At, Stored
    <3> QED BY <1>3, <2>1, <2>3, <3>1
  <2>4. CASE m.op = "removeMarker"
    BY <1>3, <1>4, <2>1, <2>4 DEF NoMarker
  <2>5. CASE m.op \notin {"createMarker", "writeMarker", "removeMarker"}
    BY <1>2, <2>1, <2>5 DEF Stored
  <2> QED BY <2>2, <2>3, <2>4, <2>5
<1> DEFINE w == [k \in 1..span.frames |-> IF good THEN Sample(span.start + k - 1) ELSE Silence]
<1>6. payload' = (CASE m.op = "createData" -> [payload EXCEPT ![m.gen] = [there |-> TRUE, data |-> <<>>]]
                    [] m.op = "writeData"  -> [payload EXCEPT ![m.gen].data = payload[m.gen].data \o w]
                    [] m.op = "removeData" -> [payload EXCEPT ![m.gen] = Absent]
                    [] OTHER -> payload)
  BY DEF AfterMutation
<1>7. m.op = "writeData" => w \in Seq(0..Frames) /\ Len(w) = span.frames /\ span.frames \in Nat
  <2>1. m.op = "writeData" => PartOf(Index, span)
    BY <1>1, <1>2 DEF Grown, At, Due
  <2> QED BY <2>1, Written
<1> HIDE DEF w
<1>8. /\ \A g \in Gen : payload'[g].there \in BOOLEAN /\ payload'[g].data \in Seq(0..Frames)
      /\ m.op = "createData" => payload'[m.gen].data = <<>>
      /\ m.op = "writeData" => Len(payload'[m.gen].data) = Len(payload[m.gen].data) + span.frames
      /\ m.op \notin {"createData", "writeData", "removeData"} => payload' = payload
  <2>0. \A g \in Gen : payload[g].there \in BOOLEAN /\ payload[g].data \in Seq(0..Frames)
    BY <1>2 DEF Stored
  <2>1. CASE m.op = "createData"
    BY <1>1, <1>2, <1>4, <1>6, <2>0, <2>1
  <2>2. CASE m.op = "writeData"
    <3> DEFINE d == payload[m.gen].data \o w
    <3>1. d \in Seq(0..Frames) /\ Len(d) = Len(payload[m.gen].data) + span.frames
      <4> DEFINE c == payload[m.gen].data
                 S == 0..Frames
      <4>1. c \in Seq(S) /\ w \in Seq(S) /\ Len(w) = span.frames
        BY <1>1, <1>7, <2>0, <2>2
      <4> HIDE DEF c, S
      <4>2. c \o w \in Seq(S) /\ Len(c \o w) = Len(c) + Len(w)
        BY <4>1, SeqJoined
      <4> QED BY <4>1, <4>2 DEF c, S
    <3>2. payload' = [payload EXCEPT ![m.gen].data = d]
      BY <1>6, <2>2
    <3> HIDE DEF d
    <3>3. /\ payload'[m.gen].data = d /\ payload'[m.gen].there = payload[m.gen].there
          /\ \A g \in Gen : g # m.gen => payload'[g] = payload[g]
      BY <1>1, <1>2, <3>2
    <3> QED BY <1>1, <2>0, <2>2, <3>1, <3>3
  <2>3. CASE m.op = "removeData"
    BY <1>1, <1>2, <1>4, <1>6, <2>0, <2>3 DEF Absent
  <2>4. CASE m.op \notin {"createData", "writeData", "removeData"}
    BY <1>6, <2>0, <2>4
  <2> QED BY <2>1, <2>2, <2>3, <2>4
<1>9. active' = active
  BY DEF AfterMutation
<1> QED BY <1>5, <1>8, <1>9

LEMMA LandsExact == ASSUME Inv, Exact, NEW s \in Stores, Lands(s) PROVE Exact'
<1>1. PICK m \in muts :
        /\ m.by = s
        /\ \E good \in BOOLEAN : AfterMutation(m, good)
        /\ IF aborted[s] /\ m.op \notin Removal
             THEN Fail(s) /\ UNCHANGED intervals
             ELSE /\ Moves(s, After(s))
                  /\ intervals' = IF m.op = "writeData" THEN Coalesce(intervals, span) ELSE intervals
        /\ UNCHANGED streamVars /\ UNCHANGED <<aborted, left>>
  BY DEF Lands
<1>2. /\ m.op = op[s].pc /\ m.gen = op[s].gen /\ m.op \in Mutation /\ op[s].pc \in Program \cup Mutation
  BY <1>1, PendingFacts
<1>3. /\ active' = active
      /\ marker' \in [state : {"none", "partial", "valid"}, gen : 0..Generations, index : Seq(Interval)]
      /\ marker'.state = "valid" => marker'.index = Index
      /\ \A g \in Gen : payload'[g].there \in BOOLEAN /\ payload'[g].data \in Seq(0..Frames)
      /\ m.op = "createData" => payload'[m.gen].data = <<>>
      /\ m.op = "writeData" => Len(payload'[m.gen].data) = Len(payload[m.gen].data) + span.frames
      /\ m.op \notin {"createData", "writeData", "removeData"} => payload' = payload
  BY <1>1, MutationExact
<1>4. Index' = Index /\ Stored /\ Grown(s) /\ Streamed' /\ op \in [Stores -> OpState]
  BY <1>1, <1>3, FixedSource, StreamedOn DEF Exact, Inv, Typed
<1>5. UNCHANGED <<iter, pull, packed, span>>
  BY <1>1 DEF streamVars
<1>6. CASE Fail(s) /\ UNCHANGED intervals
  <2>1. op'[s].pc = "draining" /\ \A t \in Stores \ {s} : op'[t] = op[t]
    BY <1>4, <1>6, FailTo DEF To
  <2>2. Grown(s)'
    BY <2>1 DEF Grown, At
  <2>3. \A t \in Stores : Grown(t)'
    BY <1>2, <2>1, <2>2, GrownAlone
  <2>4. Stored'
    BY <1>1, <1>3, <1>4, <1>6 DEF Stored
  <2> QED BY <1>4, <2>3, <2>4 DEF Exact
<1>7. CASE /\ Moves(s, After(s))
           /\ intervals' = IF m.op = "writeData" THEN Coalesce(intervals, span) ELSE intervals
  <2>1. After(s) \in PCs
    BY <1>1, AfterSteps, Steps
  <2>2. op'[s].pc = After(s) /\ op'[s].gen = m.gen /\ \A t \in Stores \ {s} : op'[t] = op[t]
    BY <1>2, <1>4, <1>7, <2>1, MovesTo DEF To
  <2> DEFINE d == Len(payload[m.gen].data)
  <2>3. CASE m.op = "createData"
    <3>1. After(s) = "streaming"
      BY <1>2, <2>3 DEF After, At
    <3>2. /\ intervals = <<>> /\ iter = "open" /\ pull = "idle" /\ packed = 0
      BY <1>2, <1>4, <2>3 DEF Grown, At
    <3>3. intervals' = <<>> /\ Len(payload'[m.gen].data) = 0
      BY <1>3, <1>7, <2>3, <3>2
    <3>4. UpTo(Index, <<>>, 0)
      <4>1. Len(Index) \in Nat
        BY <1>4, SourceFacts, DescribedPacked DEF Stored
      <4> QED BY <4>1 DEF UpTo
    <3>5. Grown(s)'
      BY <1>4, <1>5, <2>2, <3>1, <3>2, <3>3, <3>4 DEF Grown, At
    <3>6. \A t \in Stores : Grown(t)'
      BY <1>2, <2>2, <3>5, GrownAlone
    <3>7. Stored'
      <4>1. intervals' \in Seq(Interval)
        BY <3>3
      <4> QED BY <1>1, <1>3, <1>4, <4>1 DEF Stored
    <3> QED BY <1>4, <3>6, <3>7 DEF Exact
  <2>4. CASE m.op = "writeData"
    <3>1. After(s) = "streaming"
      BY <1>2, <2>4 DEF After, At
    <3>2. /\ iter = "open" /\ pull = "idle" /\ PartOf(Index, span) /\ span.at = d /\ packed = d + span.frames
          /\ UpTo(Index, intervals, d)
      BY <1>2, <1>4, <2>4 DEF Grown, At, Due
    <3>3. UpTo(Index, Coalesce(intervals, span), d + span.frames)
      <4>1. Describes(Index, active) /\ active \in SUBSET Frame
        BY <1>4, SourceFacts DEF Stored
      <4> HIDE DEF d
      <4> QED BY <3>2, <4>1, SpanExtends
    <3>4. /\ intervals' = Coalesce(intervals, span) /\ Len(payload'[m.gen].data) = d + span.frames
          /\ d + span.frames \in Nat
      <4>1. d + span.frames \in Nat
        BY <3>3 DEF UpTo
      <4> QED BY <1>3, <1>7, <2>4, <4>1
    <3> HIDE DEF d
    <3>5. Grown(s)'
      <4>1. op'[s].pc = "streaming"
        BY <2>2, <3>1
      <4>2. UpTo(Index', intervals', Len(payload'[op'[s].gen].data))
        BY <1>4, <2>2, <3>3, <3>4
      <4>3. packed' = Len(payload'[op'[s].gen].data) + 0
        BY <1>5, <2>2, <3>2, <3>4
      <4> QED BY <1>5, <3>2, <4>1, <4>2, <4>3 DEF Grown, At
    <3>6. \A t \in Stores : Grown(t)'
      BY <1>2, <2>2, <3>5, GrownAlone
    <3>7. Stored'
      <4>1. intervals' \in Seq(Interval)
        BY <3>3, <3>4 DEF UpTo
      <4> QED BY <1>1, <1>3, <1>4, <4>1 DEF Stored
    <3> QED BY <1>4, <3>6, <3>7 DEF Exact
  <2>5. CASE m.op \notin {"createData", "writeData"}
    <3>1. intervals' = intervals
      BY <1>7, <2>5
    <3>2. /\ m.op \in {"closeData", "createMarker", "writeMarker", "closeMarker"} => payload' = payload
      BY <1>3
    <3>3. \/ m.op = "closeData" /\ After(s) = "createMarker"
          \/ m.op = "createMarker" /\ After(s) = "writeMarker"
          \/ After(s) \notin Growing
      BY <1>2, <2>5 DEF After, At, Growing, Mutation, Removal
    <3>4. Grown(s)'
      <4>1. CASE After(s) \notin Growing
        BY <2>2, <4>1 DEF Grown, At, Growing
      <4>2. CASE m.op \in {"closeData", "createMarker"} /\ After(s) \in {"createMarker", "writeMarker"}
        <5>1. intervals = Index
          BY <1>2, <1>4, <4>2 DEF Grown, At
        <5> QED BY <1>4, <2>2, <3>1, <4>2, <5>1 DEF Grown, At
      <4> QED BY <3>3, <4>1, <4>2
    <3>5. \A t \in Stores : Grown(t)'
      BY <1>2, <2>2, <3>4, GrownAlone
    <3>6. Stored'
      BY <1>1, <1>3, <1>4, <3>1 DEF Stored
    <3> QED BY <1>4, <3>5, <3>6 DEF Exact
  <2> QED BY <2>3, <2>4, <2>5
<1> QED BY <1>1, <1>6, <1>7

LEMMA LandsFailedExact == ASSUME Inv, Exact, NEW s \in Stores, LandsFailed(s) PROVE Exact'
<1>1. PICK m \in muts :
        /\ m.by = s
        /\ UNCHANGED files \/ AfterMutation(m, TRUE)
        /\ IF m.op \in Removal THEN Answers(s, "failed") ELSE Fail(s)
        /\ UNCHANGED streamVars /\ UNCHANGED <<intervals, aborted, left>>
  BY DEF LandsFailed
<1>2. op[s].pc \in Program \cup Mutation /\ op \in [Stores -> OpState] /\ "failed" \in Results
  BY <1>1, PendingFacts DEF Inv, Typed, Results
<1>3. op'[s].pc \in {"draining", "releasing"} /\ \A t \in Stores \ {s} : op'[t] = op[t]
  BY <1>1, <1>2, FailTo, AnswersTo DEF To
<1>4. Grown(s)'
  BY <1>3 DEF Grown, At
<1>5. \A t \in Stores : Grown(t)'
  BY <1>2, <1>3, <1>4, GrownAlone
<1>6. Stored' /\ active' = active
  <2>1. CASE UNCHANGED files
    <3>1. intervals' \in Seq(Interval) /\ aborted' \in [Stores -> BOOLEAN] /\ left' \in 0..Operations
      BY <1>1 DEF Exact, Stored
    <3> QED BY <2>1, <3>1, StoredOn DEF Exact, files
  <2>2. CASE AfterMutation(m, TRUE)
    <3>1. /\ active' = active
          /\ marker' \in [state : {"none", "partial", "valid"}, gen : 0..Generations, index : Seq(Interval)]
          /\ marker'.state = "valid" => marker'.index = Index
          /\ \A g \in Gen : payload'[g].there \in BOOLEAN /\ payload'[g].data \in Seq(0..Frames)
      BY <2>2, MutationExact
    <3> QED BY <1>1, <3>1, FixedSource DEF Exact, Stored
  <2> QED BY <1>1, <2>1, <2>2
<1>7. Streamed'
  BY <1>1, <1>6, StreamedOn DEF Exact
<1> QED BY <1>5, <1>6, <1>7 DEF Exact

LEMMA CrashExact == ASSUME Inv, Exact, NEW s \in Stores, Crash(s) PROVE Exact'
<1>1. /\ op[s].pc # "idle"
      /\ UNCHANGED files \/ \E m \in muts : m.by = s /\ AfterMutation(m, TRUE)
      /\ op' = [op EXCEPT ![s] = Idle] /\ aborted' = [aborted EXCEPT ![s] = FALSE]
      /\ IF streamer = s
           THEN streamer' = NoStore /\ iter' = "none" /\ pull' = "idle" /\ Forget /\ intervals' = <<>>
           ELSE UNCHANGED streamVars /\ UNCHANGED <<streamer, intervals>>
      /\ left' = left
  BY DEF Crash, At
<1>2. op \in [Stores -> OpState] /\ NoStore \notin Stores /\ Stored /\ Streamed
  BY StoreAssumption DEF Inv, Typed, Exact
<1>3. op'[s].pc = "idle" /\ \A t \in Stores \ {s} : op'[t] = op[t]
  BY <1>1, <1>2, IdleState
<1>4. intervals' \in Seq(Interval) /\ aborted' \in [Stores -> BOOLEAN] /\ left' \in 0..Operations
  <2>1. intervals \in Seq(Interval) /\ aborted \in [Stores -> BOOLEAN] /\ left \in 0..Operations
    BY <1>2 DEF Stored
  <2>2. intervals' = <<>> \/ intervals' = intervals
    BY <1>1
  <2>3. intervals' \in Seq(Interval)
    <3>1. <<>> \in Seq(Interval)
      OBVIOUS
    <3> QED BY <2>1, <2>2, <3>1
  <2>4. aborted' \in [Stores -> BOOLEAN]
    BY <1>1, <2>1
  <2> QED BY <1>1, <2>1, <2>3, <2>4
<1>5. Stored' /\ active' = active
  <2>1. CASE UNCHANGED files
    BY <1>2, <1>4, <2>1, StoredOn DEF files
  <2>2. CASE \E m \in muts : m.by = s /\ AfterMutation(m, TRUE)
    <3>1. /\ active' = active
          /\ marker' \in [state : {"none", "partial", "valid"}, gen : 0..Generations, index : Seq(Interval)]
          /\ marker'.state = "valid" => marker'.index = Index
          /\ \A g \in Gen : payload'[g].there \in BOOLEAN /\ payload'[g].data \in Seq(0..Frames)
      BY <2>2, MutationExact
    <3> QED BY <1>2, <1>4, <3>1, FixedSource DEF Stored
  <2> QED BY <1>1, <2>1, <2>2
<1>6. Index' = Index /\ Source' = Source
  BY <1>5, FixedSource
<1>7. Streamed'
  <2>1. CASE streamer # s
    BY <1>1, <1>2, <1>5, <2>1, StreamedOn
  <2>2. CASE streamer = s
    <3>1. /\ iter' = "none" /\ pull' = "idle" /\ closing' = "none" /\ step' = "admission" /\ call' = "none" /\ permit' = FALSE
          /\ epoch' = FALSE /\ signal' = FALSE /\ manifest' = NoManifest /\ chunk' = 1
          /\ job' = "none" /\ fed' = FALSE /\ block' = 0 /\ packed' = 0 /\ span' = NoSpan
      BY <1>1, <2>2 DEF Forget
    <3>2. chunk' \in 1..(Len(manifest'.chunks) + 1) /\ packed' \in 0..PackedFrames(manifest'.intervals)
      BY <3>1, NoManifestFacts
    <3>3. manifest' = (IF iter' \in {"open", "closing"} THEN Source' ELSE NoManifest)
      BY <3>1
    <3>4. {permit', epoch', signal', fed'} \subseteq BOOLEAN
      BY <3>1
    <3> QED BY <3>1, <3>2, <3>3, <3>4 DEF Streamed
  <2> QED BY <2>1, <2>2
<1>8. \A t \in Stores : Grown(t)'
  <2>1. Grown(s)'
    BY <1>3 DEF Grown, At
  <2>2. CASE op[s].pc \in Program \cup Mutation
    BY <1>3, <2>1, <2>2, GrownAlone
  <2>3. CASE op[s].pc \notin Program \cup Mutation
    <3>1. op[s].pc = "locking"
      BY <1>1, <1>2, <2>3, Steps DEF OpState
    <3>2. holder # s
      BY <2>3 DEF Inv, Locked, Inside
    <3>3. streamer # s
      BY <1>2, <3>2 DEF Inv, Owned
    <3>4. \A m \in muts : m.by # s
      BY <3>1, PendingFacts DEF Program, Mutation, Removal
    <3>5. UNCHANGED <<iter, pull, packed, span, intervals>> /\ UNCHANGED <<active, payload>>
      BY <1>1, <3>3, <3>4 DEF streamVars, files
    <3>6. ASSUME NEW t \in Stores \ {s} PROVE Grown(t)'
      BY <1>3, <3>5, GrownOn DEF Exact
    <3> QED BY <2>1, <3>6
  <2> QED BY <2>2, <2>3
<1> QED BY <1>5, <1>7, <1>8 DEF Exact

-----------------------------------------------------------------------------
LEMMA InitExact == ASSUME Init PROVE Exact
<1>1. /\ StreamInit /\ active \in Sources /\ marker = NoMarker /\ payload = [g \in Gen |-> Absent]
      /\ op = [s \in Stores |-> Idle] /\ intervals = <<>> /\ aborted = [s \in Stores |-> FALSE] /\ left = Operations
  BY DEF Init
<1>2. Streamed
  <2>1. /\ iter = "none" /\ closing = "none" /\ pull = "idle" /\ step = "admission"
        /\ call = "none" /\ permit = FALSE /\ epoch = FALSE /\ signal = FALSE
        /\ manifest = NoManifest /\ chunk = 1 /\ job = "none" /\ fed = FALSE
        /\ block = 0 /\ packed = 0 /\ span = NoSpan
    BY <1>1 DEF StreamInit
  <2>2. chunk \in 1..(Len(manifest.chunks) + 1) /\ packed \in 0..PackedFrames(manifest.intervals)
    BY <2>1, NoManifestFacts
  <2>3. manifest = (IF iter \in {"open", "closing"} THEN Source ELSE NoManifest)
    BY <2>1
  <2> QED BY <2>1, <2>2, <2>3 DEF Streamed
<1>3. Stored
  <2>1. 0 \in 0..Generations /\ Operations \in 0..Operations
    BY StoreAssumption
  <2>2. <<>> \in Seq(Interval) /\ <<>> \in Seq(0..Frames)
    OBVIOUS
  <2> QED BY <1>1, <2>1, <2>2 DEF Stored, NoMarker, Absent
<1>4. \A s \in Stores : Grown(s)
  BY <1>1 DEF Grown, At, Idle
<1> QED BY <1>2, <1>3, <1>4 DEF Exact

LEMMA NextExact == ASSUME Inv, Exact, [Next]_vars PROVE Exact'
<1>1. CASE UNCHANGED vars
  <2>1. UNCHANGED streamVars /\ UNCHANGED files /\ UNCHANGED <<intervals, aborted, left, op>>
    BY <1>1 DEF vars, budgets
  <2>2. aborted' \in [Stores -> BOOLEAN] /\ left' \in 0..Operations
    BY <2>1 DEF Exact, Stored
  <2> QED BY <2>1, <2>2, QuietExact
<1>2. CASE Stream
  BY <1>2, StreamExact
<1>3. ASSUME NEW s \in Stores, Start(s) \/ Abort(s) \/ Crash(s) \/ Progress(s) PROVE Exact'
  <2> HIDE DEF Inv, Exact
  <2>1. CASE Start(s) \/ Withdraw(s) \/ Begin(s) \/ Check(s)
    BY <2>1, RecordSteps
  <2>2. CASE \/ Look(s) \/ ReadMarker(s) \/ Verify(s) \/ Grant(s) \/ SpanLate(s) \/ Refuse(s) \/ Finish(s) \/ CleanUp(s)
    BY <2>2, QuietSteps
  <2>3. CASE Abort(s) \/ AbortSource(s) \/ ReturnSource(s)
    BY <2>3, SignalExact
  <2>4. CASE PullSpan(s) \/ TakeSpan(s) \/ EndOfSpans(s)
    BY <2>4, PullSpanExact, TakeSpanExact, EndOfSpansExact
  <2>5. CASE ResolveSource(s) \/ NewGeneration(s) \/ Release(s)
    BY <2>5, ResolveSourceExact, NewGenerationExact, ReleaseExact
  <2>6. CASE Lands(s) \/ LandsFailed(s) \/ Crash(s)
    BY <2>6, LandsExact, LandsFailedExact, CrashExact
  <2> QED BY <1>3, <2>1, <2>2, <2>3, <2>4, <2>5, <2>6 DEF Progress
<1> QED BY <1>1, <1>2, <1>3 DEF Next

\* What is written of a source is in step with what has been read of it: a whole
\* marker carries the source's index, the index derived so far is that of the
\* frames written, and the stream is as far as that, for every source, size of
\* spans and size of chunks.
THEOREM ExactAlways == Spec => [](Inv /\ Exact)
<1>1. Init => Inv /\ Exact
  BY InitKeeps, InitExact
<1>2. Inv /\ Exact /\ [Next]_vars => (Inv /\ Exact)'
  BY NextKeeps, NextExact
<1> QED BY <1>1, <1>2, PTL DEF Spec

\* TypeOK: the state has its types, among them that an admitted manifest is valid
\* and that blocks, spans and chunks stay inside it.
THEOREM TypeCorrect == Spec => []TypeOK
<1>1. ASSUME Inv, Exact PROVE TypeOK
  <2>1. Streamed /\ Stored /\ Typed
    BY <1>1 DEF Exact, Inv
  <2>2. active \in Sources
    BY <2>1 DEF Stored
  <2>3. StreamTypeOK
    <3>1. ValidManifest(manifest)
      BY <2>1, <2>2, ManifestFacts
    <3>2. span = NoSpan \/ (span \in Interval /\ span.frames <= MaxSpanFrames)
      BY <2>1 DEF Streamed, PartOf
    <3> QED BY <2>1, <3>1, <3>2 DEF StreamTypeOK, Streamed, Typed
  <2>4. 0..Generations = {0} \cup Gen
    BY StoreAssumption DEF Gen
  <2>5. op \in [Stores -> [kind : {"none", "open", "install", "inspect"},
                           pc : {"idle", "locking"} \cup Program \cup Mutation,
                           gen : 0..Generations, owns : SUBSET {"data", "marker"},
                           result : {"none", "descriptor", "missing", "present", "corrupt", "failed"}]]
    BY <2>1, <2>4 DEF Typed, OpState, PCs, Results
  <2>6. muts \subseteq [by : Stores, op : Mutation, gen : Gen]
    <3>1. ASSUME NEW m \in muts PROVE m \in [by : Stores, op : Mutation, gen : Gen]
      <4>1. m \in [by : Stores, op : Mutation, gen : {0} \cup Gen] /\ m.gen \in Gen
        BY <1>1, PendingFacts DEF Inv, Locked, Pending
      <4> QED BY <4>1
    <3> QED BY <3>1
  <2>7. handed \subseteq Gen
    BY <1>1 DEF Inv, Published
  <2> QED BY <2>1, <2>3, <2>5, <2>6, <2>7 DEF TypeOK, Stored, Typed
<1> QED BY <1>1, ExactAlways, PTL

\* CommittedExact: a whole marker names a payload that holds exactly the source's
\* frames and carries the index of its manifest (sparse-store.ts:1111), and every
\* window of the timeline read through the two is the source's PCM, silence
\* included (sparse-pcm.ts:236); what was handed out stays committed.
THEOREM CommittedAlwaysExact == Spec => []CommittedExact
<1>1. ASSUME Inv, Exact PROVE CommittedExact
  <2>1. PublishedComplete
    BY <1>1 DEF Inv, Published, Exact, Stored, PublishedComplete
  <2>2. WindowsExact
    <3> SUFFICES ASSUME marker.state = "valid", NEW start \in Frame, NEW count \in 1..(Frames - start)
                 PROVE  ReadWindow(marker.index, payload[marker.gen].data, start, count)
                          = Canonical(active, start, count)
      BY DEF WindowsExact
    <3>1. marker.index = Index /\ payload[marker.gen].data = Packed(active)
      BY <2>1 DEF PublishedComplete, Complete, Content
    <3>2. active \in SUBSET Frame /\ Describes(Index, active)
      BY <1>1, SourceFacts DEF Exact, Stored
    <3> QED BY <3>1, <3>2, WindowRead
  <2> QED BY <2>1, <2>2 DEF CommittedExact
<1> QED BY <1>1, ExactAlways, PTL
=============================================================================
