-------------------------- MODULE FlacDecodeProofs --------------------------
(***************************************************************************)
(* Theorems about FlacDecode, and with it about FlacDelivery, for every    *)
(* number of chunks, blocks, headers, attempts and downloads.  Exact is    *)
(* the inductive invariant; it is proved in layers: the range read, the    *)
(* job with its lane and its reader, and the protocol with the Worker.     *)
(***************************************************************************)
EXTENDS FlacDecode, Integers, FiniteSetTheorems, FunctionTheorems, SequenceTheorems, TLAPS

(* A queue without its first message; how often a message occurs in it. *)

LEMMA HeadAndTail ==
  ASSUME NEW S, NEW s \in Seq(S), s # <<>>
  PROVE  /\ Len(s) \in Nat /\ Len(s) >= 1 /\ 1 \in 1..Len(s) /\ Len(s) \in 1..Len(s)
         /\ Head(s) = s[1] /\ s[1] \in S
         /\ Tail(s) \in Seq(S) /\ Len(Tail(s)) = Len(s) - 1
         /\ \A i \in 1..Len(Tail(s)) : i + 1 \in 1..Len(s) /\ Tail(s)[i] = s[i + 1]
OBVIOUS

Occurrences(e, s) == Cardinality({i \in 1..Len(s) : s[i] = e})

LEMMA OccurrencesFinite ==
  ASSUME NEW S, NEW s \in Seq(S), NEW e
  PROVE  /\ IsFiniteSet({i \in 1..Len(s) : s[i] = e}) /\ Occurrences(e, s) \in Nat
         /\ Occurrences(e, s) = 0 <=> \A i \in 1..Len(s) : s[i] # e
<1> DEFINE P == {i \in 1..Len(s) : s[i] = e}
<1>1. IsFiniteSet(1..Len(s)) /\ P \in SUBSET (1..Len(s))
  BY FS_Interval
<1> HIDE DEF P
<1>2. IsFiniteSet(P) /\ Cardinality(P) \in Nat
  BY <1>1, FS_Subset, FS_CardinalityType
<1>3. Cardinality(P) = 0 <=> P = {}
  BY <1>2, FS_EmptySet
<1> QED BY <1>2, <1>3 DEF P, Occurrences

LEMMA OccurrencesNone == ASSUME NEW e PROVE Occurrences(e, <<>>) = 0
<1>1. <<>> \in Seq({}) /\ \A i \in 1..Len(<<>>) : <<>>[i] # e
  OBVIOUS
<1> QED BY <1>1, OccurrencesFinite

LEMMA OccurrencesAppend ==
  ASSUME NEW S, NEW s \in Seq(S), NEW d \in S, NEW e
  PROVE  Occurrences(e, Append(s, d)) = IF d = e THEN Occurrences(e, s) + 1 ELSE Occurrences(e, s)
<1> DEFINE P == {i \in 1..Len(s) : s[i] = e}
           t == Append(s, d)
           Q == {i \in 1..Len(t) : t[i] = e}
<1>1. PICK n \in Nat : n = Len(s)
  OBVIOUS
<1>2. Len(t) = n + 1 /\ t[n + 1] = d /\ \A i \in 1..n : t[i] = s[i]
  BY <1>1
<1>3. IsFiniteSet(P) /\ n + 1 \notin P
  <2>1. IsFiniteSet(P)
    BY OccurrencesFinite
  <2>2. n + 1 \notin 1..n
    OBVIOUS
  <2> QED BY <1>1, <2>1, <2>2
<1> HIDE DEF t
<1>4. CASE d = e
  <2>1. Q = P \cup {n + 1}
    BY <1>1, <1>2, <1>4
  <2> HIDE DEF P, Q
  <2>2. Cardinality(Q) = Cardinality(P) + 1
    BY <1>3, <2>1, FS_AddElement
  <2> QED BY <1>4, <2>2 DEF P, Q, t, Occurrences
<1>5. CASE d # e
  <2>1. Q = P
    BY <1>1, <1>2, <1>5
  <2> QED BY <1>5, <2>1 DEF t, Occurrences
<1> QED BY <1>4, <1>5

LEMMA OccurrencesTail ==
  ASSUME NEW S, NEW s \in Seq(S), s # <<>>, NEW e
  PROVE  Occurrences(e, Tail(s)) = IF Head(s) = e THEN Occurrences(e, s) - 1 ELSE Occurrences(e, s)
<1> DEFINE P == {i \in 1..Len(s) : s[i] = e}
           t == Tail(s)
           Q == {i \in 1..Len(t) : t[i] = e}
           R == P \ {1}
<1>1. PICK n \in Nat : n = Len(s) /\ n >= 1
  BY HeadAndTail
<1>2. t \in Seq(S) /\ Len(t) = n - 1 /\ \A i \in 1..(n - 1) : t[i] = s[i + 1]
  BY <1>1, HeadAndTail
<1>3. Head(s) = s[1] /\ IsFiniteSet(P) /\ IsFiniteSet(Q)
  <2>1. IsFiniteSet(P)
    BY OccurrencesFinite
  <2>2. IsFiniteSet(Q)
    BY <1>2, OccurrencesFinite
  <2> QED BY <2>1, <2>2, HeadAndTail
<1> HIDE DEF t
<1>4. ExistsBijection(Q, R)
  <2> DEFINE f == [i \in Q |-> i + 1]
  <2>1. ASSUME NEW i \in Q PROVE i + 1 \in R
    BY <1>1, <1>2
  <2>2. f \in Injection(Q, R)
    BY <2>1 DEF Injection, IsInjective
  <2>3. ASSUME NEW r \in R PROVE \E i \in Q : f[i] = r
    <3>1. r - 1 \in Q /\ r - 1 + 1 = r
      BY <1>1, <1>2
    <3> QED BY <3>1
  <2>4. f \in Surjection(Q, R)
    BY <2>1, <2>3 DEF Surjection
  <2> QED BY <2>2, <2>4 DEF ExistsBijection, Bijection
<1>5. 1 \in P <=> Head(s) = e
  BY <1>1, <1>3
<1> HIDE DEF P, Q
<1>6. Cardinality(Q) = Cardinality(R)
  BY <1>3, <1>4, FS_Bijection
<1>7. Cardinality(R) = IF 1 \in P THEN Cardinality(P) - 1 ELSE Cardinality(P)
  BY <1>3, FS_RemoveElement
<1> QED BY <1>5, <1>6, <1>7 DEF P, Q, t, Occurrences

-----------------------------------------------------------------------------
(* The range read: it holds a permit exactly while it is physical, a fetch   *)
(* that has not settled and a body that has not ended are waited for or      *)
(* quarantined, and there is an attempt left after every sleep.              *)
Physical == {"locating", "fetching", "body", "cleanup"}

Reading ==
  /\ DeliveryTypeOK
  /\ permit <=> read \in Physical
  /\ Active <= Downloads
  /\ read = "sleeping" => attempt < MaximumAttempts
  /\ flight = "open" => read \in {"fetching", "cleanup"}
  /\ flight = "body" => read \in {"body", "cleanup"}
  /\ flight = "late" => closed

(* Types of the job, without the bounds that the protocol gives. *)
ToHost == {"ready", "input-credit", "pcm", "complete", "error"}
ToWorker == {"initialize", "output-credit", "cancel"}
Numbers ==
  /\ src \in 0..(Headers + Chunks) /\ got \in Nat /\ blocks \in 0..Credits /\ delivered \in Nat
  /\ taken \in Nat /\ made \in Nat /\ credits \in 0..Credits

Flags ==
  /\ laneOk \in BOOLEAN /\ ready \in BOOLEAN /\ terminal \in BOOLEAN /\ borrowed \in BOOLEAN
  /\ cut \in BOOLEAN /\ dog \in BOOLEAN /\ refill \in BOOLEAN /\ final \in BOOLEAN

Typed ==
  /\ mode \in {"legacy", "borrowed"} /\ work \in {"waiting", "running", "stopping", "stopped"}
  /\ reason \in {"none", "ok", "cancelled", "stall", "worker", "source", "protocol"}
  /\ lane \in {"waiting", "take", "prepare", "read", "finish", "exited"}
  /\ commands = <<>> \/ \E m \in {"ready", "input-credit", "complete"} : commands = <<m>>
  /\ workflow \in {"pending", "ok", "failed"}
  /\ reader \in {"idle", "pulling", "closed", "failed", "cancelled"}
  /\ wk \in {"starting", "loading", "prepared", "decoding", "reading", "waiting",
             "copying", "crediting", "done", "closed"}
  /\ slot \in {"empty", "full", "eof", "aborted"}
  /\ toHost \in Seq(ToHost) /\ toWorker \in Seq(ToWorker)
  /\ Numbers /\ Flags

(* A range is read only for the lane, and only the lane keeps its buffer. *)
LaneReads ==
  /\ read # "idle" => mode = "legacy" /\ lane \in {"prepare", "read"}
                      /\ (lane = "read" => src < Headers + Chunks)
  /\ lane = "prepare" => src < Headers
  /\ held # "none" => lane \in {"prepare", "read"}

(* Where the job stands and why. *)
Phases ==
  /\ work = "waiting" <=> lane = "waiting"
  /\ work = "waiting" => wk = "starting"
  /\ Running => lane # "exited"
  /\ work \in {"waiting", "running"} <=> reason = "none"
  /\ reason = "ok" => work = "stopped" /\ lane = "exited"
  /\ workflow # "pending" => work \in {"stopping", "stopped"} /\ lane = "exited"
  /\ workflow = "ok" => reason = "ok"
  /\ workflow = "failed" => reason \notin {"none", "ok"}

(* What became of the blocks that were received. *)
BlocksKept ==
  /\ reason \notin {"none", "ok"} \/ work = "waiting" => Outputs = 0
  /\ Outputs <= Credits
  /\ delivered + blocks <= got
  /\ reason \in {"none", "ok"} /\ ~cut => delivered + blocks = got
  /\ reason = "ok" => got = Blocks
  /\ reader = "closed" => lane = "exited" /\ (delivered = Blocks \/ cut)

(* What the Worker has read and made, whatever became of the job. *)
WorkerBounds ==
  /\ slot = "full" => Running
  /\ taken <= Chunks /\ (wk = "copying" => taken < Chunks)
  /\ got <= made /\ made <= Blocks /\ (wk = "crediting" => made < Blocks) /\ (wk = "done" => made = Blocks)

Job == Typed /\ LaneReads /\ Phases /\ BlocksKept /\ WorkerBounds /\ WatchdogExact

(* While the job runs: one command at most is under way, from the Worker's    *)
(* post over the page's queue and lane to its reply or to the full slot.      *)
CommandKind == {"ready", "input-credit", "complete"}
CommandsSent == Sent("ready", toHost) + Sent("input-credit", toHost) + Sent("complete", toHost)
LaneHolds == IF lane \in {"prepare", "read", "finish"} THEN 1 ELSE 0
SlotHolds == IF slot = "full" THEN 1 ELSE 0
Pending == CommandsSent + Len(commands) + LaneHolds + Sent("initialize", toWorker) + SlotHolds

OneCommand ==
  /\ Pending <= 1
  /\ wk \in {"starting", "loading"} => Pending = 0
  /\ wk \in {"decoding", "reading", "crediting"} /\ ~refill => Pending = 0

(* The refills of the Worker. *)
Refills ==
  /\ wk \in {"starting", "loading", "prepared", "decoding", "crediting", "copying"} => ~refill
  /\ wk = "copying" \/ (wk = "reading" /\ refill) => slot = "full"
  /\ wk = "waiting" => refill /\ slot \in {"empty", "full"}

(* The order of the commands: ready, then credits, then complete. *)
Starting ==
  /\ ~ready => /\ wk \in {"starting", "loading", "prepared", "closed"} /\ Sent("initialize", toWorker) = 0
               /\ Sent("input-credit", toHost) = 0 /\ Sent("complete", toHost) = 0
               /\ commands = <<>> \/ commands = <<"ready">>
               /\ lane \in {"waiting", "take", "prepare"} /\ taken = 0 /\ made = 0 /\ slot = "empty" /\ ~terminal
               /\ src < Headers
  /\ ready => /\ wk \notin {"starting", "loading"} /\ lane # "prepare" /\ commands # <<"ready">>
              /\ Sent("ready", toHost) = 0

Feeding ==
  /\ ready /\ lane # "finish" => src = Headers + taken + SlotHolds
  /\ Sent("input-credit", toHost) > 0 \/ commands = <<"input-credit">> \/ lane = "read" => slot = "empty"
  /\ slot \in {"empty", "full", "eof"}
  /\ slot = "empty" => taken < Chunks
  /\ final => slot = "full"
  /\ slot = "full" => (final <=> taken + 1 = Chunks)

Completing ==
  /\ Sent("complete", toHost) > 0 \/ terminal => wk = "done"
  /\ commands = <<"complete">> \/ lane = "finish" => terminal
  /\ terminal => toHost = <<>> /\ got = Blocks
  /\ \A i \in 1..Len(toHost) : toHost[i] = "complete" => i = Len(toHost)

Order == Starting /\ Feeding /\ Completing

(* The credits, and the blocks between the Worker and the page. *)
Circulating == credits + Sent("pcm", toHost) + Outputs + Sent("output-credit", toWorker)

CreditsKept ==
  /\ made = got + Sent("pcm", toHost)
  /\ Circulating <= Credits
  /\ ~terminal /\ wk # "done" => Circulating = Credits

Protocol ==
  /\ work \in {"waiting", "running"} => OneCommand /\ Refills /\ Order /\ CreditsKept
  /\ reason # "protocol"

Exact == Reading /\ Job /\ Protocol

-----------------------------------------------------------------------------
(* The range read *)

LEMMA ReadingInit == Init => Reading
<1> SUFFICES ASSUME Init PROVE Reading OBVIOUS
<1>1. DeliveryInit BY DEF Init
<1>2. others \in 0..Downloads /\ attempt \in 0..MaximumAttempts /\ permit = FALSE
  BY <1>1, DeliveryAssumption DEF DeliveryInit
<1>3. DeliveryTypeOK BY <1>1, <1>2 DEF DeliveryInit, DeliveryTypeOK
<1>4. Active <= Downloads BY <1>2, DeliveryAssumption DEF Active
<1> QED BY <1>1, <1>3, <1>4 DEF DeliveryInit, Reading, Physical

(* What a step of the job can do to the range read. *)
Released == held' = "none" /\ exit' \in {exit, "none"}
              /\ UNCHANGED <<read, attempt, permit, others, closed, flight>>

LEMMA DeliveryStep == ASSUME [Next]_vars
  PROVE  \/ UNCHANGED deliveryVars \/ Released \/ Interrupt \/ BeginRange \/ Delivers
<1>1. CASE UNCHANGED vars BY <1>1 DEF vars
<1>2. CASE Start \/ Read \/ Pull \/ Release \/ End \/ Terminate \/ Settled \/ Finished
  BY <1>2 DEF Start, Read, Pull, Release, End, Terminate, Settled, Finished, vars
<1>3. CASE Cancel
  BY <1>3 DEF Cancel, CancelWaiting, CancelRunning, CancelDone, InterruptLane, Released, deliveryVars
<1>4. CASE Stall
  BY <1>4 DEF Stall, FailNow, InterruptLane, Released, deliveryVars
<1>5. CASE HearReady \/ HearCredit \/ HearComplete
  BY <1>5 DEF HearReady, HearCredit, HearComplete, Enqueue, InterruptLane, Released, deliveryVars
<1>6. CASE HearPcm \/ HearError
  BY <1>6 DEF HearPcm, HearError, InterruptLane, Released, deliveryVars
<1>7. CASE TakeCommand \/ SourceFails
  BY <1>7 DEF TakeCommand, SourceFails, LaneFails, Released, deliveryVars
<1>8. CASE AskRange \/ Prepare \/ Publish
  BY <1>8 DEF AskRange, Prepare, Publish, Consume, LaneFails, Released, deliveryVars
<1>9. CASE Drain \/ Finish \/ LaneExits
  BY <1>9 DEF Drain, Finish, LaneExits, Released, deliveryVars
<1>10. CASE WorkerSteps
  BY <1>10 DEF WorkerSteps, WorkerFails, Loaded, ReadSlot, Wake, CopySlot, Decode, TakeCredit,
               HandleMessage, Crash, WorkerOnly
<1>11. CASE Delivers BY <1>11
<1> QED BY <1>1, <1>2, <1>3, <1>4, <1>5, <1>6, <1>7, <1>8, <1>9, <1>10, <1>11 DEF Next, Hear, LaneSteps

LEMMA ReadingNext == ASSUME Reading, [Next]_vars PROVE Reading'
<1> USE DeliveryAssumption DEF Reading, DeliveryTypeOK, Physical
<1>1. CASE UNCHANGED deliveryVars \/ Released BY <1>1 DEF deliveryVars, Released, Active
<1>2. CASE Interrupt BY <1>2 DEF Interrupt, Active
<1>3. CASE BeginRange BY <1>3 DEF BeginRange, Active
<1>4. CASE Delivers
  <2>1. CASE Admit
    <3>1. CASE closed BY <2>1, <3>1 DEF Admit, Active
    <3>2. CASE ~closed
      <4>1. Active = others /\ Active' = others + 1 /\ Active < Downloads BY <2>1, <3>2 DEF Admit, Active
      <4>2. (permit <=> read \in Physical)' BY <2>1, <3>2 DEF Admit
      <4>3. DeliveryTypeOK' BY <2>1, <3>2 DEF Admit
      <4> QED BY <2>1, <3>2, <4>1, <4>2, <4>3 DEF Admit
    <3> QED BY <3>1, <3>2
  <2>2. CASE OthersLeave \/ OthersEnter BY <2>2 DEF OthersLeave, OthersEnter, Active
  <2>3. CASE Locate \/ Respond \/ FetchStalls BY <2>3 DEF Locate, Respond, FetchStalls, Active
  <2>4. CASE ReadBody \/ Settle BY <2>4 DEF ReadBody, Settle, Active
  <2>5. CASE CleanedUp
    <3>1. Active' = others /\ others' = others BY <2>5 DEF CleanedUp, Active
    <3>2. read' = "idle" \/ (read' = "sleeping" /\ attempt < MaximumAttempts)
      BY <2>5 DEF CleanedUp, Follow
    <3>3. (permit <=> read \in Physical)' BY <2>5, <3>2 DEF CleanedUp
    <3>4. exit' \in {"none", "value", "fatal", "interrupted"} BY <2>5 DEF CleanedUp, Follow
    <3>5. DeliveryTypeOK' BY <2>5, <3>2, <3>4 DEF CleanedUp
    <3> QED BY <2>5, <3>1, <3>2, <3>3, <3>5 DEF CleanedUp
  <2>6. CASE Quarantine
    <3>1. Active' = others BY <2>6 DEF Quarantine, Active
    <3>2. exit' = (IF exit = "retry" THEN "fatal" ELSE exit) /\ read' = "idle"
      BY <2>6 DEF Quarantine, Follow
    <3>3. (permit <=> read \in Physical)' BY <2>6, <3>2 DEF Quarantine
    <3>4. DeliveryTypeOK' BY <2>6, <3>2 DEF Quarantine
    <3> QED BY <2>6, <3>1, <3>2, <3>3, <3>4 DEF Quarantine
  <2>7. CASE Retry BY <2>7 DEF Retry, Active
  <2> QED BY <1>4, <2>1, <2>2, <2>3, <2>4, <2>5, <2>6, <2>7 DEF Delivers
<1> QED BY <1>1, <1>2, <1>3, <1>4, DeliveryStep

-----------------------------------------------------------------------------
(* Messages on the wires *)

LEMMA SentOccurs == \A m, wire : Sent(m, wire) = Occurrences(m, wire)
BY DEF Sent, Occurrences

LEMMA SentNat == ASSUME Typed
  PROVE  \A m : Sent(m, toHost) \in Nat /\ Sent(m, toWorker) \in Nat
BY OccurrencesFinite, SentOccurs DEF Typed

LEMMA PendingNat == ASSUME Typed
  PROVE  /\ CommandsSent \in Nat /\ Len(commands) \in Nat /\ LaneHolds \in {0, 1} /\ SlotHolds \in {0, 1}
         /\ Sent("initialize", toWorker) \in Nat /\ Pending \in Nat
         /\ \A m \in CommandKind : Sent(m, toHost) <= CommandsSent
<1>1. Sent("ready", toHost) \in Nat /\ Sent("input-credit", toHost) \in Nat /\ Sent("complete", toHost) \in Nat
  BY SentNat
<1>2. CommandsSent \in Nat BY <1>1 DEF CommandsSent
<1>3. Sent("initialize", toWorker) \in Nat BY SentNat
<1>4. Len(commands) \in Nat BY DEF Typed
<1>5. LaneHolds \in {0, 1} /\ SlotHolds \in {0, 1} BY DEF LaneHolds, SlotHolds
<1>6. ASSUME NEW m \in CommandKind PROVE Sent(m, toHost) <= CommandsSent
  BY <1>1 DEF CommandKind, CommandsSent
<1> QED BY <1>2, <1>3, <1>4, <1>5, <1>6 DEF Pending

(* What is first on a wire is on it. *)
LEMMA Waiting == ASSUME Typed, toHost # <<>>
  PROVE  Sent(Head(toHost), toHost) >= 1
<1>1. toHost \in Seq(ToHost) BY DEF Typed
<1> DEFINE P == {i \in 1..Len(toHost) : toHost[i] = Head(toHost)}
<1>2. IsFiniteSet(P) BY <1>1, OccurrencesFinite
<1>3. 1 \in P BY <1>1, HeadAndTail
<1> HIDE DEF P
<1>4. Cardinality(P) # 0 BY <1>2, <1>3, FS_EmptySet
<1>5. Cardinality(P) \in Nat BY <1>2, FS_CardinalityType
<1> QED BY <1>4, <1>5 DEF P, Sent

LEMMA WaitingWorker == ASSUME Typed, toWorker # <<>>
  PROVE  Sent(Head(toWorker), toWorker) >= 1
<1>1. toWorker \in Seq(ToWorker) BY DEF Typed
<1> DEFINE P == {i \in 1..Len(toWorker) : toWorker[i] = Head(toWorker)}
<1>2. IsFiniteSet(P) BY <1>1, OccurrencesFinite
<1>3. 1 \in P BY <1>1, HeadAndTail
<1> HIDE DEF P
<1>4. Cardinality(P) # 0 BY <1>2, <1>3, FS_EmptySet
<1>5. Cardinality(P) \in Nat BY <1>2, FS_CardinalityType
<1> QED BY <1>4, <1>5 DEF P, Sent

LEMMA PostSent == ASSUME Typed, NEW d \in ToHost, toHost' = Append(toHost, d)
  PROVE  /\ \A m : Sent(m, toHost)' = IF d = m THEN Sent(m, toHost) + 1 ELSE Sent(m, toHost)
         /\ toHost' \in Seq(ToHost)
<1>1. toHost \in Seq(ToHost) BY DEF Typed
<1>2. ASSUME NEW m PROVE Sent(m, Append(toHost, d)) = IF d = m THEN Sent(m, toHost) + 1 ELSE Sent(m, toHost)
  BY <1>1, OccurrencesAppend, SentOccurs
<1> QED BY <1>1, <1>2

LEMMA HearSent == ASSUME Typed, toHost # <<>>, toHost' = Tail(toHost)
  PROVE  /\ \A m : Sent(m, toHost)' = IF Head(toHost) = m THEN Sent(m, toHost) - 1 ELSE Sent(m, toHost)
         /\ toHost' \in Seq(ToHost) /\ Head(toHost) \in ToHost
<1>1. toHost \in Seq(ToHost) BY DEF Typed
<1>2. ASSUME NEW m PROVE Sent(m, Tail(toHost)) = IF Head(toHost) = m THEN Sent(m, toHost) - 1 ELSE Sent(m, toHost)
  BY <1>1, OccurrencesTail, SentOccurs
<1> QED BY <1>1, <1>2, HeadAndTail

LEMMA CommandSent == ASSUME Typed, NEW d \in ToWorker, toWorker' = Append(toWorker, d)
  PROVE  /\ \A m : Sent(m, toWorker)' = IF d = m THEN Sent(m, toWorker) + 1 ELSE Sent(m, toWorker)
         /\ toWorker' \in Seq(ToWorker)
<1>1. toWorker \in Seq(ToWorker) BY DEF Typed
<1>2. ASSUME NEW m PROVE Sent(m, Append(toWorker, d)) = IF d = m THEN Sent(m, toWorker) + 1 ELSE Sent(m, toWorker)
  BY <1>1, OccurrencesAppend, SentOccurs
<1> QED BY <1>1, <1>2

LEMMA HandleSent == ASSUME Typed, toWorker # <<>>, toWorker' = Tail(toWorker)
  PROVE  /\ \A m : Sent(m, toWorker)' = IF Head(toWorker) = m THEN Sent(m, toWorker) - 1 ELSE Sent(m, toWorker)
         /\ toWorker' \in Seq(ToWorker) /\ Head(toWorker) \in ToWorker
<1>1. toWorker \in Seq(ToWorker) BY DEF Typed
<1>2. ASSUME NEW m PROVE Sent(m, Tail(toWorker)) = IF Head(toWorker) = m THEN Sent(m, toWorker) - 1 ELSE Sent(m, toWorker)
  BY <1>1, OccurrencesTail, SentOccurs
<1> QED BY <1>1, <1>2, HeadAndTail

-----------------------------------------------------------------------------
(* The steps of a job that breaks no protocol *)

(* Every way in which a running job fails. *)
Fails ==
  /\ Running /\ work' = "stopping" /\ reason' \in {"cancelled", "stall", "worker", "source"} /\ dog' = FALSE
  /\ blocks' = 0 /\ borrowed' = FALSE /\ slot' = "aborted"
  /\ toWorker' \in {toWorker, Append(toWorker, "cancel")} /\ (toHost' = toHost \/ (toHost # <<>> /\ toHost' = Tail(toHost)))
  /\ InterruptLane \/ (lane' = "exited" /\ read = "idle" /\ held' = "none"
                       /\ UNCHANGED <<read, attempt, exit, permit, others, closed, flight>>)
  /\ laneOk' \in {laneOk, FALSE} /\ (reader' = reader \/ reader' = "cancelled")
  /\ UNCHANGED <<mode, ready, commands, terminal, src, got, workflow, delivered, cut, worker, final>>

(* A command is queued for the lane. *)
Queued(m) ==
  /\ Heard(m) /\ ~terminal /\ commands = <<>> /\ commands' = <<m>> /\ terminal' = (m = "complete") /\ Rearm
  /\ UNCHANGED <<mode, work, reason, lane, laneOk, ready, src, got, blocks, borrowed, workflow, reader,
                 delivered, cut, worker, shared, toWorker, deliveryVars>>

(* A block is received. *)
Received ==
  /\ Heard("pcm") /\ ~terminal /\ Outputs < Credits /\ blocks' = blocks + 1 /\ got' = got + 1
  /\ dog' = Watched(SourcePending, Outputs + 1)
  /\ UNCHANGED <<mode, work, reason, lane, laneOk, ready, commands, terminal, src, borrowed, workflow, reader,
                 delivered, cut, worker, shared, toWorker, deliveryVars>>

(* The lane takes a command that is in turn. *)
Taken(m) ==
  /\ Running /\ lane = "take" /\ commands = <<m>> /\ commands' = <<>> /\ dog' = FALSE
  /\ (m = "ready" <=> ~ready) /\ (m = "complete" => got = Blocks)
  /\ lane' = (CASE m = "ready" -> "prepare" [] m = "input-credit" -> "read" [] OTHER -> "finish")
  /\ UNCHANGED <<mode, work, reason, laneOk, ready, terminal, src, got, blocks, borrowed, workflow, reader,
                 delivered, cut, worker, shared, wires, deliveryVars>>

(* The bytes are in the slot. *)
Published ==
  /\ Running /\ lane = "read" /\ Arrived /\ slot = "empty" /\ src < Headers + Chunks
  /\ Consume /\ src' = src + 1 /\ lane' = "take" /\ dog' = Watched(FALSE, Outputs)
  /\ slot' = "full" /\ final' = (src' = Headers + Chunks)
  /\ UNCHANGED <<mode, work, reason, laneOk, ready, commands, terminal, got, blocks, borrowed, workflow, reader,
                 delivered, cut, worker, wires>>

LEMMA HearingKeeps == ASSUME Exact, NEW m \in CommandKind, Heard(m)
  PROVE  ~terminal /\ commands = <<>>
<1> USE DEF Exact
<1>1. Typed /\ Protocol /\ work = "running" BY DEF Job, Heard, Running
<1>2. OneCommand /\ Order BY <1>1 DEF Protocol
<1>3. ~terminal BY <1>2 DEF Heard, Order, Starting, Feeding, Completing
<1>4. Sent(m, toHost) >= 1 BY <1>1, Waiting DEF Heard
<1>5. Len(commands) = 0
  <2>1. CommandsSent >= 1 /\ Pending <= 1 BY <1>1, <1>2, <1>4, SentNat, PendingNat DEF OneCommand
  <2> QED BY <1>1, <2>1, PendingNat DEF Pending
<1> QED BY <1>1, <1>3, <1>5 DEF Typed

LEMMA QueuedSteps == ASSUME Exact, HearReady \/ HearCredit \/ HearComplete
  PROVE  \E m \in CommandKind : Queued(m)
<1>1. CASE HearReady
  <2>1. ~terminal /\ commands = <<>> BY <1>1, HearingKeeps DEF HearReady, CommandKind
  <2>3. terminal = FALSE BY <2>1 DEF Exact, Job, Typed, Flags
  <2>2. Queued("ready") BY <1>1, <2>1, <2>3 DEF HearReady, Enqueue, Queued, shared
  <2> QED BY <2>2 DEF CommandKind
<1>2. CASE HearCredit
  <2>1. ~terminal /\ commands = <<>> BY <1>2, HearingKeeps DEF HearCredit, CommandKind
  <2>3. terminal = FALSE BY <2>1 DEF Exact, Job, Typed, Flags
  <2>2. Queued("input-credit") BY <1>2, <2>1, <2>3 DEF HearCredit, Enqueue, Queued, shared
  <2> QED BY <2>2 DEF CommandKind
<1>3. CASE HearComplete
  <2>1. ~terminal /\ commands = <<>> BY <1>3, HearingKeeps DEF HearComplete, CommandKind
  <2>2. Queued("complete") BY <1>3, <2>1 DEF HearComplete, Enqueue, Queued, shared
  <2> QED BY <2>2 DEF CommandKind
<1> QED BY <1>1, <1>2, <1>3

LEMMA ReceivedSteps == ASSUME Exact, HearPcm PROVE Received
<1> USE DEF Exact
<1>1. Typed /\ Protocol /\ work = "running" /\ Heard("pcm") BY DEF Job, HearPcm, Heard, Running
<1>2. CreditsKept /\ Order BY <1>1 DEF Protocol
<1>3. ~terminal BY <1>1, <1>2 DEF Heard, Order, Starting, Feeding, Completing
<1>4. Sent("pcm", toHost) >= 1 BY <1>1, Waiting DEF Heard
<1>5. Outputs \in Nat BY <1>1 DEF Typed, Numbers, Outputs
<1>6. Outputs < Credits
  <2>1. credits \in Nat BY <1>1 DEF Typed, Numbers, Credits
  <2>2. Circulating <= Credits BY <1>2 DEF CreditsKept
  <2> QED BY <1>1, <1>4, <1>5, <2>1, <2>2, SentNat DEF Circulating, Credits
<1>7. ~(terminal \/ Outputs >= Credits) BY <1>3, <1>5, <1>6 DEF Credits
<1> HIDE DEF Exact
<1> QED BY <1>3, <1>6, <1>7 DEF HearPcm, Received, shared

LEMMA TakenSteps == ASSUME Exact, TakeCommand PROVE \E m \in CommandKind : Taken(m)
<1> USE DEF Exact
<1>1. Typed /\ Protocol /\ work = "running" /\ commands # <<>> BY DEF Job, TakeCommand, Running
<1>2. Order BY <1>1 DEF Protocol
<1>3. PICK m \in CommandKind : commands = <<m>> BY <1>1 DEF Typed, CommandKind
<1>4. Head(commands) = m BY <1>3
<1>5. m = "ready" <=> ~ready BY <1>1, <1>2, <1>3 DEF Order, Starting, Feeding, Completing
<1>6. m = "complete" => got = Blocks BY <1>2, <1>3 DEF Order, Starting, Feeding, Completing
<1>7. ~((m = "ready") = ready \/ (m = "complete" /\ got # Blocks)) BY <1>1, <1>5, <1>6 DEF Typed
<1>8. Taken(m) BY <1>3, <1>4, <1>5, <1>6, <1>7 DEF TakeCommand, Taken, LaneUnchanged, shared, wires, worker
<1> QED BY <1>8

LEMMA PublishedSteps == ASSUME Exact, Publish PROVE Published
<1> USE DEF Exact
<1>1. Typed /\ Protocol /\ LaneReads /\ work = "running" /\ lane = "read" BY DEF Job, Publish, Running
<1>2. Order BY <1>1 DEF Protocol
<1>3. slot = "empty" BY <1>1, <1>2 DEF Order, Starting, Feeding, Completing
<1>4. ready BY <1>1, <1>2 DEF Order, Starting, Feeding, Completing
<1>5. taken \in Nat /\ taken < Chunks BY <1>1, <1>2, <1>3 DEF Order, Starting, Feeding, Completing, Typed, Numbers
<1>7. src = Headers + taken BY <1>1, <1>2, <1>3, <1>4, <1>5, DecodeAssumption DEF Order, Feeding, SlotHolds
<1>6. src < Headers + Chunks BY <1>5, <1>7, DecodeAssumption
<1> QED BY <1>3, <1>6, DecodeAssumption DEF Publish, Published, LaneUnchanged, wires, worker

LEMMA FailSteps ==
  ASSUME Exact, Stall \/ (\E r \in {reader, "cancelled"} : CancelRunning(r)) \/ HearError \/ SourceFails
  PROVE  Fails
<1>1. CASE Stall BY <1>1 DEF Stall, FailNow, Fail, Fails
<1>2. CASE \E r \in {reader, "cancelled"} : CancelRunning(r) BY <1>2 DEF CancelRunning, Fail, Fails
<1>3. CASE HearError BY <1>3 DEF HearError, Heard, Fail, Fails
<1>4. CASE SourceFails BY <1>4 DEF SourceFails, LaneFails, Fail, Fails, LaneUnchanged
<1> QED BY <1>1, <1>2, <1>3, <1>4

(* The page's steps that leave the wires alone or send a credit, and those of *)
(* the Worker, which change nothing of the page's. *)
LEMMA Steps == ASSUME Exact, [Next]_vars
  PROVE  \/ UNCHANGED vars
         \/ Fails \/ (\E m \in CommandKind : Queued(m) \/ Taken(m)) \/ Received \/ Published
         \/ Start \/ (\E r \in {reader, "cancelled"} : CancelWaiting(r) \/ CancelDone(r))
         \/ Read \/ Pull \/ Release \/ End \/ Terminate \/ Settled
         \/ AskRange \/ Prepare \/ Drain \/ Finish \/ LaneExits \/ Delivers \/ WorkerSteps
<1> USE QueuedSteps, TakenSteps, ReceivedSteps, PublishedSteps, FailSteps
<1> QED BY DEF Next, Cancel, Hear, LaneSteps, Finished

LEMMA WorkerFrame == ASSUME WorkerSteps PROVE UNCHANGED <<host, output, deliveryVars>>
BY DEF WorkerSteps, WorkerFails, Loaded, ReadSlot, Wake, CopySlot, Decode, TakeCredit,
       HandleMessage, Crash, WorkerOnly

-----------------------------------------------------------------------------
(* The job: its types *)

LEMMA JobInit == Init => Job
<1> SUFFICES ASSUME Init PROVE Job OBVIOUS
<1> USE DecodeAssumption DEF Init, Credits
<1>1. Typed
  <2>1. toHost \in Seq(ToHost) /\ toWorker \in Seq(ToWorker) OBVIOUS
  <2>2. Numbers BY DEF Numbers
  <2>3. Flags BY DEF Flags
  <2> QED BY <2>1, <2>2, <2>3 DEF Typed
<1>2. LaneReads /\ Phases /\ WorkerBounds /\ WatchdogExact
  BY DEF DeliveryInit, LaneReads, Phases, WorkerBounds, WatchdogExact, Running
<1>3. BlocksKept BY DEF BlocksKept, Outputs
<1> QED BY <1>1, <1>2, <1>3 DEF Job

LEMMA WiresNext == ASSUME Exact, [Next]_vars
  PROVE  toHost' \in Seq(ToHost) /\ toWorker' \in Seq(ToWorker)
<1>1. Typed BY DEF Exact, Job
<1>2. toHost \in Seq(ToHost) /\ toWorker \in Seq(ToWorker) BY <1>1 DEF Typed
<1> USE <1>1, <1>2
<1>3. ASSUME UNCHANGED wires \/ Start \/ (\E r \in {reader, "cancelled"} : CancelWaiting(r) \/ CancelDone(r))
             \/ Read \/ End \/ Settled \/ AskRange \/ Drain \/ Finish \/ LaneExits \/ Delivers
      PROVE  UNCHANGED wires
  BY <1>3 DEF wires, Start, CancelWaiting, CancelDone, Read, End, Settled, AskRange, Drain, Finish,
              LaneExits, Delivers
<1>4. CASE Fails
  <2>1. toHost' \in Seq(ToHost) BY <1>4, HearSent DEF Fails
  <2>2. toWorker' \in Seq(ToWorker) BY <1>4, CommandSent DEF Fails, ToWorker
  <2> QED BY <2>1, <2>2
<1>5. CASE Received \/ (\E m \in CommandKind : Queued(m))
  BY <1>5, HearSent DEF Received, Queued, Heard
<1>6. CASE Published \/ (\E m \in CommandKind : Taken(m)) BY <1>6 DEF Published, Taken, wires
<1>7. CASE Pull \/ Release
  <2>1. toHost' = toHost /\ (toWorker' = toWorker \/ toWorker' = Append(toWorker, "output-credit"))
    BY <1>7 DEF Pull, Release
  <2> QED BY <2>1, CommandSent DEF ToWorker
<1>8. CASE Prepare
  <2>1. toHost' = toHost /\ (toWorker' = toWorker \/ toWorker' = Append(toWorker, "initialize"))
    BY <1>8 DEF Prepare, LaneUnchanged
  <2> QED BY <2>1, CommandSent DEF ToWorker
<1>9. CASE Terminate BY <1>9 DEF Terminate
<1>10. CASE WorkerSteps
  <2>1. CASE WorkerFails \/ Loaded \/ ReadSlot \/ Wake \/ CopySlot \/ Decode \/ TakeCredit \/ Crash
    <3>1. toWorker' = toWorker /\ (toHost' = toHost \/ \E d \in ToHost : toHost' = Append(toHost, d))
      BY <2>1 DEF WorkerFails, Loaded, ReadSlot, Wake, CopySlot, Decode, TakeCredit, Crash, Post, wires, ToHost
    <3> QED BY <3>1, PostSent
  <2>2. CASE HandleMessage
    <3>1. toHost' = toHost \/ \E d \in ToHost : toHost' = Append(toHost, d)
      BY <2>2 DEF HandleMessage, Post, ToHost
    <3>2. toWorker # <<>> /\ toWorker' = Tail(toWorker) BY <2>2 DEF HandleMessage
    <3> QED BY <3>1, <3>2, PostSent, HandleSent
  <2> QED BY <1>10, <2>1, <2>2 DEF WorkerSteps
<1> QED BY <1>3, <1>4, <1>5, <1>6, <1>7, <1>8, <1>9, <1>10, Steps DEF vars, wires

LEMMA NumbersNext == ASSUME Exact, [Next]_vars PROVE Numbers'
<1>1. Numbers /\ LaneReads /\ borrowed \in BOOLEAN BY DEF Exact, Job, Typed, Flags
<1> USE <1>1, DecodeAssumption DEF Numbers, Credits
<1>2. CASE UNCHANGED vars BY <1>2 DEF vars, host, output, worker
<1>3. CASE Fails BY <1>3 DEF Fails, worker
<1>4. CASE Received BY <1>4 DEF Received, worker, Outputs
<1>5. CASE \E m \in CommandKind : Queued(m) \/ Taken(m) BY <1>5 DEF Queued, Taken, worker
<1>6. CASE Published BY <1>6 DEF Published, worker
<1>7. CASE Start \/ (\E r \in {reader, "cancelled"} : CancelWaiting(r) \/ CancelDone(r))
  BY <1>7 DEF Start, CancelWaiting, CancelDone, host, worker
<1>8. CASE Read \/ Release \/ End BY <1>8 DEF Read, Release, End, host, worker
<1>9. CASE Pull BY <1>9 DEF Pull, host, worker
<1>10. CASE Terminate \/ Settled BY <1>10 DEF Terminate, Settled, host, output, worker
<1>11. CASE AskRange \/ Delivers BY <1>11 DEF AskRange, Delivers, host, output, worker
<1>12. CASE Prepare
  <2>1. src' = src + 1 /\ src < Headers BY <1>12 DEF Prepare, LaneReads
  <2>2. src' \in 0..(Headers + Chunks) BY <2>1
  <2> QED BY <1>12, <2>2 DEF Prepare, LaneUnchanged, worker
<1>13. CASE Drain BY <1>13 DEF Drain, output, worker
<1>14. CASE Finish \/ LaneExits BY <1>14 DEF Finish, LaneExits, output, worker
<1>15. CASE WorkerSteps
  <2>1. UNCHANGED <<src, got, blocks, delivered>> BY <1>15, WorkerFrame DEF host, output
  <2>2. taken' \in Nat /\ made' \in Nat /\ credits' \in 0..Credits
    BY <1>15 DEF WorkerSteps, WorkerFails, Loaded, ReadSlot, Wake, CopySlot, Decode, TakeCredit,
                 HandleMessage, Crash
  <2> QED BY <2>1, <2>2
<1> QED BY <1>2, <1>3, <1>4, <1>5, <1>6, <1>7, <1>8, <1>9, <1>10, <1>11, <1>12, <1>13, <1>14, <1>15, Steps

LEMMA FlagsNext == ASSUME Exact, [Next]_vars PROVE Flags'
<1>1. Flags BY DEF Exact, Job, Typed
<1> USE <1>1 DEF Flags
<1>2. CASE UNCHANGED vars BY <1>2 DEF vars, host, output, worker, shared
<1>3. CASE Fails BY <1>3 DEF Fails, worker
<1>4. CASE Received BY <1>4 DEF Received, worker, shared, Watched
<1>5. CASE \E m \in CommandKind : Queued(m) BY <1>5 DEF Queued, worker, shared, Rearm, Watched
<1>6. CASE Published BY <1>6 DEF Published, worker, Watched
<1>7. CASE \E m \in CommandKind : Taken(m) BY <1>7 DEF Taken, worker, shared
<1>8. CASE Start \/ (\E r \in {reader, "cancelled"} : CancelWaiting(r) \/ CancelDone(r))
  BY <1>8 DEF Start, CancelWaiting, CancelDone, host, worker, shared
<1>9. CASE Read \/ End BY <1>9 DEF Read, End, host, worker, shared
<1>10. CASE Pull \/ Release BY <1>10 DEF Pull, Release, host, worker, shared, Watched
<1>11. CASE Terminate \/ Settled BY <1>11 DEF Terminate, Settled, host, output, worker, shared
<1>12. CASE AskRange \/ Delivers BY <1>12 DEF AskRange, Delivers, host, output, worker, shared
<1>13. CASE Prepare BY <1>13 DEF Prepare, LaneUnchanged, worker, shared, Watched
<1>14. CASE Drain \/ Finish \/ LaneExits BY <1>14 DEF Drain, Finish, LaneExits, output, worker, shared
<1>15. CASE WorkerSteps
  <2>1. UNCHANGED host /\ UNCHANGED output BY <1>15, WorkerFrame
  <2>2. refill' \in {refill, TRUE, FALSE} /\ final' \in {final, FALSE}
    BY <1>15 DEF WorkerSteps, WorkerFails, Loaded, ReadSlot, Wake, CopySlot, Decode, TakeCredit,
                 HandleMessage, Crash, shared
  <2> QED BY <2>1, <2>2 DEF host, output
<1> QED BY <1>2, <1>3, <1>4, <1>5, <1>6, <1>7, <1>8, <1>9, <1>10, <1>11, <1>12, <1>13, <1>14, <1>15, Steps

LEMMA TypedNext == ASSUME Exact, [Next]_vars PROVE Typed'
<1>1. toHost' \in Seq(ToHost) /\ toWorker' \in Seq(ToWorker) BY WiresNext
<1>2. Typed BY DEF Exact, Job
<1>3a. Numbers' /\ Flags' BY NumbersNext, FlagsNext
<1> USE <1>1, <1>2, <1>3a DEF Typed
<1>3. CASE UNCHANGED vars BY <1>3 DEF vars, host, output, worker, shared
<1>4. CASE Fails BY <1>4 DEF Fails, InterruptLane, worker
<1>5. CASE Received BY <1>5 DEF Received, worker, shared, Watched, Running
<1>6. CASE \E m \in CommandKind : Queued(m)
  BY <1>6 DEF Queued, worker, shared, CommandKind
<1>7. CASE Published BY <1>7 DEF Published, worker
<1>8. CASE \E m \in CommandKind : Taken(m) BY <1>8 DEF Taken, worker, shared, CommandKind
<1>9. CASE Start \/ (\E r \in {reader, "cancelled"} : CancelWaiting(r) \/ CancelDone(r))
  BY <1>9 DEF Start, CancelWaiting, CancelDone, host, worker, shared
<1>10. CASE Read \/ Pull \/ Release \/ End
  BY <1>10 DEF Read, Pull, Release, End, host, worker, shared, Watched, Running
<1>11. CASE Terminate \/ Settled BY <1>11 DEF Terminate, Settled, host, output, worker, shared
<1>12. CASE AskRange \/ Delivers BY <1>12 DEF AskRange, Delivers, host, output, worker, shared
<1>13. CASE Prepare
  <2>1. lane' \in {lane, "take"} BY <1>13 DEF Prepare
  <2> QED BY <1>13, <2>1 DEF Prepare, LaneUnchanged, worker, shared
<1>14. CASE Drain \/ Finish \/ LaneExits
  BY <1>14 DEF Drain, Finish, LaneExits, output, worker, shared
<1>15. CASE WorkerSteps
  <2>1. UNCHANGED host /\ UNCHANGED output BY <1>15, WorkerFrame
  <2>2. CASE WorkerFails \/ Loaded \/ ReadSlot \/ Wake \/ CopySlot \/ Decode \/ TakeCredit \/ Crash
    BY <2>1, <2>2 DEF host, output, shared, WorkerFails, Loaded, ReadSlot, Wake, CopySlot, Decode,
                      TakeCredit, Crash
  <2>3. CASE HandleMessage BY <2>1, <2>3 DEF host, output, shared, HandleMessage
  <2> QED BY <1>15, <2>2, <2>3 DEF WorkerSteps
<1> QED BY <1>3, <1>4, <1>5, <1>6, <1>7, <1>8, <1>9, <1>10, <1>11, <1>12, <1>13, <1>14, <1>15, Steps

-----------------------------------------------------------------------------
(* The job: its lane, its phases, its blocks and its watchdog *)

LEMMA LaneReadsNext == ASSUME Exact, [Next]_vars PROVE LaneReads'
<1>1. Typed /\ LaneReads /\ Phases /\ Reading BY DEF Exact, Job
<1> USE <1>1, DecodeAssumption DEF LaneReads
<1>2. CASE UNCHANGED vars BY <1>2 DEF vars, host, deliveryVars
<1>3. CASE Fails
  <2>1. CASE InterruptLane BY <1>3, <2>1 DEF Fails, InterruptLane, Interrupt
  <2>2. CASE ~InterruptLane BY <1>3, <2>2 DEF Fails
  <2> QED BY <2>1, <2>2
<1>4. CASE Received \/ (\E m \in CommandKind : Queued(m)) BY <1>4 DEF Received, Queued, deliveryVars
<1>5. CASE Published BY <1>5 DEF Published, Consume, Arrived
<1>6. ASSUME NEW m \in CommandKind, Taken(m) PROVE LaneReads'
  <2>1. work = "running" /\ lane = "take" BY <1>6 DEF Taken, Running
  <2>2. Order BY <2>1 DEF Exact, Protocol
  <2>3. m = "ready" => src < Headers BY <1>6, <2>2 DEF Taken, Order, Starting, Feeding, Completing
  <2>4. read = "idle" /\ held = "none" BY <2>1
  <2>5. UNCHANGED <<read, held, src>> BY <1>6 DEF Taken, deliveryVars
  <2>6. lane' = "prepare" => m = "ready" BY <1>6 DEF Taken
  <2> QED BY <2>3, <2>4, <2>5, <2>6
<1>7. CASE Start \/ (\E r \in {reader, "cancelled"} : CancelWaiting(r) \/ CancelDone(r))
  BY <1>7 DEF Start, CancelWaiting, CancelDone, host, deliveryVars, Phases
<1>8. CASE Read \/ Pull \/ Release \/ End \/ Terminate \/ Settled
  BY <1>8 DEF Read, Pull, Release, End, Terminate, Settled, host, deliveryVars
<1>9. CASE AskRange BY <1>9 DEF AskRange, BeginRange, host
<1>10. CASE Prepare
  <2>1. read = "idle" /\ held' = "none" /\ read' = "idle" BY <1>10 DEF Prepare, Arrived, Consume
  <2>2. lane' = "take" \/ (lane' = "prepare" /\ src' # Headers) BY <1>10 DEF Prepare
  <2>3. src' = src + 1 /\ src < Headers BY <1>10 DEF Prepare
  <2>4. src \in Nat BY DEF Typed, Numbers
  <2>5. lane' = "prepare" => src' < Headers BY <2>2, <2>3, <2>4
  <2> QED BY <2>1, <2>2, <2>5
<1>11. CASE Drain \/ Finish \/ LaneExits BY <1>11 DEF Drain, Finish, LaneExits, deliveryVars
<1>12. CASE Delivers
  <2>1. UNCHANGED <<mode, lane, src>> BY <1>12 DEF Delivers, host
  <2>2. (read' # "idle" => read # "idle") /\ (held' # "none" => held # "none" \/ read # "idle")
    BY <1>12 DEF Delivers, Admit, OthersLeave, OthersEnter, Locate, Respond, FetchStalls, ReadBody,
                 Settle, CleanedUp, Quarantine, Retry, Follow
  <2> QED BY <2>1, <2>2
<1>13. CASE WorkerSteps BY <1>13, WorkerFrame DEF host, deliveryVars
<1> QED BY <1>2, <1>3, <1>4, <1>5, <1>6, <1>7, <1>8, <1>9, <1>10, <1>11, <1>12, <1>13, Steps

LEMMA PhasesNext == ASSUME Exact, [Next]_vars PROVE Phases'
<1>1. Phases /\ Typed BY DEF Exact, Job
<1> USE <1>1 DEF Phases, Running
<1>2. CASE UNCHANGED vars BY <1>2 DEF vars, host, output, worker
<1>3. CASE Fails BY <1>3 DEF Fails, InterruptLane, worker
<1>4. CASE Received \/ (\E m \in CommandKind : Queued(m)) BY <1>4 DEF Received, Queued, worker
<1>5. CASE Published BY <1>5 DEF Published, worker
<1>6. CASE \E m \in CommandKind : Taken(m) BY <1>6 DEF Taken, worker
<1>7. CASE Start BY <1>7 DEF Start
<1>8. CASE \E r \in {reader, "cancelled"} : CancelWaiting(r) \/ CancelDone(r)
  BY <1>8 DEF CancelWaiting, CancelDone, host, worker
<1>9. CASE Read \/ Pull \/ Release \/ End BY <1>9 DEF Read, Pull, Release, End, host, worker
<1>10. CASE Terminate BY <1>10 DEF Terminate, output
<1>11. CASE Settled BY <1>11 DEF Settled, host, worker
<1>12. CASE AskRange \/ Delivers BY <1>12 DEF AskRange, Delivers, host, output, worker
<1>13. CASE Prepare
  <2>1. lane = "prepare" /\ lane' \in {lane, "take"} BY <1>13 DEF Prepare
  <2> QED BY <1>13, <2>1 DEF Prepare, LaneUnchanged, worker
<1>14. CASE Drain \/ Finish BY <1>14 DEF Drain, Finish, output, worker
<1>15. CASE LaneExits BY <1>15 DEF LaneExits, output, worker
<1>16. CASE WorkerSteps
  <2>1. wk # "starting" => wk' # "starting"
    BY <1>16 DEF WorkerSteps, WorkerFails, Loaded, ReadSlot, Wake, CopySlot, Decode, TakeCredit,
                 HandleMessage, Crash
  <2>2. wk # "starting"
    BY <1>16 DEF WorkerSteps, WorkerFails, Loaded, ReadSlot, Wake, CopySlot, Decode, TakeCredit,
                 HandleMessage, Crash
  <2> QED BY <1>16, <2>1, <2>2, WorkerFrame DEF host, output
<1> QED BY <1>2, <1>3, <1>4, <1>5, <1>6, <1>7, <1>8, <1>9, <1>10, <1>11, <1>12, <1>13, <1>14, <1>15,
           <1>16, Steps

LEMMA BlocksKeptNext == ASSUME Exact, [Next]_vars PROVE BlocksKept'
<1>1. BlocksKept /\ Phases /\ Typed BY DEF Exact, Job
<1>2. /\ blocks \in Nat /\ got \in Nat /\ delivered \in Nat /\ borrowed \in BOOLEAN /\ cut \in BOOLEAN
      /\ Credits \in Nat
  BY <1>1 DEF Typed, Numbers, Flags, Credits
<1> USE <1>1, <1>2 DEF BlocksKept, Outputs
<1>3. ASSUME UNCHANGED <<work, reason, lane, got, output>> PROVE BlocksKept' BY <1>3 DEF output
<1>4. CASE Fails BY <1>4 DEF Fails, Phases, Running
<1>5. CASE Received BY <1>5 DEF Received, Heard, Phases, Running
<1>6. CASE Published \/ (\E m \in CommandKind : Queued(m) \/ Taken(m))
  <2>1. UNCHANGED <<work, reason, got, blocks, borrowed, reader, delivered, cut>> /\ Running
    BY <1>6 DEF Published, Queued, Taken, Heard
  <2>2. reader # "closed" BY <2>1 DEF Phases
  <2> QED BY <2>1, <2>2
<1>7. CASE Start \/ (\E r \in {reader, "cancelled"} : CancelWaiting(r))
  BY <1>7 DEF Start, CancelWaiting, Phases
<1>8. CASE \E r \in {reader, "cancelled"} : CancelDone(r)
  <2>1. reason = "ok" /\ reader \in {"idle", "pulling"} /\ reader' \in {reader, "cancelled"}
    BY <1>8 DEF CancelDone
  <2>2. blocks' = 0 /\ borrowed' = FALSE /\ UNCHANGED <<work, reason, lane, got, delivered>>
    BY <1>8 DEF CancelDone, host
  <2>3. CASE cut' = FALSE
    <3>1. ~(cut \/ blocks > 0) BY <1>8, <2>3 DEF CancelDone
    <3>2. ~cut /\ blocks = 0 BY <3>1
    <3> QED BY <2>1, <2>2, <3>2
  <2>4. CASE cut' # FALSE
    <3>1. cut' = TRUE BY <1>8, <2>4 DEF CancelDone
    <3> QED BY <2>1, <2>2, <3>1
  <2> QED BY <2>3, <2>4
<1>9. CASE Read BY <1>9 DEF Read, host
<1>10. CASE Pull BY <1>10 DEF Pull, host
<1>11. CASE Release BY <1>11 DEF Release, host
<1>12. CASE End
  <2>1. reader' = "closed" => reason = "ok" BY <1>12 DEF End, Phases
  <2> QED BY <1>12, <2>1 DEF End, host, Phases
<1>13. CASE Terminate BY <1>13 DEF Terminate, output
<1>14. CASE Settled BY <1>14 DEF Settled, host
<1>15. CASE AskRange \/ Delivers BY <1>15, <1>3 DEF AskRange, Delivers, host
<1>16. CASE Prepare BY <1>16 DEF Prepare, LaneUnchanged, Phases, Running
<1>17. CASE Drain BY <1>17, <1>3 DEF Drain
<1>18. CASE Finish
  <2>1. Order BY <1>18 DEF Finish, Running, Exact, Protocol
  <2>2. got = Blocks BY <1>18, <2>1 DEF Finish, Order, Starting, Feeding, Completing
  <2> QED BY <1>18, <2>2 DEF Finish, Phases, Running
<1>19. CASE LaneExits BY <1>19 DEF LaneExits, output
<1>20. CASE WorkerSteps BY <1>20, <1>3, WorkerFrame DEF host
<1>21. CASE UNCHANGED vars BY <1>21, <1>3 DEF vars, host
<1> QED BY <1>4, <1>5, <1>6, <1>7, <1>8, <1>9, <1>10, <1>11, <1>12, <1>13, <1>14, <1>15, <1>16, <1>17,
           <1>18, <1>19, <1>20, <1>21, Steps

LEMMA WatchdogNext == ASSUME Exact, [Next]_vars PROVE WatchdogExact'
<1>1. WatchdogExact /\ Phases /\ Typed BY DEF Exact, Job
<1>2. blocks \in Nat /\ borrowed \in BOOLEAN /\ dog \in BOOLEAN BY <1>1 DEF Typed, Numbers, Flags
<1> USE <1>1, <1>2 DEF WatchdogExact, Running
<1>3. ASSUME UNCHANGED <<work, lane, blocks, borrowed, dog>> PROVE WatchdogExact'
  BY <1>3 DEF SourcePending, Outputs
<1>4. CASE Fails BY <1>4 DEF Fails
<1>5. CASE Received
  <2>1. Outputs' = Outputs + 1 BY <1>5 DEF Received, Outputs
  <2>2. work' = work /\ SourcePending' = SourcePending BY <1>5 DEF Received, SourcePending
  <2>3. dog' = Watched(SourcePending, Outputs + 1) BY <1>5 DEF Received
  <2> HIDE DEF WatchdogExact
  <2>4. dog' = (work' = "running" /\ ~SourcePending' /\ Outputs' < Credits)
    BY <2>1, <2>2, <2>3 DEF Watched
  <2> QED BY <2>4 DEF WatchdogExact
<1>6. CASE \E m \in CommandKind : Queued(m) BY <1>6 DEF Queued, Rearm, Watched, SourcePending, Outputs
<1>7. CASE \E m \in CommandKind : Taken(m) BY <1>7 DEF Taken, SourcePending
<1>8. CASE Published BY <1>8 DEF Published, Watched, SourcePending, Outputs
<1>9. CASE Start
  <2>1. Outputs = 0 BY <1>9 DEF Start, Exact, Job, BlocksKept
  <2> QED BY <1>9, <2>1 DEF Start, SourcePending, Outputs, Credits
<1>10. CASE \E r \in {reader, "cancelled"} : CancelWaiting(r) BY <1>10 DEF CancelWaiting
<1>11. CASE \E r \in {reader, "cancelled"} : CancelDone(r) BY <1>11 DEF CancelDone, host
<1>12. CASE Read \/ End BY <1>12, <1>3 DEF Read, End, host
<1>13. CASE Pull
  <2>1. UNCHANGED <<work, lane>> /\ SourcePending' = SourcePending BY <1>13 DEF Pull, host, SourcePending
  <2>2. CASE mode = "legacy"
    <3>1. Outputs' = Outputs - 1 BY <1>13, <2>2 DEF Pull, Outputs
    <3>2. dog' = Watched(SourcePending, Outputs - 1) BY <1>13, <2>2 DEF Pull
    <3> QED BY <2>1, <3>1, <3>2 DEF Watched
  <2>3. CASE mode # "legacy"
    <3>1. mode = "borrowed" BY <2>3 DEF Exact, Job, Typed
    <3>2. borrowed' = TRUE /\ ~borrowed /\ blocks' = blocks - 1 /\ dog' = dog BY <1>13, <3>1 DEF Pull
    <3>3. Outputs' = Outputs BY <3>2 DEF Outputs
    <3> QED BY <2>1, <3>2, <3>3
  <2> QED BY <2>2, <2>3
<1>14. CASE Release
  <2>1. UNCHANGED <<work, lane>> /\ SourcePending' = SourcePending BY <1>14 DEF Release, host, SourcePending
  <2>2. Outputs' = blocks BY <1>14 DEF Release, Outputs
  <2>3. dog' = (IF Running THEN Watched(SourcePending, blocks) ELSE dog) BY <1>14 DEF Release
  <2> QED BY <2>1, <2>2, <2>3 DEF Watched
<1>15. CASE Terminate BY <1>15 DEF Terminate, output
<1>16. CASE Settled \/ AskRange \/ Delivers BY <1>16, <1>3 DEF Settled, AskRange, Delivers, host, output
<1>17. CASE Prepare
  <2>1. CASE lane' = "take" BY <1>17, <2>1 DEF Prepare, LaneUnchanged, Watched, SourcePending, Outputs
  <2>2. CASE lane' # "take" BY <1>17, <2>2, <1>3 DEF Prepare, LaneUnchanged
  <2> QED BY <2>1, <2>2
<1>18. CASE Drain BY <1>18, <1>3 DEF Drain, output
<1>19. CASE Finish BY <1>19 DEF Finish
<1>20. CASE LaneExits BY <1>20 DEF LaneExits, output
<1>21. CASE WorkerSteps BY <1>21, <1>3, WorkerFrame DEF host, output
<1>22. CASE UNCHANGED vars BY <1>22, <1>3 DEF vars, host, output
<1> QED BY <1>4, <1>5, <1>6, <1>7, <1>8, <1>9, <1>10, <1>11, <1>12, <1>13, <1>14, <1>15, <1>16, <1>17,
           <1>18, <1>19, <1>20, <1>21, <1>22, Steps

-----------------------------------------------------------------------------
(* The protocol of a job that produces *)

Producing == work \in {"waiting", "running"}
Kept == OneCommand /\ Refills /\ Order /\ CreditsKept

LEMMA ProtocolInit == Init => Protocol
<1> SUFFICES ASSUME Init PROVE Protocol OBVIOUS
<1> USE DecodeAssumption DEF Init, Credits
<1>1. /\ toHost = <<>> /\ \A m : Sent(m, toHost) = 0
      /\ toWorker = <<>> /\ \A m : Sent(m, toWorker) = 0
  BY OccurrencesNone, SentOccurs
<1>2. OneCommand
  <2>1. CommandsSent = 0 /\ LaneHolds = 0 /\ SlotHolds = 0 /\ Len(commands) = 0
    BY <1>1 DEF CommandsSent, LaneHolds, SlotHolds
  <2> QED BY <1>1, <2>1 DEF OneCommand, Pending
<1>3. Refills BY DEF Refills
<1>4. Order BY <1>1 DEF Order, Starting, Feeding, Completing, SlotHolds
<1>5. CreditsKept BY <1>1 DEF CreditsKept, Circulating, Outputs
<1> QED BY <1>2, <1>3, <1>4, <1>5 DEF Protocol

(* Steps that change nothing that the protocol speaks of. *)
Aside == UNCHANGED <<wires, shared, worker, lane, ready, commands, terminal, src, got, blocks, borrowed>>

LEMMA ProducingSteps == ASSUME Exact, [Next]_vars, Producing'
  PROVE  /\ Producing /\ Typed /\ Kept
         /\ \/ Aside
            \/ (\E m \in CommandKind : Queued(m) \/ Taken(m)) \/ Received \/ Published
            \/ Start \/ Pull \/ Release \/ Prepare \/ Drain \/ WorkerSteps
<1> USE DEF Producing
<1>1. ~Fails /\ ~Finish /\ ~Terminate /\ ~Settled /\ ~LaneExits
      /\ ~(\E r \in {reader, "cancelled"} : CancelWaiting(r) \/ CancelDone(r))
  BY DEF Fails, Finish, Terminate, Settled, LaneExits, CancelWaiting, CancelDone, host
<1>2. UNCHANGED vars \/ Read \/ End \/ AskRange \/ Delivers => Aside
  BY DEF Aside, vars, host, output, worker, shared, wires, Read, End, AskRange, Delivers
<1>3. \/ Aside
      \/ (\E m \in CommandKind : Queued(m) \/ Taken(m)) \/ Received \/ Published
      \/ Start \/ Pull \/ Release \/ Prepare \/ Drain \/ WorkerSteps
  BY <1>1, <1>2, Steps
<1>4. Producing
  <2>1. UNCHANGED vars \/ Read \/ End \/ AskRange \/ Delivers \/ Pull \/ Release \/ Drain => work' = work
    BY DEF vars, host, Read, End, AskRange, Delivers, Pull, Release, Drain
  <2>2. WorkerSteps => work' = work BY WorkerFrame DEF host
  <2>3. (\E m \in CommandKind : Queued(m) \/ Taken(m)) \/ Received \/ Published \/ Prepare => Running
    BY DEF Queued, Taken, Heard, Received, Published, Prepare
  <2>4. Start => work = "waiting" BY DEF Start
  <2> QED BY <2>1, <2>2, <2>3, <2>4, <1>1, Steps DEF Running
<1>5. Kept BY <1>4 DEF Exact, Protocol, Kept
<1> QED BY <1>3, <1>4, <1>5 DEF Exact, Job

(* The Worker's steps while the job produces, with what they post. *)
LEMMA PostsSent == ASSUME Typed, NEW d \in ToHost, Post(d)
  PROVE  \A m : Sent(m, toHost)' = IF d = m THEN Sent(m, toHost) + 1 ELSE Sent(m, toHost)
BY PostSent DEF Post

LEMMA PostedPending ==
  ASSUME Typed, NEW d \in ToHost, Post(d), UNCHANGED <<lane, commands, slot, toWorker>>
  PROVE  /\ d \in CommandKind => Pending' = Pending + 1
         /\ d \notin CommandKind => Pending' = Pending
<1>1. /\ Sent("ready", toHost) \in Nat /\ Sent("input-credit", toHost) \in Nat
      /\ Sent("complete", toHost) \in Nat
  BY SentNat
<1>2. \A m : Sent(m, toHost)' = IF d = m THEN Sent(m, toHost) + 1 ELSE Sent(m, toHost) BY PostsSent
<1>3. /\ d \in CommandKind => CommandsSent' = CommandsSent + 1
      /\ d \notin CommandKind => CommandsSent' = CommandsSent
  <2>1. CASE d = "ready" BY <1>1, <1>2, <2>1 DEF CommandsSent, CommandKind
  <2>2. CASE d = "input-credit" BY <1>1, <1>2, <2>2 DEF CommandsSent, CommandKind
  <2>3. CASE d = "complete" BY <1>1, <1>2, <2>3 DEF CommandsSent, CommandKind
  <2>4. CASE d \notin CommandKind BY <1>2, <2>4 DEF CommandsSent, CommandKind
  <2> QED BY <2>1, <2>2, <2>3, <2>4 DEF CommandKind
<1>4. LaneHolds' = LaneHolds /\ SlotHolds' = SlotHolds BY DEF LaneHolds, SlotHolds
<1> QED BY <1>3, <1>4, PendingNat DEF Pending

LEMMA OneCommandNext == ASSUME Exact, [Next]_vars, Producing' PROVE OneCommand'
<1>1. Typed /\ OneCommand /\ Refills /\ Order BY ProducingSteps DEF Kept
<1>2. /\ \A m : Sent(m, toHost) \in Nat /\ Sent(m, toWorker) \in Nat
      /\ Sent("ready", toHost) \in Nat /\ Sent("input-credit", toHost) \in Nat /\ Sent("complete", toHost) \in Nat
  BY <1>1, SentNat
<1>3. /\ CommandsSent \in Nat /\ Len(commands) \in Nat /\ LaneHolds \in {0, 1} /\ SlotHolds \in {0, 1}
      /\ Sent("initialize", toWorker) \in Nat /\ Pending \in Nat
  BY <1>1, PendingNat
<1> USE <1>1, <1>2, <1>3
<1>4. ASSUME UNCHANGED <<toHost, toWorker, commands, slot, wk, refill>>,
             lane \in {"prepare", "read", "finish"} <=> lane' \in {"prepare", "read", "finish"}
      PROVE  OneCommand'
  BY <1>4 DEF OneCommand, Pending, CommandsSent, LaneHolds, SlotHolds
<1>5. CASE Aside BY <1>4, <1>5 DEF Aside, wires, shared, worker
<1>6. ASSUME NEW m \in CommandKind, Queued(m) PROVE OneCommand'
  <2>1. \A k : Sent(k, toHost)' = IF m = k THEN Sent(k, toHost) - 1 ELSE Sent(k, toHost)
    BY <1>6, HearSent DEF Queued, Heard
  <2>2. Len(commands) = 0 /\ Len(commands') = 1 BY <1>6 DEF Queued
  <2>3. UNCHANGED <<toWorker, lane, slot, wk, refill>> BY <1>6 DEF Queued, shared, worker
  <2>4. CommandsSent' = CommandsSent - 1
    <3>1. /\ Sent("ready", toHost)' = IF m = "ready" THEN Sent("ready", toHost) - 1 ELSE Sent("ready", toHost)
          /\ Sent("input-credit", toHost)' =
               IF m = "input-credit" THEN Sent("input-credit", toHost) - 1 ELSE Sent("input-credit", toHost)
          /\ Sent("complete", toHost)' = IF m = "complete" THEN Sent("complete", toHost) - 1 ELSE Sent("complete", toHost)
      BY <2>1
    <3> QED BY <3>1 DEF CommandKind, CommandsSent
  <2>5. Pending' = Pending BY <2>2, <2>3, <2>4 DEF Pending, LaneHolds, SlotHolds
  <2> QED BY <2>3, <2>5 DEF OneCommand
<1>7. ASSUME NEW m \in CommandKind, Taken(m) PROVE OneCommand'
  <2>1. lane = "take" /\ lane' \in {"prepare", "read", "finish"} /\ Len(commands) = 1 /\ Len(commands') = 0
    BY <1>7 DEF Taken
  <2>2. UNCHANGED <<toHost, toWorker, slot, wk, refill>> BY <1>7 DEF Taken, wires, shared, worker
  <2>3. Pending' = Pending BY <2>1, <2>2 DEF Pending, CommandsSent, LaneHolds, SlotHolds
  <2> QED BY <2>2, <2>3 DEF OneCommand
<1>8. CASE Received
  <2>1. \A k : Sent(k, toHost)' = IF "pcm" = k THEN Sent(k, toHost) - 1 ELSE Sent(k, toHost)
    BY <1>8, HearSent DEF Received, Heard
  <2>2. UNCHANGED <<toWorker, commands, lane, slot, wk, refill>> BY <1>8 DEF Received, shared, worker
  <2>3. Pending' = Pending BY <2>1, <2>2 DEF Pending, CommandsSent, LaneHolds, SlotHolds
  <2> QED BY <2>2, <2>3 DEF OneCommand
<1>9. CASE Published
  <2>1. lane = "read" /\ lane' = "take" /\ slot = "empty" /\ slot' = "full" BY <1>9 DEF Published
  <2>2. UNCHANGED <<toHost, toWorker, commands, wk, refill>> BY <1>9 DEF Published, wires, worker
  <2>3. Pending' = Pending BY <2>1, <2>2 DEF Pending, CommandsSent, LaneHolds, SlotHolds
  <2> QED BY <2>2, <2>3 DEF OneCommand
<1>10. CASE Start
  <2>1. wk = "starting" /\ wk' = "loading" /\ lane' = "take" /\ Phases
    BY <1>10 DEF Start, Exact, Job
  <2>2. UNCHANGED <<toHost, toWorker, commands, slot, refill>> BY <1>10 DEF Start, wires, shared
  <2>3. lane = "waiting" BY <1>10, <2>1 DEF Start, Phases
  <2>4. Pending' = Pending BY <2>1, <2>2, <2>3 DEF Pending, CommandsSent, LaneHolds, SlotHolds
  <2> QED BY <2>1, <2>2, <2>4 DEF OneCommand
<1>11. CASE Pull \/ Release
  <2>1. toWorker' = toWorker \/ toWorker' = Append(toWorker, "output-credit")
    BY <1>11 DEF Pull, Release
  <2>2. Sent("initialize", toWorker)' = Sent("initialize", toWorker)
    BY <2>1, CommandSent DEF ToWorker
  <2>3. UNCHANGED <<toHost, commands, lane, slot, wk, refill>> BY <1>11 DEF Pull, Release, host, shared, worker
  <2>4. Pending' = Pending BY <2>2, <2>3 DEF Pending, CommandsSent, LaneHolds, SlotHolds
  <2> QED BY <2>3, <2>4 DEF OneCommand
<1>12. CASE Prepare
  <2>1. UNCHANGED <<toHost, commands, slot, wk, refill>> BY <1>12 DEF Prepare, LaneUnchanged, shared, worker
  <2>2. CASE src' = Headers
    <3>1. lane = "prepare" /\ lane' = "take" /\ toWorker' = Append(toWorker, "initialize")
      BY <1>12, <2>2 DEF Prepare
    <3>2. Sent("initialize", toWorker)' = Sent("initialize", toWorker) + 1
      BY <3>1, CommandSent DEF ToWorker
    <3>3. CommandsSent' = CommandsSent /\ SlotHolds' = SlotHolds BY <2>1 DEF CommandsSent, SlotHolds
    <3>4. LaneHolds = 1 /\ LaneHolds' = 0 BY <3>1 DEF LaneHolds
    <3>5. Pending' = Pending BY <2>1, <3>2, <3>3, <3>4 DEF Pending
    <3> QED BY <2>1, <3>5 DEF OneCommand
  <2>3. CASE src' # Headers BY <1>4, <1>12, <2>1, <2>3 DEF Prepare
  <2> QED BY <2>2, <2>3
<1>13. CASE Drain BY <1>4, <1>13 DEF Drain, shared, wires, worker
<1>14. ASSUME WorkerSteps PROVE OneCommand'
  <2>1. UNCHANGED <<lane, commands>> BY <1>14, WorkerFrame DEF host
  <2>2. CASE WorkerFails \/ Crash
    <3>1. Post("error") /\ wk' = "closed" /\ UNCHANGED <<toWorker, slot>>
      BY <2>2 DEF WorkerFails, Crash, shared
    <3>2. Pending' = Pending BY <2>1, <3>1, PostedPending DEF ToHost, CommandKind
    <3> QED BY <3>1, <3>2 DEF OneCommand
  <2>3. CASE Loaded
    <3>1. Post("ready") /\ wk = "loading" /\ wk' = "prepared" /\ UNCHANGED <<toWorker, slot>>
      BY <2>3 DEF Loaded, shared
    <3>2. Pending' = Pending + 1 BY <2>1, <3>1, PostedPending DEF ToHost, CommandKind
    <3> QED BY <3>1, <3>2 DEF OneCommand
  <2>4. CASE ReadSlot
    <3>1. wk = "reading" /\ UNCHANGED <<toWorker, slot>> BY <2>4 DEF ReadSlot, shared
    <3>2. CASE slot = "aborted" \/ slot = "eof"
      <4>1. ~refill /\ Pending = 0 BY <3>1, <3>2 DEF Refills, OneCommand
      <4>2. slot = "eof" BY <3>2 DEF Order, Starting, Feeding, Completing
      <4>3. wk' = "decoding" /\ UNCHANGED <<refill, toHost>> BY <2>4, <4>2 DEF ReadSlot
      <4>4. Pending' = Pending BY <2>1, <3>1, <4>3 DEF Pending, CommandsSent, LaneHolds, SlotHolds
      <4> QED BY <4>1, <4>3, <4>4 DEF OneCommand
    <3>3. CASE slot = "empty"
      <4>1. ~refill /\ Pending = 0 BY <3>1, <3>3 DEF Refills, OneCommand
      <4>2. wk' = "waiting" /\ Post("input-credit") BY <2>4, <3>3, <4>1 DEF ReadSlot
      <4>3. Pending' = Pending + 1 BY <2>1, <3>1, <4>2, PostedPending DEF ToHost, CommandKind
      <4> QED BY <4>1, <4>2, <4>3 DEF OneCommand
    <3>4. CASE slot = "full"
      <4>1. wk' = "copying" /\ toHost' = toHost BY <2>4, <3>4 DEF ReadSlot
      <4>2. Pending' = Pending BY <2>1, <3>1, <4>1 DEF Pending, CommandsSent, LaneHolds, SlotHolds
      <4> QED BY <4>1, <4>2 DEF OneCommand
    <3> QED BY <2>4, <3>2, <3>3, <3>4 DEF ReadSlot
  <2>5. CASE Wake
    <3>1. wk = "waiting" /\ wk' = "reading" /\ UNCHANGED <<toHost, toWorker, slot, refill>>
      BY <2>5 DEF Wake, wires, shared
    <3>2. refill BY <3>1 DEF Refills
    <3>3. Pending' = Pending BY <2>1, <3>1 DEF Pending, CommandsSent, LaneHolds, SlotHolds
    <3> QED BY <3>1, <3>2, <3>3 DEF OneCommand
  <2>6. CASE CopySlot
    <3>1. wk = "copying" /\ wk' = "decoding" /\ slot' \in {"eof", "empty"} /\ UNCHANGED <<toHost, toWorker>>
      BY <2>6 DEF CopySlot, wires
    <3>2. slot = "full" BY <3>1 DEF Refills
    <3>3. CommandsSent' = CommandsSent /\ LaneHolds' = LaneHolds BY <2>1, <3>1 DEF CommandsSent, LaneHolds
    <3>4. SlotHolds = 1 /\ SlotHolds' = 0 BY <3>1, <3>2 DEF SlotHolds
    <3>5. Pending' = Pending - 1 /\ Pending >= 1 BY <2>1, <3>1, <3>3, <3>4 DEF Pending
    <3> QED BY <3>1, <3>5 DEF OneCommand
  <2>7. CASE Decode
    <3>1. wk = "decoding" /\ UNCHANGED <<toWorker, slot, refill>> BY <2>7 DEF Decode, shared
    <3>2. ~refill /\ Pending = 0 BY <3>1 DEF Refills, OneCommand
    <3>3. CASE toHost' = toHost
      <4>1. Pending' = Pending BY <2>1, <3>1, <3>3 DEF Pending, CommandsSent, LaneHolds, SlotHolds
      <4>2. wk' \notin {"starting", "loading"} BY <2>7 DEF Decode
      <4> QED BY <3>2, <4>1, <4>2 DEF OneCommand
    <3>4. CASE wk' = "done" /\ Post("complete")
      <4>1. Pending' = Pending + 1 BY <2>1, <3>1, <3>4, PostedPending DEF ToHost, CommandKind
      <4> QED BY <3>2, <3>4, <4>1 DEF OneCommand
    <3> QED BY <2>7, <3>3, <3>4 DEF Decode
  <2>8. CASE TakeCredit
    <3>1. wk = "crediting" /\ wk' = "decoding" /\ Post("pcm") /\ UNCHANGED <<toWorker, slot, refill>>
      BY <2>8 DEF TakeCredit, shared
    <3>2. ~refill /\ Pending = 0 BY <3>1 DEF Refills, OneCommand
    <3>3. Pending' = Pending BY <2>1, <3>1, PostedPending DEF ToHost, CommandKind
    <3> QED BY <3>1, <3>2, <3>3 DEF OneCommand
  <2>9. CASE HandleMessage
    <3>1. /\ toWorker # <<>> /\ toWorker' = Tail(toWorker) /\ UNCHANGED <<slot, refill>>
          /\ wk \in {"loading", "prepared", "decoding", "crediting", "done"}
      BY <2>9 DEF HandleMessage, shared
    <3>2. \A m : Sent(m, toWorker)' = IF Head(toWorker) = m THEN Sent(m, toWorker) - 1 ELSE Sent(m, toWorker)
      BY <3>1, HandleSent
    <3>3. \A m \in {"ready", "input-credit", "complete"} : Sent(m, toHost)' = Sent(m, toHost)
      BY <2>9, PostsSent DEF HandleMessage, ToHost
    <3>4. Pending' = Pending - (IF Head(toWorker) = "initialize" THEN 1 ELSE 0)
      <4>1. /\ Sent("ready", toHost)' = Sent("ready", toHost)
            /\ Sent("input-credit", toHost)' = Sent("input-credit", toHost)
            /\ Sent("complete", toHost)' = Sent("complete", toHost)
        BY <3>3
      <4>2. Sent("initialize", toWorker)' = Sent("initialize", toWorker)
                - (IF Head(toWorker) = "initialize" THEN 1 ELSE 0)
        BY <3>2
      <4>3. CommandsSent' = CommandsSent BY <4>1 DEF CommandsSent
      <4> QED BY <2>1, <3>1, <4>2, <4>3 DEF Pending, LaneHolds, SlotHolds
    <3>5. Pending \in Nat OBVIOUS
    <3>6. Head(toWorker) = "initialize" => Sent("initialize", toWorker) >= 1 BY <3>1, WaitingWorker
    <3>7. Head(toWorker) = "initialize" => Pending >= 1 BY <3>6 DEF Pending
    <3>8. wk' = wk \/ wk' = "closed" \/ (wk = "prepared" /\ wk' = "decoding" /\ Head(toWorker) = "initialize")
      BY <2>9 DEF HandleMessage
    <3> QED BY <3>1, <3>4, <3>5, <3>7, <3>8 DEF OneCommand
  <2> QED BY <1>14, <2>2, <2>3, <2>4, <2>5, <2>6, <2>7, <2>8, <2>9 DEF WorkerSteps
<1> QED BY <1>5, <1>6, <1>7, <1>8, <1>9, <1>10, <1>11, <1>12, <1>13, <1>14, ProducingSteps

LEMMA RefillsNext == ASSUME Exact, [Next]_vars, Producing' PROVE Refills'
<1>1. Typed /\ OneCommand /\ Refills /\ Order BY ProducingSteps DEF Kept
<1> USE <1>1 DEF Refills
<1>2. CASE Aside \/ (\E m \in CommandKind : Queued(m) \/ Taken(m)) \/ Received \/ Pull \/ Release \/ Prepare \/ Drain
  <2>1. UNCHANGED <<wk, refill, slot>>
    BY <1>2 DEF Aside, Queued, Taken, Received, Pull, Release, Prepare, Drain, LaneUnchanged, shared, worker
  <2> QED BY <2>1
<1>3. CASE Published BY <1>3 DEF Published, worker
<1>4. CASE Start BY <1>4 DEF Start, shared
<1>5. CASE WorkerSteps
  <2>1. CASE WorkerFails \/ Loaded \/ Crash BY <2>1 DEF WorkerFails, Loaded, Crash, shared
  <2>2. CASE ReadSlot BY <2>2 DEF ReadSlot, shared, Order, Starting, Feeding, Completing
  <2>3. CASE Wake \/ CopySlot BY <2>3 DEF Wake, CopySlot, shared
  <2>4. CASE Decode \/ TakeCredit BY <2>4 DEF Decode, TakeCredit, shared
  <2>5. CASE HandleMessage BY <2>5 DEF HandleMessage, shared
  <2> QED BY <1>5, <2>1, <2>2, <2>3, <2>4, <2>5 DEF WorkerSteps
<1> QED BY <1>2, <1>3, <1>4, <1>5, ProducingSteps

LEMMA CreditsNext == ASSUME Exact, [Next]_vars, Producing' PROVE CreditsKept'
<1>1. Producing /\ Typed /\ CreditsKept /\ Order BY ProducingSteps DEF Kept
<1>2. /\ Sent("pcm", toHost) \in Nat /\ Sent("output-credit", toWorker) \in Nat
      /\ Outputs \in Nat /\ made \in Nat /\ got \in Nat /\ credits \in 0..Credits /\ blocks \in Nat
      /\ borrowed \in BOOLEAN /\ Credits = 2
  BY <1>1, SentNat DEF Typed, Numbers, Flags, Outputs, Credits
<1> USE <1>1, <1>2
<1>3. ASSUME UNCHANGED <<made, got, credits, blocks, borrowed>>,
             Sent("pcm", toHost)' = Sent("pcm", toHost),
             Sent("output-credit", toWorker)' = Sent("output-credit", toWorker),
             ~terminal' /\ wk' # "done" => ~terminal /\ wk # "done"
      PROVE  CreditsKept'
  <2>1. Outputs' = Outputs BY <1>3 DEF Outputs
  <2> QED BY <1>3, <2>1 DEF CreditsKept, Circulating
<1>4. CASE Aside BY <1>3, <1>4 DEF Aside, wires, worker
<1>5. ASSUME NEW m \in CommandKind, Queued(m) PROVE CreditsKept'
  <2>1. Sent("pcm", toHost)' = Sent("pcm", toHost)
    BY <1>5, HearSent DEF Queued, Heard, CommandKind
  <2>2. ~terminal BY <1>5 DEF Queued
  <2> QED BY <1>3, <1>5, <2>1, <2>2 DEF Queued, worker
<1>6. CASE Published \/ (\E m \in CommandKind : Taken(m)) BY <1>3, <1>6 DEF Published, Taken, wires, worker
<1>7. CASE Received
  <2>1. Sent("pcm", toHost)' = Sent("pcm", toHost) - 1 BY <1>7, HearSent DEF Received, Heard
  <2>2. Outputs' = Outputs + 1 BY <1>7 DEF Received, Outputs
  <2>3. UNCHANGED <<made, credits, wk, toWorker, terminal>> /\ got' = got + 1 BY <1>7 DEF Received, worker
  <2> QED BY <2>1, <2>2, <2>3 DEF CreditsKept, Circulating
<1>8. CASE Start BY <1>3, <1>8 DEF Start, wires
<1>9. CASE Pull
  <2>1. UNCHANGED <<made, got, credits, wk, toHost, terminal>> BY <1>9 DEF Pull, host, worker
  <2>2. CASE mode = "legacy"
    <3>1. workflow = "pending" BY DEF Producing, Exact, Job, Phases
    <3>2. toWorker' = Append(toWorker, "output-credit") BY <1>9, <2>2, <3>1 DEF Pull
    <3>3. Sent("output-credit", toWorker)' = Sent("output-credit", toWorker) + 1
      BY <3>2, CommandSent DEF ToWorker
    <3>4. Outputs' = Outputs - 1 BY <1>9, <2>2 DEF Pull, Outputs
    <3> QED BY <2>1, <3>3, <3>4 DEF CreditsKept, Circulating
  <2>3. CASE mode # "legacy"
    <3>1. mode = "borrowed" BY <2>3 DEF Typed
    <3>2. borrowed' = TRUE /\ ~borrowed /\ blocks' = blocks - 1 /\ toWorker' = toWorker BY <1>9, <3>1 DEF Pull
    <3>3. Outputs' = Outputs BY <3>2 DEF Outputs
    <3> QED BY <2>1, <3>2, <3>3 DEF CreditsKept, Circulating
  <2> QED BY <2>2, <2>3
<1>10. CASE Release
  <2>1. UNCHANGED <<made, got, credits, wk, toHost, terminal>> BY <1>10 DEF Release, host, worker
  <2>2. Outputs' = Outputs - 1 /\ Outputs >= 1 BY <1>10 DEF Release, Outputs
  <2>3. Running
    <3>1. work # "waiting" BY <2>2 DEF Exact, Job, BlocksKept
    <3> QED BY <3>1 DEF Producing, Running
  <2>4. CASE terminal
    <3>1. toWorker' = toWorker BY <1>10, <2>4 DEF Release
    <3> QED BY <2>1, <2>2, <2>4, <3>1 DEF CreditsKept, Circulating
  <2>5. CASE ~terminal
    <3>1. toWorker' = Append(toWorker, "output-credit") BY <1>10, <2>3, <2>5 DEF Release
    <3>2. Sent("output-credit", toWorker)' = Sent("output-credit", toWorker) + 1
      BY <3>1, CommandSent DEF ToWorker
    <3> QED BY <2>1, <2>2, <2>5, <3>2 DEF CreditsKept, Circulating
  <2> QED BY <2>4, <2>5
<1>11. CASE Prepare
  <2>1. toWorker' = toWorker \/ toWorker' = Append(toWorker, "initialize") BY <1>11 DEF Prepare
  <2>2. Sent("output-credit", toWorker)' = Sent("output-credit", toWorker)
    BY <2>1, CommandSent DEF ToWorker
  <2> QED BY <1>3, <1>11, <2>2 DEF Prepare, LaneUnchanged, worker
<1>12. CASE Drain BY <1>3, <1>12 DEF Drain, output, worker, wires
<1>13. ASSUME WorkerSteps PROVE CreditsKept'
  <2>1. UNCHANGED <<got, blocks, borrowed, terminal>> BY <1>13, WorkerFrame DEF host, output
  <2>2. CASE WorkerFails \/ Loaded \/ ReadSlot \/ Wake \/ CopySlot \/ Decode \/ Crash
    <3>1. UNCHANGED <<made, credits, toWorker>>
      BY <2>2 DEF WorkerFails, Loaded, ReadSlot, Wake, CopySlot, Decode, Crash, wires
    <3>2. wk # "done" BY <2>2 DEF WorkerFails, Loaded, ReadSlot, Wake, CopySlot, Decode, Crash
    <3>3. toHost' = toHost \/ \E d \in ToHost \ {"pcm"} : Post(d)
      BY <2>2 DEF WorkerFails, Loaded, ReadSlot, Wake, CopySlot, Decode, Crash, wires, ToHost
    <3>4. Sent("pcm", toHost)' = Sent("pcm", toHost) BY <3>3, PostsSent
    <3> QED BY <1>3, <2>1, <3>1, <3>2, <3>4
  <2>3. CASE TakeCredit
    <3>1. /\ credits > 0 /\ credits' = credits - 1 /\ made' = made + 1 /\ wk # "done" /\ wk' # "done"
          /\ Post("pcm") /\ toWorker' = toWorker
      BY <2>3 DEF TakeCredit
    <3>2. Sent("pcm", toHost)' = Sent("pcm", toHost) + 1 BY <3>1, PostsSent DEF ToHost
    <3>3. Outputs' = Outputs BY <2>1 DEF Outputs
    <3> QED BY <2>1, <3>1, <3>2, <3>3 DEF CreditsKept, Circulating
  <2>4. CASE HandleMessage
    <3>1. toWorker # <<>> /\ toWorker' = Tail(toWorker) /\ made' = made BY <2>4 DEF HandleMessage
    <3>2. Sent("pcm", toHost)' = Sent("pcm", toHost) BY <2>4, PostsSent DEF HandleMessage, ToHost
    <3>3. Sent("output-credit", toWorker)' =
            IF Head(toWorker) = "output-credit" THEN Sent("output-credit", toWorker) - 1
                                                ELSE Sent("output-credit", toWorker)
      BY <3>1, HandleSent
    <3>4. Head(toWorker) = "output-credit" => Sent("output-credit", toWorker) >= 1 BY <3>1, WaitingWorker
    <3>5. Outputs' = Outputs BY <2>1 DEF Outputs
    <3>6. CASE wk = "done"
      <4>1. wk' = "done" /\ credits' = credits BY <2>4, <3>6 DEF HandleMessage
      <4> QED BY <2>1, <3>1, <3>2, <3>3, <3>4, <3>5, <4>1 DEF CreditsKept, Circulating
    <3>7. CASE wk # "done" /\ Head(toWorker) = "output-credit"
      <4>1. ~terminal BY <3>7 DEF Order, Starting, Feeding, Completing
      <4>2. credits < Credits BY <3>4, <3>7, <4>1 DEF CreditsKept, Circulating
      <4>3. credits' = credits + 1 /\ wk' = wk BY <2>4, <3>7, <4>2 DEF HandleMessage
      <4>4. Sent("output-credit", toWorker)' = Sent("output-credit", toWorker) - 1 BY <3>3, <3>7
      <4>5. Circulating' = Circulating BY <3>2, <3>5, <4>3, <4>4 DEF Circulating
      <4> QED BY <2>1, <3>1, <3>2, <4>3, <4>5 DEF CreditsKept
    <3>8. CASE wk # "done" /\ Head(toWorker) # "output-credit"
      <4>1. credits' = credits BY <2>4, <3>8 DEF HandleMessage
      <4> QED BY <1>3, <2>1, <3>1, <3>2, <3>3, <3>8, <4>1
    <3> QED BY <3>6, <3>7, <3>8
  <2> QED BY <1>13, <2>2, <2>3, <2>4 DEF WorkerSteps
<1> QED BY <1>4, <1>5, <1>6, <1>7, <1>8, <1>9, <1>10, <1>11, <1>12, <1>13, ProducingSteps

LEMMA WorkerBoundsNext == ASSUME Exact, [Next]_vars PROVE WorkerBounds'
<1>1. WorkerBounds /\ Phases /\ Typed /\ LaneReads BY DEF Exact, Job
<1>2. taken \in Nat /\ made \in Nat /\ got \in Nat /\ Chunks \in Nat /\ Blocks \in Nat
  BY <1>1, DecodeAssumption DEF Typed, Numbers
<1> USE <1>1, <1>2 DEF WorkerBounds, Running
<1>3. ASSUME UNCHANGED <<work, got, worker, slot>> PROVE WorkerBounds' BY <1>3 DEF worker
<1>4. CASE Fails BY <1>4 DEF Fails, worker
<1>5. CASE \E m \in CommandKind : Queued(m) \/ Taken(m) BY <1>3, <1>5 DEF Queued, Taken, shared
<1>6. CASE Received
  <2>1. Producing /\ CreditsKept BY <1>6 DEF Received, Heard, Exact, Protocol, Producing
  <2>2. Sent("pcm", toHost) >= 1 /\ Sent("pcm", toHost) \in Nat BY <1>6, Waiting, SentNat DEF Received, Heard
  <2>3. got + 1 <= made BY <2>1, <2>2 DEF CreditsKept
  <2> QED BY <1>6, <2>3 DEF Received, worker, shared
<1>7. CASE Published BY <1>7 DEF Published, worker
<1>8. CASE Start BY <1>8 DEF Start, shared
<1>9. CASE \E r \in {reader, "cancelled"} : CancelWaiting(r) BY <1>9 DEF CancelWaiting, shared
<1>10. CASE Read \/ Pull \/ Release \/ End \/ Settled \/ AskRange \/ Delivers
            \/ (\E r \in {reader, "cancelled"} : CancelDone(r))
  BY <1>3, <1>10 DEF Read, Pull, Release, End, Settled, AskRange, Delivers, CancelDone, host, shared
<1>11. CASE Terminate BY <1>11 DEF Terminate, shared
<1>12. CASE Prepare \/ Drain \/ LaneExits
  BY <1>3, <1>12 DEF Prepare, Drain, LaneExits, LaneUnchanged, shared
<1>13. CASE Finish
  <2>1. OneCommand BY <1>13 DEF Finish, Exact, Protocol
  <2>2. LaneHolds = 1 BY <1>13 DEF Finish, LaneHolds
  <2>3. SlotHolds = 0 BY <2>1, <2>2, PendingNat DEF OneCommand, Pending
  <2>4. slot # "full" BY <2>3 DEF SlotHolds
  <2> QED BY <1>13, <2>4 DEF Finish, worker, shared
<1>14. CASE UNCHANGED vars BY <1>3, <1>14 DEF vars, host, shared
<1>15. ASSUME WorkerSteps PROVE WorkerBounds'
  <2>1. UNCHANGED <<work, got>> BY <1>15, WorkerFrame DEF host
  <2>2. CASE WorkerFails \/ Loaded \/ Wake \/ Crash
    BY <2>1, <2>2 DEF WorkerFails, Loaded, Wake, Crash, shared
  <2>3. CASE ReadSlot
    <3>1. slot = "full" => taken < Chunks
      <4>1. SUFFICES ASSUME slot = "full" PROVE taken < Chunks OBVIOUS
      <4>2. OneCommand /\ Order BY <4>1 DEF Exact, Protocol
      <4>3. SlotHolds = 1 BY <4>1 DEF SlotHolds
      <4>4. LaneHolds = 0 BY <4>2, <4>3, PendingNat DEF OneCommand, Pending
      <4>5. lane # "finish" /\ ready BY <4>1, <4>2, <4>4 DEF LaneHolds, Order, Starting, Feeding, Completing
      <4>6. src = Headers + taken + 1 BY <4>2, <4>3, <4>5 DEF Order, Feeding
      <4> QED BY <4>6, DecodeAssumption DEF Typed, Numbers
    <3> QED BY <2>1, <2>3, <3>1 DEF ReadSlot, shared
  <2>4. CASE CopySlot BY <2>1, <2>4 DEF CopySlot
  <2>5. CASE Decode BY <2>1, <2>5 DEF Decode, shared
  <2>6. CASE TakeCredit BY <2>1, <2>6 DEF TakeCredit, shared
  <2>7. CASE HandleMessage BY <2>1, <2>7 DEF HandleMessage, shared
  <2> QED BY <1>15, <2>2, <2>3, <2>4, <2>5, <2>6, <2>7 DEF WorkerSteps
<1> QED BY <1>4, <1>5, <1>6, <1>7, <1>8, <1>9, <1>10, <1>11, <1>12, <1>13, <1>14, <1>15, Steps

(* The order of the commands, in its parts. *)
LEMMA LastIsLast == ASSUME Typed, Sent("complete", toHost) = 0
  PROVE  \A i \in 1..Len(toHost) : toHost[i] # "complete"
<1>1. toHost \in Seq(ToHost) BY DEF Typed
<1> DEFINE P == {i \in 1..Len(toHost) : toHost[i] = "complete"}
<1>2. IsFiniteSet(P) BY <1>1, OccurrencesFinite
<1>3. Cardinality(P) = 0 BY DEF Sent
<1> HIDE DEF P
<1>4. P = {} BY <1>2, <1>3, FS_EmptySet
<1> QED BY <1>4 DEF P

LEMMA PostKeepsLast == ASSUME Typed, Sent("complete", toHost) = 0, NEW d \in ToHost, Post(d)
  PROVE  \A i \in 1..Len(toHost') : toHost'[i] = "complete" => i = Len(toHost')
<1>1. toHost \in Seq(ToHost) BY DEF Typed
<1>2. PICK n \in Nat : n = Len(toHost) BY <1>1
<1>3. toHost' = Append(toHost, d) /\ Len(toHost') = n + 1 /\ \A i \in 1..n : toHost'[i] = toHost[i]
  BY <1>1, <1>2 DEF Post
<1>4. \A i \in 1..n : toHost'[i] # "complete" BY <1>2, <1>3, LastIsLast
<1> QED BY <1>2, <1>3, <1>4

LEMMA HearKeepsLast ==
  ASSUME Typed, toHost # <<>>, toHost' = Tail(toHost),
         \A i \in 1..Len(toHost) : toHost[i] = "complete" => i = Len(toHost)
  PROVE  /\ \A i \in 1..Len(toHost') : toHost'[i] = "complete" => i = Len(toHost')
         /\ Head(toHost) = "complete" => toHost' = <<>>
<1>1. toHost \in Seq(ToHost) BY DEF Typed
<1>2. PICK n \in Nat : n = Len(toHost) BY <1>1
<1>3. /\ Len(toHost') = n - 1 /\ toHost' \in Seq(ToHost) /\ n >= 1 /\ Head(toHost) = toHost[1]
      /\ \A i \in 1..(n - 1) : toHost'[i] = toHost[i + 1]
  BY <1>1, <1>2, HeadAndTail
<1>4. ASSUME NEW i \in 1..(n - 1), toHost'[i] = "complete" PROVE i = n - 1
  <2>1. i + 1 \in 1..n /\ toHost[i + 1] = "complete" BY <1>2, <1>3, <1>4
  <2> QED BY <1>2, <2>1
<1>5. ASSUME Head(toHost) = "complete" PROVE toHost' = <<>>
  <2>1. n = 1 BY <1>2, <1>3, <1>5
  <2> QED BY <1>3, <2>1
<1> QED BY <1>3, <1>4, <1>5

LEMMA StartingNext == ASSUME Exact, [Next]_vars, Producing' PROVE Starting'
<1>1. Typed /\ OneCommand /\ Starting /\ Completing BY ProducingSteps DEF Kept, Order
<1>2. /\ \A m : Sent(m, toHost) \in Nat /\ Sent(m, toWorker) \in Nat
      /\ src \in Nat /\ ready \in BOOLEAN /\ terminal \in BOOLEAN
  BY <1>1, SentNat DEF Typed, Numbers, Flags
<1> USE <1>1, <1>2 DEF Starting
<1>3. CASE Aside BY <1>3 DEF Aside, wires, shared, worker
<1>4. ASSUME NEW m \in CommandKind, Queued(m) PROVE Starting'
  <2>1. \A k : Sent(k, toHost)' = IF m = k THEN Sent(k, toHost) - 1 ELSE Sent(k, toHost)
    BY <1>4, HearSent DEF Queued, Heard
  <2>2. Sent(m, toHost) >= 1 BY <1>4, Waiting DEF Queued, Heard
  <2>3. /\ commands' = <<m>> /\ terminal' = (m = "complete")
        /\ UNCHANGED <<ready, wk, toWorker, lane, taken, made, slot, src>>
    BY <1>4 DEF Queued, shared, worker
  <2>4. CASE ~ready
    <3>1. m = "ready" BY <2>2, <2>4 DEF CommandKind
    <3>2. Sent("input-credit", toHost)' = 0 /\ Sent("complete", toHost)' = 0 BY <2>1, <2>4, <3>1
    <3> QED BY <2>3, <2>4, <3>1, <3>2
  <2>5. CASE ready
    <3>1. m # "ready" BY <2>2, <2>5
    <3>2. Sent("ready", toHost)' = 0 BY <2>1, <2>5, <3>1
    <3> QED BY <2>3, <2>5, <3>1, <3>2
  <2> QED BY <2>4, <2>5
<1>5. ASSUME NEW m \in CommandKind, Taken(m) PROVE Starting'
  <2>1. commands' = <<>> /\ UNCHANGED <<ready, wk, wires, taken, made, slot, terminal, src>>
    BY <1>5 DEF Taken, shared, worker
  <2>2. CASE ~ready
    <3>1. lane' = "prepare" BY <1>5, <2>2 DEF Taken
    <3> QED BY <2>1, <2>2, <3>1 DEF wires
  <2>3. CASE ready
    <3>1. lane' # "prepare" BY <1>5, <2>3 DEF Taken, CommandKind
    <3> QED BY <2>1, <2>3, <3>1 DEF wires
  <2> QED BY <2>2, <2>3
<1>6. CASE Received
  <2>1. \A k : Sent(k, toHost)' = IF "pcm" = k THEN Sent(k, toHost) - 1 ELSE Sent(k, toHost)
    BY <1>6, HearSent DEF Received, Heard
  <2>2. UNCHANGED <<ready, wk, toWorker, commands, lane, taken, made, slot, terminal, src>>
    BY <1>6 DEF Received, shared, worker
  <2> QED BY <2>1, <2>2
<1>7. CASE Published
  <2>1. ready BY <1>7 DEF Published
  <2> QED BY <1>7, <2>1 DEF Published, wires, worker
<1>8. CASE Start BY <1>8 DEF Start, wires, shared
<1>9. CASE Pull \/ Release
  <2>1. toWorker' = toWorker \/ toWorker' = Append(toWorker, "output-credit") BY <1>9 DEF Pull, Release
  <2>2. Sent("initialize", toWorker)' = Sent("initialize", toWorker) BY <2>1, CommandSent DEF ToWorker
  <2> QED BY <1>9, <2>2 DEF Pull, Release, host, shared, worker
<1>10. CASE Prepare
  <2>1. /\ lane = "prepare" /\ src' = src + 1
        /\ UNCHANGED <<wk, toHost, commands, taken, made, slot, terminal>>
    BY <1>10 DEF Prepare, LaneUnchanged, shared, worker
  <2>2. LaneHolds = 1 BY <2>1 DEF LaneHolds
  <2>3. CommandsSent = 0 /\ Len(commands) = 0 BY <2>2, PendingNat DEF OneCommand, Pending
  <2>4. Sent("ready", toHost) = 0 BY <2>3, PendingNat DEF CommandKind
  <2>5. wk \notin {"starting", "loading"} BY <2>2, PendingNat DEF OneCommand, Pending
  <2>6. CASE src' = Headers
    <3>1. lane' = "take" /\ ready' = TRUE BY <1>10, <2>6 DEF Prepare
    <3> QED BY <2>1, <2>3, <2>4, <2>5, <3>1
  <2>7. CASE src' # Headers
    <3>1. UNCHANGED <<lane, ready, toWorker>> BY <1>10, <2>7 DEF Prepare
    <3>2. src' < Headers BY <2>1, <2>7, DecodeAssumption
    <3> QED BY <2>1, <3>1, <3>2
  <2> QED BY <2>6, <2>7
<1>11. CASE Drain
  <2>1. ready BY <1>11 DEF Drain
  <2> QED BY <1>11, <2>1 DEF Drain, wires, worker
<1>12. ASSUME WorkerSteps PROVE Starting'
  <2>1. UNCHANGED <<ready, commands, lane, terminal, src>> BY <1>12, WorkerFrame DEF host
  <2>2. CASE WorkerFails \/ Crash \/ Loaded
    <3>1. (wk' = "closed" /\ Post("error")) \/ (wk = "loading" /\ wk' = "prepared" /\ Post("ready"))
      BY <2>2 DEF WorkerFails, Crash, Loaded
    <3>2. UNCHANGED <<toWorker, taken, made, slot>> BY <2>2 DEF WorkerFails, Crash, Loaded, shared
    <3>3. CASE ~ready
      <4>1. Sent("input-credit", toHost)' = 0 /\ Sent("complete", toHost)' = 0
        BY <3>1, <3>3, PostsSent DEF ToHost
      <4> QED BY <2>1, <3>1, <3>2, <3>3, <4>1
    <3>4. CASE ready
      <4>1. Sent("ready", toHost)' = 0 BY <3>1, <3>4, PostsSent DEF ToHost
      <4> QED BY <2>1, <3>1, <3>4, <4>1
    <3> QED BY <3>3, <3>4
  <2>3. CASE ReadSlot \/ Wake \/ CopySlot \/ Decode \/ TakeCredit
    <3>1. wk \in {"reading", "waiting", "copying", "decoding", "crediting"}
          /\ wk' \notin {"starting", "loading"}
      BY <2>3 DEF ReadSlot, Wake, CopySlot, Decode, TakeCredit
    <3>2. toHost' = toHost \/ \E d \in ToHost \ {"ready"} : Post(d)
      BY <2>3 DEF ReadSlot, Wake, CopySlot, Decode, TakeCredit, wires, ToHost
    <3>3. Sent("ready", toHost)' = Sent("ready", toHost) BY <3>2, PostsSent
    <3> QED BY <2>1, <3>1, <3>3
  <2>4. CASE HandleMessage
    <3>1. toWorker # <<>> /\ toWorker' = Tail(toWorker) /\ UNCHANGED <<taken, made, slot>>
      BY <2>4 DEF HandleMessage, shared
    <3>2. \A m \in CommandKind : Sent(m, toHost)' = Sent(m, toHost)
      BY <2>4, PostsSent DEF HandleMessage, ToHost, CommandKind
    <3>3. CASE ~ready
      <4>1. Head(toWorker) # "initialize" BY <3>1, <3>3, WaitingWorker
      <4>2. Sent("initialize", toWorker)' = 0 BY <3>1, <3>3, <4>1, HandleSent
      <4>3. wk' = wk \/ wk' = "closed" BY <2>4, <4>1 DEF HandleMessage
      <4> QED BY <2>1, <3>1, <3>2, <3>3, <4>2, <4>3 DEF CommandKind
    <3>4. CASE ready
      <4>1. wk' \in {wk, "closed", "decoding"} BY <2>4 DEF HandleMessage
      <4> QED BY <2>1, <3>2, <3>4, <4>1 DEF CommandKind
    <3> QED BY <3>3, <3>4
  <2> QED BY <1>12, <2>2, <2>3, <2>4 DEF WorkerSteps
<1> QED BY <1>3, <1>4, <1>5, <1>6, <1>7, <1>8, <1>9, <1>10, <1>11, <1>12, ProducingSteps

LEMMA FeedingNext == ASSUME Exact, [Next]_vars, Producing' PROVE Feeding'
<1>1. Typed /\ OneCommand /\ Refills /\ Starting /\ Feeding BY ProducingSteps DEF Kept, Order
<1>2. /\ \A m : Sent(m, toHost) \in Nat
      /\ src \in Nat /\ taken \in Nat /\ Chunks \in Nat /\ Headers \in Nat
      /\ final \in BOOLEAN /\ SlotHolds \in {0, 1}
  BY <1>1, SentNat, DecodeAssumption, PendingNat DEF Typed, Numbers, Flags
<1> USE <1>1, <1>2 DEF Feeding
<1>3. ASSUME UNCHANGED <<ready, lane, src, taken, commands, slot, final>>,
             Sent("input-credit", toHost)' > 0 => Sent("input-credit", toHost) > 0 \/ slot = "empty"
      PROVE  Feeding'
  BY <1>3 DEF SlotHolds
<1>4. CASE Aside BY <1>3, <1>4 DEF Aside, wires, shared, worker
<1>5. ASSUME NEW m \in CommandKind, Queued(m) PROVE Feeding'
  <2>1. \A k : Sent(k, toHost)' = IF m = k THEN Sent(k, toHost) - 1 ELSE Sent(k, toHost)
    BY <1>5, HearSent DEF Queued, Heard
  <2>2. Sent(m, toHost) >= 1 BY <1>5, Waiting DEF Queued, Heard
  <2>3. commands' = <<m>> /\ UNCHANGED <<ready, lane, src, taken, slot, final>> BY <1>5 DEF Queued, shared, worker
  <2>4. Sent("input-credit", toHost)' > 0 \/ m = "input-credit" => slot = "empty" BY <2>1, <2>2
  <2>5. SlotHolds' = SlotHolds BY <2>3 DEF SlotHolds
  <2> QED BY <2>3, <2>4, <2>5
<1>6. ASSUME NEW m \in CommandKind, Taken(m) PROVE Feeding'
  <2>1. commands = <<m>> /\ commands' = <<>> /\ lane = "take"
        /\ UNCHANGED <<ready, toHost, src, taken, slot, final>>
    BY <1>6 DEF Taken, wires, shared, worker
  <2>2. lane' = "read" => m = "input-credit" BY <1>6 DEF Taken, CommandKind
  <2>3. SlotHolds' = SlotHolds BY <2>1 DEF SlotHolds
  <2> QED BY <2>1, <2>2, <2>3
<1>7. CASE Received
  <2>1. Sent("input-credit", toHost)' = Sent("input-credit", toHost) BY <1>7, HearSent DEF Received, Heard
  <2> QED BY <1>3, <1>7, <2>1 DEF Received, shared, worker
<1>8. CASE Published
  <2>1. /\ lane = "read" /\ lane' = "take" /\ slot = "empty" /\ slot' = "full" /\ src' = src + 1
        /\ final' = (src' = Headers + Chunks) /\ UNCHANGED <<ready, commands, taken, toHost>>
    BY <1>8 DEF Published, wires, worker
  <2>2. LaneHolds = 1 BY <2>1 DEF LaneHolds
  <2>3. CommandsSent = 0 /\ Len(commands) = 0 BY <2>2, PendingNat DEF OneCommand, Pending
  <2>4. Sent("input-credit", toHost) = 0 BY <2>3, PendingNat DEF CommandKind
  <2>5. SlotHolds = 0 /\ SlotHolds' = 1 BY <2>1 DEF SlotHolds
  <2>6. ready BY <2>1 DEF Starting
  <2>7. src = Headers + taken BY <2>1, <2>5, <2>6
  <2>8. src' = Headers + taken + 1 BY <2>1, <2>7
  <2>9. commands' # <<"input-credit">> BY <2>1, <2>3
  <2>10. final' <=> taken' + 1 = Chunks
    <3>1. (src' = Headers + Chunks) <=> taken' + 1 = Chunks BY <2>1, <2>8
    <3> QED BY <2>1, <3>1
  <2> QED BY <2>1, <2>4, <2>5, <2>8, <2>9, <2>10
<1>9. CASE Start
  <2>1. ~ready BY <1>9 DEF Start, Starting
  <2> QED BY <1>9, <2>1 DEF Start, wires, shared, SlotHolds
<1>10. CASE Pull \/ Release BY <1>3, <1>10 DEF Pull, Release, host, shared, worker
<1>11. CASE Prepare
  <2>1. lane = "prepare" /\ ~ready /\ UNCHANGED <<toHost, taken, commands, slot, final>>
    BY <1>11 DEF Prepare, LaneUnchanged, shared, worker, Starting
  <2>2. slot = "empty" /\ taken = 0 /\ SlotHolds' = 0 BY <2>1 DEF SlotHolds, Starting
  <2>3. CASE src' = Headers
    <3>1. lane' = "take" BY <1>11, <2>3 DEF Prepare
    <3> QED BY <2>1, <2>2, <2>3, <3>1
  <2>4. CASE src' # Headers
    <3>1. UNCHANGED <<lane, ready>> BY <1>11, <2>4 DEF Prepare
    <3> QED BY <2>1, <2>2, <3>1
  <2> QED BY <2>3, <2>4
<1>12. CASE Drain
  <2>1. SlotHolds' = SlotHolds BY <1>12 DEF Drain, shared, SlotHolds
  <2> QED BY <1>12, <2>1 DEF Drain, wires, shared, worker
<1>13. ASSUME WorkerSteps PROVE Feeding'
  <2>1. UNCHANGED <<ready, lane, src, commands>> BY <1>13, WorkerFrame DEF host
  <2>2. CASE WorkerFails \/ Loaded \/ Wake \/ Decode \/ TakeCredit \/ Crash \/ HandleMessage
    <3>1. UNCHANGED <<taken, slot, final>>
      BY <2>2 DEF WorkerFails, Loaded, Wake, Decode, TakeCredit, Crash, HandleMessage, shared
    <3>2. toHost' = toHost \/ \E d \in ToHost \ {"input-credit"} : Post(d)
      BY <2>2 DEF WorkerFails, Loaded, Wake, Decode, TakeCredit, Crash, HandleMessage, wires, ToHost
    <3>3. Sent("input-credit", toHost)' = Sent("input-credit", toHost) BY <3>2, PostsSent
    <3> QED BY <1>3, <2>1, <3>1, <3>3
  <2>3. CASE ReadSlot
    <3>1. UNCHANGED <<taken, slot, final>> BY <2>3 DEF ReadSlot, shared
    <3>2. slot = "empty" \/ toHost' = toHost \/ Post("error") BY <2>3 DEF ReadSlot
    <3>3. Post("error") => Sent("input-credit", toHost)' = Sent("input-credit", toHost)
      BY PostsSent DEF ToHost
    <3> QED BY <1>3, <2>1, <3>1, <3>2, <3>3
  <2>4. CASE CopySlot
    <3>1. /\ wk = "copying" /\ taken' = taken + 1 /\ slot' = (IF final THEN "eof" ELSE "empty")
          /\ final' = FALSE /\ toHost' = toHost
      BY <2>4 DEF CopySlot, wires
    <3>2. slot = "full" /\ SlotHolds = 1 /\ SlotHolds' = 0 BY <3>1 DEF Refills, SlotHolds
    <3>3. CommandsSent = 0 /\ Len(commands) = 0 /\ LaneHolds = 0 BY <3>2, PendingNat DEF OneCommand, Pending
    <3>4. Sent("input-credit", toHost) = 0 /\ lane \notin {"read", "finish"} /\ commands # <<"input-credit">>
      BY <3>3, PendingNat DEF CommandKind, LaneHolds
    <3>5. taken < Chunks BY <3>1 DEF Exact, Job, WorkerBounds
    <3>6. slot' = "empty" => taken' < Chunks BY <3>1, <3>2, <3>5
    <3> QED BY <2>1, <3>1, <3>2, <3>4, <3>6
  <2> QED BY <1>13, <2>2, <2>3, <2>4 DEF WorkerSteps
<1> QED BY <1>4, <1>5, <1>6, <1>7, <1>8, <1>9, <1>10, <1>11, <1>12, <1>13, ProducingSteps

LEMMA CompletingNext == ASSUME Exact, [Next]_vars, Producing' PROVE Completing'
<1>1. Typed /\ Starting /\ Completing /\ CreditsKept BY ProducingSteps DEF Kept, Order
<1>2. /\ \A m : Sent(m, toHost) \in Nat
      /\ made \in Nat /\ got \in Nat /\ terminal \in BOOLEAN
  BY <1>1, SentNat DEF Typed, Numbers, Flags
<1> USE <1>1, <1>2 DEF Completing
<1>3. ASSUME UNCHANGED <<toHost, wk, terminal, commands, got>>, lane' = "finish" => lane = "finish" \/ terminal
      PROVE  Completing'
  BY <1>3
<1>4. CASE Aside BY <1>3, <1>4 DEF Aside, wires, worker
<1>5. ASSUME NEW m \in CommandKind, Queued(m) PROVE Completing'
  <2>1. /\ ~terminal /\ commands' = <<m>> /\ terminal' = (m = "complete") /\ toHost # <<>>
        /\ toHost' = Tail(toHost) /\ Head(toHost) = m /\ UNCHANGED <<wk, lane, got>>
    BY <1>5 DEF Queued, Heard, worker
  <2>2. Sent(m, toHost) >= 1 BY <2>1, Waiting
  <2>3. \A k : Sent(k, toHost)' = IF m = k THEN Sent(k, toHost) - 1 ELSE Sent(k, toHost) BY <2>1, HearSent
  <2>4. \A i \in 1..Len(toHost') : toHost'[i] = "complete" => i = Len(toHost') BY <2>1, HearKeepsLast
  <2>5. CASE m = "complete"
    <3>1. toHost' = <<>> BY <2>1, <2>5, HearKeepsLast
    <3>2. wk = "done" BY <2>2, <2>5
    <3>3. Sent("pcm", toHost)' = 0 BY <3>1, OccurrencesNone, SentOccurs
    <3>4. Sent("pcm", toHost) = 0 BY <2>3, <2>5, <3>3
    <3>5. got = made BY <3>4 DEF CreditsKept
    <3>6. made = Blocks BY <3>2 DEF Exact, Job, WorkerBounds
    <3> QED BY <2>1, <2>4, <3>1, <3>2, <3>5, <3>6
  <2>6. CASE m # "complete"
    <3>1. ~terminal' BY <2>1, <2>6
    <3>2. commands' # <<"complete">> BY <2>1, <2>6
    <3>3. Sent("complete", toHost)' = Sent("complete", toHost) BY <2>3, <2>6
    <3> QED BY <2>1, <2>4, <3>1, <3>2, <3>3
  <2> QED BY <2>5, <2>6
<1>6. ASSUME NEW m \in CommandKind, Taken(m) PROVE Completing'
  <2>1. commands = <<m>> /\ commands' = <<>> /\ UNCHANGED <<toHost, wk, terminal, got>>
    BY <1>6 DEF Taken, wires, worker
  <2>2. lane' = "finish" => m = "complete" BY <1>6 DEF Taken, CommandKind
  <2> QED BY <2>1, <2>2
<1>7. CASE Received
  <2>1. ~terminal /\ toHost # <<>> /\ toHost' = Tail(toHost) /\ Head(toHost) = "pcm"
        /\ UNCHANGED <<wk, terminal, commands, lane>>
    BY <1>7 DEF Received, Heard, worker
  <2>2. Sent("complete", toHost)' = Sent("complete", toHost) BY <2>1, HearSent
  <2>3. \A i \in 1..Len(toHost') : toHost'[i] = "complete" => i = Len(toHost') BY <2>1, HearKeepsLast
  <2> QED BY <2>1, <2>2, <2>3
<1>8. CASE Published \/ Prepare
  BY <1>3, <1>8 DEF Published, Prepare, LaneUnchanged, wires, worker
<1>9. CASE Start BY <1>9 DEF Start, wires
<1>10. CASE Pull \/ Release \/ Drain BY <1>3, <1>10 DEF Pull, Release, Drain, host, worker, wires
<1>11. ASSUME WorkerSteps PROVE Completing'
  <2>1. UNCHANGED <<lane, commands, terminal, got>> BY <1>11, WorkerFrame DEF host
  <2>2. CASE wk = "done"
    <3>1. wk' = "done" /\ toHost' = toHost
      BY <1>11, <2>2 DEF WorkerSteps, WorkerFails, Loaded, ReadSlot, Wake, CopySlot, Decode, TakeCredit,
                         HandleMessage, Crash
    <3> QED BY <1>3, <2>1, <2>2, <3>1
  <2>3. CASE wk # "done"
    <3>1. ~terminal /\ Sent("complete", toHost) = 0 BY <2>3
    <3>2. \/ toHost' = toHost \/ (\E d \in ToHost \ {"complete"} : Post(d))
          \/ (wk' = "done" /\ Post("complete"))
      BY <1>11 DEF WorkerSteps, WorkerFails, Loaded, ReadSlot, Wake, CopySlot, Decode, TakeCredit,
                   HandleMessage, Crash, wires, ToHost
    <3>3. CASE toHost' = toHost BY <2>1, <3>1, <3>3
    <3>4. ASSUME NEW d \in ToHost \ {"complete"}, Post(d) PROVE Completing'
      <4>1. Sent("complete", toHost)' = 0 BY <3>1, <3>4, PostsSent
      <4>2. \A i \in 1..Len(toHost') : toHost'[i] = "complete" => i = Len(toHost') BY <3>1, <3>4, PostKeepsLast
      <4> QED BY <2>1, <3>1, <4>1, <4>2
    <3>5. CASE wk' = "done" /\ Post("complete")
      <4>1. \A i \in 1..Len(toHost') : toHost'[i] = "complete" => i = Len(toHost')
        BY <3>1, <3>5, PostKeepsLast DEF ToHost
      <4> QED BY <2>1, <3>1, <3>5, <4>1
    <3> QED BY <3>2, <3>3, <3>4, <3>5
  <2> QED BY <2>2, <2>3
<1> QED BY <1>4, <1>5, <1>6, <1>7, <1>8, <1>9, <1>10, <1>11, ProducingSteps

LEMMA ProtocolNext == ASSUME Exact, [Next]_vars PROVE Protocol'
<1>1. Producing' => Kept'
  BY OneCommandNext, RefillsNext, StartingNext, FeedingNext, CompletingNext, CreditsNext DEF Kept, Order
<1>2. reason' # "protocol"
  <2>1. reason # "protocol" BY DEF Exact, Protocol
  <2>2. reason' = reason \/ reason' \in {"cancelled", "stall", "worker", "source", "ok"}
    BY Steps, WorkerFrame DEF vars, host, Fails, Queued, Taken, Received, Published, Start, CancelWaiting,
       CancelDone, Read, Pull, Release, End, Terminate, Settled, AskRange, Prepare, LaneUnchanged, Drain,
       Finish, LaneExits, Delivers
  <2> QED BY <2>1, <2>2
<1> QED BY <1>1, <1>2 DEF Protocol, Producing, Kept

-----------------------------------------------------------------------------
(* The theorems *)

LEMMA ExactInit == Init => Exact
BY ReadingInit, JobInit, ProtocolInit DEF Exact

LEMMA ExactNext == ASSUME Exact, [Next]_vars PROVE Exact'
<1>1. Reading' BY ReadingNext DEF Exact
<1>2. Job'
  BY TypedNext, LaneReadsNext, PhasesNext, BlocksKeptNext, WorkerBoundsNext, WatchdogNext DEF Job
<1> QED BY <1>1, <1>2, ProtocolNext DEF Exact

(* The inductive invariant of a job, its range read and its protocol. *)
THEOREM ExactAlways == Spec => []Exact
<1>1. Exact /\ [Next]_vars => Exact' BY ExactNext
<1> QED BY ExactInit, <1>1, PTL DEF Spec

(* Every variable of a decode job keeps to its type; above all no more blocks *)
(* are made or received, and no more refills read, than the audio has. *)
THEOREM TypeCorrect == Spec => []TypeOK
<1>1. Exact => TypeOK
  <2> SUFFICES ASSUME Exact PROVE TypeOK OBVIOUS
  <2>1. DeliveryTypeOK /\ Typed /\ WorkerBounds /\ BlocksKept BY DEF Exact, Reading, Job
  <2>2. /\ got \in 0..Blocks /\ made \in 0..Blocks /\ delivered \in 0..Blocks /\ taken \in 0..Chunks
    BY <2>1, DecodeAssumption DEF Typed, Numbers, WorkerBounds, BlocksKept
  <2> QED BY <2>1, <2>2 DEF TypeOK, Typed, Numbers, Flags, ToHost, ToWorker
<1> QED BY ExactAlways, <1>1, PTL

(* flac-delivery.ts:179: every transport in the air, a fetch without headers, a *)
(* body being read or cancelled, or one that outlived its cleanup, is counted *)
(* by the shared admission, or the admission has been closed. *)
THEOREM TransportsAlwaysBounded == Spec => []TransportsBounded
<1>1. Exact => TransportsBounded BY DEF Exact, Reading, Physical, TransportsBounded
<1> QED BY ExactAlways, <1>1, PTL

(* flac-output-credits.ts:17, flac-resolver.ts:358: while a job produces, every *)
(* credit is in one place, no message of a correct Worker is a breach of the *)
(* protocol, and the watchdog runs exactly while the Worker owes a step. *)
THEOREM JobAlwaysExact == Spec => []JobExact
<1>1. Exact => JobExact
  <2> SUFFICES ASSUME Exact PROVE JobExact OBVIOUS
  <2>1. Running => CreditsKept BY DEF Exact, Protocol, Running
  <2>2. reason # "protocol" /\ WatchdogExact BY DEF Exact, Protocol, Job
  <2> QED BY <2>1, <2>2 DEF JobExact, CreditsExact, CreditsKept, Circulating
<1> QED BY ExactAlways, <1>1, PTL

(* flac-resolver.ts:290: whatever ends a job, its buffers go back, and a stream *)
(* that closes has handed out every block unless a cancel cut it. *)
THEOREM BuffersAlwaysReturned == Spec => []BuffersReturned
<1>1. Exact => BuffersReturned
  BY DEF Exact, Job, LaneReads, Phases, BlocksKept, BuffersReturned
<1> QED BY ExactAlways, <1>1, PTL
=============================================================================
