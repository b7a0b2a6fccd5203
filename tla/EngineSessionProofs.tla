------------------------- MODULE EngineSessionProofs -------------------------
(***************************************************************************)
(* Theorems about EngineSession for every number of calls and every set of *)
(* configurations.  Exact is the inductive invariant; it is proved in      *)
(* layers: types, the opening and its cleanup stack, the queue of calls,   *)
(* the number of seeks, and what the context does.                         *)
(***************************************************************************)
EXTENDS EngineSession, Integers, FiniteSets, FiniteSetTheorems, SequenceTheorems, TLAPS

(* Sequences that lose their first or last element, or one within. *)

LEMMA HeadAndTail ==
  ASSUME NEW S, NEW s \in Seq(S), s # <<>>
  PROVE  /\ Len(s) \in Nat /\ Len(s) >= 1 /\ 1 \in 1..Len(s) /\ Len(s) \in 1..Len(s)
         /\ Head(s) = s[1] /\ s[1] \in S
         /\ Tail(s) \in Seq(S) /\ Len(Tail(s)) = Len(s) - 1
         /\ \A i \in 1..Len(Tail(s)) : i + 1 \in 1..Len(s) /\ Tail(s)[i] = s[i + 1]
OBVIOUS

LEMMA TailKeepsLast ==
  ASSUME NEW S, NEW s \in Seq(S), Len(s) > 1
  PROVE  Tail(s) # <<>> /\ Tail(s)[Len(Tail(s))] = s[Len(s)]
<1>1. s # <<>> /\ Len(s) \in Nat
  OBVIOUS
<1>2. Len(Tail(s)) = Len(s) - 1 /\ Len(Tail(s)) \in 1..Len(Tail(s))
  BY <1>1
<1>3. Tail(s)[Len(Tail(s))] = s[Len(Tail(s)) + 1]
  BY <1>1, <1>2, HeadAndTail
<1>4. Len(Tail(s)) + 1 = Len(s)
  BY <1>1, <1>2
<1> QED BY <1>2, <1>3, <1>4

LEMMA FrontAndLast ==
  ASSUME NEW S, NEW s \in Seq(S), s # <<>>
  PROVE  /\ Len(s) \in Nat /\ Len(s) >= 1 /\ Len(s) \in 1..Len(s)
         /\ Last(s) = s[Len(s)] /\ Last(s) \in S
         /\ Front(s) \in Seq(S) /\ Len(Front(s)) = Len(s) - 1
         /\ \A i \in 1..Len(Front(s)) : i \in 1..Len(s) /\ i < Len(s) /\ Front(s)[i] = s[i]
<1>1. Len(s) \in Nat /\ Len(s) >= 1 /\ Len(s) \in 1..Len(s) /\ s[Len(s)] \in S
  BY HeadAndTail
<1>2. Last(s) = s[Len(s)] /\ Front(s) = SubSeq(s, 1, Len(s) - 1)
  BY DEF Front, Last
<1>3. Front(s) \in Seq(S) /\ Len(Front(s)) = Len(s) - 1
  <2>1. PICK n \in Nat : n = Len(s) /\ n >= 1
    BY <1>1
  <2>2. n - 1 \in Int /\ \A i \in 1..(n - 1) : s[i] \in S
    BY <2>1
  <2>3. SubSeq(s, 1, n - 1) \in Seq(S) /\ Len(SubSeq(s, 1, n - 1)) = IF 1 <= n - 1 THEN n - 1 - 1 + 1 ELSE 0
    BY <2>2, SubSeqProperties
  <2>4. Len(SubSeq(s, 1, n - 1)) = n - 1
    BY <2>1, <2>3
  <2> QED BY <1>2, <2>1, <2>3, <2>4
<1>4. ASSUME NEW i \in 1..Len(Front(s))
      PROVE  i \in 1..Len(s) /\ i < Len(s) /\ Front(s)[i] = s[i]
  <2>1. i \in 1..Len(s) /\ i < Len(s) /\ i \in 1..(Len(s) - 1)
    BY <1>1, <1>3
  <2> QED BY <1>1, <1>2, <2>1
<1> QED BY <1>1, <1>2, <1>3, <1>4

LEMMA FirstIsLast ==
  ASSUME NEW S, NEW s \in Seq(S), s # <<>>, s[1] = s[Len(s)],
         \A i, j \in 1..Len(s) : i < j => s[i] # s[j]
  PROVE  Len(s) = 1
<1>1. 1 \in 1..Len(s) /\ Len(s) \in 1..Len(s)
  BY HeadAndTail
<1>2. PICK n \in Nat : n = Len(s) /\ n >= 1
  BY HeadAndTail
<1>3. ~(1 < n)
  BY <1>1, <1>2
<1>4. n = 1
  BY <1>2, <1>3
<1> QED BY <1>2, <1>4

(* What is left when one element is taken out of a sequence. *)
LEMMA RemovedAt ==
  ASSUME NEW S, NEW s \in Seq(S), NEW k \in 1..Len(s)
  PROVE  /\ RemoveAt(s, k) \in Seq(S) /\ Len(s) \in Nat /\ Len(RemoveAt(s, k)) = Len(s) - 1
         /\ \A i \in 1..Len(RemoveAt(s, k)) :
              /\ i < k => i \in 1..Len(s) /\ RemoveAt(s, k)[i] = s[i]
              /\ i >= k => i + 1 \in 1..Len(s) /\ RemoveAt(s, k)[i] = s[i + 1]
<1>1. PICK n \in Nat : n = Len(s) /\ k \in 1..n
  OBVIOUS
<1> DEFINE p == SubSeq(s, 1, k - 1)
           q == SubSeq(s, k + 1, n)
<1>2. \A i \in 1..n : s[i] \in S
  BY <1>1
<1>3. /\ p \in Seq(S) /\ Len(p) = (IF 1 <= k - 1 THEN k - 1 - 1 + 1 ELSE 0)
      /\ \A i \in 1..(k - 1 - 1 + 1) : p[i] = s[1 + i - 1]
  <2>1. \A i \in 1..(k - 1) : s[i] \in S
    BY <1>1, <1>2
  <2>2. 1 \in Int /\ k - 1 \in Int
    BY <1>1
  <2> QED BY <2>1, <2>2, SubSeqProperties
<1>4. /\ q \in Seq(S) /\ Len(q) = (IF k + 1 <= n THEN n - (k + 1) + 1 ELSE 0)
      /\ \A i \in 1..(n - (k + 1) + 1) : q[i] = s[k + 1 + i - 1]
  <2>1. \A i \in (k + 1)..n : s[i] \in S
    BY <1>1, <1>2
  <2>2. k + 1 \in Int /\ n \in Int
    BY <1>1
  <2> QED BY <2>1, <2>2, SubSeqProperties
<1>5. Len(p) = k - 1 /\ Len(q) = n - k
  BY <1>1, <1>3, <1>4
<1>6. RemoveAt(s, k) = p \o q
  BY <1>1 DEF RemoveAt
<1> HIDE DEF p, q
<1>7. /\ p \o q \in Seq(S) /\ Len(p \o q) = Len(p) + Len(q)
      /\ \A i \in 1..(Len(p) + Len(q)) : (p \o q)[i] = IF i <= Len(p) THEN p[i] ELSE q[i - Len(p)]
  BY <1>3, <1>4, ConcatProperties
<1>8. ASSUME NEW i \in 1..(n - 1)
      PROVE  /\ i < k => i \in 1..n /\ (p \o q)[i] = s[i]
             /\ i >= k => i + 1 \in 1..n /\ (p \o q)[i] = s[i + 1]
  <2>1. CASE i < k
    <3>1. i \in 1..(Len(p) + Len(q)) /\ i <= Len(p) /\ i \in 1..n /\ i \in 1..(k - 1 - 1 + 1) /\ 1 + i - 1 = i
      BY <1>1, <1>5, <2>1
    <3> QED BY <1>3, <1>7, <2>1, <3>1
  <2>2. CASE i >= k
    <3>1. PICK j \in 1..(n - (k + 1) + 1) : j = i - Len(p) /\ k + 1 + j - 1 = i + 1
      BY <1>1, <1>5, <2>2
    <3>2. i \in 1..(Len(p) + Len(q)) /\ ~(i <= Len(p)) /\ i + 1 \in 1..n
      BY <1>1, <1>5, <2>2
    <3>3. q[j] = s[i + 1]
      BY <1>4, <3>1
    <3>4. (p \o q)[i] = q[j]
      BY <1>7, <3>1, <3>2
    <3> QED BY <2>2, <3>2, <3>3, <3>4
  <2> QED BY <2>1, <2>2
<1>9. Len(p \o q) = n - 1
  BY <1>1, <1>5, <1>7
<1> QED BY <1>1, <1>6, <1>7, <1>8, <1>9

-----------------------------------------------------------------------------
Wait == {"none", "asked", "settled", "broken", "pending", "value", "fail"}
CallRecord == [kind : Kind, step : Step, was : BOOLEAN, wait : Wait]
Ops == [Call -> CallRecord]
Serving == {"ready", "playing", "paused"}

(* Types, without the bound of pendingSeeks. *)
Typed ==
  /\ sparse \in BOOLEAN /\ attaching \in BOOLEAN /\ aborted \in BOOLEAN
  /\ forwarded \in BOOLEAN /\ drained \in BOOLEAN
  /\ todo \in Seq(Resource \cup Signalled)
  /\ res \in [Resource -> {"none", "open", "closed"}]
  /\ cleanup \in Seq(Resource)
  /\ state \in {"opening", "ready", "playing", "paused", "closed", "refused", "rejected"}
  /\ failure \in {"none", "reported", "ignored", "refusing", "closing", "told"}
  /\ op \in Ops
  /\ queue \in Seq(Call) /\ pendingSeeks \in Int
  /\ ctx \in {"suspended", "running", "closed"} /\ ctxq \in Seq({"suspended", "running"} \X Call)

(* What is left of the opening: every stage once, the handover last, and no *)
(* resource of a stage to come; the lease is made or still to be made.      *)
StagesOnce == \A i, j \in 1..Len(todo) : i < j => todo[i] # todo[j]
HandsOverLast == state = "opening" => todo # <<>> /\ todo[Len(todo)] = "handover"
StagesAhead ==
  state = "opening" =>
    \A i \in 1..Len(todo) : todo[i] \in Resource \ {"control"} => res[todo[i]] = "none"
ObserversLast ==
  /\ \A i \in 1..Len(todo) : todo[i] # "observers"
  /\ state = "opening" => res["observers"] = "none"
ControlOnce ==
  attaching => res["control"] = "none" /\ ~Opened /\ (state = "opening" => todo[1] = "control")
ControlAhead ==
  state = "opening" /\ (\E i \in 2..Len(todo) : todo[i] = "control") => res["control"] = "none"
LeaseComes == state = "opening" => res["lease"] = "open" \/ \E i \in 1..Len(todo) : todo[i] = "lease"
LeaseHeld == state \in Serving => res["lease"] = "open"

(* The cleanup stack holds a resource once, and only resources that were    *)
(* opened; until it is being emptied they are all open.                     *)
CleanupOnce == \A i, j \in 1..Len(cleanup) : i < j => cleanup[i] # cleanup[j]
CleanupMade == \A i \in 1..Len(cleanup) : res[cleanup[i]] # "none"
CleanupOpen ==
  state \in Serving \cup {"opening"} => \A i \in 1..Len(cleanup) : res[cleanup[i]] = "open"
DrainedEmpty == drained => cleanup = <<>> /\ state \in {"closed", "rejected"}

(* The signal is aborted by a close, and by nothing else once handed out.   *)
SignalExact ==
  /\ Closed => aborted
  /\ state \in Serving => ~aborted
  /\ Opened => ~forwarded
FailureExact ==
  /\ failure \in {"closing", "told"} => Closed
  /\ failure = "told" => drained
  /\ state = "rejected" => drained
NoCallsYet ==
  /\ ~Opened => queue = <<>> /\ ctxq = <<>>
  /\ \A c \in Call : ~Opened => op[c].step = "idle"
  /\ state = "opening" => ctx = "suspended"

Stack ==
  /\ StagesOnce /\ HandsOverLast /\ StagesAhead /\ ObserversLast /\ ControlOnce
  /\ ControlAhead /\ LeaseComes /\ LeaseHeld
  /\ CleanupOnce /\ CleanupMade /\ CleanupOpen /\ DrainedEmpty
  /\ StackCovers /\ ClosedInReverse
  /\ SignalExact /\ FailureExact /\ NoCallsYet

(* The calls in the queue, and the one that runs. *)
Ended == {"idle", "fulfilled", "rejected"}
Waiting == {c \in Call : op[c].step \notin Ended}
Seeks == {c \in Call : op[c].step \notin Ended /\ op[c].kind = "seek"}

QueueWaits == \A i \in 1..Len(queue) : op[queue[i]].step \notin Ended
QueueOrdered == \A i, j \in 1..Len(queue) : i < j => queue[i] < queue[j]
WaitingQueued == \A c \in Call : op[c].step \notin Ended => \E i \in 1..Len(queue) : queue[i] = c
CallsInOrder == \A c, d \in Call : c < d /\ op[c].step = "idle" => op[d].step = "idle"
ActiveRuns == \A c \in Call : op[c].step \notin Ended \cup {"queued"} => Runs(c)

(* The steps of each kind of call, and what is awaited at each. *)
StepFits(o) ==
  \/ o.step \in Ended \cup {"queued"}
  \/ o.kind = "play" /\ o.step \in {"resume", "again", "ready"}
  \/ o.kind = "pause" /\ o.step = "suspend"
  \/ o.kind = "seek" /\ o.step \in {"suspend", "ready", "pump", "prefill", "restore", "closing"}
WaitFits(o) ==
  \/ o.step \in Ended \cup {"closing"} /\ o.wait = "none"
  \/ o.step = "queued" /\ o.kind # "play" /\ o.wait = "none"
  \/ o.step = "queued" /\ o.kind = "play" /\ o.wait \in {"asked", "settled", "broken"}
  \/ o.step \notin Ended \cup {"queued", "closing"} /\ o.wait \in {"pending", "value", "fail"}

StepsOfKind == \A c \in Call : StepFits(op[c])
WaitsOfStep == \A c \in Call : WaitFits(op[c])

Queueing ==
  /\ QueueWaits /\ QueueOrdered /\ WaitingQueued /\ CallsInOrder /\ ActiveRuns
  /\ StepsOfKind /\ WaitsOfStep

(* pendingSeeks counts the seeks in the queue. *)
Counted ==
  /\ IsFiniteSet(Waiting) /\ Len(queue) = Cardinality(Waiting)
  /\ IsFiniteSet(Seeks) /\ pendingSeeks = Cardinality(Seeks)

(* While a session is open: a control message is that of a call which waits *)
(* for it, one for each call, and no play waits behind a seek.              *)
Fits(m, o) ==
  \/ o.kind = "play" /\ m[1] = "running" /\ o.step = "queued" /\ o.wait = "asked"
  \/ o.kind = "play" /\ m[1] = "running" /\ o.step \in {"resume", "again"} /\ o.wait = "pending"
  \/ o.kind = "pause" /\ m[1] = "suspended" /\ o.step = "suspend" /\ o.wait = "pending"
  \/ o.kind = "seek" /\ m[1] = "suspended" /\ o.step = "suspend" /\ o.wait \in {"pending", "fail"}
  \/ o.kind = "seek" /\ m[1] = "running" /\ o.step = "restore" /\ o.wait \in {"pending", "fail"}

MessagesAwaited == state \in Serving => \A i \in 1..Len(ctxq) : Fits(ctxq[i], op[ctxq[i][2]])
MessagesOnce == state \in Serving => \A i, j \in 1..Len(ctxq) : i < j => ctxq[i][2] # ctxq[j][2]
PlaysFirst ==
  \A c, d \in Call :
    op[c].kind = "play" /\ op[c].step \notin Ended /\ op[d].kind = "seek" /\ op[d].step \notin Ended
    => c < d

(* What the state of the context has to do with that of the session. *)
NoneRejected == \A c \in Call : op[c].step # "rejected"
NoPlay == \A c \in Call : op[c].kind = "play" => op[c].step \in Ended

ContextRuns ==
  state \in Serving =>
    \A c \in Call :
      op[c].kind = "play" /\ (op[c].step = "ready" \/ (op[c].step = "again" /\ op[c].wait = "value"))
      => ctx = "running"
SeekSuspends ==
  state \in Serving =>
    \A c \in Call :
      op[c].kind = "seek" /\ op[c].step \in {"ready", "pump", "prefill"} => ctx = "suspended"
PauseSuspends ==
  state \in Serving /\ NoPlay =>
    \A c \in Call : op[c].kind = "pause" /\ op[c].wait = "value" => ctx = "suspended"
SeekRemembers ==
  state \in Serving /\ NoneRejected =>
    \A c \in Call :
      /\ op[c].kind = "seek" /\ op[c].step = "suspend" => op[c].was /\ state = "playing"
      /\ op[c].kind = "seek" /\ op[c].step \in {"ready", "pump", "prefill"}
           => (op[c].was <=> state = "playing")
BetweenCalls ==
  state \in Serving /\ NoneRejected /\ NoPlay
    /\ (\A c \in Call : op[c].step \in Ended \cup {"queued"})
  => (ctx = "running" <=> state = "playing")
ContextOpen == state \in Serving => ctx # "closed"

Agreement ==
  /\ MessagesAwaited /\ MessagesOnce /\ PlaysFirst
  /\ ContextRuns /\ SeekSuspends /\ PauseSuspends /\ SeekRemembers /\ BetweenCalls /\ ContextOpen

Exact == Typed /\ Stack /\ Queueing /\ Counted /\ Agreement

-----------------------------------------------------------------------------
(* What each step does to the record of a call, and to no other's. *)

(* Only c's record changes, and the call stays what it is. *)
Changes(c, step, wait) ==
  /\ op' \in Ops
  /\ op'[c].kind = op[c].kind /\ op'[c].step = step /\ op'[c].wait = wait
  /\ \A d \in Call : d # c => op'[d] = op[d]

LEMMA Updated ==
  ASSUME op \in Ops, NEW c \in Call, NEW step \in Step, NEW wait \in Wait,
         op' = [op EXCEPT ![c].step = step, ![c].wait = wait]
  PROVE  Changes(c, step, wait) /\ op'[c].was = op[c].was
<1> DEFINE r == [op[c] EXCEPT !.step = step, !.wait = wait]
<1>1. op[c] \in CallRecord
  BY DEF Ops
<1>2. r \in CallRecord
  BY <1>1 DEF CallRecord
<1>3. r.kind = op[c].kind /\ r.step = step /\ r.wait = wait /\ r.was = op[c].was
  BY <1>1 DEF CallRecord
<1>4. op' = [op EXCEPT ![c] = r]
  OBVIOUS
<1> HIDE DEF r
<1> QED BY <1>2, <1>3, <1>4 DEF Ops, Changes

LEMMA UpdatedWait ==
  ASSUME op \in Ops, NEW c \in Call, NEW wait \in Wait, op' = [op EXCEPT ![c].wait = wait]
  PROVE  Changes(c, op[c].step, wait) /\ op'[c].was = op[c].was
<1> DEFINE r == [op[c] EXCEPT !.wait = wait]
<1>1. op[c] \in CallRecord
  BY DEF Ops
<1>2. r \in CallRecord
  BY <1>1 DEF CallRecord
<1>3. r.kind = op[c].kind /\ r.step = op[c].step /\ r.wait = wait /\ r.was = op[c].was
  BY <1>1 DEF CallRecord
<1>4. op' = [op EXCEPT ![c] = r]
  OBVIOUS
<1> HIDE DEF r
<1> QED BY <1>2, <1>3, <1>4 DEF Ops, Changes

LEMMA SettleChanges ==
  ASSUME op \in Ops, NEW c \in Call, NEW step \in Step, Settle(c, step)
  PROVE  Changes(c, step, "none") /\ op'[c].was = op[c].was
<1>1. op' = [op EXCEPT ![c].step = step, ![c].wait = "none"] /\ "none" \in Wait
  BY DEF Settle, Wait
<1> QED BY <1>1, Updated

LEMMA AtChanges ==
  ASSUME op \in Ops, NEW c \in Call, NEW step \in Step, At(c, step)
  PROVE  Changes(c, step, Awaited) /\ op'[c].was = op[c].was
<1>1. op' = [op EXCEPT ![c].step = step, ![c].wait = Awaited] /\ Awaited \in Wait
  BY DEF At, Awaited, Wait
<1> QED BY <1>1, Updated

LEMMA InvokeChanges ==
  ASSUME op \in Ops, NEW c \in Call, NEW k \in Kind, Invoke(c, k)
  PROVE  LET refused == (Closed /\ k # "pause") \/ (k = "play" /\ pendingSeeks # 0) IN
         /\ op' \in Ops /\ op'[c].kind = k
         /\ op'[c].step = IF refused THEN "rejected" ELSE "queued"
         /\ op'[c].wait = IF ~refused /\ k = "play" THEN "asked" ELSE "none"
         /\ \A d \in Call : d # c => op'[d] = op[d]
BY DEF Invoke, Ops, CallRecord, Step, Wait

(* What a control message makes of the promise that waits for it. *)
Obeyed(wait) == CASE wait = "asked" -> "settled" [] wait = "pending" -> "value" [] OTHER -> wait

LEMMA ContextStepsChanges ==
  ASSUME op \in Ops, ctxq \in Seq({"suspended", "running"} \X Call), ContextSteps
  PROVE  LET c == Head(ctxq)[2] IN
         /\ c \in Call /\ Changes(c, op[c].step, Obeyed(op[c].wait)) /\ op'[c].was = op[c].was
<1> DEFINE c == Head(ctxq)[2]
<1>1. c \in Call
  BY DEF ContextSteps
<1>2. Obeyed(op[c].wait) \in Wait
  BY <1>1 DEF Ops, CallRecord, Wait, Obeyed
<1>3. op' = [op EXCEPT ![c].wait = Obeyed(op[c].wait)]
  BY DEF ContextSteps, Obeyed
<1> HIDE DEF c
<1>4. Changes(c, op[c].step, Obeyed(op[c].wait)) /\ op'[c].was = op[c].was
  BY <1>1, <1>2, <1>3, UpdatedWait
<1> QED BY <1>1, <1>4 DEF c

LEMMA PreparedChanges ==
  ASSUME op \in Ops, NEW c \in Call, Prepared(c)
  PROVE  Changes(c, op[c].step, "value") /\ op'[c].was = op[c].was
<1>1. op' = [op EXCEPT ![c].wait = "value"] /\ "value" \in Wait
  BY DEF Prepared, Wait
<1> QED BY <1>1, UpdatedWait

Failed(wait) == IF wait = "asked" THEN "broken" ELSE "fail"

LEMMA WaitFailsChanges ==
  ASSUME op \in Ops, NEW c \in Call, WaitFails(c)
  PROVE  Changes(c, op[c].step, Failed(op[c].wait)) /\ op'[c].was = op[c].was
<1>1. op' = [op EXCEPT ![c].wait = Failed(op[c].wait)] /\ Failed(op[c].wait) \in Wait
  BY DEF WaitFails, Wait, Failed
<1> QED BY <1>1, UpdatedWait

(* What play awaits, given what became of the request it made when called. *)
Resuming(wait) == CASE aborted \/ wait = "broken" -> "fail"
                    [] ~aborted /\ wait = "settled" -> "value" [] OTHER -> "pending"

LEMMA StartPlayChanges ==
  ASSUME op \in Ops, NEW c \in Call, StartPlay(c)
  PROVE  Changes(c, "resume", Resuming(op[c].wait))
<1>1. op' = [op EXCEPT ![c].step = "resume", ![c].wait = Resuming(op[c].wait)]
  BY DEF StartPlay, Resuming
<1>2. "resume" \in Step /\ Resuming(op[c].wait) \in Wait
  BY DEF Step, Wait, Resuming
<1> QED BY <1>1, <1>2, Updated

LEMMA StartSeekChanges ==
  ASSUME op \in Ops, NEW c \in Call,
         op' = [op EXCEPT ![c].was = (ctx = "running"), ![c].wait = Awaited,
                          ![c].step = IF ctx = "running" THEN "suspend" ELSE "ready"]
  PROVE  Changes(c, IF ctx = "running" THEN "suspend" ELSE "ready", Awaited)
         /\ op'[c].was = (ctx = "running")
BY DEF Changes, Ops, CallRecord, Step, Wait, Awaited

LEMMA ClosingChanges ==
  ASSUME op \in Ops, NEW c \in Call
  PROVE  LET n == [op EXCEPT ![c].step = "closing", ![c].wait = "none"] IN
         /\ n \in Ops
         /\ n[c].kind = op[c].kind /\ n[c].step = "closing" /\ n[c].wait = "none"
         /\ \A d \in Call : d # c => n[d] = op[d]
<1> DEFINE r == [op[c] EXCEPT !.step = "closing", !.wait = "none"]
<1>1. op[c] \in CallRecord
  BY DEF Ops
<1>2. r \in CallRecord
  BY <1>1 DEF CallRecord, Step, Wait
<1>3. r.kind = op[c].kind /\ r.step = "closing" /\ r.wait = "none"
  BY <1>1 DEF CallRecord
<1>4. [op EXCEPT ![c].step = "closing", ![c].wait = "none"] = [op EXCEPT ![c] = r]
  OBVIOUS
<1> HIDE DEF r
<1> QED BY <1>2, <1>3, <1>4 DEF Ops

(* Closing rejects what is pending, and leaves every call where it was. *)
LEMMA ShutChanges ==
  ASSUME NEW o \in Ops, Shut(o)
  PROVE  /\ op' \in Ops
         /\ \A c \in Call :
              /\ op'[c].kind = o[c].kind /\ op'[c].step = o[c].step /\ op'[c].was = o[c].was
              /\ op'[c].wait = IF o[c].wait = "pending" THEN "fail" ELSE o[c].wait
<1>1. ASSUME NEW c \in Call
      PROVE  [o[c] EXCEPT !.wait = "fail"] \in CallRecord
             /\ [o[c] EXCEPT !.wait = "fail"].kind = o[c].kind
             /\ [o[c] EXCEPT !.wait = "fail"].step = o[c].step
             /\ [o[c] EXCEPT !.wait = "fail"].was = o[c].was
             /\ [o[c] EXCEPT !.wait = "fail"].wait = "fail"
  BY DEF Ops, CallRecord, Wait
<1> QED BY <1>1 DEF Shut, AbortWaits, Ops

-----------------------------------------------------------------------------
(* Types *)

LEMMA ResourceIs ==
  Resource = {"backend", "store", "lease", "engine", "feed", "pump", "output", "control", "observers"}
BY DEF Resource, Order

LEMMA PlanTyped == ASSUME NEW x, NEW y PROVE Plan(x, y) \in Seq(Resource \cup Signalled)
<1>1. SparseSources \in Seq(Resource \cup Signalled) /\ DenseSources \in Seq(Resource \cup Signalled)
  BY ResourceIs DEF SparseSources, DenseSources, Signalled
<1>2. /\ <<"scratch">> \in Seq(Resource \cup Signalled)
      /\ <<"engine", "feed", "pump", "prefill", "output">> \in Seq(Resource \cup Signalled)
      /\ <<"control">> \in Seq(Resource \cup Signalled) /\ <<>> \in Seq(Resource \cup Signalled)
      /\ <<"handover">> \in Seq(Resource \cup Signalled)
  BY ResourceIs DEF Signalled
<1> DEFINE S == Resource \cup Signalled
<1> HIDE DEF S
<1>3. \A p, q \in Seq(S) : p \o q \in Seq(S)
  OBVIOUS
<1>4. (IF x THEN SparseSources ELSE DenseSources) \in Seq(S)
  BY <1>1 DEF S
<1>5. (IF y THEN <<"control">> ELSE <<>>) \in Seq(S)
  BY <1>2 DEF S
<1>6. Plan(x, y) \in Seq(S)
  BY <1>1, <1>2, <1>3, <1>4, <1>5 DEF Plan, S
<1> QED BY <1>6 DEF S

LEMMA TypedInit == ASSUME SessionAssumption, Init PROVE Typed
<1>1. todo \in Seq(Resource \cup Signalled) /\ sparse \in BOOLEAN
  BY PlanTyped DEF Init, SessionAssumption
<1>2. op \in Ops
  BY DEF Init, Idle, Ops, CallRecord, Kind, Step, Wait
<1>3. cleanup \in Seq(Resource) /\ queue \in Seq(Call) /\ ctxq \in Seq({"suspended", "running"} \X Call)
  BY DEF Init
<1>4. res \in [Resource -> {"none", "open", "closed"}]
  BY DEF Init
<1>5. /\ attaching \in BOOLEAN /\ aborted \in BOOLEAN /\ forwarded \in BOOLEAN /\ drained \in BOOLEAN
      /\ state = "opening" /\ failure = "none" /\ ctx = "suspended" /\ pendingSeeks = 0
  BY DEF Init
<1> QED
  BY <1>1, <1>2, <1>3, <1>4, <1>5 DEF Typed

LEMMA TypedNext == ASSUME Typed, ActiveRuns, HandsOverLast, [Next]_vars PROVE Typed'
<1> USE DEF calls, context, opening, stack
<1>1. CASE Acquire
  <2>1. todo' \in Seq(Resource \cup Signalled)
    BY <1>1, ResourceIs DEF Acquire, Typed, Stage
  <2>2. cleanup' \in Seq(Resource) /\ res' \in [Resource -> {"none", "open", "closed"}]
    BY <1>1 DEF Acquire, Typed
  <2> QED BY <1>1, <2>1, <2>2 DEF Acquire, Typed
<1>2. CASE Proceed
  BY <1>2 DEF Proceed, Typed, Stage
<1>3. CASE ControlArrives
  <2>1. "control" \in Resource
    BY ResourceIs
  <2>2. CASE state = "opening" /\ ~aborted
    <3>1. todo' = Tail(todo) /\ cleanup' = Append(cleanup, "control")
          /\ res' = [res EXCEPT !["control"] = "open"]
      BY <1>3, <2>2 DEF ControlArrives
    <3>2. todo' \in Seq(Resource \cup Signalled)
      BY <3>1, <2>2 DEF Typed, HandsOverLast
    <3>3. cleanup' \in Seq(Resource) /\ res' \in [Resource -> {"none", "open", "closed"}]
      BY <3>1, <2>1 DEF Typed
    <3> QED BY <1>3, <3>2, <3>3 DEF ControlArrives, Typed
  <2>3. CASE ~(state = "opening" /\ ~aborted)
    BY <1>3, <2>1, <2>3 DEF ControlArrives, Typed
  <2> QED BY <2>2, <2>3
<1>4. CASE ControlFails
  BY <1>4 DEF ControlFails, Typed
<1>5. CASE Refuse
  BY <1>5 DEF Refuse, Typed
<1>6. CASE HandOver \/ HandOverFails
  <2>1. "observers" \in Resource
    BY ResourceIs
  <2>2. cleanup' = Append(cleanup, "observers") /\ res' = [res EXCEPT !["observers"] = "open"]
    BY <1>6 DEF HandOver, HandOverFails
  <2>3. cleanup' \in Seq(Resource) /\ res' \in [Resource -> {"none", "open", "closed"}]
    BY <2>1, <2>2 DEF Typed
  <2>4. todo' = <<>> /\ <<>> \in Seq(Resource \cup Signalled)
    BY <1>6 DEF HandOver, HandOverFails
  <2>5. CASE HandOver
    BY <2>3, <2>4, <2>5 DEF HandOver, Typed
  <2>6. CASE HandOverFails
    BY <2>3, <2>4, <2>6 DEF HandOverFails, Typed
  <2> QED BY <1>6, <2>5, <2>6
<1>7. CASE CallerAborts
  BY <1>7 DEF CallerAborts, Typed
<1>8. CASE CloseNext
  <2>1. cleanup' \in Seq(Resource) /\ res' \in [Resource -> {"none", "open", "closed"}]
    BY <1>8 DEF CloseNext, Typed, Last, Front
  <2>2. CASE Last(cleanup) = "engine"
    BY <1>8, <2>1, <2>2 DEF CloseNext, Typed
  <2>3. CASE Last(cleanup) # "engine"
    BY <1>8, <2>1, <2>3 DEF CloseNext, Typed
  <2> QED BY <2>2, <2>3
<1>9. CASE CleanedUp
  BY <1>9 DEF CleanedUp, Typed
<1>10. ASSUME NEW o \in Ops, Shut(o)
       PROVE  /\ op' \in Ops /\ state' = "closed" /\ aborted' \in BOOLEAN
              /\ res' \in [Resource -> {"none", "open", "closed"}] /\ UNCHANGED <<cleanup, drained>>
  BY <1>10, ShutChanges DEF Shut, Typed
<1>11. CASE Close
  BY <1>10, <1>11 DEF Close, Typed
<1>12. CASE PumpFails
  BY <1>12 DEF PumpFails, Typed
<1>13. CASE NotifyPumpFailure
  BY <1>10, <1>13 DEF NotifyPumpFailure, Typed
<1>14. CASE OnError
  BY <1>14 DEF OnError, Typed
<1>15. CASE ContextSteps
  <2>1. op' \in Ops
    BY <1>15, ContextStepsChanges DEF Typed, Changes
  <2> QED BY <1>15, <2>1 DEF ContextSteps, Typed
<1>16. CASE UNCHANGED vars
  BY <1>16 DEF vars, Typed
<1>17. ASSUME NEW c \in Call, NEW step \in Step, Runs(c), Settle(c, step)
       PROVE  op' \in Ops /\ queue' \in Seq(Call) /\ pendingSeeks' \in Int
  <2>1. op' \in Ops
    BY <1>17, SettleChanges DEF Typed, Changes
  <2> QED BY <1>17, <2>1 DEF Typed, Settle, Runs
<1>18. ASSUME NEW c \in Call, NEW to \in {"suspended", "running"}, Request(to, c)
       PROVE  ctxq' \in Seq({"suspended", "running"} \X Call) /\ ctx' = ctx
  BY <1>18 DEF Typed, Request
<1>19. ASSUME NEW c \in Call, NEW step \in Step, At(c, step)
       PROVE  op' \in Ops
  BY <1>19, AtChanges DEF Typed, Changes
<1>20. "fulfilled" \in Step /\ "rejected" \in Step
  BY DEF Step
<1>21. ASSUME NEW c \in Call, NEW k \in Kind, Invoke(c, k) PROVE Typed'
  <2>1. op' \in Ops
    BY <1>21, InvokeChanges DEF Typed
  <2> QED BY <1>18, <1>21, <2>1 DEF Invoke, Typed
<1>22. ASSUME NEW c \in Call, Prepared(c) PROVE Typed'
  <2>1. op' \in Ops
    BY <1>22, PreparedChanges DEF Typed, Changes
  <2> QED BY <1>22, <2>1 DEF Prepared, Typed
<1>23. ASSUME NEW c \in Call, WaitFails(c) PROVE Typed'
  <2>1. ctxq' \in Seq({"suspended", "running"} \X Call)
    <3>1. ASSUME NEW i \in 1..Len(ctxq) PROVE RemoveAt(ctxq, i) \in Seq({"suspended", "running"} \X Call)
      BY DEF Typed, RemoveAt
    <3>2. Asked(c) # {} => (CHOOSE i \in Asked(c) : TRUE) \in 1..Len(ctxq)
      BY DEF Asked
    <3> QED BY <1>23, <3>1, <3>2 DEF WaitFails, Typed, Withdraw
  <2>2. op' \in Ops
    BY <1>23, WaitFailsChanges DEF Typed, Changes
  <2> QED BY <1>23, <2>1, <2>2 DEF WaitFails, Typed
<1>24. ASSUME NEW c \in Call, StartPlay(c) PROVE Typed'
  <2>1. op' \in Ops
    BY <1>24, StartPlayChanges DEF Typed, Changes
  <2> QED BY <1>24, <2>1 DEF StartPlay, Typed
<1>25. ASSUME NEW c \in Call, StartPause(c) PROVE Typed'
  BY <1>25, <1>17, <1>18, <1>19 DEF StartPause, Typed, Step
<1>26. ASSUME NEW c \in Call, StartSeek(c) PROVE Typed'
  <2>1. op' \in Ops
    BY <1>26, <1>17, <1>20, StartSeekChanges DEF StartSeek, Typed, Changes
  <2> QED BY <1>26, <2>1, <1>17, <1>18, <1>20 DEF StartSeek, Typed
<1>27. ASSUME NEW c \in Call, ContinuePlay(c) PROVE Typed'
  BY <1>27, <1>17, <1>18, <1>19 DEF ContinuePlay, Typed, Step
<1>28. ASSUME NEW c \in Call, ContinuePause(c) PROVE Typed'
  BY <1>28, <1>17, <1>20 DEF ContinuePause, Typed
<1>29. ASSUME NEW c \in Call, CallFails(c) PROVE Typed'
  BY <1>29, <1>17, <1>20 DEF CallFails, Typed
<1>30. ASSUME NEW c \in Call, SeekAdvances(c) PROVE Typed'
  BY <1>30, <1>17, <1>18, <1>19 DEF SeekAdvances, Typed, Step, Following
<1>31. ASSUME NEW c \in Call, SeekFails(c) PROVE Typed'
  <2>1. CASE Closed
    BY <1>31, <2>1, <1>17, <1>20 DEF SeekFails, Typed
  <2>2. CASE ~Closed
    <3> DEFINE n == [op EXCEPT ![c].step = "closing", ![c].wait = "none"]
    <3>1. n \in Ops
      BY ClosingChanges DEF Typed
    <3>2. Shut(n) /\ UNCHANGED <<queue, pendingSeeks, sparse, todo, attaching, forwarded, failure, ctx, ctxq>>
      BY <1>31, <2>2 DEF SeekFails
    <3> HIDE DEF n
    <3> QED BY <3>1, <3>2, <1>10 DEF Typed
  <2> QED BY <2>1, <2>2
<1>32. ASSUME NEW c \in Call, SeekClosed(c) PROVE Typed'
  <2>1. Runs(c)
    BY <1>32 DEF SeekClosed, ActiveRuns, Ended
  <2> QED BY <1>32, <2>1, <1>17, <1>20 DEF SeekClosed, Typed
<1> QED
  BY <1>1, <1>2, <1>3, <1>4, <1>5, <1>6, <1>7, <1>8, <1>9, <1>11, <1>12, <1>13, <1>14, <1>15, <1>16,
     <1>21, <1>22, <1>23, <1>24, <1>25, <1>26, <1>27, <1>28, <1>29, <1>30, <1>31, <1>32
  DEF Next, Cleaning, Advance, Finished

-----------------------------------------------------------------------------
(* The opening and its cleanup stack *)

(* The place of a stage among all of them: what tells the stages of a plan apart. *)
Place(s) ==
  CASE s = "scratch" -> 1 [] s = "backend" -> 2 [] s = "store" -> 3 [] s = "lease" -> 4
    [] s = "check" -> 5 [] s = "engine" -> 6 [] s = "feed" -> 7 [] s = "pump" -> 8
    [] s = "prefill" -> 9 [] s = "output" -> 10 [] s = "control" -> 11 [] s = "handover" -> 12

(* A plan names every stage once, starts with the scratch boot and ends with *)
(* the handover, makes a lease and leaves the observers to the handover.     *)
PlanFit(p) ==
  /\ \A i, j \in 1..Len(p) : i < j => p[i] # p[j]
  /\ p # <<>> /\ p[Len(p)] = "handover" /\ Head(p) = "scratch"
  /\ \A i \in 1..Len(p) : p[i] # "observers"
  /\ \E i \in 1..Len(p) : p[i] = "lease"

LEMMA PlanExact ==
  ASSUME NEW x \in BOOLEAN, NEW y \in BOOLEAN, NEW p, p = Plan(x, y)
  PROVE  PlanFit(p)
<1>1. CASE x /\ y
  <2>0. p = <<"scratch">> \o SparseSources \o <<"engine", "feed", "pump", "prefill", "output">>
              \o <<"control">> \o <<"handover">>
    BY <1>1 DEF Plan
  <2>1. /\ Len(p) = 12
        /\ p[1] = "scratch" /\ p[2] = "backend" /\ p[3] = "store" /\ p[4] = "lease"
        /\ p[5] = "check" /\ p[6] = "engine" /\ p[7] = "feed" /\ p[8] = "pump"
        /\ p[9] = "prefill" /\ p[10] = "output" /\ p[11] = "control" /\ p[12] = "handover"
    BY <2>0 DEF SparseSources
  <2>2. /\ Place(p[1]) = 1 /\ Place(p[2]) = 2 /\ Place(p[3]) = 3 /\ Place(p[4]) = 4
        /\ Place(p[5]) = 5 /\ Place(p[6]) = 6 /\ Place(p[7]) = 7 /\ Place(p[8]) = 8
        /\ Place(p[9]) = 9 /\ Place(p[10]) = 10 /\ Place(p[11]) = 11 /\ Place(p[12]) = 12
    BY <2>1 DEF Place
  <2>3. ASSUME NEW i \in 1..Len(p) PROVE Place(p[i]) = i
    <3>1. \/ i = 1 \/ i = 2 \/ i = 3 \/ i = 4 \/ i = 5 \/ i = 6
          \/ i = 7 \/ i = 8 \/ i = 9 \/ i = 10 \/ i = 11 \/ i = 12
      BY <2>1
    <3> QED BY <3>1, <2>2
  <2>4. \A i, j \in 1..Len(p) : i < j => p[i] # p[j]
    BY <2>1, <2>3
  <2> QED BY <2>1, <2>4 DEF PlanFit
<1>2. CASE x /\ ~y
  <2>0. p = <<"scratch">> \o SparseSources \o <<"engine", "feed", "pump", "prefill", "output">>
              \o <<>> \o <<"handover">>
    BY <1>2 DEF Plan
  <2>1. /\ Len(p) = 11
        /\ p[1] = "scratch" /\ p[2] = "backend" /\ p[3] = "store" /\ p[4] = "lease"
        /\ p[5] = "check" /\ p[6] = "engine" /\ p[7] = "feed" /\ p[8] = "pump"
        /\ p[9] = "prefill" /\ p[10] = "output" /\ p[11] = "handover"
    BY <2>0 DEF SparseSources
  <2>2. /\ Place(p[1]) = 1 /\ Place(p[2]) = 2 /\ Place(p[3]) = 3 /\ Place(p[4]) = 4
        /\ Place(p[5]) = 5 /\ Place(p[6]) = 6 /\ Place(p[7]) = 7 /\ Place(p[8]) = 8
        /\ Place(p[9]) = 9 /\ Place(p[10]) = 10 /\ Place(p[11]) = 12
    BY <2>1 DEF Place
  <2>3. ASSUME NEW i \in 1..Len(p) PROVE Place(p[i]) = IF i < 11 THEN i ELSE 12
    <3>1. \/ i = 1 \/ i = 2 \/ i = 3 \/ i = 4 \/ i = 5 \/ i = 6
          \/ i = 7 \/ i = 8 \/ i = 9 \/ i = 10 \/ i = 11
      BY <2>1
    <3> QED BY <3>1, <2>2
  <2>4. \A i, j \in 1..Len(p) : i < j => p[i] # p[j]
    BY <2>1, <2>3
  <2> QED BY <2>1, <2>4 DEF PlanFit
<1>3. CASE ~x /\ y
  <2>0. p = <<"scratch">> \o DenseSources \o <<"engine", "feed", "pump", "prefill", "output">>
              \o <<"control">> \o <<"handover">>
    BY <1>3 DEF Plan
  <2>1. /\ Len(p) = 9
        /\ p[1] = "scratch" /\ p[2] = "lease" /\ p[3] = "engine" /\ p[4] = "feed"
        /\ p[5] = "pump" /\ p[6] = "prefill" /\ p[7] = "output" /\ p[8] = "control"
        /\ p[9] = "handover"
    BY <2>0 DEF DenseSources
  <2>2. /\ Place(p[1]) = 1 /\ Place(p[2]) = 4 /\ Place(p[3]) = 6 /\ Place(p[4]) = 7
        /\ Place(p[5]) = 8 /\ Place(p[6]) = 9 /\ Place(p[7]) = 10 /\ Place(p[8]) = 11
        /\ Place(p[9]) = 12
    BY <2>1 DEF Place
  <2>3. ASSUME NEW i \in 1..Len(p) PROVE Place(p[i]) = IF i = 1 THEN 1 ELSE IF i = 2 THEN 4 ELSE i + 3
    <3>1. \/ i = 1 \/ i = 2 \/ i = 3 \/ i = 4 \/ i = 5 \/ i = 6
          \/ i = 7 \/ i = 8 \/ i = 9
      BY <2>1
    <3> QED BY <3>1, <2>2
  <2>4. \A i, j \in 1..Len(p) : i < j => p[i] # p[j]
    BY <2>1, <2>3
  <2> QED BY <2>1, <2>4 DEF PlanFit
<1>4. CASE ~x /\ ~y
  <2>0. p = <<"scratch">> \o DenseSources \o <<"engine", "feed", "pump", "prefill", "output">>
              \o <<>> \o <<"handover">>
    BY <1>4 DEF Plan
  <2>1. /\ Len(p) = 8
        /\ p[1] = "scratch" /\ p[2] = "lease" /\ p[3] = "engine" /\ p[4] = "feed"
        /\ p[5] = "pump" /\ p[6] = "prefill" /\ p[7] = "output" /\ p[8] = "handover"
    BY <2>0 DEF DenseSources
  <2> QED BY <2>1 DEF PlanFit
<1> QED BY <1>1, <1>2, <1>3, <1>4

LEMMA StackInit == ASSUME SessionAssumption, Init PROVE Stack
<1>1. PICK f \in Configurations : todo = Plan(f[1], f[2])
  BY DEF Init
<1>2. f[1] \in BOOLEAN /\ f[2] \in BOOLEAN
  BY <1>1 DEF SessionAssumption
<1>3. PlanFit(todo)
  BY <1>1, <1>2, PlanExact
<1>4. \A r \in Resource : res[r] = "none"
  BY DEF Init
<1>5. /\ cleanup = <<>> /\ state = "opening" /\ ~drained /\ ~attaching /\ ~aborted
      /\ failure = "none" /\ queue = <<>> /\ ctxq = <<>> /\ ctx = "suspended"
  BY DEF Init
<1>6. \A c \in Call : op[c].step = "idle"
  BY DEF Init, Idle
<1>7. StagesOnce /\ HandsOverLast /\ StagesAhead /\ ObserversLast /\ LeaseComes
  BY <1>3, <1>4, <1>5, ResourceIs DEF PlanFit, StagesOnce, HandsOverLast, StagesAhead, ObserversLast, LeaseComes
<1>8. ControlOnce /\ ControlAhead /\ LeaseHeld /\ CleanupOnce /\ CleanupMade /\ CleanupOpen /\ DrainedEmpty
  BY <1>4, <1>5, ResourceIs DEF ControlOnce, ControlAhead, LeaseHeld, CleanupOnce, CleanupMade, CleanupOpen, DrainedEmpty, Serving
<1>9. StackCovers /\ ClosedInReverse
  BY <1>4, <1>5 DEF StackCovers, ClosedInReverse
<1>10. SignalExact /\ FailureExact /\ NoCallsYet
  BY <1>5, <1>6 DEF SignalExact, FailureExact, NoCallsYet, Serving, Closed, Opened
<1> QED BY <1>7, <1>8, <1>9, <1>10 DEF Stack

(* A call changes the session among its open states at most. *)
LEMMA CallsKeepStack ==
  ASSUME Stack, Opened,
         UNCHANGED <<todo, res, cleanup, attaching, aborted, forwarded, drained, failure>>,
         state' = state \/ (state \in Serving /\ state' \in Serving)
  PROVE  Stack'
<1>1. Opened' /\ (state \in Serving <=> state' \in Serving) /\ state # "opening" /\ state' # "opening"
      /\ (Closed <=> Closed') /\ (state = "rejected" <=> state' = "rejected")
  BY DEF Opened, Serving, Closed
<1>2. (StagesOnce /\ HandsOverLast /\ StagesAhead /\ ObserversLast /\ ControlOnce
        /\ ControlAhead /\ LeaseComes /\ LeaseHeld)'
  BY <1>1 DEF Stack, StagesOnce, HandsOverLast, StagesAhead, ObserversLast, ControlOnce, ControlAhead, LeaseComes, LeaseHeld
<1>3. (CleanupOnce /\ CleanupMade /\ CleanupOpen /\ DrainedEmpty /\ StackCovers /\ ClosedInReverse)'
  BY <1>1 DEF Stack, CleanupOnce, CleanupMade, CleanupOpen, DrainedEmpty, StackCovers, ClosedInReverse,
              Serving, Contains
<1>4. (SignalExact /\ FailureExact /\ NoCallsYet)'
  BY <1>1 DEF Stack, SignalExact, FailureExact, NoCallsYet
<1> QED BY <1>2, <1>3, <1>4 DEF Stack

(* The synchronous part of a close leaves all but the control to cleanup. *)
LEMMA ShutKeepsStack ==
  ASSUME Typed, Stack, state \in Serving, NEW o \in Ops, Shut(o),
         UNCHANGED <<todo, attaching, forwarded>>, failure' \in {failure, "closing"}
  PROVE  Stack'
<1>1. /\ state' = "closed" /\ aborted' /\ UNCHANGED <<cleanup, drained>>
      /\ \A r \in Resource : r # "control" => res'[r] = res[r]
      /\ res["control"] = "open" => res'["control"] = "closed"
      /\ res["control"] # "open" => res'["control"] = res["control"]
  BY ResourceIs DEF Shut, Typed
<1>2. ~drained /\ failure # "told" /\ "control" \in Resource
  BY ResourceIs DEF Stack, DrainedEmpty, FailureExact, Serving, Closed
<1>3. (StagesOnce /\ HandsOverLast /\ StagesAhead /\ ObserversLast /\ ControlOnce
        /\ ControlAhead /\ LeaseComes /\ LeaseHeld)'
  BY <1>1 DEF Stack, StagesOnce, HandsOverLast, StagesAhead, ObserversLast, ControlOnce, ControlAhead, LeaseComes,
              LeaseHeld, Opened, Closed, Serving
<1>4. \A i \in 1..Len(cleanup) : cleanup[i] \in Resource
  BY DEF Typed
<1>5. (CleanupOnce /\ CleanupMade /\ CleanupOpen /\ DrainedEmpty)'
  BY <1>1, <1>2, <1>4 DEF Stack, CleanupOnce, CleanupMade, CleanupOpen, DrainedEmpty, Serving
<1>6. (StackCovers /\ ClosedInReverse)'
  BY <1>1, <1>4 DEF Stack, StackCovers, ClosedInReverse, CleanupOpen, Contains
<1>7. (SignalExact /\ FailureExact /\ NoCallsYet)'
  BY <1>1, <1>2 DEF Stack, SignalExact, FailureExact, NoCallsYet, Opened, Closed, Serving
<1> QED BY <1>3, <1>5, <1>6, <1>7 DEF Stack

(* Aborting leaves the stack alone; so does what becomes of a pump failure. *)
LEMMA SignalKeepsStack ==
  ASSUME Stack, UNCHANGED <<todo, res, cleanup, attaching, drained, state, op, queue, ctx, ctxq>>,
         aborted' \/ aborted' = aborted, aborted' => aborted \/ state \notin Serving,
         forwarded' = forwarded \/ ~forwarded',
         failure' = failure \/ (failure' \in {"told", "closing"} => Closed /\ drained)
  PROVE  Stack'
<1>1. (StagesOnce /\ HandsOverLast /\ StagesAhead /\ ObserversLast /\ ControlOnce
        /\ ControlAhead /\ LeaseComes /\ LeaseHeld)'
  BY DEF Stack, StagesOnce, HandsOverLast, StagesAhead, ObserversLast, ControlOnce, ControlAhead,
         LeaseComes, LeaseHeld, Opened
<1>2. (CleanupOnce /\ CleanupMade /\ CleanupOpen /\ DrainedEmpty /\ StackCovers /\ ClosedInReverse)'
  BY DEF Stack, CleanupOnce, CleanupMade, CleanupOpen, DrainedEmpty, StackCovers, ClosedInReverse, Contains
<1>3. (SignalExact /\ FailureExact /\ NoCallsYet)'
  BY DEF Stack, SignalExact, FailureExact, NoCallsYet, Opened, Closed, Serving
<1> QED BY <1>1, <1>2, <1>3 DEF Stack

(* A stage of the opening is done; the resource it makes, if any, is made. *)
LEMMA StageDone ==
  ASSUME Typed, Stack, state = "opening", state' = state, Len(todo) > 1, todo' = Tail(todo),
         \A q \in Resource : q # todo[1] => res'[q] = res[q],
         todo[1] = "lease" => res'["lease"] = "open"
  PROVE  (StagesOnce /\ HandsOverLast /\ StagesAhead /\ ObserversLast /\ ControlAhead /\ LeaseComes)'
<1>1. /\ todo' \in Seq(Resource \cup Signalled) /\ Len(todo') = Len(todo) - 1
      /\ \A i \in 1..Len(todo') : todo'[i] = todo[i + 1]
  BY DEF Typed
<1>a. /\ todo' # <<>> /\ todo'[Len(todo')] = todo[Len(todo)]
      /\ \A i \in 1..Len(todo') : todo'[i] # todo[1]
  <2>1. Len(todo) \in Nat /\ Len(todo') \in Nat
    BY <1>1 DEF Typed
  <2>2. todo' # <<>> /\ todo'[Len(todo')] = todo[Len(todo)]
    BY TailKeepsLast DEF Typed
  <2>3. ASSUME NEW i \in 1..Len(todo') PROVE todo'[i] # todo[1]
    <3>1. 1 \in 1..Len(todo) /\ i + 1 \in 1..Len(todo) /\ 1 < i + 1
      BY <1>1, <2>1
    <3> QED BY <1>1, <3>1 DEF Stack, StagesOnce
  <2> QED BY <2>2, <2>3
<1>2. (StagesOnce /\ HandsOverLast)'
  BY <1>1, <1>a DEF Stack, StagesOnce, HandsOverLast, Typed
<1>3. StagesAhead'
  BY <1>1, <1>a DEF Stack, StagesAhead, Typed
<1>4. ObserversLast'
  BY <1>1, ResourceIs DEF Stack, ObserversLast, Typed
<1>5. ControlAhead'
  <2>1. ASSUME NEW i \in 2..Len(todo'), todo'[i] = "control"
        PROVE  res'["control"] = "none"
    <3>1. i + 1 \in 2..Len(todo) /\ todo[i + 1] = "control" /\ todo[1] # "control"
      BY <1>1, <1>a, <2>1 DEF Typed
    <3> QED BY <3>1, ResourceIs DEF Stack, ControlAhead
  <2> QED BY <2>1 DEF ControlAhead
<1>6. LeaseComes'
  <2>1. CASE todo[1] = "lease" BY <2>1 DEF LeaseComes
  <2>2. CASE todo[1] # "lease" /\ res["lease"] = "open" BY <2>2, ResourceIs DEF LeaseComes
  <2>3. CASE todo[1] # "lease" /\ \E i \in 1..Len(todo) : todo[i] = "lease"
    <3>1. PICK i \in 1..Len(todo) : todo[i] = "lease"
      BY <2>3
    <3>2. i - 1 \in 1..Len(todo') /\ todo'[i - 1] = "lease"
      BY <3>1, <2>3, <1>1 DEF Typed
    <3> QED BY <3>2 DEF LeaseComes
  <2> QED BY <2>1, <2>2, <2>3 DEF Stack, LeaseComes
<1> QED BY <1>2, <1>3, <1>4, <1>5, <1>6

(* A resource that was never made joins a stack on which everything is open. *)
LEMMA PushKeepsStack ==
  ASSUME Typed, Stack, state = "opening", state' \in {"opening", "ready", "refused"},
         NEW r \in Resource, res[r] = "none",
         res' = [res EXCEPT ![r] = "open"], cleanup' = Append(cleanup, r)
  PROVE  (CleanupOnce /\ CleanupMade /\ CleanupOpen /\ StackCovers /\ ClosedInReverse)'
<1>1. res'[r] = "open" /\ \A q \in Resource : q # r => res'[q] = res[q]
  BY DEF Typed
<1>2. /\ cleanup' \in Seq(Resource) /\ Len(cleanup') = Len(cleanup) + 1
      /\ \A i \in 1..Len(cleanup) : cleanup'[i] = cleanup[i] /\ cleanup[i] \in Resource
      /\ cleanup'[Len(cleanup) + 1] = r
  BY DEF Typed
<1>3. \A i \in 1..Len(cleanup) : res[cleanup[i]] = "open" /\ cleanup[i] # r
  BY DEF Stack, CleanupOpen
<1>4. (CleanupOnce /\ CleanupMade /\ CleanupOpen /\ ClosedInReverse)'
  BY <1>1, <1>2, <1>3 DEF Stack, CleanupOnce, CleanupMade, CleanupOpen, ClosedInReverse, Typed
<1>5. ASSUME NEW q \in Resource, res'[q] = "open"
      PROVE  \E i \in 1..Len(cleanup') : cleanup'[i] = q
  <2>1. CASE q = r BY <2>1, <1>2 DEF Typed
  <2>2. CASE q # r
    <3>1. PICK i \in 1..Len(cleanup) : cleanup[i] = q
      BY <1>5, <2>2, <1>1 DEF Stack, StackCovers, Contains
    <3> QED BY <3>1, <1>2 DEF Typed
  <2> QED BY <2>1, <2>2
<1> QED BY <1>4, <1>5 DEF StackCovers, Contains

LEMMA StackNext ==
  ASSUME Typed, Stack, Queueing, [Next]_vars
  PROVE  Stack'
<1> USE DEF calls, context, opening, stack
<1>1. ASSUME state = "opening", state' = state, attaching' => aborted' = aborted,
             UNCHANGED <<forwarded, aborted, drained, failure, op, queue, ctx, ctxq>>
      PROVE  (LeaseHeld /\ DrainedEmpty /\ SignalExact /\ FailureExact /\ NoCallsYet)'
  BY <1>1 DEF Stack, LeaseHeld, DrainedEmpty, SignalExact, FailureExact, NoCallsYet, Opened, Closed, Serving
<1>2. CASE Acquire
  <2>1. PICK r : r = Stage
    OBVIOUS
  <2>2. r \in Resource \ {"control"} /\ state = "opening" /\ todo # <<>> /\ Head(todo) = r
    BY <1>2, <2>1, ResourceIs DEF Acquire, Stage
  <2>3. todo[1] = r
    BY <2>2 DEF Typed
  <2>4. res[r] = "none"
    BY <2>2, <2>3 DEF Stack, StagesAhead, Typed
  <2>5. Len(todo) > 1
    BY <2>2, <2>3, ResourceIs DEF Stack, HandsOverLast, Typed
  <2>6. /\ res' = [res EXCEPT ![r] = "open"] /\ cleanup' = Append(cleanup, r)
        /\ todo' = Tail(todo) /\ state' = state
        /\ attaching' = (todo' # <<>> /\ Head(todo') = "control")
    BY <1>2, <2>1 DEF Acquire
  <2>7. (StagesOnce /\ HandsOverLast /\ StagesAhead /\ ObserversLast /\ ControlAhead /\ LeaseComes)'
    BY <2>2, <2>3, <2>5, <2>6, StageDone DEF Typed
  <2>8. (CleanupOnce /\ CleanupMade /\ CleanupOpen /\ StackCovers /\ ClosedInReverse)'
    BY <2>2, <2>4, <2>6, PushKeepsStack
  <2>9. ControlOnce'
    <3>1. todo' # <<>> /\ Head(todo') = "control" => todo'[1] = "control" /\ todo[2] = "control" /\ 2 \in 2..Len(todo)
      BY <2>5, <2>6 DEF Typed
    <3>2. todo' # <<>> /\ Head(todo') = "control" => res'["control"] = "none"
      BY <3>1, <2>2, <2>6, ResourceIs DEF Stack, ControlAhead, Typed
    <3> QED BY <2>2, <2>6, <3>1, <3>2 DEF ControlOnce, Opened
  <2>10. (LeaseHeld /\ DrainedEmpty /\ SignalExact /\ FailureExact /\ NoCallsYet)'
    BY <1>1, <1>2, <2>2 DEF Acquire
  <2> QED BY <2>7, <2>8, <2>9, <2>10 DEF Stack
<1>3. CASE Proceed
  <2>1. state = "opening" /\ todo # <<>> /\ todo[1] \in {"scratch", "check", "prefill"}
    BY <1>3 DEF Proceed, Stage, Typed
  <2>2. Len(todo) > 1
    BY <2>1 DEF Stack, HandsOverLast, Typed
  <2>3. todo' = Tail(todo) /\ res' = res /\ cleanup' = cleanup /\ state' = state /\ attaching' = attaching
    BY <1>3 DEF Proceed
  <2>4. (StagesOnce /\ HandsOverLast /\ StagesAhead /\ ObserversLast /\ ControlAhead /\ LeaseComes)'
    BY <2>1, <2>2, <2>3, StageDone
  <2>5. (CleanupOnce /\ CleanupMade /\ CleanupOpen /\ StackCovers /\ ClosedInReverse)'
    BY <2>3 DEF Stack, CleanupOnce, CleanupMade, CleanupOpen, StackCovers, ClosedInReverse, Contains
  <2>6. ControlOnce'
    BY <2>1, <2>3 DEF Stack, ControlOnce
  <2>7. (LeaseHeld /\ DrainedEmpty /\ SignalExact /\ FailureExact /\ NoCallsYet)'
    BY <1>1, <1>3, <2>1 DEF Proceed
  <2> QED BY <2>4, <2>5, <2>6, <2>7 DEF Stack
<1>4. CASE ControlArrives /\ state = "opening" /\ ~aborted
  <2>1. /\ todo' = Tail(todo) /\ cleanup' = Append(cleanup, "control") /\ state' = state
        /\ res' = [res EXCEPT !["control"] = "open"] /\ ~attaching' /\ attaching
    BY <1>4 DEF ControlArrives
  <2>2. "control" \in Resource /\ res["control"] = "none" /\ todo[1] = "control"
    BY <1>4, <2>1, ResourceIs DEF Stack, ControlOnce
  <2>3. Len(todo) > 1
    BY <1>4, <2>2 DEF Stack, HandsOverLast, Typed
  <2>4. (StagesOnce /\ HandsOverLast /\ StagesAhead /\ ObserversLast /\ ControlAhead /\ LeaseComes)'
    BY <1>4, <2>1, <2>2, <2>3, StageDone DEF Typed
  <2>5. (CleanupOnce /\ CleanupMade /\ CleanupOpen /\ StackCovers /\ ClosedInReverse)'
    BY <1>4, <2>1, <2>2, PushKeepsStack
  <2>6. ControlOnce'
    BY <2>1 DEF ControlOnce
  <2>7. (LeaseHeld /\ DrainedEmpty /\ SignalExact /\ FailureExact /\ NoCallsYet)'
    BY <1>1, <1>4 DEF ControlArrives
  <2> QED BY <2>4, <2>5, <2>6, <2>7 DEF Stack
<1>5. CASE ControlArrives /\ ~(state = "opening" /\ ~aborted)
  <2>1. /\ todo' = todo /\ cleanup' = cleanup /\ ~attaching' /\ attaching
        /\ res' = [res EXCEPT !["control"] = "closed"]
        /\ UNCHANGED <<forwarded, aborted, state, drained, failure, op, queue, ctx, ctxq>>
    BY <1>5 DEF ControlArrives
  <2>2. /\ "control" \in Resource /\ res["control"] = "none" /\ res'["control"] = "closed"
        /\ \A q \in Resource : q # "control" => res'[q] = res[q]
        /\ state = "opening" => todo[1] = "control"
    BY <2>1, ResourceIs DEF Stack, ControlOnce, Typed
  <2>3. \A i \in 1..Len(cleanup) : cleanup[i] \in Resource /\ cleanup[i] # "control"
    BY <2>2 DEF Stack, CleanupMade, Typed
  <2>4. (StagesOnce /\ HandsOverLast /\ StagesAhead /\ ObserversLast /\ LeaseComes)'
    BY <2>1, <2>2, ResourceIs DEF Stack, StagesOnce, HandsOverLast, StagesAhead, ObserversLast, LeaseComes
  <2>5. ControlAhead' /\ ControlOnce' /\ LeaseHeld'
    BY <2>1, <2>2, ResourceIs DEF Stack, StagesOnce, ControlAhead, ControlOnce, LeaseHeld, Typed
  <2>6. (CleanupOnce /\ CleanupMade /\ CleanupOpen /\ DrainedEmpty)'
    BY <2>1, <2>2, <2>3 DEF Stack, CleanupOnce, CleanupMade, CleanupOpen, DrainedEmpty
  <2>7. (StackCovers /\ ClosedInReverse)'
    BY <2>1, <2>2, <2>3 DEF Stack, StackCovers, ClosedInReverse, Contains
  <2>8. (SignalExact /\ FailureExact /\ NoCallsYet)'
    BY <2>1 DEF Stack, SignalExact, FailureExact, NoCallsYet, Opened, Closed
  <2> QED BY <2>4, <2>5, <2>6, <2>7, <2>8 DEF Stack
<1>6. ASSUME state' \in {state, "refused"}, state' = "refused" => state \in {"opening", "refused"},
             aborted', ~forwarded', attaching' = attaching \/ ~attaching',
             UNCHANGED <<todo, res, cleanup, drained, failure, op, queue, ctx, ctxq>>,
             state \notin Serving
      PROVE  Stack'
  <2>1. (StagesOnce /\ HandsOverLast /\ StagesAhead /\ ObserversLast /\ ControlOnce
          /\ ControlAhead /\ LeaseComes /\ LeaseHeld)'
    BY <1>6 DEF Stack, StagesOnce, HandsOverLast, StagesAhead, ObserversLast, ControlOnce, ControlAhead,
                LeaseComes, LeaseHeld, Opened, Serving
  <2>2. (CleanupOnce /\ CleanupMade /\ CleanupOpen /\ DrainedEmpty /\ StackCovers /\ ClosedInReverse)'
    BY <1>6 DEF Stack, CleanupOnce, CleanupMade, CleanupOpen, DrainedEmpty, StackCovers, ClosedInReverse,
                Contains, Serving
  <2>3. (SignalExact /\ FailureExact /\ NoCallsYet)'
    BY <1>6 DEF Stack, SignalExact, FailureExact, NoCallsYet, Opened, Closed, Serving
  <2> QED BY <2>1, <2>2, <2>3 DEF Stack
<1>7. CASE Refuse
  BY <1>6, <1>7 DEF Refuse, Serving
<1>8. CASE ControlFails
  <2>1. state \notin Serving
    BY <1>8 DEF ControlFails, Stack, ControlOnce, Opened, Serving
  <2>2. /\ state' \in {state, "refused"} /\ (state' = "refused" => state \in {"opening", "refused"})
        /\ aborted' /\ ~forwarded' /\ ~attaching'
        /\ UNCHANGED <<todo, res, cleanup, drained, failure, op, queue, ctx, ctxq>>
    BY <1>8 DEF ControlFails
  <2> QED BY <1>6, <2>1, <2>2
<1>9. CASE HandOver
  <2>1. /\ state = "opening" /\ todo # <<>> /\ todo[1] = "handover" /\ ~aborted
        /\ ~forwarded' /\ state' = "ready" /\ todo' = <<>>
        /\ res' = [res EXCEPT !["observers"] = "open"] /\ cleanup' = Append(cleanup, "observers")
        /\ UNCHANGED <<attaching, drained, aborted, failure, op, queue, ctx, ctxq>>
    BY <1>9 DEF HandOver, Stage, Typed
  <2>2. "observers" \in Resource /\ res["observers"] = "none"
    BY <2>1, ResourceIs DEF Stack, ObserversLast
  <2>3. Len(todo) = 1
    BY <2>1, FirstIsLast DEF Stack, StagesOnce, HandsOverLast, Typed
  <2>4. res["lease"] = "open" /\ ~attaching
    BY <2>1, <2>3 DEF Stack, LeaseComes, ControlOnce
  <2>5. (CleanupOnce /\ CleanupMade /\ CleanupOpen /\ StackCovers /\ ClosedInReverse)'
    BY <2>1, <2>2, PushKeepsStack
  <2>6. (StagesOnce /\ HandsOverLast /\ StagesAhead /\ ObserversLast /\ ControlOnce
          /\ ControlAhead /\ LeaseComes /\ LeaseHeld)'
    BY <2>1, <2>4, ResourceIs DEF StagesOnce, HandsOverLast, StagesAhead, ObserversLast, ControlOnce,
                                  ControlAhead, LeaseComes, LeaseHeld, Typed
  <2>7. (DrainedEmpty /\ SignalExact /\ FailureExact /\ NoCallsYet)'
    BY <2>1 DEF Stack, DrainedEmpty, SignalExact, FailureExact, NoCallsYet, Opened, Closed, Serving
  <2> QED BY <2>5, <2>6, <2>7 DEF Stack
<1>34. CASE HandOverFails
  <2>1. /\ state = "opening" /\ todo # <<>> /\ todo[1] = "handover"
        /\ ~forwarded' /\ state' = "refused" /\ todo' = <<>> /\ aborted' = TRUE
        /\ res' = [res EXCEPT !["observers"] = "open"] /\ cleanup' = Append(cleanup, "observers")
        /\ UNCHANGED <<attaching, drained, failure, op, queue, ctx, ctxq>>
    BY <1>34 DEF HandOverFails, Stage, Typed
  <2>2. "observers" \in Resource /\ res["observers"] = "none"
    BY <2>1, ResourceIs DEF Stack, ObserversLast
  <2>3. Len(todo) = 1
    BY <2>1, FirstIsLast DEF Stack, StagesOnce, HandsOverLast, Typed
  <2>4. res["lease"] = "open" /\ ~attaching
    BY <2>1, <2>3 DEF Stack, LeaseComes, ControlOnce
  <2>5. (CleanupOnce /\ CleanupMade /\ CleanupOpen /\ StackCovers /\ ClosedInReverse)'
    BY <2>1, <2>2, PushKeepsStack
  <2>6. (StagesOnce /\ HandsOverLast /\ StagesAhead /\ ObserversLast /\ ControlOnce
          /\ ControlAhead /\ LeaseComes /\ LeaseHeld)'
    BY <2>1, <2>4, ResourceIs DEF StagesOnce, HandsOverLast, StagesAhead, ObserversLast, ControlOnce,
                                  ControlAhead, LeaseComes, LeaseHeld, Typed, Serving
  <2>7. (DrainedEmpty /\ SignalExact /\ FailureExact /\ NoCallsYet)'
    BY <2>1 DEF Stack, DrainedEmpty, SignalExact, FailureExact, NoCallsYet, Opened, Closed, Serving
  <2> QED BY <2>5, <2>6, <2>7 DEF Stack
<1>10. CASE CallerAborts
  <2>1. state \notin Serving
    BY <1>10 DEF CallerAborts, Stack, SignalExact, Opened, Serving
  <2> QED BY <1>10, <2>1, SignalKeepsStack DEF CallerAborts
<1>11. CASE CloseNext
  <2>1. PICK r : r = Last(cleanup)
    OBVIOUS
  <2>2. /\ cleanup # <<>> /\ cleanup' = Front(cleanup) /\ res' = [res EXCEPT ![r] = "closed"]
        /\ state \in {"closed", "refused"} /\ ~drained
        /\ UNCHANGED <<todo, attaching, forwarded, drained, aborted, state, failure, op, queue>>
        /\ ctxq' \in {ctxq, <<>>}
    BY <1>11, <2>1 DEF CloseNext, Draining
  <2>3. /\ Len(cleanup') = Len(cleanup) - 1 /\ Len(cleanup) \in Nat /\ cleanup[Len(cleanup)] = r
        /\ \A i \in 1..Len(cleanup') : cleanup'[i] = cleanup[i] /\ cleanup[i] \in Resource
        /\ r \in Resource
    BY <2>1, <2>2, FrontAndLast DEF Typed
  <2>4. \A i \in 1..Len(cleanup') : cleanup[i] # r
    BY <2>1, <2>2, <2>3, FrontAndLast DEF Stack, CleanupOnce, Typed
  <2>5. res'[r] = "closed" /\ \A q \in Resource : q # r => res'[q] = res[q]
    BY <2>2, <2>3 DEF Typed
  <2>a. \A i \in 1..Len(cleanup') : i \in 1..Len(cleanup)
    BY <2>2, FrontAndLast DEF Typed
  <2>6. (CleanupOnce /\ CleanupMade)'
    <3>1. ASSUME NEW i \in 1..Len(cleanup'), NEW j \in 1..Len(cleanup'), i < j
          PROVE  cleanup'[i] # cleanup'[j]
      BY <2>3, <2>a, <3>1 DEF Stack, CleanupOnce
    <3>2. ASSUME NEW i \in 1..Len(cleanup') PROVE res'[cleanup'[i]] # "none"
      BY <2>3, <2>4, <2>5, <2>a DEF Stack, CleanupMade
    <3> QED BY <3>1, <3>2 DEF CleanupOnce, CleanupMade
  <2>7. ClosedInReverse'
    <3>1. ASSUME NEW i \in 1..Len(cleanup'), NEW j \in 1..Len(cleanup'), i < j, res'[cleanup'[j]] = "open"
          PROVE  cleanup'[i] = "control" \/ res'[cleanup'[i]] = "open"
      BY <2>3, <2>4, <2>5, <2>a, <3>1 DEF Stack, ClosedInReverse
    <3> QED BY <3>1 DEF ClosedInReverse
  <2>8. StackCovers'
    <3>1. ASSUME NEW q \in Resource, res'[q] = "open"
          PROVE  \E i \in 1..Len(cleanup') : cleanup'[i] = q
      <4>1. q # r
        BY <3>1, <2>5
      <4>2. PICK i \in 1..Len(cleanup) : cleanup[i] = q
        BY <3>1, <4>1, <2>5 DEF Stack, StackCovers, Contains
      <4>3. i # Len(cleanup)
        BY <2>3, <4>1, <4>2
      <4>4. i \in 1..Len(cleanup')
        BY <2>3, <4>3
      <4> QED BY <2>3, <4>2, <4>4
    <3> QED BY <3>1 DEF StackCovers, Contains
  <2>9. r = "control" \/ res'["control"] = res["control"]
    BY <2>5, ResourceIs
  <2>10. attaching => res'["control"] = "none"
    <3>1. attaching => r # "control"
      BY <2>3 DEF Stack, ControlOnce, CleanupMade, Typed
    <3> QED BY <2>9, <3>1 DEF Stack, ControlOnce
  <2>11. (StagesOnce /\ HandsOverLast /\ StagesAhead /\ ObserversLast /\ ControlOnce
           /\ ControlAhead /\ LeaseComes /\ LeaseHeld)'
    BY <2>2, <2>10 DEF Stack, StagesOnce, HandsOverLast, StagesAhead, ObserversLast, ControlOnce,
                       ControlAhead, LeaseComes, LeaseHeld, Opened, Serving
  <2>12. (CleanupOpen /\ DrainedEmpty /\ SignalExact /\ FailureExact /\ NoCallsYet)'
    BY <2>2 DEF Stack, CleanupOpen, DrainedEmpty, SignalExact, FailureExact, NoCallsYet, Opened, Closed, Serving
  <2> QED BY <2>6, <2>7, <2>8, <2>11, <2>12 DEF Stack
<1>12. CASE CleanedUp
  <2>1. /\ state \in {"closed", "refused"} /\ cleanup = <<>> /\ drained'
        /\ state' = (IF state = "refused" THEN "rejected" ELSE state)
        /\ UNCHANGED <<todo, res, cleanup, attaching, forwarded, aborted, failure, op, queue, ctx, ctxq>>
    BY <1>12 DEF CleanedUp, Draining
  <2>2. (StagesOnce /\ HandsOverLast /\ StagesAhead /\ ObserversLast /\ ControlOnce
          /\ ControlAhead /\ LeaseComes /\ LeaseHeld)'
    BY <2>1 DEF Stack, StagesOnce, HandsOverLast, StagesAhead, ObserversLast, ControlOnce,
                ControlAhead, LeaseComes, LeaseHeld, Opened, Serving
  <2>3. (CleanupOnce /\ CleanupMade /\ CleanupOpen /\ DrainedEmpty /\ StackCovers /\ ClosedInReverse)'
    BY <2>1 DEF Stack, CleanupOnce, CleanupMade, CleanupOpen, DrainedEmpty, StackCovers, ClosedInReverse,
                Contains, Serving
  <2>4. (SignalExact /\ FailureExact /\ NoCallsYet)'
    BY <2>1 DEF Stack, SignalExact, FailureExact, NoCallsYet, Opened, Closed, Serving
  <2> QED BY <2>2, <2>3, <2>4 DEF Stack
<1>13. CASE Close
  BY <1>13, ShutKeepsStack DEF Close, Opened, Closed, Serving, Typed
<1>14. CASE PumpFails
  BY <1>14, SignalKeepsStack DEF PumpFails
<1>15. CASE NotifyPumpFailure
  <2>1. CASE aborted /\ failure' = "ignored" /\ UNCHANGED <<stack, aborted, state, op>>
    BY <1>15, <2>1, SignalKeepsStack DEF NotifyPumpFailure
  <2>2. CASE ~aborted /\ ~Opened /\ failure' = "refusing" /\ aborted' = TRUE /\ UNCHANGED <<stack, state, op>>
    BY <1>15, <2>2, SignalKeepsStack DEF NotifyPumpFailure, Opened, Serving
  <2>3. CASE ~aborted /\ Opened /\ failure' = "closing" /\ Shut(op)
    <3>1. state \in Serving /\ op \in Ops
      BY <2>3 DEF Stack, SignalExact, Opened, Closed, Serving, Typed
    <3> QED BY <1>15, <2>3, <3>1, ShutKeepsStack DEF NotifyPumpFailure
  <2> QED BY <1>15, <2>1, <2>2, <2>3 DEF NotifyPumpFailure
<1>16. CASE OnError
  BY <1>16, SignalKeepsStack DEF OnError, Stack, FailureExact
<1>17. CASE UNCHANGED vars
  BY <1>17, SignalKeepsStack DEF vars
<1>18. ASSUME Opened, UNCHANGED <<opening, stack, aborted, failure>>,
              state' = state \/ (state \in Serving /\ state' \in Serving)
       PROVE  Stack'
  BY <1>18, CallsKeepStack
<1>19. ASSUME NEW c \in Call, Runs(c) PROVE Opened
  BY <1>19 DEF Stack, NoCallsYet, Runs
<1>20. ASSUME NEW c \in Call, op[c].step # "idle" PROVE Opened
  BY <1>20 DEF Stack, NoCallsYet
<1>21. CASE ContextSteps
  BY <1>18, <1>21 DEF ContextSteps, Stack, NoCallsYet
<1>22. ASSUME NEW c \in Call, NEW k \in Kind, Invoke(c, k) PROVE Stack'
  BY <1>18, <1>22 DEF Invoke
<1>23. ASSUME NEW c \in Call, Prepared(c) PROVE Stack'
  BY <1>18, <1>20, <1>23 DEF Prepared
<1>24. ASSUME NEW c \in Call, WaitFails(c) PROVE Stack'
  <2>1. op[c].step # "idle"
    BY <1>24 DEF WaitFails, Queueing, WaitsOfStep, WaitFits, Ended
  <2> QED BY <1>18, <1>20, <1>24, <2>1 DEF WaitFails
<1>25. ASSUME NEW c \in Call, StartPlay(c) PROVE Stack'
  BY <1>18, <1>19, <1>25 DEF StartPlay
<1>26. ASSUME NEW c \in Call, StartPause(c) PROVE Stack'
  BY <1>18, <1>19, <1>26 DEF StartPause
<1>27. ASSUME NEW c \in Call, StartSeek(c) PROVE Stack'
  BY <1>18, <1>19, <1>27 DEF StartSeek
<1>28. ASSUME NEW c \in Call, ContinuePlay(c) PROVE Stack'
  BY <1>18, <1>19, <1>28 DEF ContinuePlay, Opened, Closed, Serving
<1>29. ASSUME NEW c \in Call, ContinuePause(c) PROVE Stack'
  BY <1>18, <1>19, <1>29 DEF ContinuePause, Opened, Closed, Serving
<1>30. ASSUME NEW c \in Call, CallFails(c) PROVE Stack'
  BY <1>18, <1>19, <1>30 DEF CallFails
<1>31. ASSUME NEW c \in Call, SeekAdvances(c) PROVE Stack'
  BY <1>18, <1>19, <1>31 DEF SeekAdvances, Opened, Closed, Serving
<1>32. ASSUME NEW c \in Call, SeekFails(c) PROVE Stack'
  <2>1. Runs(c) /\ Opened
    BY <1>19, <1>32 DEF SeekFails
  <2>2. CASE Closed
    BY <1>18, <1>32, <2>1, <2>2 DEF SeekFails
  <2>3. CASE ~Closed
    <3> DEFINE n == [op EXCEPT ![c].step = "closing", ![c].wait = "none"]
    <3>1. n \in Ops
      BY ClosingChanges DEF Typed
    <3>2. Shut(n) /\ UNCHANGED <<todo, attaching, forwarded, failure>> /\ state \in Serving
      BY <1>32, <2>1, <2>3 DEF SeekFails, Opened, Closed, Serving
    <3> HIDE DEF n
    <3> QED BY <3>1, <3>2, ShutKeepsStack
  <2> QED BY <2>2, <2>3
<1>33. ASSUME NEW c \in Call, SeekClosed(c) PROVE Stack'
  BY <1>18, <1>20, <1>33 DEF SeekClosed
<1> QED
  BY <1>2, <1>3, <1>4, <1>5, <1>7, <1>8, <1>9, <1>10, <1>11, <1>12, <1>13, <1>14, <1>15, <1>16, <1>17,
     <1>21, <1>22, <1>23, <1>24, <1>25, <1>26, <1>27, <1>28, <1>29, <1>30, <1>31, <1>32, <1>33, <1>34
  DEF Next, Cleaning, Advance, Finished

-----------------------------------------------------------------------------
(* The queue of calls *)

LEMMA QueueingInit == ASSUME SessionAssumption, Init PROVE Queueing
<1>1. queue = <<>> /\ \A c \in Call : op[c].step = "idle" /\ op[c].wait = "none"
  BY DEF Init, Idle
<1>2. Len(queue) = 0
  BY <1>1
<1>3. QueueWaits /\ QueueOrdered
  BY <1>2 DEF QueueWaits, QueueOrdered
<1>4. WaitingQueued /\ CallsInOrder /\ ActiveRuns
  BY <1>1 DEF WaitingQueued, CallsInOrder, ActiveRuns, Ended
<1>5. StepsOfKind /\ WaitsOfStep
  BY <1>1 DEF StepsOfKind, WaitsOfStep, StepFits, WaitFits, Ended
<1> QED BY <1>3, <1>4, <1>5 DEF Queueing

(* The queue depends on the steps and kinds of the calls alone. *)
LEMMA SameStepsKeepQueueing ==
  ASSUME Typed, Queueing, queue' = queue,
         \A d \in Call : op'[d].step = op[d].step /\ op'[d].kind = op[d].kind,
         \A d \in Call : WaitFits(op[d]) => WaitFits(op'[d])
  PROVE  Queueing'
<1>1. \A i \in 1..Len(queue) : queue[i] \in Call
  BY DEF Typed
<1>2. QueueWaits' /\ QueueOrdered'
  BY <1>1 DEF Queueing, QueueWaits, QueueOrdered
<1>3. WaitingQueued' /\ CallsInOrder' /\ ActiveRuns'
  BY DEF Queueing, WaitingQueued, CallsInOrder, ActiveRuns, Runs
<1>4. StepsOfKind' /\ WaitsOfStep'
  BY DEF Queueing, StepsOfKind, WaitsOfStep, StepFits
<1> QED BY <1>2, <1>3, <1>4 DEF Queueing

LEMMA WaitKeepsQueueing ==
  ASSUME Typed, Queueing, queue' = queue, NEW c \in Call, NEW w, Changes(c, op[c].step, w),
         \/ op[c].wait = "asked" /\ w \in {"settled", "broken"}
         \/ op[c].wait = "pending" /\ w \in {"value", "fail"}
         \/ w = op[c].wait
  PROVE  Queueing'
<1>1. \A d \in Call : op'[d].step = op[d].step /\ op'[d].kind = op[d].kind
  BY DEF Changes
<1>2. ASSUME NEW d \in Call, WaitFits(op[d]) PROVE WaitFits(op'[d])
  <2>1. CASE d # c BY <1>2, <2>1 DEF Changes
  <2>2. CASE d = c
    <3>1. op'[c].step = op[c].step /\ op'[c].kind = op[c].kind /\ op'[c].wait = w
      BY DEF Changes
    <3> QED BY <1>2, <2>2, <3>1 DEF WaitFits, Ended
  <2> QED BY <2>1, <2>2
<1> QED BY <1>1, <1>2, SameStepsKeepQueueing

(* Closing rejects waits and moves no call. *)
LEMMA ShutKeepsQueueing ==
  ASSUME Typed, Queueing, Shut(op), queue' = queue
  PROVE  Queueing'
<1>1. \A d \in Call : /\ op'[d].step = op[d].step /\ op'[d].kind = op[d].kind
                      /\ op'[d].wait = IF op[d].wait = "pending" THEN "fail" ELSE op[d].wait
  BY ShutChanges DEF Typed
<1>2. \A d \in Call : WaitFits(op[d]) => WaitFits(op'[d])
  BY <1>1 DEF WaitFits, Ended
<1> QED BY <1>1, <1>2, SameStepsKeepQueueing

(* The call that runs goes on to its next step, and stays the one that runs. *)
LEMMA MoveKeepsQueueing ==
  ASSUME Typed, Queueing, NEW c \in Call, Runs(c), queue' = queue,
         op'[c].step \notin Ended \cup {"queued"}, StepFits(op'[c]), WaitFits(op'[c]),
         \A d \in Call : d # c => op'[d].step = op[d].step /\ op'[d].kind = op[d].kind
                                  /\ (WaitFits(op[d]) => WaitFits(op'[d]))
  PROVE  Queueing'
<1>1. \A i \in 1..Len(queue) : queue[i] \in Call
  BY DEF Typed
<1>2. op[c].step \notin Ended /\ queue[1] = c /\ 1 \in 1..Len(queue)
  BY DEF Typed, Runs, Queueing, QueueWaits
<1>3. QueueWaits' /\ QueueOrdered'
  BY <1>1 DEF Queueing, QueueWaits, QueueOrdered
<1>4. WaitingQueued' /\ CallsInOrder'
  BY <1>2 DEF Queueing, WaitingQueued, CallsInOrder, Ended
<1>5. ActiveRuns'
  BY DEF Queueing, ActiveRuns, Runs
<1>6. StepsOfKind' /\ WaitsOfStep'
  BY DEF Queueing, StepsOfKind, WaitsOfStep, StepFits
<1> QED BY <1>3, <1>4, <1>5, <1>6 DEF Queueing

LEMMA SettleKeepsQueueing ==
  ASSUME Typed, Queueing, NEW c \in Call, Runs(c), NEW step \in {"fulfilled", "rejected"}, Settle(c, step)
  PROVE  Queueing'
<1>1. /\ op'[c].step = step /\ op'[c].kind = op[c].kind /\ op'[c].wait = "none"
      /\ \A d \in Call : d # c => op'[d] = op[d]
  BY SettleChanges DEF Typed, Changes, Step
<1>2. queue \in Seq(Call) /\ queue # <<>> /\ queue' = Tail(queue) /\ Head(queue) = c
  BY DEF Typed, Runs, Settle
<1>3. /\ queue[1] = c /\ 1 \in 1..Len(queue) /\ Len(queue) \in Nat /\ Len(queue') = Len(queue) - 1
      /\ \A i \in 1..Len(queue') : i + 1 \in 1..Len(queue) /\ queue'[i] = queue[i + 1]
  BY <1>2, HeadAndTail
<1>4. ASSUME NEW i \in 1..Len(queue) PROVE queue[i] \in Call /\ (i > 1 => c < queue[i])
  BY <1>2, <1>3 DEF Queueing, QueueOrdered
<1>5. QueueWaits'
  <2>1. ASSUME NEW i \in 1..Len(queue') PROVE op'[queue'[i]].step \notin Ended
    <3>1. i + 1 \in 1..Len(queue) /\ queue'[i] = queue[i + 1] /\ i + 1 > 1
      BY <1>3
    <3>2. queue[i + 1] \in Call /\ queue[i + 1] # c
      BY <1>4, <3>1 DEF Call
    <3> QED BY <1>1, <3>1, <3>2 DEF Queueing, QueueWaits
  <2> QED BY <2>1 DEF QueueWaits, Ended
<1>6. QueueOrdered'
  <2>1. ASSUME NEW i \in 1..Len(queue'), NEW j \in 1..Len(queue'), i < j PROVE queue'[i] < queue'[j]
    <3>1. i + 1 < j + 1
      BY <2>1
    <3> QED BY <1>3, <3>1 DEF Queueing, QueueOrdered
  <2> QED BY <2>1 DEF QueueOrdered
<1>7. WaitingQueued'
  <2>1. ASSUME NEW d \in Call, op'[d].step \notin Ended
        PROVE  \E i \in 1..Len(queue') : queue'[i] = d
    <3>1. d # c /\ op'[d] = op[d]
      BY <1>1, <2>1 DEF Ended
    <3>2. PICK i \in 1..Len(queue) : queue[i] = d
      BY <2>1, <3>1 DEF Queueing, WaitingQueued
    <3>3. i # 1 /\ i - 1 \in 1..Len(queue')
      BY <1>3, <3>1, <3>2
    <3>4. queue'[i - 1] = d
      BY <1>3, <3>2, <3>3
    <3> QED BY <3>3, <3>4
  <2> QED BY <2>1 DEF WaitingQueued, Ended
<1>8. CallsInOrder'
  <2>1. op[c].step \notin Ended
    BY <1>3 DEF Queueing, QueueWaits
  <2> QED BY <1>1, <2>1 DEF Queueing, CallsInOrder, Ended
<1>9. ActiveRuns'
  <2>1. ASSUME NEW d \in Call, op'[d].step \notin Ended \cup {"queued"} PROVE FALSE
    <3>1. d # c /\ op'[d] = op[d]
      BY <1>1, <2>1 DEF Ended
    <3>2. Runs(d)
      BY <2>1, <3>1 DEF Queueing, ActiveRuns
    <3> QED BY <1>2, <3>1, <3>2 DEF Runs
  <2> QED BY <2>1 DEF ActiveRuns, Ended
<1>10. StepsOfKind' /\ WaitsOfStep'
  BY <1>1 DEF Queueing, StepsOfKind, WaitsOfStep, StepFits, WaitFits, Ended
<1> QED BY <1>5, <1>6, <1>7, <1>8, <1>9, <1>10 DEF Queueing

LEMMA InvokeKeepsQueueing ==
  ASSUME Typed, Queueing, NEW c \in Call, NEW k \in Kind, Invoke(c, k)
  PROVE  Queueing'
<1>1. /\ op'[c].step \in {"rejected", "queued"} /\ op'[c].kind = k
      /\ op'[c].step = "rejected" => op'[c].wait = "none" /\ queue' = queue
      /\ op'[c].step = "queued" => op'[c].wait = (IF k = "play" THEN "asked" ELSE "none")
                                   /\ queue' = Append(queue, c)
      /\ \A d \in Call : d # c => op'[d] = op[d]
  <2> DEFINE refused == (Closed /\ k # "pause") \/ (k = "play" /\ pendingSeeks # 0)
  <2>1. /\ op'[c].kind = k /\ op'[c].step = IF refused THEN "rejected" ELSE "queued"
        /\ op'[c].wait = IF ~refused /\ k = "play" THEN "asked" ELSE "none"
        /\ \A d \in Call : d # c => op'[d] = op[d]
    BY InvokeChanges DEF Typed
  <2>2. queue' = IF refused THEN queue ELSE Append(queue, c)
    BY DEF Invoke
  <2> HIDE DEF refused
  <2>3. CASE refused BY <2>1, <2>2, <2>3
  <2>4. CASE ~refused BY <2>1, <2>2, <2>4
  <2> QED BY <2>3, <2>4
<1>2. op[c].step = "idle" /\ \A d \in 1..(c - 1) : op[d].step # "idle"
  BY DEF Invoke
<1>3. ASSUME NEW i \in 1..Len(queue) PROVE queue[i] \in Call /\ queue[i] < c
  <2>1. queue[i] \in Call /\ queue[i] # c
    BY <1>2 DEF Typed, Queueing, QueueWaits, Ended
  <2>2. ~(c < queue[i])
    BY <1>2, <2>1 DEF Queueing, QueueWaits, CallsInOrder, Ended
  <2> QED BY <2>1, <2>2 DEF Call
<1>4. CallsInOrder'
  <2>1. ASSUME NEW d \in Call, NEW e \in Call, d < e, op'[d].step = "idle" PROVE op'[e].step = "idle"
    <3>1. d # c /\ op[d].step = "idle"
      BY <1>1, <2>1
    <3>2. e # c
      BY <1>2, <2>1, <3>1 DEF Call
    <3> QED BY <1>1, <2>1, <3>1, <3>2 DEF Queueing, CallsInOrder
  <2> QED BY <2>1 DEF CallsInOrder
<1>5. ActiveRuns'
  <2>1. ASSUME NEW d \in Call, op'[d].step \notin Ended \cup {"queued"} PROVE Runs(d)'
    <3>1. d # c /\ op'[d] = op[d]
      BY <1>1, <2>1 DEF Ended
    <3>2. queue # <<>> /\ Head(queue) = d
      BY <2>1, <3>1 DEF Queueing, ActiveRuns, Runs
    <3>3. CASE queue' = queue
      BY <3>2, <3>3 DEF Runs
    <3>4. CASE queue' = Append(queue, c)
      <4>1. queue' # <<>> /\ Head(queue') = Head(queue)
        BY <3>2, <3>4, AppendProperties, HeadTailAppend DEF Typed
      <4> QED BY <3>2, <4>1 DEF Runs
    <3> QED BY <1>1, <3>3, <3>4
  <2> QED BY <2>1 DEF ActiveRuns, Ended
<1>6. StepsOfKind' /\ WaitsOfStep'
  BY <1>1 DEF Queueing, StepsOfKind, WaitsOfStep, StepFits, WaitFits, Ended
<1>7. CASE op'[c].step = "rejected"
  <2>1. QueueWaits' /\ QueueOrdered'
    BY <1>1, <1>3, <1>7 DEF Queueing, QueueWaits, QueueOrdered, Call
  <2>2. WaitingQueued'
    BY <1>1, <1>7 DEF Queueing, WaitingQueued, Ended
  <2> QED BY <1>4, <1>5, <1>6, <2>1, <2>2 DEF Queueing
<1>8. CASE op'[c].step = "queued"
  <2>1. /\ Len(queue) \in Nat /\ Len(queue') = Len(queue) + 1 /\ queue'[Len(queue) + 1] = c
        /\ \A i \in 1..Len(queue) : queue'[i] = queue[i]
    BY <1>1, <1>8 DEF Typed
  <2>2. QueueWaits'
    BY <1>1, <1>3, <1>8, <2>1 DEF Queueing, QueueWaits, Ended, Call
  <2>3. QueueOrdered'
    <3>1. ASSUME NEW i \in 1..Len(queue'), NEW j \in 1..Len(queue'), i < j PROVE queue'[i] < queue'[j]
      <4>1. CASE j = Len(queue) + 1
        BY <1>3, <2>1, <3>1, <4>1
      <4>2. CASE j # Len(queue) + 1
        BY <2>1, <3>1, <4>2 DEF Queueing, QueueOrdered
      <4> QED BY <4>1, <4>2
    <3> QED BY <3>1 DEF QueueOrdered
  <2>4. WaitingQueued'
    <3>1. ASSUME NEW d \in Call, op'[d].step \notin Ended
          PROVE  \E i \in 1..Len(queue') : queue'[i] = d
      <4>1. CASE d = c
        BY <2>1, <4>1
      <4>2. CASE d # c
        <5>1. PICK i \in 1..Len(queue) : queue[i] = d
          BY <1>1, <3>1, <4>2 DEF Queueing, WaitingQueued
        <5> QED BY <2>1, <5>1
      <4> QED BY <4>1, <4>2
    <3> QED BY <3>1 DEF WaitingQueued, Ended
  <2> QED BY <1>4, <1>5, <1>6, <2>2, <2>3, <2>4 DEF Queueing
<1> QED BY <1>1, <1>7, <1>8

LEMMA QueueingNext ==
  ASSUME Typed, Stack, Queueing, [Next]_vars
  PROVE  Queueing'
<1> USE DEF calls, context, opening, stack
<1>1. ASSUME UNCHANGED <<op, queue>> PROVE Queueing'
  BY <1>1, SameStepsKeepQueueing
<1>2. CASE \/ Acquire \/ Proceed \/ ControlArrives \/ ControlFails \/ Refuse \/ HandOver \/ HandOverFails
           \/ CallerAborts \/ Cleaning \/ PumpFails \/ OnError \/ UNCHANGED vars
  BY <1>1, <1>2 DEF Acquire, Proceed, ControlArrives, ControlFails, Refuse, HandOver, HandOverFails, CallerAborts,
                    Cleaning, CloseNext, CleanedUp, PumpFails, OnError, vars
<1>3. CASE Close
  BY <1>3, ShutKeepsQueueing DEF Close
<1>4. CASE NotifyPumpFailure
  BY <1>1, <1>4, ShutKeepsQueueing DEF NotifyPumpFailure
<1>5. CASE ContextSteps
  <2>1. PICK c \in Call : Changes(c, op[c].step, Obeyed(op[c].wait))
    BY <1>5, ContextStepsChanges DEF Typed
  <2> QED BY <1>5, <2>1, WaitKeepsQueueing DEF ContextSteps, Obeyed
<1>6. ASSUME NEW c \in Call, NEW k \in Kind, Invoke(c, k) PROVE Queueing'
  BY <1>6, InvokeKeepsQueueing
<1>7. ASSUME NEW c \in Call, Prepared(c) PROVE Queueing'
  BY <1>7, PreparedChanges, WaitKeepsQueueing DEF Prepared, Typed
<1>8. ASSUME NEW c \in Call, WaitFails(c) PROVE Queueing'
  BY <1>8, WaitFailsChanges, WaitKeepsQueueing DEF WaitFails, Failed, Typed
<1>9. ASSUME NEW c \in Call, NEW step, NEW w, Runs(c), queue' = queue, Changes(c, step, w),
             step \notin Ended \cup {"queued", "closing"}, w \in {"pending", "value", "fail"},
             StepFits([kind |-> op[c].kind, step |-> step])
      PROVE  Queueing'
  <2>1. op'[c].step = step /\ op'[c].wait = w /\ op'[c].kind = op[c].kind
    BY <1>9 DEF Changes
  <2>2. StepFits(op'[c]) /\ WaitFits(op'[c])
    BY <1>9, <2>1 DEF StepFits, WaitFits, Ended
  <2>3. \A d \in Call : d # c => op'[d] = op[d]
    BY <1>9 DEF Changes
  <2> QED BY <1>9, <2>1, <2>2, <2>3, MoveKeepsQueueing
<1>10. Awaited \in {"pending", "value", "fail"}
  BY DEF Awaited
<1>11. ASSUME NEW c \in Call, Runs(c), NEW step \in {"fulfilled", "rejected"}, Settle(c, step)
       PROVE  Queueing'
  BY <1>11, SettleKeepsQueueing
<1>12. ASSUME NEW c \in Call, Runs(c), NEW step \in Step, At(c, step), queue' = queue,
              step \notin Ended \cup {"queued", "closing"},
              StepFits([kind |-> op[c].kind, step |-> step])
       PROVE  Queueing'
  BY <1>9, <1>10, <1>12, AtChanges DEF Typed
<1>13. ASSUME NEW c \in Call, StartPlay(c) PROVE Queueing'
  <2>1. Changes(c, "resume", Resuming(op[c].wait)) /\ Resuming(op[c].wait) \in {"pending", "value", "fail"}
    BY <1>13, StartPlayChanges DEF Typed, Resuming
  <2>2. StepFits([kind |-> op[c].kind, step |-> "resume"])
    BY <1>13 DEF StartPlay, StepFits
  <2> QED BY <1>9, <1>13, <2>1, <2>2 DEF StartPlay, Ended
<1>14. ASSUME NEW c \in Call, StartPause(c) PROVE Queueing'
  <2>1. StepFits([kind |-> op[c].kind, step |-> "suspend"])
    BY <1>14 DEF StartPause, StepFits
  <2> QED BY <1>11, <1>12, <1>14, <2>1 DEF StartPause, Ended, Step
<1>15. ASSUME NEW c \in Call, StartSeek(c) PROVE Queueing'
  <2>1. CASE Settle(c, "rejected")
    BY <1>11, <1>15, <2>1 DEF StartSeek
  <2>2. CASE ~Settle(c, "rejected")
    <3>1. Changes(c, IF ctx = "running" THEN "suspend" ELSE "ready", Awaited) /\ queue' = queue
      BY <1>15, <2>2, StartSeekChanges DEF StartSeek, Typed
    <3>2. StepFits([kind |-> op[c].kind, step |-> IF ctx = "running" THEN "suspend" ELSE "ready"])
      BY <1>15 DEF StartSeek, StepFits
    <3> QED BY <1>9, <1>10, <1>15, <3>1, <3>2 DEF StartSeek, Ended
  <2> QED BY <2>1, <2>2
<1>16. ASSUME NEW c \in Call, ContinuePlay(c) PROVE Queueing'
  <2>1. /\ StepFits([kind |-> op[c].kind, step |-> "again"])
        /\ StepFits([kind |-> op[c].kind, step |-> "ready"])
    BY <1>16 DEF ContinuePlay, StepFits
  <2> QED BY <1>11, <1>12, <1>16, <2>1 DEF ContinuePlay, Ended, Step
<1>17. ASSUME NEW c \in Call, ContinuePause(c) PROVE Queueing'
  BY <1>11, <1>17 DEF ContinuePause
<1>18. ASSUME NEW c \in Call, CallFails(c) PROVE Queueing'
  BY <1>11, <1>18 DEF CallFails
<1>19. ASSUME NEW c \in Call, SeekAdvances(c) PROVE Queueing'
  <2>1. \A step \in {"ready", "pump", "prefill", "restore"} : StepFits([kind |-> op[c].kind, step |-> step])
    BY <1>19 DEF SeekAdvances, StepFits
  <2>2. CASE op[c].step \in DOMAIN Following /\ At(c, Following[op[c].step]) /\ queue' = queue
    <3>1. Following[op[c].step] \in {"ready", "pump", "prefill"}
      BY <2>2 DEF Following
    <3> QED BY <1>12, <1>19, <2>1, <2>2, <3>1 DEF SeekAdvances, Ended, Step
  <2>3. CASE At(c, "restore") /\ queue' = queue
    BY <1>12, <1>19, <2>1, <2>3 DEF SeekAdvances, Ended, Step
  <2>4. CASE Settle(c, "fulfilled")
    BY <1>11, <1>19, <2>4 DEF SeekAdvances
  <2> QED BY <1>19, <2>2, <2>3, <2>4 DEF SeekAdvances
<1>20. ASSUME NEW c \in Call, SeekFails(c) PROVE Queueing'
  <2>1. CASE Closed
    BY <1>11, <1>20, <2>1 DEF SeekFails
  <2>2. CASE ~Closed
    <3> DEFINE n == [op EXCEPT ![c].step = "closing", ![c].wait = "none"]
    <3>1. /\ n \in Ops /\ n[c].kind = "seek" /\ n[c].step = "closing" /\ n[c].wait = "none"
          /\ \A d \in Call : d # c => n[d] = op[d]
      BY <1>20, ClosingChanges DEF Typed, SeekFails, SeekBroken
    <3>2. Shut(n) /\ queue' = queue /\ Runs(c)
      BY <1>20, <2>2 DEF SeekFails
    <3> HIDE DEF n
    <3>3. \A d \in Call : /\ op'[d].kind = n[d].kind /\ op'[d].step = n[d].step
                          /\ op'[d].wait = IF n[d].wait = "pending" THEN "fail" ELSE n[d].wait
      BY <3>1, <3>2, ShutChanges
    <3>4. op'[c].step = "closing" /\ StepFits(op'[c]) /\ WaitFits(op'[c])
      BY <3>1, <3>3 DEF StepFits, WaitFits
    <3>5. ASSUME NEW d \in Call, d # c
          PROVE  op'[d].step = op[d].step /\ op'[d].kind = op[d].kind /\ (WaitFits(op[d]) => WaitFits(op'[d]))
      BY <3>1, <3>3, <3>5 DEF WaitFits, Ended
    <3> QED BY <3>2, <3>4, <3>5, MoveKeepsQueueing DEF Ended
  <2> QED BY <2>1, <2>2
<1>21. ASSUME NEW c \in Call, SeekClosed(c) PROVE Queueing'
  <2>1. Runs(c)
    BY <1>21 DEF SeekClosed, Queueing, ActiveRuns, Ended
  <2> QED BY <1>11, <1>21, <2>1 DEF SeekClosed
<1> QED
  BY <1>2, <1>3, <1>4, <1>5, <1>6, <1>7, <1>8, <1>13, <1>14, <1>15, <1>16, <1>17, <1>18, <1>19, <1>20, <1>21
  DEF Next, Advance, Finished

-----------------------------------------------------------------------------
(* The number of seeks *)

LEMMA CountedInit == ASSUME Init PROVE Counted
<1>1. Waiting = {} /\ Seeks = {} /\ Len(queue) = 0 /\ pendingSeeks = 0
  BY DEF Init, Idle, Waiting, Seeks, Ended
<1> QED BY <1>1, FS_EmptySet DEF Counted

LEMMA SameStepsKeepCounted ==
  ASSUME Counted, UNCHANGED <<queue, pendingSeeks>>,
         \A d \in Call : /\ op[d].step \in Ended <=> op'[d].step \in Ended
                         /\ op[d].step \notin Ended => op'[d].kind = op[d].kind
  PROVE  Counted'
<1>1. Waiting' = Waiting /\ Seeks' = Seeks
  BY DEF Waiting, Seeks, Ended
<1> QED BY <1>1 DEF Counted

LEMMA InvokeKeepsCounted ==
  ASSUME Typed, Queueing, Counted, NEW c \in Call, NEW k \in Kind, Invoke(c, k)
  PROVE  Counted'
<1> DEFINE refused == (Closed /\ k # "pause") \/ (k = "play" /\ pendingSeeks # 0)
<1>1. /\ op'[c].kind = k /\ op'[c].step = IF refused THEN "rejected" ELSE "queued"
      /\ \A d \in Call : d # c => op'[d] = op[d]
  BY InvokeChanges DEF Typed
<1>2. /\ queue' = IF refused THEN queue ELSE Append(queue, c)
      /\ pendingSeeks' = IF ~refused /\ k = "seek" THEN pendingSeeks + 1 ELSE pendingSeeks
      /\ op[c].step = "idle"
  BY DEF Invoke
<1> HIDE DEF refused
<1>3. CASE refused
  BY <1>1, <1>2, <1>3, SameStepsKeepCounted DEF Ended
<1>4. CASE ~refused
  <2>1. Waiting' = Waiting \cup {c} /\ c \notin Waiting
    BY <1>1, <1>2, <1>4 DEF Waiting, Ended
  <2>2. Len(queue') = Len(queue) + 1 /\ pendingSeeks' = IF k = "seek" THEN pendingSeeks + 1 ELSE pendingSeeks
    BY <1>2, <1>4 DEF Typed
  <2>3. IsFiniteSet(Waiting') /\ Len(queue') = Cardinality(Waiting')
    BY <2>1, <2>2, FS_AddElement DEF Counted
  <2>4. CASE k = "seek"
    <3>1. Seeks' = Seeks \cup {c} /\ c \notin Seeks
      BY <1>1, <1>2, <1>4, <2>4 DEF Seeks, Ended
    <3> QED BY <2>2, <2>3, <2>4, <3>1, FS_AddElement DEF Counted
  <2>5. CASE k # "seek"
    <3>1. Seeks' = Seeks
      BY <1>1, <1>2, <1>4, <2>5 DEF Seeks, Ended
    <3> QED BY <2>2, <2>3, <2>5, <3>1 DEF Counted
  <2> QED BY <2>4, <2>5
<1> QED BY <1>3, <1>4

LEMMA SettleKeepsCounted ==
  ASSUME Typed, Queueing, Counted, NEW c \in Call, Runs(c), NEW step \in {"fulfilled", "rejected"},
         Settle(c, step)
  PROVE  Counted'
<1>1. /\ op'[c].step = step /\ op'[c].kind = op[c].kind
      /\ \A d \in Call : d # c => op'[d] = op[d]
  BY SettleChanges DEF Typed, Changes, Step
<1>2. op[c].step \notin Ended /\ Len(queue') = Len(queue) - 1
  BY HeadAndTail DEF Typed, Runs, Settle, Queueing, QueueWaits
<1>3. pendingSeeks' = IF op[c].kind = "seek" THEN pendingSeeks - 1 ELSE pendingSeeks
  BY DEF Settle
<1>4. Waiting' = Waiting \ {c} /\ c \in Waiting
  BY <1>1, <1>2 DEF Waiting, Ended
<1>5. IsFiniteSet(Waiting') /\ Len(queue') = Cardinality(Waiting')
  BY <1>2, <1>4, FS_RemoveElement DEF Counted
<1>6. CASE op[c].kind = "seek"
  <2>1. Seeks' = Seeks \ {c} /\ c \in Seeks
    BY <1>1, <1>2, <1>6 DEF Seeks, Ended
  <2> QED BY <1>3, <1>5, <1>6, <2>1, FS_RemoveElement DEF Counted
<1>7. CASE op[c].kind # "seek"
  <2>1. Seeks' = Seeks
    BY <1>1, <1>2, <1>7 DEF Seeks, Ended
  <2> QED BY <1>3, <1>5, <1>7, <2>1 DEF Counted
<1> QED BY <1>6, <1>7

LEMMA CountedNext ==
  ASSUME Typed, Queueing, Counted, [Next]_vars
  PROVE  Counted'
<1> USE DEF calls, context, opening, stack
<1>1. ASSUME UNCHANGED <<op, queue, pendingSeeks>> PROVE Counted'
  BY <1>1, SameStepsKeepCounted
<1>2. CASE \/ Acquire \/ Proceed \/ ControlArrives \/ ControlFails \/ Refuse \/ HandOver \/ HandOverFails
           \/ CallerAborts \/ Cleaning \/ PumpFails \/ OnError \/ UNCHANGED vars
  BY <1>1, <1>2 DEF Acquire, Proceed, ControlArrives, ControlFails, Refuse, HandOver, HandOverFails, CallerAborts,
                    Cleaning, CloseNext, CleanedUp, PumpFails, OnError, vars
<1>3. ASSUME Shut(op), UNCHANGED <<queue, pendingSeeks>> PROVE Counted'
  <2>1. \A d \in Call : op'[d].step = op[d].step /\ op'[d].kind = op[d].kind
    BY <1>3, ShutChanges DEF Typed
  <2> QED BY <1>3, <2>1, SameStepsKeepCounted
<1>4. CASE Close
  BY <1>3, <1>4 DEF Close
<1>5. CASE NotifyPumpFailure
  BY <1>1, <1>3, <1>5 DEF NotifyPumpFailure
<1>6. ASSUME NEW c \in Call, NEW step, NEW w, Changes(c, step, w), UNCHANGED <<queue, pendingSeeks>>,
             step = op[c].step \/ (step \notin Ended /\ op[c].step \notin Ended)
      PROVE  Counted'
  BY <1>6, SameStepsKeepCounted DEF Changes
<1>7. CASE ContextSteps
  <2>1. PICK c \in Call : Changes(c, op[c].step, Obeyed(op[c].wait))
    BY <1>7, ContextStepsChanges DEF Typed
  <2> QED BY <1>6, <1>7, <2>1 DEF ContextSteps
<1>8. ASSUME NEW c \in Call, NEW k \in Kind, Invoke(c, k) PROVE Counted'
  BY <1>8, InvokeKeepsCounted
<1>9. ASSUME NEW c \in Call, Prepared(c) PROVE Counted'
  BY <1>6, <1>9, PreparedChanges DEF Prepared, Typed
<1>10. ASSUME NEW c \in Call, WaitFails(c) PROVE Counted'
  BY <1>6, <1>10, WaitFailsChanges DEF WaitFails, Typed
<1>11. ASSUME NEW c \in Call, Runs(c), NEW step \in {"fulfilled", "rejected"}, Settle(c, step)
       PROVE  Counted'
  BY <1>11, SettleKeepsCounted
<1>12. ASSUME NEW c \in Call, Runs(c) PROVE op[c].step \notin Ended
  BY <1>12, HeadAndTail DEF Runs, Queueing, QueueWaits, Typed
<1>13. ASSUME NEW c \in Call, Runs(c), NEW step \in Step, At(c, step), step \notin Ended,
              UNCHANGED <<queue, pendingSeeks>>
       PROVE  Counted'
  BY <1>6, <1>12, <1>13, AtChanges DEF Typed
<1>14. ASSUME NEW c \in Call, StartPlay(c) PROVE Counted'
  BY <1>6, <1>12, <1>14, StartPlayChanges DEF StartPlay, Typed, Ended
<1>15. ASSUME NEW c \in Call, StartPause(c) PROVE Counted'
  BY <1>11, <1>13, <1>15 DEF StartPause, Ended, Step
<1>16. ASSUME NEW c \in Call, StartSeek(c) PROVE Counted'
  <2>1. CASE Settle(c, "rejected")
    BY <1>11, <1>16, <2>1 DEF StartSeek
  <2>2. CASE ~Settle(c, "rejected")
    BY <1>6, <1>12, <1>16, <2>2, StartSeekChanges DEF StartSeek, Typed, Ended
  <2> QED BY <2>1, <2>2
<1>17. ASSUME NEW c \in Call, ContinuePlay(c) PROVE Counted'
  BY <1>11, <1>13, <1>17 DEF ContinuePlay, Ended, Step
<1>18. ASSUME NEW c \in Call, ContinuePause(c) PROVE Counted'
  BY <1>11, <1>18 DEF ContinuePause
<1>19. ASSUME NEW c \in Call, CallFails(c) PROVE Counted'
  BY <1>11, <1>19 DEF CallFails
<1>20. ASSUME NEW c \in Call, SeekAdvances(c) PROVE Counted'
  BY <1>11, <1>13, <1>20 DEF SeekAdvances, Following, Ended, Step
<1>21. ASSUME NEW c \in Call, SeekFails(c) PROVE Counted'
  <2>1. CASE Closed
    BY <1>11, <1>21, <2>1 DEF SeekFails
  <2>2. CASE ~Closed
    <3> DEFINE n == [op EXCEPT ![c].step = "closing", ![c].wait = "none"]
    <3>1. /\ n \in Ops /\ n[c].kind = op[c].kind /\ n[c].step = "closing"
          /\ \A d \in Call : d # c => n[d] = op[d]
      BY ClosingChanges DEF Typed
    <3>2. Shut(n) /\ UNCHANGED <<queue, pendingSeeks>> /\ op[c].step \notin Ended
      BY <1>12, <1>21, <2>2 DEF SeekFails
    <3> HIDE DEF n
    <3>3. \A d \in Call : op'[d].kind = n[d].kind /\ op'[d].step = n[d].step
      BY <3>1, <3>2, ShutChanges
    <3> QED BY <3>1, <3>2, <3>3, SameStepsKeepCounted DEF Ended
  <2> QED BY <2>1, <2>2
<1>22. ASSUME NEW c \in Call, SeekClosed(c) PROVE Counted'
  <2>1. Runs(c)
    BY <1>22 DEF SeekClosed, Queueing, ActiveRuns, Ended
  <2> QED BY <1>11, <1>22, <2>1 DEF SeekClosed
<1> QED
  BY <1>2, <1>4, <1>5, <1>7, <1>8, <1>9, <1>10, <1>14, <1>15, <1>16, <1>17, <1>18, <1>19, <1>20, <1>21, <1>22
  DEF Next, Advance, Finished

-----------------------------------------------------------------------------
(* The context and the calls *)

LEMMA AgreementInit == ASSUME Init PROVE Agreement
<1>1. state = "opening" /\ \A c \in Call : op[c].step = "idle"
  BY DEF Init, Idle
<1>2. state \notin Serving /\ PlaysFirst
  BY <1>1 DEF Serving, PlaysFirst, Ended
<1> QED
  BY <1>2 DEF Agreement, MessagesAwaited, MessagesOnce, ContextRuns, SeekSuspends, PauseSuspends,
              SeekRemembers, BetweenCalls, ContextOpen

(* The call that runs is the first of those that wait, and only it is active. *)
LEMMA FirstWaits ==
  ASSUME Typed, Queueing, NEW c \in Call, Runs(c), NEW d \in Call, op[d].step \notin Ended
  PROVE  c <= d
<1>1. queue # <<>> /\ queue[1] = c /\ 1 \in 1..Len(queue) /\ Len(queue) \in Nat
  BY HeadAndTail DEF Typed, Runs
<1>2. PICK i \in 1..Len(queue) : queue[i] = d
  BY DEF Queueing, WaitingQueued
<1>3. CASE i = 1
  BY <1>1, <1>2, <1>3 DEF Call
<1>4. CASE i # 1
  <2>1. 1 < i
    BY <1>1, <1>2, <1>4
  <2> QED BY <1>1, <1>2, <2>1 DEF Queueing, QueueOrdered, Call
<1> QED BY <1>3, <1>4

LEMMA OnlyOneActive ==
  ASSUME Queueing, NEW c \in Call, Runs(c), NEW d \in Call, d # c
  PROVE  op[d].step \in Ended \cup {"queued"}
BY DEF Queueing, ActiveRuns, Runs, Ended

(* No play waits while a seek runs. *)
LEMMA SeekRunsAlone ==
  ASSUME Typed, Queueing, PlaysFirst, NEW c \in Call, Runs(c), op[c].kind = "seek",
         op[c].step \notin Ended
  PROVE  NoPlay
<1> SUFFICES ASSUME NEW d \in Call, op[d].kind = "play", op[d].step \notin Ended PROVE FALSE
  BY DEF NoPlay
<1>1. d < c
  BY DEF PlaysFirst
<1>2. c <= d
  BY FirstWaits
<1> QED BY <1>1, <1>2 DEF Call

(* Who a message can be from. *)
LEMMA MessageOf ==
  ASSUME Typed, Agreement, state \in Serving, NEW i \in 1..Len(ctxq)
  PROVE  /\ ctxq[i][2] \in Call /\ ctxq[i][1] \in {"suspended", "running"}
         /\ Fits(ctxq[i], op[ctxq[i][2]])
         /\ op[ctxq[i][2]].step \in {"queued", "resume", "again", "suspend", "restore"}
         /\ op[ctxq[i][2]].wait \in {"asked", "pending", "fail"}
         /\ op[ctxq[i][2]].wait = "fail" => op[ctxq[i][2]].kind = "seek"
<1>1. ctxq[i] \in {"suspended", "running"} \X Call
  BY DEF Typed
<1>2. Fits(ctxq[i], op[ctxq[i][2]])
  BY DEF Agreement, MessagesAwaited
<1> QED BY <1>1, <1>2 DEF Fits

NoMessage(c) == \A i \in 1..Len(ctxq) : ctxq[i][2] # c

LEMMA MessagesStay ==
  ASSUME Typed, Agreement, state \in Serving, NEW c \in Call, NoMessage(c), ctxq' = ctxq,
         \A d \in Call : d # c => op'[d] = op[d]
  PROVE  MessagesAwaited' /\ MessagesOnce'
<1>1. ASSUME NEW i \in 1..Len(ctxq) PROVE Fits(ctxq[i], op'[ctxq[i][2]])
  BY MessageOf DEF NoMessage
<1> QED BY <1>1 DEF Agreement, MessagesAwaited, MessagesOnce

LEMMA MessageAdded ==
  ASSUME Typed, Agreement, state \in Serving, NEW c \in Call, NoMessage(c),
         NEW to \in {"suspended", "running"}, ctxq' = Append(ctxq, <<to, c>>), Fits(<<to, c>>, op'[c]),
         \A d \in Call : d # c => op'[d] = op[d]
  PROVE  MessagesAwaited' /\ MessagesOnce'
<1>1. /\ Len(ctxq) \in Nat /\ Len(ctxq') = Len(ctxq) + 1 /\ ctxq'[Len(ctxq) + 1] = <<to, c>>
      /\ \A i \in 1..Len(ctxq) : ctxq'[i] = ctxq[i]
  BY DEF Typed
<1>2. ASSUME NEW i \in 1..Len(ctxq) PROVE Fits(ctxq[i], op'[ctxq[i][2]]) /\ ctxq[i][2] # c
  BY MessageOf DEF NoMessage
<1>3. ASSUME NEW i \in 1..Len(ctxq') PROVE Fits(ctxq'[i], op'[ctxq'[i][2]])
  <2>1. CASE i = Len(ctxq) + 1
    <3>1. ctxq'[i] = <<to, c>> /\ ctxq'[i][2] = c
      BY <1>1, <2>1
    <3> QED BY <3>1
  <2>2. CASE i # Len(ctxq) + 1
    <3>1. i \in 1..Len(ctxq) /\ ctxq'[i] = ctxq[i]
      BY <1>1, <2>2
    <3> QED BY <1>2, <3>1
  <2> QED BY <2>1, <2>2
<1>4. ASSUME NEW i \in 1..Len(ctxq'), NEW j \in 1..Len(ctxq'), i < j PROVE ctxq'[i][2] # ctxq'[j][2]
  <2>1. CASE j = Len(ctxq) + 1
    <3>1. i \in 1..Len(ctxq) /\ ctxq'[i] = ctxq[i] /\ ctxq'[j][2] = c
      BY <1>1, <1>4, <2>1
    <3>2. ctxq[i][2] # c
      BY <1>2, <3>1
    <3> QED BY <3>1, <3>2
  <2>2. CASE j # Len(ctxq) + 1
    <3>1. i \in 1..Len(ctxq) /\ j \in 1..Len(ctxq) /\ ctxq'[i] = ctxq[i] /\ ctxq'[j] = ctxq[j]
      BY <1>1, <1>4, <2>2
    <3> QED BY <1>4, <3>1 DEF Agreement, MessagesOnce
  <2> QED BY <2>1, <2>2
<1> QED BY <1>3, <1>4 DEF MessagesAwaited, MessagesOnce

(* A request that failed takes its message along. *)
LEMMA WithdrawExact ==
  ASSUME Typed, Agreement, state \in Serving, NEW c \in Call, NEW q, q = Withdraw(c)
  PROVE  /\ \A i \in 1..Len(q) : q[i][2] # c /\ \E k \in 1..Len(ctxq) : q[i] = ctxq[k]
         /\ \A i, j \in 1..Len(q) : i < j => q[i][2] # q[j][2]
<1>1. CASE Asked(c) = {}
  BY <1>1 DEF Withdraw, Asked, Agreement, MessagesOnce
<1>2. CASE Asked(c) # {}
  <2>1. PICK k \in 1..Len(ctxq) : q = RemoveAt(ctxq, k) /\ ctxq[k][2] = c
    BY <1>2 DEF Withdraw, Asked
  <2>2. /\ Len(ctxq) \in Nat /\ Len(q) = Len(ctxq) - 1 /\ k \in Nat
        /\ \A i \in 1..Len(q) : /\ i < k => i \in 1..Len(ctxq) /\ q[i] = ctxq[i]
                                /\ i >= k => i + 1 \in 1..Len(ctxq) /\ q[i] = ctxq[i + 1]
    <3>1. ctxq \in Seq({"suspended", "running"} \X Call)
      BY DEF Typed
    <3>2. /\ Len(ctxq) \in Nat /\ Len(RemoveAt(ctxq, k)) = Len(ctxq) - 1
          /\ \A i \in 1..Len(RemoveAt(ctxq, k)) :
               /\ i < k => i \in 1..Len(ctxq) /\ RemoveAt(ctxq, k)[i] = ctxq[i]
               /\ i >= k => i + 1 \in 1..Len(ctxq) /\ RemoveAt(ctxq, k)[i] = ctxq[i + 1]
      BY <3>1, RemovedAt
    <3>3. k \in Nat
      OBVIOUS
    <3>4. q = RemoveAt(ctxq, k)
      BY <2>1
    <3> QED BY <3>2, <3>3, <3>4
  <2>3. ASSUME NEW i \in 1..Len(ctxq), NEW j \in 1..Len(ctxq), i < j PROVE ctxq[i][2] # ctxq[j][2]
    BY <2>3 DEF Agreement, MessagesOnce
  <2>4. ASSUME NEW i \in 1..Len(ctxq), i # k PROVE ctxq[i][2] # c
    BY <2>1, <2>2, <2>3, <2>4
  <2>5. ASSUME NEW i \in 1..Len(q)
        PROVE  q[i][2] # c /\ \E m \in 1..Len(ctxq) : q[i] = ctxq[m]
    <3>1. CASE i < k BY <2>2, <2>4, <3>1
    <3>2. CASE i >= k
      <4>1. i + 1 # k
        BY <2>2, <3>2
      <4> QED BY <2>2, <2>4, <3>2, <4>1
    <3> QED BY <2>2, <3>1, <3>2
  <2>6. ASSUME NEW i \in 1..Len(q), NEW j \in 1..Len(q), i < j PROVE q[i][2] # q[j][2]
    <3>1. CASE j < k
      <4>1. i < k
        BY <2>2, <2>6, <3>1
      <4> QED BY <2>2, <2>3, <2>6, <3>1, <4>1
    <3>2. CASE i < k /\ j >= k
      <4>1. i < j + 1
        BY <2>2, <2>6
      <4> QED BY <2>2, <2>3, <3>2, <4>1
    <3>3. CASE i >= k
      <4>1. i + 1 < j + 1 /\ j >= k
        BY <2>2, <2>6, <3>3
      <4>2. /\ i + 1 \in 1..Len(ctxq) /\ q[i] = ctxq[i + 1]
            /\ j + 1 \in 1..Len(ctxq) /\ q[j] = ctxq[j + 1]
        BY <2>2, <3>3, <4>1
      <4> QED BY <2>3, <4>1, <4>2
    <3> QED BY <2>2, <3>1, <3>2, <3>3
  <2> QED BY <2>5, <2>6
<1> QED BY <1>1, <1>2

(* A call that waits was made before, and stays of its kind. *)
CallsOnlyEnd ==
  \A d \in Call : op'[d].step \notin Ended => op[d].step \notin Ended /\ op'[d].kind = op[d].kind

LEMMA CallsEnd ==
  ASSUME Typed, Queueing, [Next]_vars
  PROVE  CallsOnlyEnd \/ \E c \in Call, k \in Kind : Invoke(c, k)
<1> USE DEF calls, context, opening, stack
<1>1. ASSUME op' = op PROVE CallsOnlyEnd
  BY <1>1 DEF CallsOnlyEnd
<1>2. CASE \/ Acquire \/ Proceed \/ ControlArrives \/ ControlFails \/ Refuse \/ HandOver \/ HandOverFails
           \/ CallerAborts \/ Cleaning \/ PumpFails \/ OnError \/ UNCHANGED vars
  BY <1>1, <1>2 DEF Acquire, Proceed, ControlArrives, ControlFails, Refuse, HandOver, HandOverFails, CallerAborts,
                    Cleaning, CloseNext, CleanedUp, PumpFails, OnError, vars
<1>3. ASSUME Shut(op) PROVE CallsOnlyEnd
  BY <1>3, ShutChanges DEF Typed, CallsOnlyEnd
<1>4. CASE Close \/ NotifyPumpFailure
  BY <1>1, <1>3, <1>4 DEF Close, NotifyPumpFailure
<1>5. ASSUME NEW c \in Call, NEW step, NEW w, Changes(c, step, w),
             step \in Ended \/ op[c].step \notin Ended
      PROVE  CallsOnlyEnd
  BY <1>5 DEF CallsOnlyEnd, Changes
<1>6. ASSUME NEW c \in Call, NEW w, Changes(c, op[c].step, w) PROVE CallsOnlyEnd
  BY <1>6 DEF CallsOnlyEnd, Changes
<1>7. CASE ContextSteps
  BY <1>6, <1>7, ContextStepsChanges DEF Typed
<1>8. ASSUME NEW c \in Call, Prepared(c) \/ WaitFails(c) PROVE CallsOnlyEnd
  BY <1>6, <1>8, PreparedChanges, WaitFailsChanges DEF Typed
<1>9. ASSUME NEW c \in Call, NEW step \in {"fulfilled", "rejected"}, Settle(c, step) PROVE CallsOnlyEnd
  BY <1>5, <1>9, SettleChanges DEF Typed, Step, Ended
<1>10. ASSUME NEW c \in Call, Runs(c) PROVE op[c].step \notin Ended
  BY <1>10, HeadAndTail DEF Runs, Queueing, QueueWaits, Typed
<1>11. ASSUME NEW c \in Call, Runs(c), NEW step \in Step, At(c, step) PROVE CallsOnlyEnd
  BY <1>5, <1>10, <1>11, AtChanges DEF Typed
<1>12. ASSUME NEW c \in Call, StartPlay(c) PROVE CallsOnlyEnd
  BY <1>5, <1>10, <1>12, StartPlayChanges DEF StartPlay, Typed
<1>13. ASSUME NEW c \in Call, StartPause(c) PROVE CallsOnlyEnd
  BY <1>9, <1>11, <1>13 DEF StartPause, Step
<1>14. ASSUME NEW c \in Call, StartSeek(c) PROVE CallsOnlyEnd
  <2>1. CASE Settle(c, "rejected")
    BY <1>9, <2>1
  <2>2. CASE ~Settle(c, "rejected")
    BY <1>5, <1>10, <1>14, <2>2, StartSeekChanges DEF StartSeek, Typed
  <2> QED BY <2>1, <2>2
<1>15. ASSUME NEW c \in Call, ContinuePlay(c) \/ ContinuePause(c) \/ CallFails(c) PROVE CallsOnlyEnd
  BY <1>9, <1>11, <1>15 DEF ContinuePlay, ContinuePause, CallFails, Step
<1>16. ASSUME NEW c \in Call, SeekAdvances(c) PROVE CallsOnlyEnd
  BY <1>9, <1>11, <1>16 DEF SeekAdvances, Following, Step
<1>17. ASSUME NEW c \in Call, SeekFails(c) PROVE CallsOnlyEnd
  <2>1. CASE Closed
    BY <1>9, <1>17, <2>1 DEF SeekFails
  <2>2. CASE ~Closed
    <3> DEFINE n == [op EXCEPT ![c].step = "closing", ![c].wait = "none"]
    <3>1. /\ n \in Ops /\ n[c].kind = op[c].kind
          /\ \A d \in Call : d # c => n[d] = op[d]
      BY ClosingChanges DEF Typed
    <3>2. Shut(n) /\ op[c].step \notin Ended
      BY <1>10, <1>17, <2>2 DEF SeekFails
    <3> HIDE DEF n
    <3>3. \A d \in Call : op'[d].kind = n[d].kind /\ op'[d].step = n[d].step
      BY <3>1, <3>2, ShutChanges
    <3> QED BY <3>1, <3>2, <3>3 DEF CallsOnlyEnd
  <2> QED BY <2>1, <2>2
<1>18. ASSUME NEW c \in Call, SeekClosed(c) PROVE CallsOnlyEnd
  BY <1>9, <1>18 DEF SeekClosed
<1> QED
  BY <1>2, <1>4, <1>7, <1>8, <1>12, <1>13, <1>14, <1>15, <1>16, <1>17, <1>18 DEF Next, Advance, Finished

LEMMA PlaysFirstNext ==
  ASSUME Typed, Queueing, Counted, PlaysFirst, [Next]_vars
  PROVE  PlaysFirst'
<1>1. CASE CallsOnlyEnd
  BY <1>1 DEF PlaysFirst, CallsOnlyEnd, Ended
<1>2. ASSUME NEW c \in Call, NEW k \in Kind, Invoke(c, k) PROVE PlaysFirst'
  <2>1. /\ op'[c].kind = k /\ op[c].step = "idle" /\ \A d \in Call : d # c => op'[d] = op[d]
        /\ op'[c].step = "rejected" \/ k # "play" \/ pendingSeeks = 0
    <3>1. op[c].step = "idle"
      BY <1>2 DEF Invoke
    <3>2. /\ op'[c].kind = k /\ \A d \in Call : d # c => op'[d] = op[d]
          /\ op'[c].step = IF (Closed /\ k # "pause") \/ (k = "play" /\ pendingSeeks # 0)
                             THEN "rejected" ELSE "queued"
      BY <1>2, InvokeChanges DEF Typed
    <3> QED BY <3>1, <3>2
  <2>2. pendingSeeks = 0 => Seeks = {}
    BY FS_EmptySet DEF Counted
  <2>3. SUFFICES ASSUME NEW p \in Call, NEW s \in Call, op'[p].kind = "play", op'[p].step \notin Ended,
                        op'[s].kind = "seek", op'[s].step \notin Ended
                 PROVE  p < s
    BY DEF PlaysFirst, Ended
  <2>4. CASE p # c /\ s # c
    BY <2>1, <2>3, <2>4 DEF PlaysFirst
  <2>5. CASE p = c
    BY <2>1, <2>2, <2>3, <2>5 DEF Seeks, Ended
  <2>6. CASE p # c /\ s = c
    <3>1. ~(c < p)
      BY <2>1, <2>3, <2>6 DEF Queueing, CallsInOrder, Ended
    <3> QED BY <2>6, <3>1 DEF Call
  <2> QED BY <2>4, <2>5, <2>6
<1> QED BY <1>1, <1>2, CallsEnd

(* Only a handover makes a session that serves calls; once it does not serve  *)
(* them it never does again.                                                  *)
LEMMA ServesBefore ==
  ASSUME Typed, Stack, Queueing, [Next]_vars, state' \in Serving
  PROVE  HandOver \/ state \in Serving
<1> USE DEF Serving
<1>1. CASE \/ Acquire \/ Proceed \/ ControlArrives \/ ControlFails \/ Refuse \/ HandOverFails
           \/ CallerAborts \/ Cleaning \/ PumpFails \/ OnError \/ UNCHANGED vars
  BY <1>1 DEF Acquire, Proceed, ControlArrives, ControlFails, Refuse, HandOverFails, CallerAborts,
              Cleaning, CloseNext, CleanedUp, PumpFails, OnError, vars
<1>2. CASE Close \/ NotifyPumpFailure \/ ContextSteps
  BY <1>2 DEF Close, NotifyPumpFailure, ContextSteps, Shut
<1>3. ASSUME NEW c \in Call,
             \/ \E k \in Kind : Invoke(c, k)
             \/ Prepared(c) \/ WaitFails(c) \/ StartPlay(c) \/ StartPause(c) \/ StartSeek(c)
             \/ CallFails(c) \/ SeekFails(c) \/ SeekClosed(c)
      PROVE  state \in Serving
  BY <1>3 DEF Invoke, Prepared, WaitFails, StartPlay, StartPause, StartSeek, CallFails, SeekFails,
              SeekClosed, Shut
<1>4. ASSUME NEW c \in Call, ContinuePlay(c) \/ ContinuePause(c) \/ SeekAdvances(c)
      PROVE  state \in Serving
  <2>1. op[c].step # "idle"
    BY <1>4 DEF ContinuePlay, ContinuePause, SeekAdvances, Queueing, WaitsOfStep, WaitFits, Ended
  <2> QED BY <1>4, <2>1 DEF ContinuePlay, ContinuePause, SeekAdvances, Closed, Stack, NoCallsYet, Opened
<1> QED BY <1>1, <1>2, <1>3, <1>4 DEF Next, Advance, Finished

(* A step of one call, when the context does not step. *)
LEMMA OneCallAgrees ==
  ASSUME Typed, Queueing, Agreement, PlaysFirst', state \in Serving, state' \in Serving, ctx' = ctx,
         NEW c \in Call, \A d \in Call : d # c => op'[d] = op[d], op'[c].kind = op[c].kind,
         MessagesAwaited', MessagesOnce',
         Runs(c) \/ (state' = state /\ op'[c].step = op[c].step),
         op'[c].kind = "play" /\ (op'[c].step = "ready" \/ (op'[c].step = "again" /\ op'[c].wait = "value"))
           => ctx = "running",
         op'[c].kind = "seek" /\ op'[c].step \in {"ready", "pump", "prefill"} => ctx = "suspended",
         NoPlay /\ op'[c].kind = "pause" /\ op'[c].wait = "value" => ctx = "suspended",
         NoneRejected /\ op'[c].kind = "seek" /\ op'[c].step = "suspend"
           => op'[c].was /\ state' = "playing",
         NoneRejected /\ op'[c].kind = "seek" /\ op'[c].step \in {"ready", "pump", "prefill"}
           => (op'[c].was <=> state' = "playing"),
         \/ op'[c].step = "rejected" \/ op'[c].step \notin Ended \cup {"queued"}
         \/ op'[c].step = op[c].step /\ state' = state
         \/ NoneRejected /\ NoPlay' => (ctx = "running" <=> state' = "playing"),
         op[c].step # "rejected"
  PROVE  Agreement'
<1>1. NoneRejected' => NoneRejected
  BY DEF NoneRejected
<1>2. ASSUME NEW d \in Call, d # c, ~Runs(c)
      PROVE  op'[d] = op[d] /\ state' = state /\ (NoPlay' => NoPlay)
  BY <1>2 DEF NoPlay, Ended
<1>3. ASSUME NEW d \in Call, d # c, Runs(c)
      PROVE  op'[d].step \in Ended \cup {"queued"} /\ (op'[d].kind = "pause" => op'[d].wait # "value")
  <2>1. op'[d] = op[d] /\ op[d].step \in Ended \cup {"queued"}
    BY <1>3, OnlyOneActive
  <2> QED BY <2>1 DEF Queueing, WaitsOfStep, WaitFits, Ended
<1>4. ContextRuns'
  <2>1. ASSUME NEW d \in Call, op'[d].kind = "play",
               op'[d].step = "ready" \/ (op'[d].step = "again" /\ op'[d].wait = "value")
        PROVE  ctx = "running"
    <3>1. CASE d = c
      BY <2>1, <3>1
    <3>2. CASE d # c /\ Runs(c)
      BY <1>3, <2>1, <3>2 DEF Ended
    <3>3. CASE d # c /\ ~Runs(c)
      BY <1>2, <2>1, <3>3 DEF Agreement, ContextRuns
    <3> QED BY <3>1, <3>2, <3>3
  <2> QED BY <2>1 DEF ContextRuns
<1>5. SeekSuspends'
  <2>1. ASSUME NEW d \in Call, op'[d].kind = "seek", op'[d].step \in {"ready", "pump", "prefill"}
        PROVE  ctx = "suspended"
    <3>1. CASE d = c
      BY <2>1, <3>1
    <3>2. CASE d # c /\ Runs(c)
      BY <1>3, <2>1, <3>2 DEF Ended
    <3>3. CASE d # c /\ ~Runs(c)
      BY <1>2, <2>1, <3>3 DEF Agreement, SeekSuspends
    <3> QED BY <3>1, <3>2, <3>3
  <2> QED BY <2>1 DEF SeekSuspends
<1>6. PauseSuspends'
  <2>1. ASSUME NEW d \in Call, op'[d].kind = "pause", op'[d].wait = "value", NoPlay'
        PROVE  ctx = "suspended"
    <3>1. CASE d = c
      <4>1. NoPlay
        BY <2>1, <3>1 DEF NoPlay
      <4> QED BY <2>1, <3>1, <4>1
    <3>2. CASE d # c /\ Runs(c)
      BY <1>3, <2>1, <3>2
    <3>3. CASE d # c /\ ~Runs(c)
      BY <1>2, <2>1, <3>3 DEF Agreement, PauseSuspends
    <3> QED BY <3>1, <3>2, <3>3
  <2> QED BY <2>1 DEF PauseSuspends
<1>7. SeekRemembers'
  <2>1. ASSUME NEW d \in Call, NoneRejected', op'[d].kind = "seek"
        PROVE  /\ op'[d].step = "suspend" => op'[d].was /\ state' = "playing"
               /\ op'[d].step \in {"ready", "pump", "prefill"} => (op'[d].was <=> state' = "playing")
    <3>1. CASE d = c
      BY <1>1, <2>1, <3>1
    <3>2. CASE d # c /\ Runs(c)
      BY <1>3, <2>1, <3>2 DEF Ended
    <3>3. CASE d # c /\ ~Runs(c)
      BY <1>1, <1>2, <2>1, <3>3 DEF Agreement, SeekRemembers
    <3> QED BY <3>1, <3>2, <3>3
  <2> QED BY <2>1 DEF SeekRemembers
<1>8. BetweenCalls'
  <2>1. SUFFICES ASSUME NoneRejected', NoPlay', \A d \in Call : op'[d].step \in Ended \cup {"queued"}
                 PROVE  ctx = "running" <=> state' = "playing"
    BY DEF BetweenCalls, Ended
  <2>2. CASE NoneRejected /\ NoPlay' => (ctx = "running" <=> state' = "playing")
    BY <1>1, <2>1, <2>2
  <2>3. CASE op'[c].step = op[c].step /\ state' = state
    <3>1. \A d \in Call : op[d].step \in Ended \cup {"queued"}
      BY <2>1, <2>3
    <3>2. NoPlay
      BY <2>1, <2>3 DEF NoPlay
    <3> QED BY <1>1, <2>1, <2>3, <3>1, <3>2 DEF Agreement, BetweenCalls
  <2>4. op'[c].step # "rejected" /\ op'[c].step \in Ended \cup {"queued"}
    BY <2>1 DEF NoneRejected
  <2> QED BY <2>2, <2>3, <2>4
<1>9. ContextOpen'
  BY DEF Agreement, ContextOpen
<1> QED BY <1>4, <1>5, <1>6, <1>7, <1>8, <1>9 DEF Agreement

(* The context obeys a message: no call that runs minds, and between calls    *)
(* there is no message.                                                       *)
LEMMA ContextStepsAgree ==
  ASSUME Typed, Queueing, Agreement, PlaysFirst', state \in Serving, ContextSteps
  PROVE  Agreement'
<1> DEFINE m == Head(ctxq)
           e == m[2]
<1>1. /\ state' = state /\ queue' = queue /\ ctx' = m[1] /\ ctxq' = Tail(ctxq)
      /\ Len(ctxq) \in Nat /\ 1 \in 1..Len(ctxq) /\ m = ctxq[1] /\ Len(ctxq') = Len(ctxq) - 1
      /\ \A i \in 1..Len(ctxq') : i + 1 \in 1..Len(ctxq) /\ ctxq'[i] = ctxq[i + 1]
  BY HeadAndTail DEF ContextSteps, Typed
<1>2. /\ e \in Call /\ op'[e].kind = op[e].kind /\ op'[e].step = op[e].step /\ op'[e].was = op[e].was
      /\ op'[e].wait = Obeyed(op[e].wait) /\ \A d \in Call : d # e => op'[d] = op[d]
  BY ContextStepsChanges DEF Typed, Changes
<1>3. m[1] \in {"suspended", "running"} /\ Fits(m, op[e])
  BY <1>1, MessageOf
<1> HIDE DEF m, e
<1>4. \A d \in Call : op'[d].kind = op[d].kind /\ op'[d].step = op[d].step /\ op'[d].was = op[d].was
  BY <1>2
<1>5. \/ op[e].kind = "play" /\ m[1] = "running" /\ op[e].step \notin Ended
      \/ op[e].kind = "pause" /\ m[1] = "suspended" /\ op[e].step = "suspend" /\ Runs(e)
      \/ op[e].kind = "seek" /\ op[e].step \in {"suspend", "restore"} /\ Runs(e)
  BY <1>2, <1>3 DEF Fits, Ended, Queueing, ActiveRuns
<1>6. MessagesAwaited' /\ MessagesOnce'
  <2>1. ASSUME NEW i \in 1..Len(ctxq') PROVE Fits(ctxq'[i], op'[ctxq'[i][2]])
    <3>1. i + 1 \in 1..Len(ctxq) /\ ctxq'[i] = ctxq[i + 1] /\ 1 < i + 1
      BY <1>1
    <3>2. ctxq[1][2] # ctxq[i + 1][2]
      BY <1>1, <3>1 DEF Agreement, MessagesOnce
    <3>3. ctxq'[i][2] # e /\ ctxq'[i][2] \in Call /\ Fits(ctxq'[i], op[ctxq'[i][2]])
      BY <1>1, <3>1, <3>2, MessageOf DEF e
    <3> QED BY <1>2, <3>3
  <2>2. ASSUME NEW i \in 1..Len(ctxq'), NEW j \in 1..Len(ctxq'), i < j PROVE ctxq'[i][2] # ctxq'[j][2]
    <3>1. i + 1 < j + 1
      BY <2>2
    <3> QED BY <1>1, <3>1 DEF Agreement, MessagesOnce
  <2> QED BY <2>1, <2>2 DEF MessagesAwaited, MessagesOnce
<1>7. ContextRuns'
  <2>1. ASSUME NEW d \in Call, op'[d].kind = "play", op'[d].step \in {"ready", "again"} PROVE m[1] = "running"
    <3>1. op[d].kind = "play" /\ Runs(d) /\ op[d].step \notin Ended
      BY <1>4, <2>1 DEF Queueing, ActiveRuns, Ended
    <3>2. CASE op[e].kind = "seek"
      BY <1>2, <1>5, <3>1, <3>2, SeekRunsAlone DEF Agreement, NoPlay, Ended
    <3>3. CASE op[e].kind # "seek"
      <4>1. Runs(e) => e = d
        BY <3>1 DEF Runs
      <4> QED BY <1>5, <3>1, <3>3, <4>1
    <3> QED BY <3>2, <3>3
  <2> QED BY <1>1, <2>1 DEF ContextRuns
<1>8. SeekSuspends'
  <2>1. ASSUME NEW d \in Call, op'[d].kind = "seek", op'[d].step \in {"ready", "pump", "prefill"}
        PROVE  m[1] = "suspended"
    <3>1. op[d].kind = "seek" /\ Runs(d) /\ op[d].step \notin Ended /\ op[d].step \notin {"suspend", "restore"}
      BY <1>4, <2>1 DEF Queueing, ActiveRuns, Ended
    <3>2. op[e].kind # "play" \/ op[e].step \in Ended
      BY <1>2, <3>1, SeekRunsAlone DEF Agreement, NoPlay
    <3>3. Runs(e) => e = d
      BY <3>1 DEF Runs
    <3> QED BY <1>5, <3>1, <3>2, <3>3
  <2> QED BY <1>1, <2>1 DEF SeekSuspends
<1>9. PauseSuspends'
  <2>1. ASSUME NEW d \in Call, op'[d].kind = "pause", op'[d].wait = "value", NoPlay' PROVE m[1] = "suspended"
    <3>1. op[e].kind # "play" \/ op[e].step \in Ended
      BY <1>2, <2>1 DEF NoPlay
    <3>2. CASE op[e].kind = "seek"
      <4>1. d # e /\ Runs(e)
        BY <1>4, <1>5, <2>1, <3>2
      <4>2. op[d].wait = "value" /\ op[d].step \in Ended \cup {"queued"}
        BY <1>2, <2>1, <4>1, OnlyOneActive
      <4> QED BY <4>2 DEF Queueing, WaitsOfStep, WaitFits, Ended
    <3> QED BY <1>5, <3>1, <3>2
  <2> QED BY <1>1, <2>1 DEF PauseSuspends
<1>10. NoneRejected' = NoneRejected /\ NoPlay' = NoPlay
  BY <1>4 DEF NoneRejected, NoPlay, Ended
<1>11. SeekRemembers'
  BY <1>1, <1>4, <1>10 DEF Agreement, SeekRemembers
<1>12. BetweenCalls'
  <2>1. ASSUME NoPlay, \A d \in Call : op[d].step \in Ended \cup {"queued"} PROVE FALSE
    BY <1>2, <1>5, <2>1 DEF NoPlay, Ended
  <2>2. SUFFICES ASSUME NoPlay', \A d \in Call : op'[d].step \in Ended \cup {"queued"} PROVE FALSE
    BY DEF BetweenCalls, Ended
  <2> QED BY <1>4, <1>10, <2>1, <2>2
<1>13. ContextOpen'
  BY <1>1, <1>3 DEF ContextOpen
<1> QED BY <1>6, <1>7, <1>8, <1>9, <1>11, <1>12, <1>13 DEF Agreement

(* A new call: play asks the context to run at once, behind no seek. *)
LEMMA InvokeAgrees ==
  ASSUME Typed, Queueing, Agreement, PlaysFirst', state \in Serving,
         NEW c \in Call, NEW k \in Kind, Invoke(c, k)
  PROVE  Agreement'
<1> DEFINE refused == k = "play" /\ pendingSeeks # 0
<1>1. ~Closed
  BY DEF Closed, Serving
<1>2. /\ op'[c].kind = k /\ op'[c].step = (IF refused THEN "rejected" ELSE "queued")
      /\ op'[c].wait = (IF ~refused /\ k = "play" THEN "asked" ELSE "none")
      /\ \A d \in Call : d # c => op'[d] = op[d]
  BY <1>1, InvokeChanges DEF Typed
<1>3. /\ op[c].step = "idle" /\ state' = state /\ ctx' = ctx
      /\ IF ~refused /\ k = "play" THEN ctxq' = Append(ctxq, <<"running", c>>) ELSE ctxq' = ctxq
  BY <1>1 DEF Invoke, Request, context
<1> HIDE DEF refused
<1>4. NoMessage(c)
  BY <1>3, MessageOf DEF NoMessage
<1>5. MessagesAwaited' /\ MessagesOnce'
  <2>1. CASE ~refused /\ k = "play"
    <3>1. Fits(<<"running", c>>, op'[c])
      BY <1>2, <2>1 DEF Fits
    <3> QED BY <1>2, <1>3, <1>4, <2>1, <3>1, MessageAdded
  <2>2. CASE ~(~refused /\ k = "play")
    BY <1>2, <1>3, <1>4, <2>2, MessagesStay
  <2> QED BY <2>1, <2>2
<1>6. op'[c].step \in {"rejected", "queued"} /\ (op'[c].step = "queued" /\ k # "play" => op'[c].wait = "none")
      /\ (k = "pause" => op'[c].wait = "none")
  BY <1>2
<1>7. NoneRejected' => NoneRejected
  BY <1>2, <1>3 DEF NoneRejected
<1>8. NoPlay' => NoPlay
  BY <1>2, <1>3 DEF NoPlay, Ended
<1>9. ContextRuns' /\ SeekSuspends'
  BY <1>2, <1>3, <1>6 DEF Agreement, ContextRuns, SeekSuspends
<1>10. PauseSuspends'
  BY <1>2, <1>3, <1>6, <1>8 DEF Agreement, PauseSuspends
<1>11. SeekRemembers'
  BY <1>2, <1>3, <1>6, <1>7 DEF Agreement, SeekRemembers
<1>12. BetweenCalls'
  <2>1. SUFFICES ASSUME NoneRejected', NoPlay', \A d \in Call : op'[d].step \in Ended \cup {"queued"}
                 PROVE  \A d \in Call : op[d].step \in Ended \cup {"queued"}
    BY <1>3, <1>7, <1>8 DEF Agreement, BetweenCalls, Ended
  <2> QED BY <1>2, <1>3, <2>1 DEF Ended
<1>13. ContextOpen'
  BY <1>3 DEF Agreement, ContextOpen
<1> QED BY <1>5, <1>9, <1>10, <1>11, <1>12, <1>13 DEF Agreement

(* A promise of the call settles, and it goes on waiting to be resumed. *)
LEMMA SettlingAgrees ==
  ASSUME Typed, Stack, Queueing, Agreement, PlaysFirst', state \in Serving, NEW c \in Call,
         Prepared(c) \/ WaitFails(c)
  PROVE  Agreement'
<1>1. state' = state /\ ctx' = ctx
  BY DEF Prepared, WaitFails, context
<1>2. /\ \A d \in Call : d # c => op'[d] = op[d]
      /\ op'[c].kind = op[c].kind /\ op'[c].step = op[c].step /\ op'[c].was = op[c].was
  BY PreparedChanges, WaitFailsChanges DEF Typed, Changes
<1>3. op[c].step \notin Ended
  BY DEF Prepared, WaitFails, Queueing, WaitsOfStep, WaitFits, Ended
<1>4. CASE Prepared(c)
  <2>1. op[c].step \in {"ready", "pump", "prefill"} /\ ctxq' = ctxq /\ op'[c].wait = "value"
    BY <1>4, PreparedChanges DEF Prepared, context, Typed, Changes
  <2>2. NoMessage(c)
    BY <2>1, MessageOf DEF NoMessage
  <2>3. MessagesAwaited' /\ MessagesOnce'
    BY <1>2, <2>1, <2>2, MessagesStay
  <2>4. op[c].kind # "pause"
    BY <2>1 DEF Queueing, StepsOfKind, StepFits, Ended
  <2> QED BY <1>1, <1>2, <1>3, <2>1, <2>3, <2>4, OneCallAgrees
          DEF Agreement, ContextRuns, SeekSuspends, SeekRemembers, Ended
<1>5. CASE WaitFails(c)
  <2>1. /\ op'[c].wait = IF op[c].wait = "asked" THEN "broken" ELSE "fail"
        /\ ctxq' = IF op[c].kind = "seek" THEN ctxq ELSE Withdraw(c)
        /\ op[c].wait \in {"pending", "asked"}
    BY <1>5, WaitFailsChanges DEF WaitFails, Typed, Changes, Failed
  <2>2. ASSUME op[c].kind = "seek" PROVE MessagesAwaited' /\ MessagesOnce'
    <3>1. op'[c].wait = "fail" /\ ctxq' = ctxq
      BY <2>1, <2>2 DEF Queueing, WaitsOfStep, WaitFits, Ended
    <3>2. ASSUME NEW i \in 1..Len(ctxq) PROVE Fits(ctxq[i], op'[ctxq[i][2]])
      BY <1>2, <2>2, <3>1, MessageOf DEF Fits
    <3> QED BY <3>1, <3>2 DEF Agreement, MessagesAwaited, MessagesOnce
  <2>3. ASSUME op[c].kind # "seek" PROVE MessagesAwaited' /\ MessagesOnce'
    <3>1. /\ \A i \in 1..Len(ctxq') : ctxq'[i][2] # c /\ \E k \in 1..Len(ctxq) : ctxq'[i] = ctxq[k]
          /\ \A i, j \in 1..Len(ctxq') : i < j => ctxq'[i][2] # ctxq'[j][2]
      BY <2>1, <2>3, WithdrawExact
    <3>2. ASSUME NEW i \in 1..Len(ctxq') PROVE Fits(ctxq'[i], op'[ctxq'[i][2]])
      <4>1. PICK k \in 1..Len(ctxq) : ctxq'[i] = ctxq[k] /\ ctxq[k][2] # c
        BY <3>1
      <4>2. op'[ctxq[k][2]] = op[ctxq[k][2]] /\ Fits(ctxq[k], op[ctxq[k][2]])
        BY <1>2, <4>1, MessageOf
      <4> QED BY <4>1, <4>2
    <3> QED BY <3>1, <3>2 DEF MessagesAwaited, MessagesOnce
  <2>4. MessagesAwaited' /\ MessagesOnce'
    BY <2>2, <2>3
  <2>5. op'[c].wait # "value"
    BY <2>1
  <2> QED BY <1>1, <1>2, <1>3, <2>4, <2>5, OneCallAgrees
          DEF Agreement, ContextRuns, SeekSuspends, SeekRemembers, Ended
<1> QED BY <1>4, <1>5

(* The call that runs goes on: it asks the context for a state, or waits for  *)
(* something else, or ends.                                                   *)
LEMMA AskingAgrees ==
  ASSUME Typed, Stack, Queueing, Agreement, PlaysFirst', state \in Serving,
         NEW c \in Call, Runs(c), NEW to \in {"suspended", "running"}, NEW step \in Step,
         ctxq' = Append(ctxq, <<to, c>>), ctx' = ctx, state' = state,
         Changes(c, step, "pending"), NoMessage(c), Fits(<<to, c>>, op'[c]), step \notin Ended \cup {"queued"},
         op[c].step # "rejected",
         NoneRejected /\ step = "suspend" /\ op[c].kind = "seek" => op'[c].was /\ state = "playing"
  PROVE  Agreement'
<1>1. /\ op'[c].kind = op[c].kind /\ op'[c].step = step /\ op'[c].wait = "pending"
      /\ \A d \in Call : d # c => op'[d] = op[d]
  BY DEF Changes
<1>2. MessagesAwaited' /\ MessagesOnce'
  BY <1>1, MessageAdded
<1>3. step \in {"resume", "again", "suspend", "restore"}
  BY <1>1 DEF Fits
<1> QED BY <1>1, <1>2, <1>3, OneCallAgrees DEF Ended

LEMMA GoingAgrees ==
  ASSUME Typed, Stack, Queueing, Agreement, PlaysFirst', state \in Serving,
         NEW c \in Call, Runs(c), NEW step \in {"ready", "pump", "prefill"},
         ctxq' = ctxq, ctx' = ctx, state' = state, Changes(c, step, "pending"), NoMessage(c),
         op[c].step # "rejected",
         op[c].kind = "play" => ctx = "running",
         op[c].kind = "seek" => ctx = "suspended" /\ (NoneRejected => (op'[c].was <=> state = "playing"))
  PROVE  Agreement'
<1>1. /\ op'[c].kind = op[c].kind /\ op'[c].step = step /\ op'[c].wait = "pending"
      /\ \A d \in Call : d # c => op'[d] = op[d]
  BY DEF Changes
<1>2. MessagesAwaited' /\ MessagesOnce'
  BY <1>1, MessagesStay
<1> QED BY <1>1, <1>2, OneCallAgrees DEF Ended

LEMMA EndingAgrees ==
  ASSUME Typed, Stack, Queueing, Agreement, PlaysFirst', state \in Serving, state' \in Serving,
         NEW c \in Call, Runs(c), NEW step \in {"fulfilled", "rejected"}, Settle(c, step),
         ctxq' = ctxq, ctx' = ctx, NoMessage(c), op[c].step # "rejected",
         step = "fulfilled" /\ NoneRejected /\ NoPlay' => (ctx = "running" <=> state' = "playing")
  PROVE  Agreement'
<1>1. /\ op'[c].kind = op[c].kind /\ op'[c].step = step /\ op'[c].wait = "none"
      /\ \A d \in Call : d # c => op'[d] = op[d]
  BY SettleChanges DEF Typed, Changes, Step
<1>2. MessagesAwaited' /\ MessagesOnce'
  BY <1>1, MessagesStay
<1> QED BY <1>1, <1>2, OneCallAgrees DEF Ended

LEMMA AgreementNext ==
  ASSUME Typed, Stack, Queueing, Counted, Agreement, [Next]_vars
  PROVE  Agreement'
<1> USE DEF calls, context, opening, stack
<1>1. PlaysFirst'
  BY PlaysFirstNext DEF Agreement
<1>2. CASE state' \notin Serving
  BY <1>1, <1>2 DEF Agreement, MessagesAwaited, MessagesOnce, ContextRuns, SeekSuspends, PauseSuspends,
                    SeekRemembers, BetweenCalls, ContextOpen
<1>3. CASE HandOver
  <2>1. /\ ctxq' = <<>> /\ ctx' = "suspended" /\ state' = "ready"
        /\ \A c \in Call : op'[c].step = "idle"
    BY <1>3 DEF HandOver, Stack, NoCallsYet, Opened
  <2>2. \A c \in Call : op'[c].wait = "none"
    BY <1>3, <2>1 DEF HandOver, Queueing, WaitsOfStep, WaitFits, Ended
  <2> QED BY <1>1, <2>1, <2>2
          DEF Agreement, MessagesAwaited, MessagesOnce, ContextRuns, SeekSuspends, PauseSuspends,
              SeekRemembers, BetweenCalls, ContextOpen
<1>4. CASE state \in Serving /\ state' \in Serving
  <2>1. ~Closed /\ ~aborted /\ Opened /\ ~drained /\ Awaited = "pending"
    BY <1>4 DEF Closed, Opened, Serving, Stack, SignalExact, DrainedEmpty, Awaited
  <2>2. ASSUME UNCHANGED <<op, ctx, ctxq, state>> PROVE Agreement'
    BY <1>1, <2>2 DEF Agreement, MessagesAwaited, MessagesOnce, ContextRuns, SeekSuspends, PauseSuspends,
                      SeekRemembers, BetweenCalls, ContextOpen, NoneRejected, NoPlay, Ended
  <2>3. CASE \/ Acquire \/ Proceed \/ ControlArrives \/ ControlFails \/ Refuse \/ HandOverFails
             \/ CallerAborts \/ Cleaning \/ PumpFails \/ OnError \/ UNCHANGED vars
    BY <1>4, <2>2, <2>3 DEF Acquire, Proceed, ControlArrives, ControlFails, Refuse, HandOverFails, CallerAborts,
                       Cleaning, CloseNext, CleanedUp, PumpFails, OnError, vars, Draining, Serving
  <2>4. CASE Close \/ NotifyPumpFailure
    BY <1>4, <2>2, <2>4 DEF Close, NotifyPumpFailure, Shut, Serving
  <2>5. CASE ContextSteps
    BY <1>1, <1>4, <2>5, ContextStepsAgree
  <2>6. ASSUME NEW c \in Call, NEW k \in Kind, Invoke(c, k) PROVE Agreement'
    BY <1>1, <1>4, <2>6, InvokeAgrees
  <2>7. ASSUME NEW c \in Call, Prepared(c) \/ WaitFails(c) PROVE Agreement'
    BY <1>1, <1>4, <2>7, SettlingAgrees
  <2>8. ASSUME NEW c \in Call, Runs(c) PROVE op[c].step \notin Ended
    BY <2>8, HeadAndTail DEF Runs, Queueing, QueueWaits, Typed
  <2>9. ASSUME NEW c \in Call, op[c].wait \in {"none", "value", "settled", "broken"} PROVE NoMessage(c)
    BY <1>4, <2>9, MessageOf DEF NoMessage
  <2>10. ASSUME NEW c \in Call, NEW step \in Step, At(c, step)
         PROVE  Changes(c, step, "pending") /\ op'[c].was = op[c].was
    BY <2>1, <2>10, AtChanges DEF Typed
  <2>11. ASSUME NEW c \in Call, StartPlay(c) PROVE Agreement'
    <3>1. /\ Runs(c) /\ op[c].kind = "play" /\ op[c].step = "queued" /\ UNCHANGED <<ctx, ctxq, state>>
          /\ op'[c].kind = "play" /\ op'[c].step = "resume" /\ op'[c].wait = Resuming(op[c].wait)
          /\ \A d \in Call : d # c => op'[d] = op[d]
      BY <2>11, StartPlayChanges DEF StartPlay, Typed, Changes
    <3>2. ASSUME NEW i \in 1..Len(ctxq) PROVE Fits(ctxq[i], op'[ctxq[i][2]])
      <4>1. CASE ctxq[i][2] = c
        <5>1. op[c].wait = "asked" /\ ctxq[i][1] = "running"
          BY <1>4, <3>1, <4>1, MessageOf DEF Fits
        <5>2. op'[c].wait = "pending"
          BY <2>1, <3>1, <5>1 DEF Resuming
        <5> QED BY <3>1, <4>1, <5>1, <5>2 DEF Fits
      <4>2. CASE ctxq[i][2] # c
        BY <1>4, <3>1, <4>2, MessageOf
      <4> QED BY <4>1, <4>2
    <3>3. MessagesAwaited' /\ MessagesOnce'
      BY <1>4, <3>1, <3>2 DEF Agreement, MessagesAwaited, MessagesOnce
    <3> QED BY <1>1, <1>4, <3>1, <3>3, OneCallAgrees DEF Ended
  <2>12. ASSUME NEW c \in Call, StartPause(c) PROVE Agreement'
    <3>1. /\ Runs(c) /\ op[c].kind = "pause" /\ op[c].step = "queued" /\ state' = state
          /\ Request("suspended", c) /\ At(c, "suspend")
      BY <2>1, <2>12 DEF StartPause
    <3>2. Changes(c, "suspend", "pending")
      BY <2>10, <3>1 DEF Step
    <3>3. Fits(<<"suspended", c>>, op'[c])
      BY <3>1, <3>2 DEF Fits, Changes
    <3>4. NoMessage(c)
      BY <2>9, <3>1 DEF Queueing, WaitsOfStep, WaitFits, Ended
    <3> QED BY <1>1, <1>4, <3>1, <3>2, <3>3, <3>4, AskingAgrees DEF Request, Step, Ended
  <2>13. ASSUME NEW c \in Call, StartSeek(c) PROVE Agreement'
    <3>1. /\ Runs(c) /\ op[c].kind = "seek" /\ op[c].step = "queued" /\ state' = state
          /\ IF ctx = "running" THEN Request("suspended", c) ELSE UNCHANGED context
          /\ Changes(c, IF ctx = "running" THEN "suspend" ELSE "ready", "pending")
          /\ op'[c].was = (ctx = "running")
      BY <2>1, <2>13, StartSeekChanges DEF StartSeek, Typed
    <3>2. NoMessage(c)
      BY <2>9, <3>1 DEF Queueing, WaitsOfStep, WaitFits, Ended
    <3>3. NoneRejected => (ctx = "running" <=> state = "playing")
      <4>1. NoPlay
        BY <3>1, SeekRunsAlone DEF Agreement, Ended
      <4>2. \A d \in Call : op[d].step \in Ended \cup {"queued"}
        BY <3>1, OnlyOneActive
      <4> QED BY <1>4, <4>1, <4>2 DEF Agreement, BetweenCalls
    <3>4. CASE ctx = "running"
      <4>1. Changes(c, "suspend", "pending") /\ op'[c].was /\ Request("suspended", c)
        BY <3>1, <3>4
      <4>2. Fits(<<"suspended", c>>, op'[c])
        BY <3>1, <4>1 DEF Fits, Changes
      <4> QED BY <1>1, <1>4, <3>1, <3>2, <3>3, <3>4, <4>1, <4>2, AskingAgrees DEF Request, Step, Ended
    <3>5. CASE ctx # "running"
      <4>1. Changes(c, "ready", "pending") /\ ~op'[c].was /\ ctx = "suspended" /\ UNCHANGED context
        BY <1>4, <3>1, <3>5 DEF Agreement, ContextOpen, Typed
      <4> QED BY <1>1, <1>4, <3>1, <3>2, <3>3, <3>5, <4>1, GoingAgrees
    <3> QED BY <3>4, <3>5
  <2>14. ASSUME NEW c \in Call, ContinuePlay(c) PROVE Agreement'
    <3>1. Runs(c) /\ op[c].kind = "play" /\ op[c].wait = "value" /\ NoMessage(c) /\ op[c].step \notin Ended
      BY <2>8, <2>9, <2>14 DEF ContinuePlay
    <3>2. CASE op[c].step = "resume" /\ ctx # "running"
      <4>1. Request("running", c) /\ At(c, "again") /\ state' = state
        BY <2>14, <3>2 DEF ContinuePlay
      <4>2. Changes(c, "again", "pending")
        BY <2>10, <4>1 DEF Step
      <4>3. Fits(<<"running", c>>, op'[c])
        BY <3>1, <4>2 DEF Fits, Changes
      <4> QED BY <1>1, <1>4, <3>1, <4>1, <4>2, <4>3, AskingAgrees DEF Request, Step, Ended
    <3>3. CASE op[c].step = "again" \/ (op[c].step = "resume" /\ ctx = "running")
      <4>1. At(c, "ready") /\ UNCHANGED <<state, context>>
        BY <2>14, <3>3 DEF ContinuePlay
      <4>2. ctx = "running"
        BY <1>4, <3>1, <3>3 DEF Agreement, ContextRuns
      <4>3. Changes(c, "ready", "pending")
        BY <2>10, <4>1 DEF Step
      <4> QED BY <1>1, <1>4, <3>1, <4>1, <4>2, <4>3, GoingAgrees DEF Ended
    <3>4. CASE op[c].step = "ready"
      <4>1. Settle(c, "fulfilled") /\ state' = "playing" /\ UNCHANGED context
        BY <2>1, <2>14, <3>4 DEF ContinuePlay
      <4>2. ctx = "running"
        BY <1>4, <3>1, <3>4 DEF Agreement, ContextRuns
      <4> QED BY <1>1, <1>4, <3>1, <4>1, <4>2, EndingAgrees DEF Ended
    <3> QED BY <2>14, <3>2, <3>3, <3>4 DEF ContinuePlay
  <2>15. ASSUME NEW c \in Call, ContinuePause(c) PROVE Agreement'
    <3>1. /\ Runs(c) /\ op[c].kind = "pause" /\ op[c].wait = "value" /\ NoMessage(c) /\ op[c].step \notin Ended
          /\ Settle(c, "fulfilled") /\ state' = "paused" /\ UNCHANGED context
      BY <2>1, <2>8, <2>9, <2>15 DEF ContinuePause
    <3>2. NoPlay' => NoPlay
      <4>1. \A d \in Call : d # c => op'[d] = op[d]
        BY <3>1, SettleChanges DEF Typed, Changes, Step
      <4> QED BY <3>1, <4>1 DEF NoPlay, Ended
    <3>3. NoPlay' => ctx = "suspended"
      BY <1>4, <3>1, <3>2 DEF Agreement, PauseSuspends
    <3> QED BY <1>1, <1>4, <3>1, <3>3, EndingAgrees DEF Ended
  <2>16. ASSUME NEW c \in Call, CallFails(c) PROVE Agreement'
    <3>1. /\ Runs(c) /\ op[c].kind # "seek" /\ op[c].wait = "fail" /\ op[c].step \notin Ended
          /\ Settle(c, "rejected") /\ state' = state /\ UNCHANGED context
      BY <2>8, <2>16 DEF CallFails
    <3>2. NoMessage(c)
      BY <1>4, <3>1, MessageOf DEF NoMessage
    <3> QED BY <1>1, <1>4, <3>1, <3>2, EndingAgrees DEF Ended
  <2>17. ASSUME NEW c \in Call, SeekAdvances(c) PROVE Agreement'
    <3>1. /\ Runs(c) /\ op[c].kind = "seek" /\ op[c].wait = "value" /\ NoMessage(c) /\ op[c].step \notin Ended
      BY <2>8, <2>9, <2>17 DEF SeekAdvances
    <3>2. ASSUME op[c].step \in {"ready", "pump", "prefill"}
          PROVE  ctx = "suspended" /\ (NoneRejected => (op[c].was <=> state = "playing"))
      BY <1>4, <3>1, <3>2 DEF Agreement, SeekSuspends, SeekRemembers
    <3>3. CASE op[c].step \in DOMAIN Following
      <4>1. /\ At(c, Following[op[c].step]) /\ UNCHANGED <<state, context>>
            /\ op[c].step \in {"suspend", "ready", "pump"} /\ Following[op[c].step] \in {"ready", "pump", "prefill"}
        BY <2>17, <3>3 DEF SeekAdvances, Following
      <4>2. ctx = "suspended" /\ (NoneRejected => (op[c].was <=> state = "playing"))
        <5>1. CASE op[c].step = "suspend"
          <6>1. ctx = "suspended"
            BY <2>17, <3>3, <5>1 DEF SeekAdvances, Following
          <6> QED BY <1>4, <3>1, <5>1, <6>1 DEF Agreement, SeekRemembers
        <5> QED BY <3>2, <4>1, <5>1
      <4>3. Changes(c, Following[op[c].step], "pending") /\ op'[c].was = op[c].was
        BY <2>10, <4>1 DEF Step
      <4> QED BY <1>1, <1>4, <3>1, <4>1, <4>2, <4>3, GoingAgrees DEF Ended
    <3>4. CASE op[c].step = "prefill" /\ op[c].was
      <4>1. Request("running", c) /\ At(c, "restore") /\ state' = state
        BY <2>17, <3>4 DEF SeekAdvances, Following
      <4>2. Changes(c, "restore", "pending")
        BY <2>10, <4>1 DEF Step
      <4>3. Fits(<<"running", c>>, op'[c])
        BY <3>1, <4>2 DEF Fits, Changes
      <4> QED BY <1>1, <1>4, <3>1, <4>1, <4>2, <4>3, AskingAgrees DEF Request, Step, Ended
    <3>5. CASE op[c].step = "prefill" /\ ~op[c].was
      <4>1. Settle(c, "fulfilled") /\ state' = state /\ UNCHANGED context
        BY <2>17, <3>5 DEF SeekAdvances, Following
      <4> QED BY <1>1, <1>4, <3>1, <3>2, <3>5, <4>1, EndingAgrees DEF Ended
    <3>6. CASE op[c].step = "restore"
      <4>1. Settle(c, "fulfilled") /\ state' = "playing" /\ ctx = "running" /\ UNCHANGED context
        BY <2>17, <3>6 DEF SeekAdvances, Following
      <4> QED BY <1>1, <1>4, <3>1, <4>1, EndingAgrees DEF Ended
    <3> QED BY <2>17, <3>3, <3>4, <3>5, <3>6 DEF SeekAdvances
  <2>18. ASSUME NEW c \in Call, SeekFails(c) \/ SeekClosed(c) PROVE Agreement'
    BY <1>4, <2>1, <2>18 DEF SeekFails, SeekClosed, Shut, Serving
  <2> QED
    BY <1>3, <2>3, <2>4, <2>5, <2>6, <2>7, <2>11, <2>12, <2>13, <2>14, <2>15, <2>16, <2>17, <2>18
    DEF Next, Advance, Finished
<1> QED BY <1>2, <1>3, <1>4, ServesBefore

-----------------------------------------------------------------------------
(* The theorems *)

\* Exact is inductive: it holds at first, and every step keeps it.
THEOREM ExactAlways == Spec => []Exact
<1>1. Init => Exact
  BY SessionAssumption, TypedInit, StackInit, QueueingInit, CountedInit, AgreementInit DEF Exact
<1>2. Exact /\ [Next]_vars => Exact'
  <2> SUFFICES ASSUME Exact, [Next]_vars PROVE Exact'
    OBVIOUS
  <2>1. Typed /\ Stack /\ Queueing /\ Counted /\ Agreement /\ ActiveRuns /\ HandsOverLast
    BY DEF Exact, Queueing, Stack
  <2>2. Typed'
    BY <2>1, TypedNext
  <2>3. Stack' /\ Queueing' /\ Counted' /\ Agreement'
    BY <2>1, StackNext, QueueingNext, CountedNext, AgreementNext
  <2> QED BY <2>2, <2>3 DEF Exact
<1> QED BY <1>1, <1>2, PTL DEF Spec

\* session.ts:292 (the tail of lifecycle calls), :294 (pendingSeeks): every
\* variable keeps its type, and no more seeks are counted than calls wait.
THEOREM TypeCorrect == Spec => []TypeOK
<1>1. ASSUME Exact PROVE TypeOK
  <2>1. Seeks \in SUBSET Waiting
    BY DEF Seeks, Waiting
  <2>2. Cardinality(Seeks) \in Nat /\ Cardinality(Waiting) \in Nat /\ Cardinality(Seeks) <= Cardinality(Waiting)
    BY <1>1, <2>1, FS_Subset, FS_CardinalityType DEF Exact, Counted
  <2>3. pendingSeeks \in 0..Len(queue)
    BY <1>1, <2>2 DEF Exact, Counted
  <2> QED BY <1>1, <2>3 DEF Exact, Typed, TypeOK, Ops, CallRecord, Wait
<1> QED BY <1>1, ExactAlways, PTL

\* session.ts:284, :441, :1029: whatever is held is on the cleanup stack, a
\* resource outlives those that were opened after it, and nothing is left when
\* the cleanup has returned, the control that attached too late included.
THEOREM CleanupAlwaysExact == Spec => []CleanupExact
<1>1. ASSUME Exact PROVE CleanupExact
  <2>1. StackCovers /\ ClosedInReverse /\ DrainedEmpty
    BY <1>1 DEF Exact, Stack
  <2>2. NothingLeft
    BY <2>1 DEF StackCovers, DrainedEmpty, NothingLeft, Contains
  <2> QED BY <2>1, <2>2 DEF CleanupExact
<1> QED BY <1>1, ExactAlways, PTL

\* session.ts:372, :394: a seek that prepares has the context suspended and no
\* request to run it is on its way; once every call has ended well the context
\* runs exactly if the session says that it plays.
THEOREM ContextAlwaysAgrees == Spec => []ContextAgrees
<1>1. ASSUME Exact PROVE ContextAgrees
  <2>1. Typed /\ Stack /\ Queueing /\ Agreement
    BY <1>1 DEF Exact
  <2>2. ASSUME NEW c \in Call, op[c].kind = "seek", op[c].step \in {"ready", "pump", "prefill"}, ~Closed
        PROVE  ctx = "suspended" /\ \A i \in 1..Len(ctxq) : ctxq[i][1] # "running"
    <3>1. state \in Serving
      BY <2>1, <2>2 DEF Stack, NoCallsYet, Opened, Closed, Serving
    <3>2. Runs(c) /\ op[c].step \notin Ended
      BY <2>1, <2>2 DEF Queueing, ActiveRuns, Ended
    <3>3. NoPlay
      BY <2>1, <2>2, <3>2, SeekRunsAlone DEF Agreement
    <3>4. ASSUME NEW i \in 1..Len(ctxq), ctxq[i][1] = "running" PROVE FALSE
      <4> DEFINE d == ctxq[i][2]
      <4>1. d \in Call /\ Fits(ctxq[i], op[d])
        BY <2>1, <3>1, MessageOf
      <4> HIDE DEF d
      <4>2. op[d].kind = "seek" /\ op[d].step = "restore"
        BY <3>3, <3>4, <4>1 DEF Fits, NoPlay, Ended
      <4>3. Runs(d)
        BY <2>1, <4>1, <4>2 DEF Queueing, ActiveRuns, Ended
      <4> QED BY <2>2, <3>2, <4>2, <4>3 DEF Runs
    <3> QED BY <2>1, <2>2, <3>1, <3>4 DEF Agreement, SeekSuspends
  <2>3. QuietAgrees
    BY <2>1 DEF QuietAgrees, Agreement, BetweenCalls, Serving, NoneRejected, NoPlay, Ended
  <2> QED BY <2>2, <2>3 DEF ContextAgrees, SeekPreparesSuspended
<1> QED BY <1>1, ExactAlways, PTL

LEMMA StateOnlyMoves ==
  ASSUME Exact, [Next]_vars
  PROVE  /\ aborted /\ state = "opening" => state' \in {"opening", "refused"}
         /\ Closed => state' = "closed"
<1> USE DEF Closed, calls, context, opening, stack
<1>1. CASE \/ Acquire \/ Proceed \/ ControlArrives \/ ControlFails \/ Refuse \/ HandOver \/ HandOverFails
           \/ CallerAborts \/ Cleaning \/ PumpFails \/ OnError \/ UNCHANGED vars
  BY <1>1 DEF Acquire, Proceed, ControlArrives, ControlFails, Refuse, HandOver, HandOverFails, CallerAborts,
              Cleaning, CloseNext, CleanedUp, PumpFails, OnError, vars
<1>2. CASE Close \/ NotifyPumpFailure \/ ContextSteps
  BY <1>2 DEF Close, NotifyPumpFailure, ContextSteps, Shut, Opened
<1>3. ASSUME NEW c \in Call, \/ \E k \in Kind : Invoke(c, k)
                             \/ Prepared(c) \/ WaitFails(c) \/ StartPlay(c) \/ StartPause(c) \/ StartSeek(c)
                             \/ CallFails(c) \/ SeekClosed(c)
      PROVE  state' = state
  BY <1>3 DEF Invoke, Prepared, WaitFails, StartPlay, StartPause, StartSeek, CallFails, SeekClosed
<1>4. ASSUME NEW c \in Call, ContinuePlay(c) \/ ContinuePause(c) \/ SeekAdvances(c) \/ SeekFails(c)
      PROVE  Opened /\ (Closed => state' = "closed")
  <2>1. op[c].step # "idle"
    BY <1>4 DEF ContinuePlay, ContinuePause, SeekAdvances, SeekFails, SeekBroken,
                Exact, Queueing, WaitsOfStep, WaitFits, Ended
  <2>2. Opened
    BY <2>1 DEF Exact, Stack, NoCallsYet
  <2>3. Closed => state' = "closed"
    BY <1>4 DEF ContinuePlay, ContinuePause, SeekAdvances, SeekFails, Following
  <2> QED BY <2>2, <2>3
<1>5. state = "opening" => ~Opened
  BY DEF Opened
<1> QED BY <1>1, <1>2, <1>3, <1>4, <1>5 DEF Next, Advance, Finished

\* session.ts:274, :287, :443: an opening that was aborted hands nothing out,
\* and a closed session stays closed.
THEOREM NeverOpensAborted == Spec => NeverOpenedAborted
<1>1. ASSUME Exact, [Next]_vars
      PROVE  [/\ aborted /\ state = "opening" => state' \in {"opening", "refused"}
              /\ Closed => state' = "closed"]_vars
  BY <1>1, StateOnlyMoves
<1> QED BY <1>1, ExactAlways, PTL DEF Spec, NeverOpenedAborted

-----------------------------------------------------------------------------
(* The session keeps its promise: each step is one of SessionPromise, or none *)
(* that the caller can tell.                                                  *)

Cause == IF ~Closed THEN "none" ELSE IF failure \in {"closing", "told"} THEN "failure" ELSE "owner"
Told == failure = "told"
Reply(step) == CASE step = "idle" -> "none"
                 [] step \in {"fulfilled", "rejected"} -> step
                 [] OTHER -> "pending"

LEMMA SameAnswer ==
  ASSUME \A d \in Call : Reply(op'[d].step) = Reply(op[d].step)
  PROVE  Answer' = Answer
BY DEF Answer, Reply

LEMMA AnswerOf ==
  ASSUME NEW c \in Call, NEW reply, Reply(op'[c].step) = reply,
         \A d \in Call : d # c => Reply(op'[d].step) = Reply(op[d].step)
  PROVE  Answer' = [Answer EXCEPT ![c] = reply] /\ Answer[c] = Reply(op[c].step)
<1>1. Answer = [d \in Call |-> Reply(op[d].step)] /\ Answer' = [d \in Call |-> Reply(op'[d].step)]
  BY DEF Answer, Reply
<1> QED BY <1>1

LEMMA SamePhase ==
  ASSUME UNCHANGED <<drained, res, failure>>, state' = state \/ (state \in Serving /\ state' \in Serving)
  PROVE  UNCHANGED <<Phase, Cause, Held, Told>>
BY DEF Phase, Cause, Held, Told, Closed, Serving

\* A call that the owner made is a session's that was handed out.
LEMMA AskedOpen ==
  ASSUME Exact, NEW c \in Call, op[c].step # "idle"
  PROVE  Opened /\ Phase \in {"open", "closing", "closed"}
<1>1. Opened
  BY DEF Exact, Stack, NoCallsYet
<1> QED BY <1>1 DEF Opened, Phase

LEMMA CallKept ==
  ASSUME Exact, UNCHANGED <<drained, res, failure>>,
         state' = state \/ (state \in Serving /\ state' \in Serving),
         NEW c \in Call, NEW step, NEW w, Changes(c, step, w),
         op[c].step \notin Ended, step # "idle", step = "fulfilled" => ~Closed
  PROVE  [Promise!Next]_(Promise!vars)
<1>1. UNCHANGED <<Phase, Cause, Held, Told>>
  BY SamePhase
<1>2. op'[c].step = step /\ \A d \in Call : d # c => op'[d] = op[d]
  BY DEF Changes
<1>3. Phase \in {"open", "closing", "closed"}
  BY AskedOpen DEF Ended
<1>4. CASE step \notin Ended
  <2>1. Answer' = Answer
    BY <1>2, <1>4, SameAnswer DEF Reply, Ended
  <2> QED BY <1>1, <2>1 DEF Promise!vars, Cause, Told
<1>5. CASE step = "rejected"
  <2>1. Answer' = [Answer EXCEPT ![c] = "rejected"] /\ Answer[c] = "pending"
    BY <1>2, <1>5, AnswerOf DEF Reply, Ended
  <2> QED BY <1>1, <1>3, <2>1 DEF Promise!Next, Promise!Reject, Cause, Told
<1>6. CASE step = "fulfilled"
  <2>1. Phase = "open"
    BY <1>6, AskedOpen DEF Phase, Opened, Closed, Ended
  <2>2. Answer' = [Answer EXCEPT ![c] = "fulfilled"] /\ Answer[c] = "pending"
    BY <1>2, <1>6, AnswerOf DEF Reply, Ended
  <2> QED BY <1>1, <2>1, <2>2 DEF Promise!Next, Promise!Fulfil, Cause, Told
<1> QED BY <1>4, <1>5, <1>6 DEF Ended

\* Every call keeps its answer, and closing begins.
LEMMA ClosingBegins ==
  ASSUME Exact, state \in Serving, NEW why \in {"owner", "failure"},
         state' = "closed", res' = [res EXCEPT !["control"] = IF @ = "open" THEN "closed" ELSE @],
         drained' = drained, why = (IF failure' \in {"closing", "told"} THEN "failure" ELSE "owner"),
         Told' = Told, Answer' = Answer
  PROVE  [Promise!Next]_(Promise!vars)
<1>1. Phase = "open" /\ Phase' = "closing" /\ Cause' = why
  BY DEF Phase, Cause, Closed, Serving, Exact, Stack, DrainedEmpty
<1>2. res["lease"] = "open" /\ res'["lease"] = "open" /\ "lease" \in Resource
  BY ResourceIs DEF Exact, Stack, LeaseHeld, Typed
<1>3. Held /\ Held'
  BY <1>2 DEF Held
<1> QED BY <1>1, <1>3 DEF Promise!Next, Promise!BeginClose, Cause, Told

LEMMA PromiseStep ==
  ASSUME Exact, [Next]_vars
  PROVE  [Promise!Next]_(Promise!vars)
<1> USE DEF calls, context, opening, stack
<1>1. ASSUME op' = op PROVE Answer' = Answer
  BY <1>1, SameAnswer
<1>2. ASSUME UNCHANGED <<op, state, drained, res, failure>> PROVE [Promise!Next]_(Promise!vars)
  BY <1>1, <1>2, SamePhase DEF Promise!vars, Cause, Told
<1>3. CASE Proceed \/ CallerAborts \/ UNCHANGED vars
  BY <1>2, <1>3 DEF Proceed, CallerAborts, vars
<1>4. ASSUME NEW r \in Resource, state = "opening", res' = [res EXCEPT ![r] = "open"],
             UNCHANGED <<state, drained, failure, op>>
      PROVE  [Promise!Next]_(Promise!vars)
  <2>1. Phase = "opening" /\ Phase' = "opening" /\ Cause' = Cause /\ Told' = Told
    BY <1>4 DEF Phase, Cause, Closed, Told
  <2>2. Held'
    BY <1>4 DEF Held, Exact, Typed
  <2> QED BY <1>1, <1>4, <2>1, <2>2 DEF Promise!Next, Promise!Take, Cause, Told
<1>5. CASE Acquire
  BY <1>4, <1>5 DEF Acquire
<1>6. CASE ControlArrives
  <2>1. CASE state = "opening" /\ ~aborted
    BY <1>4, <1>6, <2>1, ResourceIs DEF ControlArrives
  <2>2. CASE ~(state = "opening" /\ ~aborted)
    <3>1. res["control"] = "none" /\ res' = [res EXCEPT !["control"] = "closed"]
      BY <1>6, <2>2 DEF ControlArrives, Exact, Stack, ControlOnce
    <3>2. Held' = Held
      BY <3>1 DEF Held, Exact, Typed
    <3>3. UNCHANGED <<Phase, Cause, Told, Answer>>
      BY <1>1, <1>6 DEF ControlArrives, Phase, Cause, Closed, Told
    <3> QED BY <3>2, <3>3 DEF Promise!vars, Cause, Told
  <2> QED BY <2>1, <2>2
<1>7. CASE ControlFails \/ Refuse
  <2>1. UNCHANGED <<Phase, Cause, Told, Held, Answer>>
    BY <1>1, <1>7 DEF ControlFails, Refuse, Phase, Cause, Closed, Told, Held
  <2> QED BY <2>1 DEF Promise!vars, Cause, Told
<1>8. CASE HandOver
  <2>1. /\ Phase = "opening" /\ Phase' = "open" /\ UNCHANGED <<Cause, Told, Answer>>
        /\ res' = [res EXCEPT !["observers"] = "open"] /\ "observers" \in Resource
    BY <1>1, <1>8, ResourceIs DEF HandOver, Phase, Cause, Closed, Told
  <2>2. Held /\ Held'
    <3>1. res["lease"] = "open"
      <4>1. todo # <<>> /\ todo[1] = "handover" /\ todo[Len(todo)] = "handover" /\ state = "opening"
            /\ 1 \in 1..Len(todo) /\ Len(todo) \in Nat
        BY <1>8, HeadAndTail DEF HandOver, Stage, Exact, Typed, Stack, HandsOverLast
      <4>2. ~(1 < Len(todo))
        BY <4>1 DEF Exact, Stack, StagesOnce
      <4> QED BY <4>1, <4>2 DEF Exact, Stack, LeaseComes
    <3>2. "lease" \in Resource /\ res'["lease"] = "open"
      BY <2>1, <3>1, ResourceIs DEF Exact, Typed
    <3> QED BY <3>1, <3>2 DEF Held
  <2> QED BY <2>1, <2>2 DEF Promise!Next, Promise!Open, Cause, Told
<1>8a. CASE HandOverFails
  <2>1. Phase = "opening" /\ Phase' = "opening" /\ UNCHANGED <<Cause, Told, Answer>>
    BY <1>1, <1>8a DEF HandOverFails, Phase, Cause, Closed, Told
  <2>2. Held'
    BY <1>8a, ResourceIs DEF HandOverFails, Held, Exact, Typed
  <2> QED BY <2>1, <2>2 DEF Promise!Next, Promise!Take, Cause, Told
<1>9. CASE CloseNext
  <2>1. /\ Phase \in {"opening", "closing"} /\ UNCHANGED <<Phase, Cause, Told, Answer>>
    BY <1>1, <1>9 DEF CloseNext, Draining, Phase, Cause, Closed, Told
  <2>2. Held' => Held
    BY <1>9 DEF CloseNext, Held, Exact, Typed
  <2>3. CASE Held' = Held
    BY <2>1, <2>3 DEF Promise!vars, Cause, Told
  <2>4. CASE Held /\ ~Held'
    BY <2>1, <2>4 DEF Promise!Next, Promise!Return, Cause, Told
  <2>5. Held \in BOOLEAN /\ Held' \in BOOLEAN
    BY DEF Held
  <2> QED BY <2>2, <2>3, <2>4, <2>5
<1>10. CASE CleanedUp
  <2>1. ~Held /\ Held' = Held
    BY <1>10 DEF CleanedUp, Held, Exact, Stack, StackCovers, Contains
  <2>2. UNCHANGED <<Cause, Told, Answer>>
    BY <1>1, <1>10 DEF CleanedUp, Draining, Cause, Closed, Told
  <2>3. CASE state = "refused"
    <3>1. Phase = "opening" /\ Phase' = "refused"
      BY <1>10, <2>3 DEF CleanedUp, Phase
    <3> QED BY <2>1, <2>2, <3>1 DEF Promise!Next, Promise!Refuse, Cause, Told
  <2>4. CASE state = "closed"
    <3>1. Phase = "closing" /\ Phase' = "closed"
      BY <1>10, <2>4 DEF CleanedUp, Draining, Phase
    <3> QED BY <2>1, <2>2, <3>1 DEF Promise!Next, Promise!Finish, Cause, Told
  <2> QED BY <1>10, <2>3, <2>4 DEF CleanedUp, Draining
<1>11. ASSUME Opened, ~Closed PROVE state \in Serving /\ failure \notin {"closing", "told"}
  BY <1>11 DEF Opened, Closed, Serving, Exact, Stack, FailureExact
<1>12. ASSUME Shut(op) PROVE Answer' = Answer
  <2>1. \A d \in Call : op'[d].step = op[d].step
    BY <1>12, ShutChanges DEF Exact, Typed
  <2> QED BY <2>1, SameAnswer
<1>13. CASE Close
  BY <1>11, <1>12, <1>13, ClosingBegins DEF Close, Shut, Told
<1>14. CASE PumpFails
  <2>1. UNCHANGED <<Phase, Cause, Told, Held, Answer>>
    BY <1>1, <1>14 DEF PumpFails, Phase, Cause, Closed, Told, Held
  <2> QED BY <2>1 DEF Promise!vars, Cause, Told
<1>15. CASE NotifyPumpFailure
  <2>1. CASE aborted /\ failure' = "ignored" /\ UNCHANGED <<stack, state, op>>
    <3>1. UNCHANGED <<Phase, Cause, Told, Held, Answer>>
      BY <1>1, <1>15, <2>1 DEF NotifyPumpFailure, Phase, Cause, Closed, Told, Held
    <3> QED BY <3>1 DEF Promise!vars, Cause, Told
  <2>2. CASE failure' = "refusing" /\ UNCHANGED <<stack, state, op>>
    <3>1. UNCHANGED <<Phase, Cause, Told, Held, Answer>>
      BY <1>1, <1>15, <2>2 DEF NotifyPumpFailure, Phase, Cause, Closed, Told, Held
    <3> QED BY <3>1 DEF Promise!vars, Cause, Told
  <2>3. CASE ~aborted /\ Opened /\ failure' = "closing" /\ Shut(op)
    <3>1. ~Closed
      BY <2>3 DEF Exact, Stack, SignalExact
    <3>2. Told' = Told
      BY <1>15, <2>3 DEF NotifyPumpFailure, Told
    <3> QED BY <1>11, <1>12, <2>3, <3>1, <3>2, ClosingBegins DEF Shut
  <2> QED BY <1>15, <2>1, <2>2, <2>3 DEF NotifyPumpFailure
<1>16. CASE OnError
  <2>1. state = "closed" /\ drained
    BY <1>16 DEF OnError, Exact, Stack, FailureExact, Closed
  <2>2. /\ Phase = "closed" /\ Cause = "failure" /\ ~Told /\ Told'
        /\ UNCHANGED <<Phase, Cause, Held, Answer>>
    BY <1>1, <1>16, <2>1 DEF OnError, Phase, Cause, Closed, Told, Held
  <2> QED BY <2>2 DEF Promise!Next, Promise!Tell, Cause, Told
<1>17. ASSUME NEW c \in Call, NEW w, Changes(c, op[c].step, w), UNCHANGED <<state, drained, res, failure>>
       PROVE  [Promise!Next]_(Promise!vars)
  <2>1. Answer' = Answer
    BY <1>17, SameAnswer DEF Changes
  <2> QED BY <1>17, <2>1, SamePhase DEF Promise!vars, Cause, Told
<1>18. CASE ContextSteps
  BY <1>17, <1>18, ContextStepsChanges DEF ContextSteps, Exact, Typed
<1>19. ASSUME NEW c \in Call, Prepared(c) \/ WaitFails(c) PROVE [Promise!Next]_(Promise!vars)
  BY <1>17, <1>19, PreparedChanges, WaitFailsChanges DEF Prepared, WaitFails, Exact, Typed
<1>20. ASSUME NEW c \in Call, NEW k \in Kind, Invoke(c, k) PROVE [Promise!Next]_(Promise!vars)
  <2>1. /\ op[c].step = "idle" /\ Opened /\ UNCHANGED <<state, drained, res, failure>>
    BY <1>20 DEF Invoke
  <2>2. op'[c].step \in {"rejected", "queued"} /\ \A d \in Call : d # c => op'[d] = op[d]
    BY <1>20, InvokeChanges DEF Exact, Typed
  <2>3. Phase \in {"open", "closing", "closed"} /\ UNCHANGED <<Phase, Cause, Held, Told>>
    BY <2>1, SamePhase DEF Phase, Opened
  <2>4. CASE op'[c].step = "rejected"
    <3>1. Answer' = [Answer EXCEPT ![c] = "rejected"] /\ Answer[c] = "none"
      BY <2>1, <2>2, <2>4, AnswerOf DEF Reply
    <3> QED BY <2>3, <3>1 DEF Promise!Next, Promise!Reject, Cause, Told
  <2>5. CASE op'[c].step = "queued"
    <3>1. Answer' = [Answer EXCEPT ![c] = "pending"] /\ Answer[c] = "none"
      BY <2>1, <2>2, <2>5, AnswerOf DEF Reply
    <3> QED BY <2>3, <3>1 DEF Promise!Next, Promise!Ask, Cause, Told
  <2> QED BY <2>2, <2>4, <2>5
<1>21. ASSUME NEW c \in Call, Runs(c) PROVE op[c].step \notin Ended
  BY <1>21, HeadAndTail DEF Runs, Exact, Queueing, QueueWaits, Typed
<1>22. ASSUME NEW c \in Call, op[c].step \notin Ended, NEW step \in {"fulfilled", "rejected"}, Settle(c, step),
              UNCHANGED <<drained, res, failure>>, step = "fulfilled" => ~Closed,
              state' = state \/ (state \in Serving /\ state' \in Serving)
       PROVE  [Promise!Next]_(Promise!vars)
  BY <1>22, SettleChanges, CallKept DEF Exact, Typed, Step
<1>23. ASSUME NEW c \in Call, op[c].step \notin Ended, NEW step \in Step \ Ended, At(c, step),
              UNCHANGED <<drained, res, failure, state>>
       PROVE  [Promise!Next]_(Promise!vars)
  BY <1>23, AtChanges, CallKept DEF Exact, Typed, Ended
<1>24. ASSUME NEW c \in Call, StartPlay(c) PROVE [Promise!Next]_(Promise!vars)
  <2>1. /\ op[c].step = "queued" /\ UNCHANGED <<state, drained, res, failure>>
        /\ Changes(c, "resume", Resuming(op[c].wait))
    BY <1>24, StartPlayChanges DEF StartPlay, Exact, Typed
  <2> QED BY <2>1, CallKept DEF Ended
<1>25. ASSUME NEW c \in Call, StartPause(c) PROVE [Promise!Next]_(Promise!vars)
  BY <1>22, <1>23, <1>25 DEF StartPause, Step, Ended
<1>26. ASSUME NEW c \in Call, StartSeek(c) PROVE [Promise!Next]_(Promise!vars)
  <2>1. CASE Settle(c, "rejected")
    BY <1>22, <1>26, <2>1 DEF StartSeek, Ended
  <2>2. CASE ~Settle(c, "rejected")
    <3>1. Changes(c, IF ctx = "running" THEN "suspend" ELSE "ready", Awaited)
      BY <1>26, <2>2, StartSeekChanges DEF StartSeek, Exact, Typed
    <3> QED BY <1>26, <3>1, CallKept DEF StartSeek, Ended
  <2> QED BY <2>1, <2>2
<1>27. ASSUME NEW c \in Call, Runs(c) PROVE Opened /\ (~Closed => state \in Serving)
  <2>1. Opened
    BY <1>21, <1>27, AskedOpen DEF Ended
  <2> QED BY <2>1 DEF Opened, Closed, Serving
<1>28. ASSUME NEW c \in Call, ContinuePlay(c) PROVE [Promise!Next]_(Promise!vars)
  <2>1. Runs(c) /\ op[c].step \notin Ended
    BY <1>21, <1>28 DEF ContinuePlay
  <2>2. CASE \E step \in {"again", "ready"} : At(c, step) /\ state' = state
    BY <1>23, <1>28, <2>1, <2>2 DEF ContinuePlay, Step, Ended
  <2>3. CASE Settle(c, IF Closed THEN "rejected" ELSE "fulfilled") /\ state' = (IF Closed THEN state ELSE "playing")
    BY <1>22, <1>27, <1>28, <2>1, <2>3 DEF ContinuePlay, Serving
  <2> QED BY <1>28, <2>2, <2>3 DEF ContinuePlay
<1>29. ASSUME NEW c \in Call, ContinuePause(c) PROVE [Promise!Next]_(Promise!vars)
  BY <1>21, <1>22, <1>27, <1>29 DEF ContinuePause, Serving
<1>30. ASSUME NEW c \in Call, CallFails(c) PROVE [Promise!Next]_(Promise!vars)
  BY <1>21, <1>22, <1>30 DEF CallFails
<1>31. ASSUME NEW c \in Call, SeekAdvances(c) PROVE [Promise!Next]_(Promise!vars)
  <2>1. Runs(c) /\ op[c].step \notin Ended /\ UNCHANGED <<drained, res, failure>>
    BY <1>21, <1>31 DEF SeekAdvances
  <2>2. CASE op[c].step \in DOMAIN Following /\ At(c, Following[op[c].step]) /\ state' = state
    <3>1. Following[op[c].step] \in Step \ Ended
      BY <2>2 DEF Following, Step, Ended
    <3> QED BY <1>23, <2>1, <2>2, <3>1
  <2>3. CASE At(c, "restore") /\ state' = state
    BY <1>23, <2>1, <2>3 DEF Step, Ended
  <2>4. CASE Settle(c, "fulfilled") /\ ~Closed /\ (state' = state \/ state' = "playing")
    BY <1>22, <1>27, <2>1, <2>4 DEF Serving
  <2> QED BY <1>31, <2>2, <2>3, <2>4 DEF SeekAdvances
<1>32. ASSUME NEW c \in Call, SeekFails(c) PROVE [Promise!Next]_(Promise!vars)
  <2>1. CASE Closed
    BY <1>21, <1>22, <1>32, <2>1 DEF SeekFails
  <2>2. CASE ~Closed
    <3> DEFINE n == [op EXCEPT ![c].step = "closing", ![c].wait = "none"]
    <3>1. n \in Ops /\ n[c].step = "closing" /\ \A d \in Call : d # c => n[d] = op[d]
      BY ClosingChanges DEF Exact, Typed
    <3>2. Shut(n) /\ op[c].step \notin Ended /\ Opened /\ failure' = failure
      BY <1>21, <1>27, <1>32, <2>2 DEF SeekFails
    <3> HIDE DEF n
    <3>3. \A d \in Call : op'[d].step = n[d].step
      BY <3>1, <3>2, ShutChanges
    <3>4. Answer' = Answer
      BY <3>1, <3>2, <3>3, SameAnswer DEF Reply, Ended
    <3> QED BY <1>11, <2>2, <3>2, <3>4, ClosingBegins DEF Shut, Told
  <2> QED BY <2>1, <2>2
<1>33. ASSUME NEW c \in Call, SeekClosed(c) PROVE [Promise!Next]_(Promise!vars)
  BY <1>22, <1>33 DEF SeekClosed, Ended
<1> QED
  BY <1>3, <1>5, <1>6, <1>7, <1>8, <1>8a, <1>9, <1>10, <1>13, <1>14, <1>15, <1>16, <1>18, <1>19, <1>20, <1>24,
     <1>25, <1>26, <1>28, <1>29, <1>30, <1>31, <1>32, <1>33
  DEF Next, Cleaning, Advance, Finished

\* session.ts:180, :423: a session does what SessionPromise promises: it hands
\* out a session or rejects with nothing held, fulfils a call only while it is
\* open, and tells onError once, of a failure, after the cleanup.
THEOREM PromiseImplemented == Spec => Promise!Init /\ [][Promise!Next]_(Promise!vars)
<1>1. Init => Promise!Init
  <2> SUFFICES ASSUME Init PROVE Promise!Init
    OBVIOUS
  <2>1. Phase = "opening" /\ Cause = "none" /\ ~Told /\ ~Held
    BY DEF Init, Phase, Cause, Told, Held, Closed
  <2>2. Answer = [c \in Call |-> "none"]
    BY DEF Init, Idle, Answer
  <2> QED BY <2>1, <2>2 DEF Promise!Init, Cause, Told
<1>2. Exact /\ [Next]_vars => [Promise!Next]_(Promise!vars)
  BY PromiseStep
<1> QED BY <1>1, <1>2, ExactAlways, PTL DEF Spec
=============================================================================
