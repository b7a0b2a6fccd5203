------------------------------- MODULE PcmPump -------------------------------
(***************************************************************************)
(* Playback: the PCM pump (src/src/stems/pump.ts), the Worker that drives  *)
(* it (internal/engine-web-pcm-pump-worker.ts) and its client              *)
(* (stems/worker-client.ts).                                               *)
(*                                                                         *)
(* Each source is read in windows, at most a current and a next one, and   *)
(* written quantum by quantum into a ring the audio thread takes from.  A  *)
(* seek opens a new generation; reads of an older one still have to settle.*)
(* Frames are counted, PCM is the interval of frames it holds.  A tick is  *)
(* several passes in a row; here each pass is a tick of its own, which     *)
(* only adds interleavings.                                                *)
(***************************************************************************)
EXTENDS Integers, FiniteSets, FiniteSetsExt, SequencesExt

CONSTANTS Sources,
          Frames,        \* [Sources -> Nat]: the length of each source
          Quantum,       \* frames of one ring slot
          WindowFrames,  \* frames of a window
          Slots,         \* slots of a ring
          MaximumReads,  \* physical reads at a time
          Targets,       \* where the player seeks to
          MaxSeeks       \* bound on the seeks of a history

ASSUME PumpAssumption ==
  /\ IsFiniteSet(Sources) /\ Frames \in [Sources -> Nat \ {0}]
  /\ Quantum \in Nat \ {0} /\ WindowFrames \in Nat /\ WindowFrames >= Quantum
  /\ Slots \in Nat \ {0} /\ MaximumReads \in Nat \ {0}
  /\ Targets \subseteq Nat /\ MaxSeeks \in Nat

VARIABLES client,      \* of the Worker: initializing, open, closing, closed
          waiting,     \* the requests that sit in #pending
          inbox,       \* requests posted to the Worker
          outbox,      \* replies on their way back
          pump,        \* the Worker's pump: none, live or closed
          driving,     \* the drive loop is running
          generation, cursor,
          buffer,      \* the current and the next window of each source
          reads,       \* the physical reads under way
          failure,
          ring,        \* the slots of each ring, stale ones included
          position     \* the frame each ring's reader wants next

clientVars == <<client, waiting>>
channels == <<inbox, outbox>>
pumpVars == <<pump, driving, generation, cursor, buffer, reads, failure>>
rings == <<ring, position>>
vars == <<clientVars, channels, pumpVars, rings>>

Windows(s) == [from : 0..Frames[s], to : 0..Frames[s]]
Replies == {"initialized", "refused", "sought", "stopped", "pump-error"}

TypeOK ==
  /\ client \in {"initializing", "open", "closing", "closed"}
  /\ waiting \subseteq {"initialize", "seek", "stop"}
  /\ \A i \in DOMAIN inbox : inbox[i].op \in {"initialize", "seek", "stop"}
  /\ outbox \in Seq(Replies)
  /\ pump \in {"none", "live", "closed"} /\ driving \in BOOLEAN
  /\ generation \in 1..MaxSeeks + 1
  /\ \A s \in Sources :
       /\ cursor[s] \in 0..Frames[s] /\ position[s] \in 0..Frames[s]
       /\ buffer[s] \in Seq(Windows(s)) /\ Len(ring[s]) <= Slots
       /\ \A i \in DOMAIN ring[s] : ring[s][i].gen \in 1..generation
  /\ \A r \in reads : r.source \in Sources /\ r.gen \in 1..generation
                      /\ r.from \in 0..Frames[r.source]
  /\ failure \in BOOLEAN

\* create() has posted its request.
Init ==
  /\ client = "initializing" /\ waiting = {"initialize"}
  /\ inbox = <<[op |-> "initialize"]>> /\ outbox = <<>>
  /\ pump = "none" /\ driving = FALSE
  /\ generation = 1 /\ cursor = [s \in Sources |-> 0]
  /\ buffer = [s \in Sources |-> <<>>] /\ reads = {} /\ failure = FALSE
  /\ ring = [s \in Sources |-> <<>>] /\ position = [s \in Sources |-> 0]

-----------------------------------------------------------------------------
(* Windows and reads.  A pass schedules, writes and schedules again, so these *)
(* are operators on the pump's state p, which starts out as Now.              *)

Now == [cursor |-> cursor, buffer |-> buffer, reads |-> reads, ring |-> ring]

Finished(p, s) == p.cursor[s] = Frames[s]
Full(p, s) == Len(p.ring[s]) >= Slots

\* #canWrite: an exhausted window makes way for the next one.
Shift(p, s) ==
  IF ~Finished(p, s) /\ ~Full(p, s) /\ p.buffer[s] # <<>> /\ p.cursor[s] >= p.buffer[s][1].to
  THEN Tail(p.buffer[s]) ELSE p.buffer[s]

\* A window is wanted if there is none, or once half of the only one is used up.
Wanted(p, s) ==
  LET b == Shift(p, s) IN
  \/ b = <<>>
  \/ /\ Len(b) = 1 /\ b[1].to < Frames[s]
     /\ 2 * (p.cursor[s] - b[1].from) >= WindowFrames

\* A source reads once at a time, obsolete reads included.
Eligible(p, s) == ~Finished(p, s) /\ Wanted(p, s) /\ ~\E r \in p.reads : r.source = s

\* Sources without a window go first, then those with the shorter runway.
Before(p, s, u) ==
  \/ p.buffer[s] = <<>> /\ p.buffer[u] # <<>>
  \/ (p.buffer[s] = <<>> <=> p.buffer[u] = <<>>) /\ Len(p.ring[s]) < Len(p.ring[u])

ReadOf(p, s) ==
  [source |-> s, gen |-> generation,
   from |-> IF Shift(p, s) = <<>> THEN p.cursor[s] ELSE Shift(p, s)[1].to]

\* #scheduleReads: as many reads as there is room for, in that order.  The round
\* robin among equals is a choice.
Scheduled(p) ==
  LET able == {s \in Sources : Eligible(p, s)}
      count == Max({0, Min({Cardinality(able), MaximumReads - Cardinality(p.reads)})}) IN
  {[p EXCEPT !.reads = @ \cup {ReadOf(p, s) : s \in chosen},
             !.buffer = [s \in Sources |-> IF s \in chosen THEN Shift(p, s) ELSE @[s]]] :
     chosen \in {c \in SUBSET able : Cardinality(c) = count /\ \A s \in c, u \in able \ c : ~Before(p, u, s)}}

\* #writeOne: the next quantum, or the rest of the source.
Quantized(p, s) == Min({p.cursor[s] + Quantum, Frames[s]})
CanWrite(p, s) == ~Finished(p, s) /\ ~Full(p, s) /\ Shift(p, s) # <<>>

\* The window does not hold that quantum: the write throws.
Misfit(p, s) ==
  CanWrite(p, s) /\ (p.cursor[s] < Shift(p, s)[1].from \/ Quantized(p, s) > Shift(p, s)[1].to)

Written(p) ==
  [cursor |-> [s \in Sources |-> IF CanWrite(p, s) THEN Quantized(p, s) ELSE p.cursor[s]],
   buffer |-> [s \in Sources |-> Shift(p, s)],
   reads |-> p.reads,
   ring |-> [s \in Sources |->
               IF CanWrite(p, s)
               THEN Append(p.ring[s], [gen |-> generation, from |-> p.cursor[s], to |-> Quantized(p, s)])
               ELSE p.ring[s]]]

\* A window read settles. What it brought is used only in the generation it was
\* started in; the source and the room for a read are free from now on.
Aligned == (WindowFrames \div Quantum) * Quantum
WindowOf(r) == [from |-> r.from, to |-> Min({r.from + Aligned, Frames[r.source]})]

\* Mutant: the generation is not rechecked after the read.
LandStale(r) == [Now EXCEPT !.reads = @ \ {r},
                            !.buffer[r.source] = Append(SubSeq(@, 1, Min({1, Len(@)})), WindowOf(r))]

Land(r) ==
  IF r.gen # generation THEN [Now EXCEPT !.reads = @ \ {r}]
  ELSE [Now EXCEPT !.reads = @ \ {r},
                   !.buffer[r.source] = Append(SubSeq(@, 1, Min({1, Len(@)})), WindowOf(r))]

-----------------------------------------------------------------------------
(* The Worker: its drive loop, the reads, and the messages it handles in turn. *)

Running == client # "closed"   \* the Worker was not terminated

\* CanonicalPcmPump.close
ClosePump ==
  /\ pump' = "closed" /\ driving' = FALSE
  /\ buffer' = [s \in Sources |-> <<>>]
  /\ UNCHANGED <<generation, cursor, failure>>

\* The loop ends when everything is written: between that pass and its end no
\* message is handled, so no seek is lost.  A pass that throws takes the pump
\* with it.
Pass ==
  /\ Running /\ driving
  /\ \E p \in IF failure THEN {Now} ELSE Scheduled(Now) :
       \/ /\ failure \/ \E s \in Sources : Misfit(p, s)
          /\ ClosePump /\ reads' = p.reads /\ outbox' = Append(outbox, "pump-error")
          /\ UNCHANGED ring
       \/ /\ ~failure /\ \A s \in Sources : ~Misfit(p, s)
          /\ \E q \in Scheduled(Written(p)) :
               /\ cursor' = q.cursor /\ buffer' = q.buffer
               /\ reads' = q.reads /\ ring' = q.ring
               /\ driving' = \E s \in Sources : ~Finished(q, s)
          /\ UNCHANGED <<pump, generation, failure, outbox>>
  /\ UNCHANGED <<clientVars, inbox, position>>

ReadSettles(r, ok) ==
  /\ Running /\ r \in reads
  /\ LET current == pump = "live" /\ r.gen = generation IN
     /\ failure' = (failure \/ (current /\ ~ok))
     /\ \/ /\ pump = "live" /\ ~failure'
           /\ \E p \in Scheduled(Land(r)) : reads' = p.reads /\ buffer' = p.buffer
        \/ /\ pump = "live" /\ failure'
           /\ reads' = reads \ {r}
           /\ buffer' = IF ok THEN Land(r).buffer ELSE buffer
        \/ pump # "live" /\ reads' = reads \ {r} /\ UNCHANGED buffer
  /\ UNCHANGED <<clientVars, channels, pump, driving, generation, cursor, rings>>

\* The deadline of a window read, obsolete or not, fails the pump.
ReadDeadline(r) ==
  /\ Running /\ r \in reads /\ pump = "live"
  /\ failure' = TRUE
  /\ UNCHANGED <<clientVars, channels, pump, driving, generation, cursor, buffer, reads, rings>>

Answer(reply) == inbox' = Tail(inbox) /\ outbox' = Append(outbox, reply)

HandleInitialize ==
  /\ Running /\ inbox # <<>> /\ inbox[1].op = "initialize"
  /\ \/ Answer("initialized") /\ pump' = "live" /\ driving' = TRUE
     \/ Answer("refused") /\ UNCHANGED <<pump, driving>>
  /\ UNCHANGED <<clientVars, generation, cursor, buffer, reads, failure, rings>>

\* Mutants: a seek past the end is not clamped, or does not start the loop again.
SeekUnclamped(target) ==
  /\ cursor' = [s \in Sources |-> target]
  /\ position' = cursor'
  /\ buffer' = [s \in Sources |-> <<>>]
  /\ driving' = TRUE

SeekResting(target) ==
  /\ cursor' = [s \in Sources |-> Min({target, Frames[s]})]
  /\ position' = cursor'
  /\ buffer' = [s \in Sources |-> <<>>]
  /\ UNCHANGED driving

\* seekFrames, and the loop that drives it on.
SeekTo(target) ==
  /\ cursor' = [s \in Sources |-> Min({target, Frames[s]})]
  /\ position' = cursor'
  /\ buffer' = [s \in Sources |-> <<>>]
  /\ driving' = TRUE

HandleSeek ==
  /\ Running /\ inbox # <<>> /\ inbox[1].op = "seek"
  /\ \/ /\ pump = "live" /\ Answer("sought")
        /\ SeekTo(inbox[1].frame)
        /\ generation' = generation + 1
     \/ /\ pump # "live" /\ Answer("refused")
        /\ UNCHANGED <<generation, cursor, buffer, driving, position>>
  /\ UNCHANGED <<clientVars, pump, reads, failure, ring>>

HandleStop ==
  /\ Running /\ inbox # <<>> /\ inbox[1].op = "stop"
  /\ ClosePump /\ Answer("stopped")
  /\ UNCHANGED <<clientVars, reads, rings>>

\* The audio thread takes a slot; one of an older generation is dropped.
TakeSlot(s) ==
  /\ ring[s] # <<>>
  /\ ring' = [ring EXCEPT ![s] = Tail(@)]
  /\ position' = IF ring[s][1].gen = generation
                 THEN [position EXCEPT ![s] = ring[s][1].to] ELSE position
  /\ UNCHANGED <<clientVars, channels, pumpVars>>

-----------------------------------------------------------------------------
(* The client. *)

\* #terminate: the Worker is gone and every request rejects; what it had posted
\* meets no listener.
Terminate ==
  /\ client # "closed" /\ client' = "closed"
  /\ waiting' = {} /\ inbox' = <<>> /\ outbox' = <<>>
  /\ UNCHANGED <<pumpVars, rings>>

Post(request, message) == waiting' = waiting \cup {request} /\ inbox' = Append(inbox, message)

\* The session sends one seek at a time.
Seek ==
  /\ client = "open" /\ "seek" \notin waiting
  /\ generation + Cardinality({i \in DOMAIN inbox : inbox[i].op = "seek"}) <= MaxSeeks
  /\ \E target \in Targets : Post("seek", [op |-> "seek", frame |-> target])
  /\ UNCHANGED <<client, outbox, pumpVars, rings>>

Close ==
  /\ client = "open" /\ client' = "closing"
  /\ Post("stop", [op |-> "stop"])
  /\ UNCHANGED <<outbox, pumpVars, rings>>

\* The caller's signal, a Worker error, a message that cannot be cloned, and the
\* deadline of a request.
Abort == Terminate
RequestDeadline == waiting # {} /\ Terminate

\* #receive, with what create(), seekFrames() and close() do with the reply.
Receive ==
  /\ outbox # <<>>
  /\ \/ /\ outbox[1] \in {"stopped", "pump-error"} \/ (outbox[1] = "refused" /\ client = "initializing")
        /\ Terminate
     \/ /\ outbox[1] = "initialized"
        /\ client' = "open" /\ waiting' = waiting \ {"initialize"}
        /\ outbox' = Tail(outbox) /\ UNCHANGED <<inbox, pumpVars, rings>>
     \/ /\ outbox[1] = "sought" \/ (outbox[1] = "refused" /\ client # "initializing")
        /\ waiting' = waiting \ {"seek"}
        /\ outbox' = Tail(outbox) /\ UNCHANGED <<client, inbox, pumpVars, rings>>

WorkerStep == Pass \/ HandleInitialize \/ HandleSeek \/ HandleStop

Next ==
  \/ WorkerStep
  \/ \E r \in reads : ReadDeadline(r) \/ \E ok \in BOOLEAN : ReadSettles(r, ok)
  \/ \E s \in Sources : TakeSlot(s)
  \/ Seek \/ Close \/ Abort \/ RequestDeadline \/ Receive

Spec == Init /\ [][Next]_vars

\* The drive loop and the deadlines are timers, and a running AudioContext takes
\* slots; a read or a request may stay unanswered for ever.
Fairness ==
  /\ WF_vars(Pass) /\ WF_vars(RequestDeadline)
  /\ \A s \in Sources : WF_vars(TakeSlot(s))
  /\ WF_vars(\E r \in reads : ReadDeadline(r))

FairSpec == Spec /\ Fairness

-----------------------------------------------------------------------------
(* Properties. *)

\* Playback has no hole and repeats nothing: from the frame the ring's reader
\* wants next, the slots of the current generation lead up to the cursor, and
\* the windows go on from there, whichever old reads settle in between (#readWindow,
\* #writeOne, seekFrames).
Current(s, i) == i \in DOMAIN ring[s] /\ ring[s][i].gen = generation

\* Where the first i slots have brought the ring's reader.
Edge(s, i) == IF Current(s, i) THEN ring[s][i].to ELSE position[s]

Runway ==
  pump = "live" => \A s \in Sources :
    /\ \A i \in DOMAIN ring[s] : Current(s, i) =>
         /\ ring[s][i].from = Edge(s, i - 1)
         /\ \A k \in i..Len(ring[s]) : Current(s, k)
    /\ Edge(s, Len(ring[s])) = cursor[s]
    /\ buffer[s] # <<>> => buffer[s][1].from <= cursor[s] /\ cursor[s] <= buffer[s][1].to
    /\ Len(buffer[s]) = 2 => buffer[s][2].from = buffer[s][1].to

\* No write meets a window that ends within the quantum it wants, which would
\* fail the pump ("PCM window must end on a render boundary or source tail").
WritesFit == pump = "live" => \A s \in Sources : ~Misfit(Now, s)

\* The memory the pump was granted is enough: a source has at most two windows,
\* counting the one an obsolete read may still fill, and obsolete reads count
\* among the reads of all sources (maximumWindowBytes, MAXIMUM_READS).
SlotsBounded ==
  /\ Cardinality(reads) <= MaximumReads
  /\ \A s \in Sources : Len(buffer[s]) + Cardinality({r \in reads : r.source = s}) <= 2

\* The windows of a source: contiguous where playback needs them, of whole quanta,
\* and two at most.
WindowsSound == Runway /\ WritesFit /\ SlotsBounded

\* While the context runs, every source reaches its end in its ring, after each
\* seek anew, unless the pump fails or is closed.
PlaysOut ==
  pump = "live" ~> \/ pump # "live" \/ ~Running
                   \/ \A s \in Sources : Finished(Now, s)

\* Every request of the client settles, although the Worker may never answer.
RequestsSettle ==
  \A request \in {"initialize", "seek", "stop"} : request \in waiting ~> request \notin waiting

\* Playback and the requests of its client, over a pump that reads, fails, seeks.
Progresses == PlaysOut /\ RequestsSettle
=============================================================================
