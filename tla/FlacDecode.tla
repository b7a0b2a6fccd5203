----------------------------- MODULE FlacDecode -----------------------------
(***************************************************************************)
(* One decode job of flac-resolver.ts: the page's input lane and message   *)
(* handlers, the decoder Worker (engine-web-flac-worker.ts), the input     *)
(* slot they share (flac-input-slot.ts), the output credits                *)
(* (flac-output-credits.ts) and the reader of the stream.                  *)
(*                                                                         *)
(* mode "legacy" reads encoded bytes by ranges (FlacDelivery) and returns  *)
(* a credit with every block it hands out; "borrowed" reads a finite       *)
(* source and returns the credit when the block is released.  The Worker   *)
(* runs in parallel: while it reads the slot it handles no message.        *)
(***************************************************************************)
EXTENDS FlacDelivery, Sequences, SequencesExt, FiniteSets

CONSTANTS Chunks,   \* refills of the slot that hold the audio
          Blocks,   \* PCM blocks the audio decodes to
          Headers   \* ranges that prepare reads: the probe and block headers

ASSUME DecodeAssumption == Chunks \in Nat \ {0} /\ Blocks \in Nat /\ Headers \in Nat \ {0}

Credits == 2   \* FLAC_DECODE_OUTPUT_CREDITS

VARIABLES
  mode,
  work,      \* the work callback: waiting (for a Worker), running, stopping, stopped
  reason,    \* why it stopped: none, ok, cancelled, stall, worker, source, protocol
  lane,      \* the input lane: waiting, take, prepare, read, finish, exited
  laneOk,    \* its exit was a success
  ready,     \* initialized
  commands,  \* inputQueue
  terminal,  \* complete has been received
  src,       \* refills read from the source
  got,       \* blocks received
  blocks,    \* blocks that nobody has taken
  borrowed,  \* checkedOut
  workflow,  \* pending, ok, failed
  reader,    \* the stream's consumer: idle, pulling, closed, failed, cancelled
  delivered, \* blocks handed to it
  cut,       \* blocks were discarded by a cancel that came after the success
  dog        \* the watchdog is armed

VARIABLES
  wk,        \* the Worker: starting, loading, prepared, decoding, reading,
             \* waiting, copying, crediting, done, closed
  refill,    \* refillRequested
  taken,     \* refills it has read
  made,      \* blocks it has posted
  credits,   \* FlacOutputCredits.#available
  slot,      \* STATE: empty, full, eof, aborted
  final,     \* FINAL
  toHost, toWorker

host == <<mode, work, reason, lane, laneOk, ready, commands, terminal, src, got>>
output == <<blocks, borrowed, workflow, reader, delivered, cut, dog>>
worker == <<wk, refill, taken, made, credits>>
shared == <<slot, final>>
wires == <<toHost, toWorker>>
vars == <<host, output, worker, shared, wires, deliveryVars>>

Init ==
  /\ DeliveryInit
  /\ mode \in {"legacy", "borrowed"} /\ work = "waiting" /\ reason = "none"
  /\ lane = "waiting" /\ laneOk = FALSE /\ ready = FALSE /\ commands = <<>>
  /\ terminal = FALSE /\ src = 0 /\ got = 0
  /\ blocks = 0 /\ borrowed = FALSE /\ workflow = "pending" /\ reader = "idle"
  /\ delivered = 0 /\ cut = FALSE /\ dog = FALSE
  /\ wk = "starting" /\ refill = FALSE /\ taken = 0 /\ made = 0 /\ credits = Credits
  /\ slot = "empty" /\ final = FALSE /\ toHost = <<>> /\ toWorker = <<>>

-----------------------------------------------------------------------------
(* Stopping the job *)

Running == work = "running"
Outputs == blocks + (IF borrowed THEN 1 ELSE 0)

\* Mutant: a reset clears the timer and does not set it again.
WatchedOnce(sourcePending, outputs) == FALSE

\* resetWatchdog: armed unless the page itself owes the next step.
Watched(sourcePending, outputs) == Running /\ ~sourcePending /\ outputs < Credits
SourcePending == lane \in {"prepare", "read", "finish"}
Rearm == dog' = Watched(SourcePending, Outputs)

\* stop for a failure: the blocks are discarded, the slot is aborted, cancel
\* may be posted, and the lane is interrupted.  Termination follows.
Fail(why, sendCancel) ==
  /\ work' = "stopping" /\ reason' = why /\ dog' = FALSE
  /\ blocks' = 0 /\ borrowed' = FALSE
  /\ slot' = "aborted"
  /\ toWorker' = IF sendCancel THEN Append(toWorker, "cancel") ELSE toWorker

\* The interrupted lane: a range that is being read has to be cleaned up first.
InterruptLane ==
  IF lane \in {"prepare", "read"} /\ mode = "legacy" /\ read # "idle" /\ exit # "interrupted"
    THEN Interrupt /\ UNCHANGED lane
    ELSE IF lane \in {"prepare", "read"} /\ mode = "legacy" /\ read # "idle"
      THEN UNCHANGED <<lane, deliveryVars>>
      ELSE /\ lane' = "exited" /\ held' = "none"
           /\ UNCHANGED <<read, attempt, exit, permit, others, closed, flight>>

FailNow(why, sendCancel) ==
  /\ Running /\ Fail(why, sendCancel) /\ InterruptLane
  /\ UNCHANGED <<mode, laneOk, ready, commands, terminal, src, got,
                 workflow, reader, delivered, cut, worker, final>>

\* terminate has been called: the Worker's thread ends in its own time.
Terminate ==
  /\ work = "stopping" /\ work' = "stopped"
  /\ wk' = "closed" /\ toHost' = <<>> /\ toWorker' = <<>>
  /\ UNCHANGED <<mode, reason, lane, laneOk, ready, commands, terminal, src, got,
                 output, refill, taken, made, credits, shared, deliveryVars>>

\* After the work and the lane have both ended, and borrowed output has drained,
\* the pool settles the job: of the Worker it waits for nothing more.
Settled ==
  /\ work \in {"stopping", "stopped"} /\ lane = "exited" /\ workflow = "pending"
  /\ reason = "ok" /\ mode = "borrowed" => Outputs = 0
  /\ workflow' = IF reason = "ok" THEN "ok" ELSE "failed"
  /\ UNCHANGED <<host, blocks, borrowed, reader, delivered, cut, dog, worker, shared, wires, deliveryVars>>

-----------------------------------------------------------------------------
(* The owner: pool, signal and the stream's reader *)

\* The pool has a Worker for the job.
Start ==
  /\ work = "waiting" /\ wk = "starting" /\ work' = "running" /\ lane' = "take"
  /\ wk' = "loading" /\ dog' = TRUE
  /\ UNCHANGED <<mode, reason, laneOk, ready, commands, terminal, src, got, blocks, borrowed,
                 workflow, reader, delivered, cut, refill, taken, made, credits, shared, wires, deliveryVars>>

\* cancel before the work began: the pool rejects the job.
CancelWaiting(r) ==
  /\ work = "waiting" /\ reader \in {"idle", "pulling"}
  /\ work' = "stopped" /\ lane' = "exited" /\ reason' = "cancelled" /\ reader' = r /\ wk' = "closed"
  /\ UNCHANGED <<mode, laneOk, ready, commands, terminal, src, got, blocks, borrowed, workflow,
                 delivered, cut, dog, refill, taken, made, credits, shared, wires, deliveryVars>>

CancelRunning(r) ==
  /\ Running /\ reader \in {"idle", "pulling"} /\ reader' = r
  /\ Fail("cancelled", TRUE) /\ InterruptLane
  /\ UNCHANGED <<mode, laneOk, ready, commands, terminal, src, got, workflow, delivered, cut, worker, final, toHost>>

\* After a success only the blocks that nobody took are left to discard.
CancelDone(r) ==
  /\ work = "stopped" /\ reason = "ok" /\ reader \in {"idle", "pulling"} /\ reader' = r
  /\ blocks' = 0 /\ borrowed' = FALSE /\ cut' = (cut \/ blocks > 0)
  /\ UNCHANGED <<host, workflow, delivered, dog, worker, shared, wires, deliveryVars>>

\* The caller's signal leaves the reader as it is; stream.cancel ends it.
Cancel == \E r \in {reader, "cancelled"} : CancelWaiting(r) \/ CancelRunning(r) \/ CancelDone(r)

Read == /\ reader = "idle" /\ reader' = "pulling"
        /\ UNCHANGED <<host, blocks, borrowed, workflow, delivered, cut, dog, worker, shared, wires, deliveryVars>>

\* pull hands out the first block; a legacy block returns its credit at once.
Pull ==
  /\ reader = "pulling" /\ blocks > 0 /\ ~borrowed
  /\ blocks' = blocks - 1 /\ delivered' = delivered + 1 /\ reader' = "idle"
  /\ borrowed' = (mode = "borrowed")
  /\ IF mode = "legacy"
       THEN /\ toWorker' = (IF workflow = "pending" THEN Append(toWorker, "output-credit") ELSE toWorker)
            /\ dog' = Watched(SourcePending, Outputs - 1)
       ELSE UNCHANGED <<toWorker, dog>>
  /\ UNCHANGED <<host, workflow, cut, worker, shared, toHost, deliveryVars>>

\* The reader releases its block: the credit goes back unless production is over.
Release ==
  /\ borrowed /\ borrowed' = FALSE
  /\ toWorker' = (IF Running /\ ~terminal THEN Append(toWorker, "output-credit") ELSE toWorker)
  /\ dog' = (IF Running THEN Watched(SourcePending, blocks) ELSE dog)
  /\ UNCHANGED <<host, blocks, workflow, reader, delivered, cut, worker, shared, toHost, deliveryVars>>

\* With no block left the stream ends as the workflow did.
End ==
  /\ reader = "pulling" /\ blocks = 0 /\ ~borrowed /\ workflow # "pending"
  /\ reader' = (IF workflow = "ok" THEN "closed" ELSE "failed")
  /\ UNCHANGED <<host, blocks, borrowed, workflow, delivered, cut, dog, worker, shared, wires, deliveryVars>>

Stall ==
  /\ dog /\ Running
  /\ FailNow("stall", TRUE) /\ UNCHANGED toHost

-----------------------------------------------------------------------------
(* The page's message handlers *)

Heard(m) == Running /\ toHost # <<>> /\ Head(toHost) = m /\ toHost' = Tail(toHost)

\* A command for the lane, unless it breaks the protocol.
Enqueue(m, fits) ==
  IF fits /\ commands = <<>>
    THEN /\ commands' = <<m>> /\ Rearm
         /\ UNCHANGED <<work, reason, lane, blocks, borrowed, slot, toWorker, deliveryVars>>
    ELSE Fail("protocol", TRUE) /\ InterruptLane /\ UNCHANGED commands

HearReady ==
  /\ Heard("ready") /\ Enqueue("ready", ~terminal)
  /\ UNCHANGED <<mode, laneOk, ready, terminal, src, got, workflow, reader, delivered, cut, worker, final>>

HearCredit ==
  /\ Heard("input-credit") /\ Enqueue("input-credit", ~terminal)
  /\ UNCHANGED <<mode, laneOk, ready, terminal, src, got, workflow, reader, delivered, cut, worker, final>>

HearComplete ==
  /\ Heard("complete") /\ Enqueue("complete", ~terminal) /\ terminal' = TRUE
  /\ UNCHANGED <<mode, laneOk, ready, src, got, workflow, reader, delivered, cut, worker, final>>

HearPcm ==
  /\ Heard("pcm")
  /\ IF terminal \/ Outputs >= Credits
       THEN Fail("protocol", TRUE) /\ InterruptLane /\ UNCHANGED got
       ELSE /\ blocks' = blocks + 1 /\ got' = got + 1
            /\ dog' = Watched(SourcePending, Outputs + 1)
            /\ UNCHANGED <<work, reason, lane, borrowed, slot, toWorker, deliveryVars>>
  /\ UNCHANGED <<mode, laneOk, ready, commands, terminal, src, workflow, reader, delivered, cut, worker, final>>

\* An error reply, or the Worker's error or messageerror event.
HearError ==
  /\ Heard("error") /\ Fail("worker", FALSE) /\ InterruptLane
  /\ UNCHANGED <<mode, laneOk, ready, commands, terminal, src, got, workflow, reader, delivered, cut, worker, final>>

-----------------------------------------------------------------------------
(* The input lane: one command at a time *)

LaneUnchanged == UNCHANGED <<mode, terminal, got, workflow, reader, delivered, cut, worker, toHost>>

\* The lane fails: with it the job.
LaneFails(why) ==
  /\ Fail(why, TRUE) /\ lane' = "exited" /\ laneOk' = FALSE /\ held' = "none"

\* A command starts the source; one out of turn is refused.
TakeCommand ==
  LET m == Head(commands) IN
  /\ Running /\ lane = "take" /\ commands # <<>> /\ commands' = <<>>
  /\ IF (m = "ready") = ready \/ (m = "complete" /\ got # Blocks)
       THEN LaneFails("protocol") /\ UNCHANGED <<read, attempt, exit, permit, others, closed, flight>>
       ELSE /\ lane' = (CASE m = "ready" -> "prepare" [] m = "input-credit" -> "read" [] OTHER -> "finish")
            /\ dog' = FALSE
            /\ UNCHANGED <<work, reason, laneOk, blocks, borrowed, slot, toWorker, deliveryVars>>
  /\ UNCHANGED <<ready, src, final>> /\ LaneUnchanged

\* The source asks for its next range; a finite source is only read.  Headers
\* counts the ranges of prepare, which src passes first.
AskRange ==
  /\ Running /\ mode = "legacy" /\ lane \in {"prepare", "read"} /\ exit \notin {"value", "fatal"}
  /\ lane = "read" => src < Headers + Chunks
  /\ BeginRange
  /\ UNCHANGED <<host, output, worker, shared, wires>>

\* The bytes for the lane are there, out of a range or of a finite source.
Arrived == IF mode = "legacy" THEN read = "idle" /\ exit = "value" ELSE TRUE
\* ... they are released, and the range's result is used up.
Consume == /\ held' = "none" /\ exit' = "none"
           /\ UNCHANGED <<read, attempt, permit, others, closed, flight>>

Prepare ==
  /\ Running /\ lane = "prepare" /\ Arrived /\ src' = src + 1 /\ Consume
  /\ IF src' = Headers
       THEN /\ lane' = "take" /\ ready' = TRUE /\ dog' = Watched(FALSE, Outputs)
            /\ toWorker' = Append(toWorker, "initialize")
       ELSE UNCHANGED <<lane, ready, dog, toWorker>>
  /\ UNCHANGED <<work, reason, laneOk, commands, blocks, borrowed, shared>> /\ LaneUnchanged

\* read: the next bytes are published in the slot, which has to be empty; a
\* Worker that asks for bytes behind the audio is refused.
Publish ==
  /\ Running /\ lane = "read" /\ (Arrived \/ src = Headers + Chunks)
  /\ IF slot = "empty" /\ src < Headers + Chunks
       THEN /\ Consume /\ src' = src + 1 /\ lane' = "take" /\ dog' = Watched(FALSE, Outputs)
            /\ slot' = "full" /\ final' = (src' = Headers + Chunks)
            /\ UNCHANGED <<work, reason, laneOk, blocks, borrowed, toWorker>>
       ELSE /\ LaneFails("protocol") /\ UNCHANGED <<src, final>>
            /\ UNCHANGED <<read, attempt, exit, permit, others, closed, flight>>
  /\ UNCHANGED <<ready, commands>> /\ LaneUnchanged

\* The source fails: a range that could not be read, metadata or bytes that do
\* not parse, a digest that does not verify.
SourceFails ==
  /\ Running /\ lane \in {"prepare", "read", "finish"} /\ read = "idle"
  /\ LaneFails("source") /\ UNCHANGED <<read, attempt, exit, permit, others, closed, flight>>
  /\ UNCHANGED <<ready, commands, src, final>> /\ LaneUnchanged

\* finish drains what a finite source still has, then the job is a success.
Drain ==
  /\ Running /\ lane = "finish" /\ mode = "borrowed" /\ src < Headers + Chunks
  /\ src' = src + 1
  /\ UNCHANGED <<mode, work, reason, lane, laneOk, ready, commands, terminal, got,
                 output, worker, shared, wires, deliveryVars>>

Finish ==
  /\ Running /\ lane = "finish" /\ (mode = "borrowed" => src = Headers + Chunks)
  /\ lane' = "exited" /\ laneOk' = TRUE /\ work' = "stopped" /\ reason' = "ok" /\ dog' = FALSE
  /\ UNCHANGED <<mode, ready, commands, terminal, src, got, blocks, borrowed, workflow, reader,
                 delivered, cut, worker, shared, wires, deliveryVars>>

\* Mutant: it leaves with the range it holds.
LaneExitsHolding ==
  /\ work \in {"stopping", "stopped"} /\ lane \notin {"exited", "waiting"} /\ read = "idle"
  /\ lane' = "exited"
  /\ UNCHANGED <<mode, work, reason, laneOk, ready, commands, terminal, src, got, output, worker,
                 shared, wires, deliveryVars>>

\* An interrupted lane exits when its range has been cleaned up.
LaneExits ==
  /\ work \in {"stopping", "stopped"} /\ lane \notin {"exited", "waiting"} /\ read = "idle"
  /\ lane' = "exited" /\ held' = "none"
  /\ UNCHANGED <<mode, work, reason, laneOk, ready, commands, terminal, src, got, output, worker,
                 shared, wires, read, attempt, exit, permit, others, closed, flight>>

Delivers ==
  /\ \/ Admit \/ OthersLeave \/ OthersEnter \/ Locate \/ Respond \/ FetchStalls
     \/ ReadBody \/ Settle \/ CleanedUp \/ Quarantine \/ Retry
  /\ UNCHANGED <<host, output, worker, shared, wires>>

-----------------------------------------------------------------------------
(* The Worker *)

Post(m) == toHost' = Append(toHost, m)
WorkerOnly == UNCHANGED <<host, output, deliveryVars>>

\* fail: the error is reported, the state cleared and the realm closed.
WorkerFails ==
  /\ wk \in {"loading", "prepared", "decoding", "crediting"} /\ wk' = "closed" /\ Post("error")
  /\ UNCHANGED <<refill, taken, made, credits, shared, toWorker>> /\ WorkerOnly

Loaded == /\ wk = "loading" /\ wk' = "prepared" /\ Post("ready")
          /\ UNCHANGED <<refill, taken, made, credits, shared, toWorker>> /\ WorkerOnly

\* Mutant: a refill is requested while the bytes are still being copied.
ReadSlotAhead ==
  /\ wk = "reading"
  /\ \/ /\ slot = "aborted" /\ wk' = "closed" /\ Post("error") /\ UNCHANGED refill
     \/ /\ slot = "eof" /\ wk' = "decoding" /\ UNCHANGED <<refill, toHost>>
     \/ /\ slot = "empty" /\ wk' = "waiting" /\ refill' = TRUE
        /\ IF refill THEN UNCHANGED toHost ELSE Post("input-credit")
     \/ /\ slot = "full" /\ wk' = "copying" /\ refill' = TRUE /\ Post("input-credit")
  /\ UNCHANGED <<taken, made, credits, shared, toWorker>> /\ WorkerOnly

\* FlacInputSlotConsumer.read, step by step: it runs beside the page.
ReadSlot ==
  /\ wk = "reading"
  /\ \/ /\ slot = "aborted" /\ wk' = "closed" /\ Post("error") /\ UNCHANGED refill
     \/ /\ slot = "eof" /\ wk' = "decoding" /\ UNCHANGED <<refill, toHost>>
     \/ /\ slot = "empty" /\ wk' = "waiting" /\ refill' = TRUE
        /\ IF refill THEN UNCHANGED toHost ELSE Post("input-credit")
     \/ /\ slot = "full" /\ wk' = "copying" /\ refill' = FALSE /\ UNCHANGED toHost
  /\ UNCHANGED <<taken, made, credits, shared, toWorker>> /\ WorkerOnly

Wake == /\ wk = "waiting" /\ slot # "empty" /\ wk' = "reading"
        /\ UNCHANGED <<refill, taken, made, credits, shared, wires>> /\ WorkerOnly

\* The bytes are copied and the state word is stored, over an abort if need be.
CopySlot ==
  /\ wk = "copying" /\ wk' = "decoding" /\ taken' = taken + 1
  /\ slot' = (IF final THEN "eof" ELSE "empty") /\ final' = FALSE
  /\ UNCHANGED <<refill, made, credits, wires>> /\ WorkerOnly

\* The codec has output, wants input (it may read on to the end of the stream), or
\* has produced all its frames.
Decode ==
  /\ wk = "decoding"
  /\ \/ made < Blocks /\ taken > 0 /\ wk' = "crediting" /\ UNCHANGED toHost
     \/ wk' = "reading" /\ UNCHANGED toHost
     \/ made = Blocks /\ wk' = "done" /\ Post("complete")
  /\ UNCHANGED <<refill, taken, made, credits, shared, toWorker>> /\ WorkerOnly

TakeCredit ==
  /\ wk = "crediting" /\ credits > 0
  /\ credits' = credits - 1 /\ made' = made + 1 /\ wk' = "decoding" /\ Post("pcm")
  /\ UNCHANGED <<refill, taken, shared, toWorker>> /\ WorkerOnly

\* onmessage, between two codec pulls; a cleared realm ignores everything.
HandleMessage ==
  /\ toWorker # <<>> /\ wk \in {"loading", "prepared", "decoding", "crediting", "done"}
  /\ toWorker' = Tail(toWorker)
  /\ LET m == Head(toWorker) IN
     \/ /\ wk # "done" /\ m = "cancel" /\ wk' = "closed" /\ UNCHANGED <<credits, toHost>>
     \/ /\ wk # "done" /\ m = "output-credit" /\ UNCHANGED wk
        /\ IF credits < Credits THEN credits' = credits + 1 /\ UNCHANGED toHost
                                ELSE Post("error") /\ UNCHANGED credits
     \/ /\ m = "initialize" /\ wk # "done" /\ UNCHANGED credits
        /\ IF wk = "prepared" THEN wk' = "decoding" /\ UNCHANGED toHost
                              ELSE wk' = "closed" /\ Post("error")
     \/ wk = "done" /\ UNCHANGED <<wk, credits, toHost>>
  /\ UNCHANGED <<refill, taken, made, shared>> /\ WorkerOnly

\* The Worker's thread dies: the page hears an error event.
Crash ==
  /\ wk \notin {"starting", "closed", "done"} /\ wk' = "closed" /\ Post("error")
  /\ UNCHANGED <<refill, taken, made, credits, shared, toWorker>> /\ WorkerOnly

-----------------------------------------------------------------------------
WorkerSteps == \/ WorkerFails \/ Loaded \/ ReadSlot \/ Wake \/ CopySlot \/ Decode
               \/ TakeCredit \/ HandleMessage \/ Crash

Hear == HearReady \/ HearCredit \/ HearComplete \/ HearPcm \/ HearError

LaneSteps == \/ TakeCommand \/ AskRange \/ Prepare \/ Publish \/ SourceFails
             \/ Drain \/ Finish \/ LaneExits

Finished == /\ workflow # "pending" /\ reader \in {"closed", "failed", "cancelled"}
            /\ UNCHANGED vars

Next == \/ Start \/ Cancel \/ Read \/ Pull \/ Release \/ End \/ Stall \/ Terminate \/ Settled
        \/ Hear \/ LaneSteps \/ Delivers \/ WorkerSteps \/ Finished

\* The page's continuations run, its timers fire and its reader goes on; of the
\* Worker nothing is assumed.
Fairness ==
  /\ WF_vars(Pull) /\ WF_vars(Release) /\ WF_vars(End) /\ WF_vars(Stall) /\ WF_vars(Terminate)
  /\ WF_vars(Settled) /\ WF_vars(Hear) /\ WF_vars(OthersLeave /\ UNCHANGED <<host, output, worker, shared, wires>>) /\ WF_vars(LaneSteps)
  /\ WF_vars(DeliverySteps /\ UNCHANGED <<host, output, worker, shared, wires>>)

Spec == Init /\ [][Next]_vars /\ Fairness
-----------------------------------------------------------------------------
TypeOK ==
  /\ DeliveryTypeOK
  /\ mode \in {"legacy", "borrowed"} /\ work \in {"waiting", "running", "stopping", "stopped"}
  /\ reason \in {"none", "ok", "cancelled", "stall", "worker", "source", "protocol"}
  /\ lane \in {"waiting", "take", "prepare", "read", "finish", "exited"}
  /\ laneOk \in BOOLEAN /\ ready \in BOOLEAN /\ terminal \in BOOLEAN
  /\ commands = <<>> \/ \E m \in {"ready", "input-credit", "complete"} : commands = <<m>>
  /\ src \in 0..(Headers + Chunks) /\ got \in 0..Blocks /\ blocks \in 0..Credits
  /\ borrowed \in BOOLEAN /\ workflow \in {"pending", "ok", "failed"}
  /\ reader \in {"idle", "pulling", "closed", "failed", "cancelled"}
  /\ delivered \in 0..Blocks /\ cut \in BOOLEAN /\ dog \in BOOLEAN
  /\ wk \in {"starting", "loading", "prepared", "decoding", "reading", "waiting",
             "copying", "crediting", "done", "closed"}
  /\ refill \in BOOLEAN /\ taken \in 0..Chunks /\ made \in 0..Blocks /\ credits \in 0..Credits
  /\ slot \in {"empty", "full", "eof", "aborted"} /\ final \in BOOLEAN
  /\ toHost \in Seq({"ready", "input-credit", "pcm", "complete", "error"})
  /\ toWorker \in Seq({"initialize", "output-credit", "cancel"})

\* How often a message is on a wire.
Sent(m, wire) == Cardinality({i \in 1..Len(wire) : wire[i] = m})

\* flac-output-credits.ts:17, flac-resolver.ts:567, flac-input-slot.ts:50: while a
\* job produces, every credit is in one place, the Worker's, a message's or a
\* block's, and so no message of a correct Worker is ever taken for a breach of
\* the protocol: no credit or command overflows, no bytes meet a full slot.
CreditsExact ==
  /\ Running /\ ~terminal /\ wk # "done" =>
       credits + Sent("pcm", toHost) + Outputs + Sent("output-credit", toWorker) = Credits
  /\ reason # "protocol"

\* flac-resolver.ts:358: the watchdog runs exactly while the Worker owes the next
\* step: never over a source that is being read, or blocks that a reader leaves.
WatchdogExact == dog <=> (Running /\ ~SourcePending /\ Outputs < Credits)

\* Credits, commands and the watchdog of a job, exactly.
JobExact == CreditsExact /\ WatchdogExact

\* flac-resolver.ts:290: whatever ends the job, its buffers go back: the lane
\* leaves with no range held, a settled job that failed with no block queued, and a
\* stream closes with every block handed over, or cut by a cancel after success.
BuffersReturned ==
  /\ lane = "exited" => held = "none" /\ read = "idle"
  /\ workflow = "failed" => Outputs = 0
  /\ reader = "closed" => lane = "exited" /\ (delivered = Blocks \/ cut)

\* flac-resolver.ts:366: with a Worker that hangs, dies or is terminated, a running
\* job's reader is answered, and a job that fails is settled.
ReaderAnswered ==
  /\ (reader = "pulling" /\ work # "waiting") ~> reader # "pulling"
  /\ (work = "stopping") ~> (workflow # "pending")
=============================================================================
