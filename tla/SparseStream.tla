---------------------------- MODULE SparseStream ----------------------------
(***************************************************************************)
(* The span stream of sparse-resolver.ts over the response of              *)
(* sparse-response.ts: one iterator, the fiber of its pending pull, the    *)
(* platform promise in flight, and the resources whose finalizers close    *)
(* gives back in order.  What a FLAC chunk job does inside is module       *)
(* FlacDecode's; here it runs, yields blocks, ends or fails.               *)
(***************************************************************************)
EXTENDS SparsePcm

VARIABLES
  iter,     \* scopedAsyncIterable: none, open, closing, closed
  closing,  \* finalizer that runs: none, decoder, response, epoch
  pull,     \* the pull fiber: idle, running, span, done, failed
  step,     \* admission, locator, headers, manifest, feed, eof
  call,     \* physical promise in flight: none, locator, fetch, read
  permit,   \* lease of the download admission
  epoch,    \* retained epoch of the FLAC Worker pool
  signal,   \* the operation's signal is aborted
  manifest, \* the admitted manifest
  chunk,    \* chunkIndex
  job,      \* FLAC job of the chunk: none, resolving, output
  fed,      \* the job has read all bytes of its chunk
  block,    \* packed frame after the borrowed block; 0 when none is held
  packed,   \* packedFrame
  span      \* the span that next() answered

streamVars == <<iter, closing, pull, step, call, permit, epoch, signal,
                manifest, chunk, job, fed, block, packed, span>>
decoder  == <<chunk, job, fed, block, packed, span>>
response == <<step, call, permit>>
holdings == <<epoch, manifest>>

NoSpan == [start |-> 0, frames |-> 0, at |-> 0]
NoManifest == [intervals |-> <<>>, chunks |-> <<>>]

StreamTypeOK ==
  /\ iter \in {"none", "open", "closing", "closed"}
  /\ closing \in {"none", "decoder", "response", "epoch"}
  /\ pull \in {"idle", "running", "span", "done", "failed"}
  /\ step \in {"admission", "locator", "headers", "manifest", "feed", "eof"}
  /\ call \in {"none", "locator", "fetch", "read"}
  /\ {permit, epoch, signal, fed} \subseteq BOOLEAN
  /\ ValidManifest(manifest) /\ chunk \in 1..(Len(manifest.chunks) + 1)
  /\ job \in {"none", "resolving", "output"}
  /\ packed \in 0..PackedFrames(manifest.intervals)
  /\ block = 0 \/ block \in packed..PackedFrames(manifest.intervals)
  /\ span = NoSpan \/ (span \in Interval /\ span.frames <= MaxSpanFrames)

StreamInit ==
  /\ iter = "none" /\ closing = "none" /\ pull = "idle" /\ step = "admission"
  /\ call = "none" /\ permit = FALSE /\ epoch = FALSE /\ signal = FALSE
  /\ manifest = NoManifest /\ chunk = 1 /\ job = "none" /\ fed = FALSE
  /\ block = 0 /\ packed = 0 /\ span = NoSpan

-----------------------------------------------------------------------------
(* The resolver and the iterator *)

\* The resolver retains an epoch of the pool and hands out the iterator.
Resolve(source) ==
  /\ iter' = "open" /\ epoch' = TRUE /\ manifest' = source
  /\ closing' = "none" /\ pull' = "idle" /\ step' = "admission" /\ call' = "none"
  /\ permit' = FALSE /\ signal' = FALSE
  /\ chunk' = 1 /\ job' = "none" /\ fed' = FALSE /\ block' = 0 /\ packed' = 0 /\ span' = NoSpan

\* next(): the fiber of the pull; the first one acquires the response.
Pull ==
  /\ iter = "open" /\ pull \in {"idle", "span"}
  /\ pull' = "running" /\ span' = NoSpan
  /\ UNCHANGED <<iter, closing, response, holdings, signal, chunk, job, fed, block, packed>>

\* A pull that ends closes the iterator before next() answers.
Ended(result) == pull' = result /\ iter' = "closing" /\ closing' = "decoder"
Running == pull = "running" /\ iter = "open"

\* The signal, a deadline, a refusal or a corrupt answer.  The promise the
\* fiber waited for stays in flight.
PullFails ==
  /\ Running /\ Ended("failed")
  /\ UNCHANGED <<response, holdings, signal, decoder>>

\* iterator.return() of an iterator without a pending pull.
Return ==
  /\ iter = "open" /\ pull # "running"
  /\ iter' = "closing" /\ closing' = "decoder"
  /\ UNCHANGED <<pull, response, holdings, signal, decoder>>

-----------------------------------------------------------------------------
(* The response: permit, locator, headers, manifest *)

Admit ==
  /\ Running /\ step = "admission" /\ ~signal
  /\ permit' = TRUE /\ step' = "locator" /\ call' = "locator"
  /\ UNCHANGED <<iter, closing, pull, holdings, signal, decoder>>

\* What the fiber that waits for a promise does when it settles well.
Continue ==
  \/ step = "locator"  /\ step' = "headers"  /\ call' = "fetch" /\ UNCHANGED <<pull, iter, closing>>
  \/ step = "headers"  /\ step' = "manifest" /\ call' = "read"  /\ UNCHANGED <<pull, iter, closing>>
  \/ step = "manifest" /\ step' = "feed"     /\ call' = "none"  /\ UNCHANGED <<pull, iter, closing>>
  \/ step = "eof" /\ call' = "none" /\ Ended("done") /\ UNCHANGED step

\* A promise settles: for the fiber, for the job, or for the finalizer only.
Settles ==
  /\ call # "none"
  /\ IF Running /\ step # "feed" /\ ~signal
       THEN Continue /\ UNCHANGED fed
       ELSE /\ call' = "none" /\ fed' = (fed \/ (step = "feed" /\ job # "none"))
            /\ UNCHANGED <<pull, iter, closing, step>>
  /\ UNCHANGED <<permit, holdings, signal, chunk, job, block, packed, span>>

-----------------------------------------------------------------------------
(* Decoding *)

Exhausted == block = 0 \/ packed = block
ChunkEnd(c) == manifest.chunks[c].at + manifest.chunks[c].frames

\* mapNextBlock: a span of the borrowed block, whose views stay valid until
\* the next pull.
EmitSpan ==
  /\ Running /\ step = "feed" /\ ~Exhausted
  /\ span' = NextSpan(manifest.intervals, packed, block)
  /\ packed' = packed + span'.frames /\ pull' = "span"
  /\ UNCHANGED <<iter, closing, response, holdings, signal, chunk, job, fed, block>>

\* The next chunk's job starts; its decoder reads the body while spans go out.
StartChunk ==
  /\ Running /\ step = "feed" /\ Exhausted /\ job = "none"
  /\ chunk <= Len(manifest.chunks)
  /\ job' = "resolving" /\ fed' = FALSE /\ block' = 0
  /\ UNCHANGED <<iter, closing, pull, response, holdings, signal, chunk, packed, span>>

JobReads ==
  /\ iter = "open" /\ job # "none" /\ ~fed /\ call = "none"
  /\ call' = "read"
  /\ UNCHANGED <<iter, closing, pull, step, permit, holdings, signal, decoder>>

JobResolves ==
  /\ Running /\ job = "resolving" /\ job' = "output"
  /\ UNCHANGED <<iter, closing, pull, response, holdings, signal, chunk, fed, block, packed, span>>

\* A block of any size the chunk has left; the exhausted one is released.
TakeBlock ==
  /\ Running /\ job = "output" /\ Exhausted /\ packed < ChunkEnd(chunk)
  /\ block' \in (packed + 1)..ChunkEnd(chunk)
  /\ UNCHANGED <<iter, closing, pull, response, holdings, signal, chunk, job, fed, packed, span>>

\* The output ends: only a chunk decoded to its last frame is accepted.
ChunkEnds ==
  /\ Running /\ job = "output" /\ Exhausted /\ packed = ChunkEnd(chunk) /\ fed
  /\ job' = "none" /\ block' = 0 /\ chunk' = chunk + 1
  /\ UNCHANGED <<iter, closing, pull, response, holdings, signal, fed, packed, span>>

\* After the last chunk the body has to be at its end.
AssertEof ==
  /\ Running /\ step = "feed" /\ Exhausted /\ job = "none" /\ call = "none"
  /\ chunk > Len(manifest.chunks) /\ step' = "eof" /\ call' = "read"
  /\ UNCHANGED <<iter, closing, pull, permit, holdings, signal, decoder>>

-----------------------------------------------------------------------------
(* Finalizers, in reverse order of acquisition *)

\* The decoder's: reader and job are stopped and awaited, the block released.
CloseDecoder ==
  /\ closing = "decoder" /\ closing' = "response"
  /\ job' = "none" /\ block' = 0 /\ signal' = TRUE
  /\ UNCHANGED <<iter, pull, response, holdings, chunk, fed, packed, span>>

\* The response's: no promise is left in flight when the permit goes back.
CloseResponse ==
  /\ closing = "response" /\ call = "none"
  /\ permit' = FALSE /\ closing' = "epoch"
  /\ UNCHANGED <<iter, pull, step, call, holdings, signal, decoder>>

\* What is left of a stream that is closed: how its last pull ended.
Forget == /\ closing' = "none" /\ step' = "admission" /\ call' = "none" /\ permit' = FALSE
          /\ epoch' = FALSE /\ signal' = FALSE /\ manifest' = NoManifest /\ chunk' = 1
          /\ job' = "none" /\ fed' = FALSE /\ block' = 0 /\ packed' = 0 /\ span' = NoSpan

\* The iterator's: the pool's epoch.
CloseEpoch ==
  /\ closing = "epoch" /\ iter' = "closed" /\ Forget
  /\ UNCHANGED pull

\* Steps of the fiber and of the platform, which go on without the caller.
StreamSteps ==
  \/ PullFails \/ Admit \/ Settles \/ EmitSpan \/ StartChunk \/ JobReads
  \/ JobResolves \/ TakeBlock \/ ChunkEnds \/ AssertEof
  \/ CloseDecoder \/ CloseResponse \/ CloseEpoch

-----------------------------------------------------------------------------
\* sparse-response.ts:120: a promise of the response is in flight only under
\* its permit, and a closed iterator holds nothing.
StreamHeld ==
  /\ call # "none" => permit
  /\ iter \in {"none", "closed"} =>
       ~permit /\ ~epoch /\ job = "none" /\ block = 0 /\ call = "none"
=============================================================================
