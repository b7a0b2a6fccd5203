----------------------------- MODULE SparseStore -----------------------------
(***************************************************************************)
(* One identity of the sparse store (sparse-store.ts): stores in several   *)
(* tabs that open, inspect and install it under its lock, the payload      *)
(* generation and the commit marker they write, physical mutations that    *)
(* land or fail in their own time, and crashes.                            *)
(***************************************************************************)
EXTENDS SparseStream

CONSTANTS Stores,      \* stores, each in a tab of its own
          NoStore,     \* the lock is free
          Sources,     \* sets of frames that a source may store
          Generations, \* bound: names of payload generations
          Operations,  \* bound: operations that are started
          Faults,      \* bound: failures of storage, and wrong bytes
          Crashes      \* bound: crashes of a tab

ASSUME StoreAssumption ==
  /\ NoStore \notin Stores /\ Sources \subseteq SUBSET Frame
  /\ {Generations, Operations, Faults, Crashes} \subseteq Nat

VARIABLES
  active,    \* frames the source stores
  marker,    \* the commit marker: state none, partial or valid; generation; index
  payload,   \* per generation: whether the file exists, and its frames
  muts,      \* physical mutations that are pending
  holder,    \* store that holds the identity's lock
  op,        \* per store: kind, pc, generation, files it owns, result
  streamer,  \* store whose operation owns the stream
  intervals, \* intervals derived from the spans written
  aborted,   \* per store: the operation's signal
  handed,    \* generations whose descriptor was handed out
  left, faults, crashes  \* budgets

files   == <<marker, payload, active>>
budgets == <<left, faults, crashes>>
vars == <<streamVars, files, muts, holder, op, streamer, intervals, aborted,
          handed, budgets>>

Gen == 1..Generations
\* What the backend may be asked to change, and the steps of the programs.
Removal  == {"removeMarker", "removeData"}
Mutation == {"createData", "writeData", "closeData", "createMarker", "writeMarker", "closeMarker"} \cup Removal
Program  == {"looking", "reading", "verifying", "resolving", "admitting", "streaming",
             "checking", "committed", "draining", "releasing"}

NoMarker == [state |-> "none", gen |-> 0, index |-> <<>>]
Absent   == [there |-> FALSE, data |-> <<>>]
Idle     == [kind |-> "none", pc |-> "idle", gen |-> 0, owns |-> {}, result |-> "none"]

Init ==
  /\ StreamInit /\ active \in Sources
  /\ marker = NoMarker /\ payload = [g \in Gen |-> Absent] /\ muts = {}
  /\ holder = NoStore /\ op = [s \in Stores |-> Idle] /\ streamer = NoStore /\ intervals = <<>>
  /\ aborted = [s \in Stores |-> FALSE] /\ handed = {}
  /\ left = Operations /\ faults = Faults /\ crashes = Crashes

Source  == ManifestOf(active)
Index   == DeriveIndex(Source)
Content == Packed(active)
Complete(g) == payload[g].there /\ payload[g].data = Content
Streams(s)  == streamer = s /\ iter \in {"open", "closing"}
Waiting(s)  == \E m \in muts : m.by = s /\ m.op = op[s].pc

At(s, pc) == op[s].pc = pc
Moves(s, pc)   == op' = [op EXCEPT ![s].pc = pc]
Answers(s, result) == op' = [op EXCEPT ![s].pc = "releasing", ![s].result = result]
Fail(s) == op' = [op EXCEPT ![s].pc = "draining", ![s].result = "failed"]
Fault == faults > 0 /\ faults' = faults - 1
NoFault == UNCHANGED faults

-----------------------------------------------------------------------------
(* Callers *)

Start(s) ==
  /\ At(s, "idle") /\ left > 0 /\ left' = left - 1
  /\ \E kind \in {"open", "install", "inspect"} :
       op' = [op EXCEPT ![s] = [Idle EXCEPT !.kind = kind, !.pc = "locking"]]
  /\ aborted' = [aborted EXCEPT ![s] = FALSE]
  /\ UNCHANGED <<streamVars, files, muts, holder, streamer, intervals, handed, faults, crashes>>

\* The caller's signal or close() of the store; the resolver's signal follows.
Abort(s) ==
  /\ ~At(s, "idle") /\ ~aborted[s]
  /\ aborted' = [aborted EXCEPT ![s] = TRUE]
  /\ signal' = (signal \/ Streams(s))
  /\ UNCHANGED <<iter, closing, pull, response, holdings, decoder, files, muts, holder, op,
                 streamer, intervals, handed, budgets>>

\* A tab dies: its pending mutations take effect or not, the browser frees its
\* lock, and its stream is gone with it.
AfterMutation(m, good) ==
  /\ UNCHANGED active
  /\ marker' = (CASE m.op = "createMarker" -> [state |-> "partial", gen |-> m.gen, index |-> <<>>]
                  [] m.op = "writeMarker"  -> [state |-> "valid", gen |-> m.gen, index |-> intervals]
                  [] m.op = "removeMarker" -> NoMarker
                  [] OTHER -> marker)
  /\ payload' = (CASE m.op = "createData" -> [payload EXCEPT ![m.gen] = [there |-> TRUE, data |-> <<>>]]
                   [] m.op = "writeData"  ->
                        [payload EXCEPT ![m.gen].data =
                           @ \o [k \in 1..span.frames |-> IF good THEN Sample(span.start + k - 1) ELSE Silence]]
                   [] m.op = "removeData" -> [payload EXCEPT ![m.gen] = Absent]
                   [] OTHER -> payload)

Crash(s) ==
  /\ crashes > 0 /\ ~At(s, "idle") /\ crashes' = crashes - 1
  /\ \/ UNCHANGED files
     \/ \E m \in muts : m.by = s /\ AfterMutation(m, TRUE)
  /\ muts' = {m \in muts : m.by # s}
  /\ holder' = (IF holder = s THEN NoStore ELSE holder)
  /\ op' = [op EXCEPT ![s] = Idle] /\ aborted' = [aborted EXCEPT ![s] = FALSE]
  /\ IF streamer = s
       THEN streamer' = NoStore /\ iter' = "none" /\ pull' = "idle" /\ Forget /\ intervals' = <<>>
       ELSE UNCHANGED <<streamVars, streamer, intervals>>
  /\ UNCHANGED <<handed, left, faults>>

-----------------------------------------------------------------------------
(* The lock, the marker and the verification of a committed payload *)

Grant(s) ==
  /\ At(s, "locking") /\ holder = NoStore /\ holder' = s
  /\ IF aborted[s] THEN Answers(s, "failed") ELSE Moves(s, "looking")
  /\ UNCHANGED <<streamVars, files, muts, streamer, intervals, aborted, handed, budgets>>

\* A request that is still queued is withdrawn by its signal.
Withdraw(s) ==
  /\ At(s, "locking") /\ aborted[s] /\ op' = [op EXCEPT ![s] = Idle]
  /\ UNCHANGED <<streamVars, files, muts, holder, streamer, intervals, aborted, handed, budgets>>

\* backend.open and exists(marker).
Look(s) ==
  /\ At(s, "looking")
  /\ \/ Fault /\ Answers(s, "failed")
     \/ /\ NoFault
        /\ IF marker.state # "none" THEN Moves(s, "reading")
           ELSE IF op[s].kind = "install" THEN Moves(s, "resolving")
           ELSE Answers(s, IF op[s].kind = "inspect" /\ aborted[s] THEN "failed" ELSE "missing")
  /\ UNCHANGED <<streamVars, files, muts, holder, streamer, intervals, aborted, handed, left, crashes>>

\* readMarker and admitMarkerMetadata: a marker that is not whole, or whose
\* payload is missing or has another size, is corrupt.
Admitted == /\ marker.state = "valid" /\ payload[marker.gen].there
            /\ Len(payload[marker.gen].data) = PackedFrames(marker.index)
ReadMarker(s) ==
  /\ At(s, "reading")
  /\ \/ /\ NoFault
        /\ IF aborted[s] THEN Answers(s, "failed")
           ELSE IF ~Admitted THEN Answers(s, "corrupt")
           ELSE IF op[s].kind = "inspect" THEN Answers(s, "present")
           ELSE op' = [op EXCEPT ![s].pc = "verifying", ![s].gen = marker.gen]
     \/ Fault /\ Answers(s, "failed")
  /\ UNCHANGED <<streamVars, files, muts, holder, streamer, intervals, aborted, handed, left, crashes>>

\* verifyMarker hashes the payload over the index.
Verify(s) ==
  /\ At(s, "verifying")
  /\ \/ /\ NoFault
        /\ Answers(s, IF aborted[s] THEN "failed"
                      ELSE IF Complete(op[s].gen) THEN "descriptor" ELSE "corrupt")
     \/ Fault /\ Answers(s, "failed")
  /\ UNCHANGED <<streamVars, files, muts, holder, streamer, intervals, aborted, handed, left, crashes>>

\* The scope closes and the operation settles.
Release(s) ==
  /\ At(s, "releasing") /\ holder' = NoStore
  /\ handed' = (IF op[s].result = "descriptor" THEN handed \cup {op[s].gen} ELSE handed)
  /\ op' = [op EXCEPT ![s] = Idle]
  /\ streamer' = NoStore /\ iter' = "none" /\ pull' = "idle" /\ intervals' = <<>>
  /\ UNCHANGED <<closing, response, holdings, signal, decoder, files, muts, aborted, budgets>>

-----------------------------------------------------------------------------
(* Installing: source, spans, payload, marker *)

\* resolveSource and makeSourceLease.
ResolveSource(s) ==
  /\ At(s, "resolving")
  /\ IF aborted[s] THEN Fail(s) /\ UNCHANGED <<streamVars, streamer>>
     ELSE Moves(s, "admitting") /\ Resolve(Source) /\ streamer' = s
  /\ UNCHANGED <<files, muts, holder, intervals, aborted, handed, budgets>>

\* uniqueGeneration: a name no file has.
NewGeneration(s) ==
  LET fresh == {g \in Gen : ~payload[g].there}
  IN /\ At(s, "admitting")
     /\ \/ /\ NoFault /\ fresh # {} /\ intervals' = <<>>
           /\ op' = [op EXCEPT ![s].pc = "createData", ![s].gen = Min(fresh)]
        \/ /\ IF fresh = {} THEN NoFault ELSE Fault
           /\ Fail(s) /\ UNCHANGED intervals
     /\ UNCHANGED <<streamVars, files, muts, holder, streamer, aborted, handed, left, crashes>>

\* SourceLease.next: one pull at a time, and none of a closed lease.
PullSpan(s) ==
  /\ At(s, "streaming") /\ pull = "idle" /\ Pull
  /\ UNCHANGED <<files, muts, holder, op, streamer, intervals, aborted, handed, budgets>>

\* The deadline of a pull: the fiber is interrupted, and waited for.
SpanLate(s) ==
  /\ At(s, "streaming") /\ pull = "running" /\ Fault /\ Fail(s)
  /\ UNCHANGED <<streamVars, files, muts, holder, streamer, intervals, aborted, handed, left, crashes>>

\* processSpan up to its write: the signal, the bounds, the quota.
TakeSpan(s) ==
  /\ At(s, "streaming") /\ pull = "span" /\ pull' = "idle"
  /\ \/ /\ NoFault /\ IF aborted[s] THEN Fail(s) ELSE Moves(s, "writeData")
     \/ Fault /\ Fail(s)
  /\ UNCHANGED <<iter, closing, response, holdings, signal, decoder, files, muts, holder,
                 streamer, intervals, aborted, handed, left, crashes>>

\* Mutant: the digest of the spans is not compared.
EndOfSpansUnhashed(s) ==
  /\ At(s, "streaming") /\ iter = "closed"
  /\ IF pull = "done" /\ ~aborted[s] THEN Moves(s, "closeData") ELSE Fail(s)
  /\ UNCHANGED <<streamVars, files, muts, holder, streamer, intervals, aborted, handed, budgets>>

\* next() answered that the stream ended, or rejected; both after its close.
\* The index has to be valid for the bytes written, and these to hash to the
\* identity.
EndOfSpans(s) ==
  /\ At(s, "streaming") /\ iter = "closed"
  /\ IF /\ pull = "done" /\ ~aborted[s]
        /\ ValidIndex(intervals, Len(payload[op[s].gen].data)) /\ Complete(op[s].gen)
       THEN Moves(s, "closeData") ELSE Fail(s)
  /\ UNCHANGED <<streamVars, files, muts, holder, streamer, intervals, aborted, handed, budgets>>

\* Mutant: the name of a file that is being created is not reserved.
OwnsNothing(s) == op[s].owns

\* A file is owned before its creation is asked for.
OwnsAt(s) == op[s].owns \cup (CASE At(s, "createData") -> {"data"}
                                [] At(s, "createMarker") -> {"marker"} [] OTHER -> {})

\* The mutation a step consists of is asked of the backend.
Begin(s) ==
  /\ op[s].pc \in Mutation /\ ~Waiting(s) /\ (aborted[s] => op[s].pc \in Removal)
  /\ muts' = muts \cup {[by |-> s, op |-> op[s].pc, gen |-> op[s].gen]}
  /\ op' = [op EXCEPT ![s].owns = OwnsAt(s)]
  /\ UNCHANGED <<streamVars, files, holder, streamer, intervals, aborted, handed, budgets>>

\* It is not begun: the operation was aborted, or the quota is used up.
Refuse(s) ==
  /\ op[s].pc \in Mutation \ Removal /\ ~Waiting(s)
  /\ (aborted[s] /\ NoFault) \/ (At(s, "createMarker") /\ Fault)
  /\ Fail(s)
  /\ UNCHANGED <<streamVars, files, muts, holder, streamer, intervals, aborted, handed, left, crashes>>

\* The step after a mutation, or after the source and the writers are closed.
After(s) ==
  CASE At(s, "draining") /\ "marker" \in op[s].owns -> "removeMarker"
    [] At(s, "removeMarker") \/ (At(s, "draining") /\ "marker" \notin op[s].owns) ->
         IF "data" \in op[s].owns THEN "removeData" ELSE "releasing"
    [] At(s, "removeData") -> "releasing"
    [] At(s, "createData") \/ At(s, "writeData") -> "streaming"
    [] At(s, "closeData") -> "createMarker"
    [] At(s, "createMarker") -> "writeMarker"
    [] At(s, "writeMarker") -> "closeMarker"
    [] OTHER -> "checking"

\* The mutation takes effect; one that was aborted meanwhile is a cancellation.
Lands(s) ==
  \E m \in muts :
    /\ m.by = s /\ muts' = muts \ {m}
    /\ \E good \in BOOLEAN : /\ good \/ m.op = "writeData"
                             /\ IF good THEN NoFault ELSE Fault
                             /\ AfterMutation(m, good)
    /\ IF aborted[s] /\ m.op \notin Removal
         THEN Fail(s) /\ UNCHANGED intervals
         ELSE /\ Moves(s, After(s))
              /\ intervals' = IF m.op = "writeData" THEN Coalesce(intervals, span) ELSE intervals
    /\ UNCHANGED <<streamVars, holder, streamer, aborted, handed, left, crashes>>

\* Mutant: an abort does not wait for the mutation it interrupts.
LandsNever(s) ==
  /\ Waiting(s) /\ aborted[s] /\ op[s].pc \notin Removal /\ Fail(s)
  /\ UNCHANGED <<streamVars, files, muts, holder, streamer, intervals, aborted, handed, budgets>>

\* The mutation fails, with its effect or without.  A removal that fails ends
\* the cleanup.
LandsFailed(s) ==
  \E m \in muts :
    /\ m.by = s /\ muts' = muts \ {m} /\ Fault
    /\ UNCHANGED files \/ AfterMutation(m, TRUE)
    /\ IF m.op \in Removal THEN Answers(s, "failed") ELSE Fail(s)
    /\ UNCHANGED <<streamVars, holder, streamer, intervals, aborted, handed, left, crashes>>

\* The marker is whole: the payload's size once more, and the commit.
Check(s) ==
  /\ At(s, "checking")
  /\ \/ /\ NoFault
        /\ IF aborted[s] THEN Fail(s)
           ELSE op' = [op EXCEPT ![s].pc = "committed", ![s].owns = {}]
     \/ Fault /\ Fail(s)
  /\ UNCHANGED <<streamVars, files, muts, holder, streamer, intervals, aborted, handed, left, crashes>>

\* An operation aborted after its commit fails, and leaves the commit in place.
Finish(s) ==
  /\ At(s, "committed") /\ Answers(s, IF aborted[s] THEN "failed" ELSE "descriptor")
  /\ UNCHANGED <<streamVars, files, muts, holder, streamer, intervals, aborted, handed, budgets>>

-----------------------------------------------------------------------------
(* A failed installation: source, writers, marker, payload, lock *)

\* SourceLease.close: the pending pull is aborted and awaited, then return().
AbortSource(s) ==
  /\ At(s, "draining") /\ Streams(s) /\ ~signal /\ signal' = TRUE
  /\ UNCHANGED <<iter, closing, pull, response, holdings, decoder, files, muts, holder, op,
                 streamer, intervals, aborted, handed, budgets>>

\* Mutant: return() is not called on an iterator that has just answered.
ReturnSourceIdle(s) ==
  /\ At(s, "draining") /\ Streams(s) /\ signal /\ pull = "idle" /\ Return
  /\ UNCHANGED <<files, muts, holder, op, streamer, intervals, aborted, handed, budgets>>

ReturnSource(s) ==
  /\ At(s, "draining") /\ Streams(s) /\ signal /\ Return
  /\ UNCHANGED <<files, muts, holder, op, streamer, intervals, aborted, handed, budgets>>

CleanUp(s) ==
  /\ At(s, "draining") /\ ~Streams(s) /\ Moves(s, After(s))
  /\ UNCHANGED <<streamVars, files, muts, holder, streamer, intervals, aborted, handed, budgets>>

-----------------------------------------------------------------------------
Stream == StreamSteps /\ UNCHANGED <<files, muts, holder, op, streamer, intervals, aborted, handed, budgets>>

\* Steps that follow without a caller: the operation's own and the platform's.
Progress(s) ==
  \/ Grant(s) \/ Withdraw(s) \/ Look(s) \/ ReadMarker(s) \/ Verify(s) \/ Release(s)
  \/ ResolveSource(s) \/ NewGeneration(s) \/ PullSpan(s) \/ SpanLate(s) \/ TakeSpan(s)
  \/ EndOfSpans(s) \/ Begin(s) \/ Refuse(s) \/ Lands(s) \/ LandsFailed(s) \/ Check(s)
  \/ Finish(s) \/ AbortSource(s) \/ ReturnSource(s) \/ CleanUp(s)

Next == Stream \/ \E s \in Stores : Start(s) \/ Abort(s) \/ Crash(s) \/ Progress(s)

Spec == Init /\ [][Next]_vars /\ WF_vars(Stream) /\ \A s \in Stores : WF_vars(Progress(s))

-----------------------------------------------------------------------------
\* Types of the state (the stream's, the files', the operations').
TypeOK ==
  /\ active \in Sources
  /\ StreamTypeOK
  /\ marker \in [state : {"none", "partial", "valid"}, gen : 0..Generations, index : Seq(Interval)]
  /\ DOMAIN payload = Gen
  /\ \A g \in Gen : payload[g].there \in BOOLEAN /\ payload[g].data \in Seq(0..Frames)
  /\ muts \subseteq [by : Stores, op : Mutation, gen : Gen]
  /\ holder \in Stores \cup {NoStore} /\ streamer \in Stores \cup {NoStore}
  /\ op \in [Stores -> [kind : {"none", "open", "install", "inspect"},
                        pc : {"idle", "locking"} \cup Program \cup Mutation,
                        gen : 0..Generations, owns : SUBSET {"data", "marker"},
                        result : {"none", "descriptor", "missing", "present", "corrupt", "failed"}]]
  /\ intervals \in Seq(Interval) /\ handed \subseteq Gen
  /\ aborted \in [Stores -> BOOLEAN]
  /\ left \in 0..Operations /\ faults \in 0..Faults /\ crashes \in 0..Crashes

\* sparse-store.ts:1111: a whole marker names a payload that holds exactly the
\* source's frames and carries the index derived from its manifest, at every
\* instant and whatever crashes; and what was handed out stays committed.
PublishedComplete ==
  /\ marker.state = "valid" => Complete(marker.gen) /\ marker.index = Index
  /\ \A g \in handed : marker.state = "valid" /\ marker.gen = g

\* sparse-pcm.ts:236: every window of the timeline that is read through a
\* committed index and its payload is the source's PCM, silence included.
WindowsExact ==
  marker.state = "valid" =>
    \A start \in Frame : \A count \in 1..(Frames - start) :
      ReadWindow(marker.index, payload[marker.gen].data, start, count) = Canonical(active, start, count)

\* What is committed is the source: its payload, its index, and what is read.
CommittedExact == PublishedComplete /\ WindowsExact

\* sparse-store.ts:210: nothing of an operation outlives its lock: no physical
\* mutation that may still land, and no stream with its permit and epoch.
LockCovers ==
  /\ \A m \in muts : holder = m.by /\ ~At(m.by, "idle")
  /\ iter \in {"open", "closing"} => holder = streamer
  /\ StreamHeld
  /\ \A s \in Stores : op[s].pc \in Program \cup Mutation => holder = s

\* sparse-store.ts:1010: unless a tab crashed or storage failed, a free lock
\* leaves either the committed source or nothing, and nobody is told that the
\* source is corrupt.
CleanWhenSettled ==
  crashes = Crashes /\ faults = Faults =>
    /\ holder = NoStore => /\ marker.state # "partial"
                           /\ \A g \in Gen : payload[g].there => marker.gen = g
    /\ \A s \in Stores : op[s].result # "corrupt"

\* sparse-store.ts:627: every operation settles, whatever fails or is aborted,
\* so that close() of its store returns.
OperationsSettle == \A s \in Stores : ~At(s, "idle") ~> At(s, "idle")
=============================================================================
