---------------------------- MODULE EngineSession ----------------------------
(***************************************************************************)
(* One session of session.ts: the opening with its cleanup stack, the      *)
(* queue of lifecycle calls, pump failures and close.  Platform promises   *)
(* (AudioContext, feed, pump) settle whenever they like; the context runs  *)
(* its suspend and resume requests in the order they were made.            *)
(***************************************************************************)
EXTENDS Naturals, Sequences, SequencesExt

CONSTANTS Calls,          \* bound: lifecycle calls the owner makes, numbered as made
          Configurations  \* <<sparse, console>> of the sessions considered

\* A session is sparse or not, and attaches a console or not.
ASSUME SessionAssumption == Calls \in Nat /\ Configurations \subseteq BOOLEAN \X BOOLEAN

Call == 1..Calls

VARIABLES
  sparse,    \* the session owns a sparse store and its backend
  todo,      \* stages of the opening that are left; its head is awaited
  res,       \* per resource: none, open, closed
  cleanup,   \* the cleanup stack
  attaching, \* attachSessionControl has been called and has not settled
  aborted,   \* abort.signal.aborted
  forwarded, \* the caller's signal is still listened to
  state,     \* opening, ready, playing, paused, closed; refused, rejected
  drained,   \* reverseCleanup has returned
  failure,   \* pump.failure: none, reported, ignored, refusing, closing, told
  op,        \* per call: kind, step, the awaited promise, what seek found
  queue,     \* the promise chain tail: calls in the order they run
  pendingSeeks,
  ctx, ctxq  \* the AudioContext's state and its control messages

opening == <<sparse, todo, attaching, forwarded>>
stack   == <<res, cleanup, drained>>
context == <<ctx, ctxq>>
calls   == <<op, queue, pendingSeeks>>
vars == <<sparse, todo, res, cleanup, attaching, aborted, forwarded, state,
          drained, failure, op, queue, pendingSeeks, ctx, ctxq>>

Kind == {"play", "pause", "seek"}
Order == <<"backend", "store", "lease", "engine", "feed", "pump", "output", "control", "observers">>
Resource == {Order[i] : i \in 1..Len(Order)}

\* The sources of a dense session: a lease from the caller's store or a new one,
\* which nobody has to close.
DenseSources == <<"lease">>

\* Those of a sparse session, each in one scope with its finalizer; the signal is
\* looked at once more behind the lease.
SparseSources == <<"backend", "store", "lease", "check">>

\* What the opening does, in order.
Plan(isSparse, console) ==
  <<"scratch">> \o (IF isSparse THEN SparseSources ELSE DenseSources)
  \o <<"engine", "feed", "pump", "prefill", "output">>
  \o (IF console THEN <<"control">> ELSE <<>>) \o <<"handover">>

\* Stages that consult the signal: an aborted opening does not get past them,
\* but for a scratch boot that the caller supplied.
Signalled == {"scratch", "check", "prefill", "output", "control", "handover"}

Idle == [kind |-> "play", step |-> "idle", wait |-> "none", was |-> FALSE]

Init ==
  /\ \E f \in Configurations : sparse = f[1] /\ todo = Plan(f[1], f[2])
  /\ res = [r \in Resource |-> "none"] /\ cleanup = <<>> /\ drained = FALSE
  /\ attaching = FALSE /\ aborted = FALSE /\ forwarded = TRUE /\ state = "opening"
  /\ failure = "none"
  /\ op = [c \in Call |-> Idle] /\ queue = <<>> /\ pendingSeeks = 0
  /\ ctx = "suspended" /\ ctxq = <<>>

-----------------------------------------------------------------------------
(* The opening *)

Stage == IF todo = <<>> THEN "none" ELSE Head(todo)
Opened == state \in {"ready", "playing", "paused", "closed"}
Closed == state = "closed"

\* reverseCleanup has been called and runs until the stack is empty.
Draining == state \in {"closed", "refused"} /\ ~drained

\* A stage settles and, if it made a resource, pushes its close.
Acquire ==
  /\ state = "opening" /\ Stage \in Resource \ {"control"}
  /\ Stage \in Signalled => ~aborted
  /\ res' = [res EXCEPT ![Stage] = "open"] /\ cleanup' = Append(cleanup, Stage)
  /\ todo' = Tail(todo)
  /\ attaching' = (todo' # <<>> /\ Head(todo') = "control")
  /\ UNCHANGED <<sparse, forwarded, drained, aborted, state, failure, calls, context>>

\* A scratch boot of the caller's own does not hear the signal.
Proceed ==
  /\ state = "opening" /\ Stage \in {"scratch", "check", "prefill"}
  /\ aborted => Stage = "scratch"
  /\ todo' = Tail(todo)
  /\ UNCHANGED <<sparse, attaching, forwarded, stack, aborted, state, failure, calls, context>>

\* Mutant: abortable without its discard.
ControlArrivesKept ==
  /\ attaching /\ attaching' = FALSE
  /\ res' = [res EXCEPT !["control"] = "open"]
  /\ IF state = "opening" /\ ~aborted
       THEN cleanup' = Append(cleanup, "control") /\ todo' = Tail(todo)
       ELSE UNCHANGED <<cleanup, todo>>
  /\ UNCHANGED <<sparse, forwarded, drained, aborted, state, failure, calls, context>>

\* attachSessionControl settles; abortable discards it when the opening has
\* been aborted in the meantime.
ControlArrives ==
  /\ attaching /\ attaching' = FALSE
  /\ IF state = "opening" /\ ~aborted
       THEN /\ res' = [res EXCEPT !["control"] = "open"]
            /\ cleanup' = Append(cleanup, "control") /\ todo' = Tail(todo)
       ELSE /\ res' = [res EXCEPT !["control"] = "closed"]
            /\ UNCHANGED <<cleanup, todo>>
  /\ UNCHANGED <<sparse, forwarded, drained, aborted, state, failure, calls, context>>

\* The attachment rejects: the awaiting opening, if any, takes its catch.
ControlFails ==
  /\ attaching /\ attaching' = FALSE
  /\ state' = (IF state = "opening" THEN "refused" ELSE state)
  /\ aborted' = TRUE /\ forwarded' = FALSE
  /\ UNCHANGED <<sparse, todo, stack, failure, calls, context>>

\* A stage rejects or throws, by itself or because of the signal.
Refuse ==
  /\ state = "opening"
  /\ Stage \in {"check", "handover"} => aborted
  /\ Stage = "control" => aborted
  /\ state' = "refused" /\ aborted' = TRUE /\ forwarded' = FALSE
  /\ UNCHANGED <<sparse, todo, attaching, stack, failure, calls, context>>

\* Mutant: no throwIfAborted after the control attached.
HandOverUnchecked ==
  /\ state = "opening" /\ Stage = "handover"
  /\ forwarded' = FALSE /\ state' = "ready" /\ todo' = <<>>
  /\ res' = [res EXCEPT !["observers"] = "open"]
  /\ cleanup' = Append(cleanup, "observers")
  /\ UNCHANGED <<sparse, attaching, drained, aborted, failure, calls, context>>

\* The last synchronous stretch: check the signal, stop listening, hand out.
HandOver ==
  /\ state = "opening" /\ Stage = "handover" /\ ~aborted
  /\ forwarded' = FALSE /\ state' = "ready" /\ todo' = <<>>
  /\ res' = [res EXCEPT !["observers"] = "open"]
  /\ cleanup' = Append(cleanup, "observers")
  /\ UNCHANGED <<sparse, attaching, drained, aborted, failure, calls, context>>

\* An observer of a ring throws when it is made, behind that check.
HandOverFails ==
  /\ state = "opening" /\ Stage = "handover" /\ ~aborted
  /\ forwarded' = FALSE /\ state' = "refused" /\ todo' = <<>> /\ aborted' = TRUE
  /\ res' = [res EXCEPT !["observers"] = "open"]
  /\ cleanup' = Append(cleanup, "observers")
  /\ UNCHANGED <<sparse, attaching, drained, failure, calls, context>>

CallerAborts ==
  /\ forwarded /\ ~aborted /\ aborted' = TRUE
  /\ UNCHANGED <<opening, stack, state, failure, calls, context>>

-----------------------------------------------------------------------------
(* reverseCleanup: in reverse order, awaiting each close, past any failure *)

\* A close settles, by success or failure; the engine takes its context along.
CloseNext ==
  /\ Draining /\ cleanup # <<>>
  /\ res' = [res EXCEPT ![Last(cleanup)] = "closed"] /\ cleanup' = Front(cleanup)
  /\ IF Last(cleanup) = "engine" THEN ctx' = "closed" /\ ctxq' = <<>> ELSE UNCHANGED context
  /\ UNCHANGED <<opening, drained, aborted, state, failure, calls>>

CleanedUp ==
  /\ Draining /\ cleanup = <<>> /\ drained' = TRUE
  /\ state' = (IF state = "refused" THEN "rejected" ELSE state)
  /\ UNCHANGED <<opening, res, cleanup, aborted, failure, calls, context>>

-----------------------------------------------------------------------------
(* Closing and pump failures *)

\* abort.abort rejects every abortable that is still pending.
AbortWaits(o) == [c \in Call |-> IF o[c].wait = "pending" THEN [o[c] EXCEPT !.wait = "fail"] ELSE o[c]]

\* The synchronous part of close; o is what it does to the calls besides.
Shut(o) ==
  /\ state' = "closed" /\ aborted' = TRUE /\ op' = AbortWaits(o)
  /\ res' = [res EXCEPT !["control"] = IF @ = "open" THEN "closed" ELSE @]
  /\ UNCHANGED <<cleanup, drained>>

Close ==
  /\ Opened /\ ~Closed /\ Shut(op)
  /\ UNCHANGED <<opening, failure, queue, pendingSeeks, context>>

\* The Worker client reports a failure that its own close did not cause.
PumpFails ==
  /\ failure = "none" /\ res["pump"] = "open" /\ failure' = "reported"
  /\ UNCHANGED <<opening, stack, aborted, state, calls, context>>

NotifyPumpFailure ==
  /\ failure = "reported"
  /\ \/ /\ aborted /\ failure' = "ignored"
        /\ UNCHANGED <<stack, aborted, state, op>>
     \/ /\ ~aborted /\ ~Opened /\ failure' = "refusing" /\ aborted' = TRUE
        /\ UNCHANGED <<stack, state, op>>
     \/ /\ ~aborted /\ Opened /\ failure' = "closing" /\ Shut(op)
  /\ UNCHANGED <<opening, queue, pendingSeeks, context>>

\* Mutant: onError does not wait for cleanup.
OnErrorAtOnce ==
  /\ failure = "closing" /\ failure' = "told"
  /\ UNCHANGED <<opening, stack, aborted, state, calls, context>>

OnError ==
  /\ failure = "closing" /\ drained /\ failure' = "told"
  /\ UNCHANGED <<opening, stack, aborted, state, calls, context>>

-----------------------------------------------------------------------------
(* Lifecycle calls *)

\* The context was asked for a state on behalf of c.
Request(to, c) == ctxq' = Append(ctxq, <<to, c>>) /\ UNCHANGED ctx

\* abortable: an aborted signal fails even a promise that has settled.
Awaited == IF aborted THEN "fail" ELSE "pending"
At(c, step) == op' = [op EXCEPT ![c].step = step, ![c].wait = Awaited]

\* Mutant: every call counts a seek down.
SettleAny(c, step) ==
  /\ op' = [op EXCEPT ![c].step = step, ![c].wait = "none"]
  /\ queue' = Tail(queue)
  /\ pendingSeeks' = pendingSeeks - 1

\* The call that runs ends.
Settle(c, step) ==
  /\ op' = [op EXCEPT ![c].step = step, ![c].wait = "none"]
  /\ queue' = Tail(queue)
  /\ pendingSeeks' = IF op[c].kind = "seek" THEN pendingSeeks - 1 ELSE pendingSeeks

\* Mutant: play does not look at pendingSeeks.
InvokeWhileSeeking(c, kind) ==
  /\ Opened /\ op[c].step = "idle" /\ \A d \in 1..(c - 1) : op[d].step # "idle"
  /\ LET refused == Closed /\ kind # "pause" IN
     /\ op' = [op EXCEPT ![c].kind = kind, ![c].step = IF refused THEN "rejected" ELSE "queued",
                         ![c].wait = IF ~refused /\ kind = "play" THEN "asked" ELSE "none"]
     /\ queue' = IF refused THEN queue ELSE Append(queue, c)
     /\ pendingSeeks' = IF ~refused /\ kind = "seek" THEN pendingSeeks + 1 ELSE pendingSeeks
     /\ IF ~refused /\ kind = "play" THEN Request("running", c) ELSE UNCHANGED context
  /\ UNCHANGED <<opening, stack, aborted, state, failure>>

Invoke(c, kind) ==
  /\ Opened /\ op[c].step = "idle" /\ \A d \in 1..(c - 1) : op[d].step # "idle"
  /\ LET refused == (Closed /\ kind # "pause") \/ (kind = "play" /\ pendingSeeks # 0) IN
     /\ op' = [op EXCEPT ![c].kind = kind, ![c].step = IF refused THEN "rejected" ELSE "queued",
                         ![c].wait = IF ~refused /\ kind = "play" THEN "asked" ELSE "none"]
     /\ queue' = IF refused THEN queue ELSE Append(queue, c)
     /\ pendingSeeks' = IF ~refused /\ kind = "seek" THEN pendingSeeks + 1 ELSE pendingSeeks
     /\ IF ~refused /\ kind = "play" THEN Request("running", c) ELSE UNCHANGED context
  /\ UNCHANGED <<opening, stack, aborted, state, failure>>

\* The context takes its next control message and settles its promise.
ContextSteps ==
  /\ ctxq # <<>> /\ ctx # "closed"
  /\ ctx' = Head(ctxq)[1] /\ ctxq' = Tail(ctxq)
  /\ op' = [op EXCEPT ![Head(ctxq)[2]].wait =
              CASE @ = "asked" -> "settled" [] @ = "pending" -> "value" [] OTHER -> @]
  /\ UNCHANGED <<opening, stack, aborted, state, failure, queue, pendingSeeks>>

\* feed.ready, pump.seekFrames, feed.prepareSeek or the prefill settles.
Prepared(c) ==
  /\ op[c].wait = "pending" /\ op[c].step \in {"ready", "pump", "prefill"}
  /\ op' = [op EXCEPT ![c].wait = "value"]
  /\ UNCHANGED <<opening, stack, aborted, state, failure, queue, pendingSeeks, context>>

\* The control messages without that of c, which has one at most.
Asked(c) == {i \in 1..Len(ctxq) : ctxq[i][2] = c}
Withdraw(c) == IF Asked(c) = {} THEN ctxq ELSE RemoveAt(ctxq, CHOOSE i \in Asked(c) : TRUE)

\* A promise rejects, and with it the request it stands for; or seek's deadline
\* passes and the request remains.  The pump's own failure rejects its requests
\* only after pump.failure has been observed.
WaitFails(c) ==
  /\ op[c].wait \in {"pending", "asked"} /\ (op[c].step = "pump" => failure # "reported")
  /\ op' = [op EXCEPT ![c].wait = IF @ = "asked" THEN "broken" ELSE "fail"]
  /\ ctxq' = IF op[c].kind = "seek" THEN ctxq ELSE Withdraw(c)
  /\ UNCHANGED <<opening, stack, aborted, state, failure, queue, pendingSeeks, ctx>>

Runs(c) == queue # <<>> /\ Head(queue) = c

StartPlay(c) ==
  /\ Runs(c) /\ op[c].kind = "play" /\ op[c].step = "queued"
  /\ op' = [op EXCEPT ![c].step = "resume",
                      ![c].wait = CASE aborted \/ @ = "broken" -> "fail"
                                    [] ~aborted /\ @ = "settled" -> "value" [] OTHER -> "pending"]
  /\ UNCHANGED <<opening, stack, aborted, state, failure, queue, pendingSeeks, context>>

StartPause(c) ==
  /\ Runs(c) /\ op[c].kind = "pause" /\ op[c].step = "queued"
  /\ IF Closed THEN Settle(c, "rejected") /\ UNCHANGED context
               ELSE Request("suspended", c) /\ At(c, "suspend") /\ UNCHANGED <<queue, pendingSeeks>>
  /\ UNCHANGED <<opening, stack, aborted, state, failure>>

StartSeek(c) ==
  /\ Runs(c) /\ op[c].kind = "seek" /\ op[c].step = "queued"
  /\ \/ Closed /\ Settle(c, "rejected") /\ UNCHANGED context
     \/ /\ ~Closed /\ UNCHANGED <<queue, pendingSeeks>>
        /\ op' = [op EXCEPT ![c].was = (ctx = "running"), ![c].wait = Awaited,
                            ![c].step = IF ctx = "running" THEN "suspend" ELSE "ready"]
        /\ IF ctx = "running" THEN Request("suspended", c) ELSE UNCHANGED context
  /\ UNCHANGED <<opening, stack, aborted, state, failure>>

ContinuePlay(c) ==
  /\ Runs(c) /\ op[c].kind = "play" /\ op[c].wait = "value"
  /\ \/ /\ op[c].step = "resume" /\ ctx # "running"
        /\ Request("running", c) /\ At(c, "again") /\ UNCHANGED <<queue, pendingSeeks, state>>
     \/ /\ op[c].step = "again" \/ (op[c].step = "resume" /\ ctx = "running")
        /\ At(c, "ready") /\ UNCHANGED <<queue, pendingSeeks, state, context>>
     \/ /\ op[c].step = "ready" /\ UNCHANGED context
        /\ Settle(c, IF Closed THEN "rejected" ELSE "fulfilled")
        /\ state' = IF Closed THEN state ELSE "playing"
  /\ UNCHANGED <<opening, stack, aborted, failure>>

ContinuePause(c) ==
  /\ Runs(c) /\ op[c].kind = "pause" /\ op[c].wait = "value"
  /\ Settle(c, IF Closed THEN "rejected" ELSE "fulfilled")
  /\ state' = IF Closed THEN state ELSE "paused"
  /\ UNCHANGED <<opening, stack, aborted, failure, context>>

CallFails(c) ==
  /\ Runs(c) /\ op[c].kind # "seek" /\ op[c].wait = "fail"
  /\ Settle(c, "rejected")
  /\ UNCHANGED <<opening, stack, aborted, state, failure, context>>

\* "pump" stands for pump.seekFrames and feed.prepareSeek, awaited in turn.
Following == [suspend |-> "ready", ready |-> "pump", pump |-> "prefill"]

\* After an await seek goes on to the next one, if the context obeyed.
SeekAdvances(c) ==
  LET s == op[c].step IN
  /\ Runs(c) /\ op[c].kind = "seek" /\ op[c].wait = "value"
  /\ \/ /\ s \in DOMAIN Following /\ (s = "suspend" => ~Closed /\ ctx = "suspended")
        /\ At(c, Following[s]) /\ UNCHANGED <<queue, pendingSeeks, state, context>>
     \/ /\ s = "prefill" /\ ~Closed /\ op[c].was
        /\ Request("running", c) /\ At(c, "restore") /\ UNCHANGED <<queue, pendingSeeks, state>>
     \/ /\ s = "prefill" /\ ~Closed /\ ~op[c].was
        /\ Settle(c, "fulfilled") /\ UNCHANGED <<state, context>>
     \/ /\ s = "restore" /\ ~Closed /\ ctx = "running"
        /\ Settle(c, "fulfilled") /\ state' = "playing" /\ UNCHANGED context
  /\ UNCHANGED <<opening, stack, aborted, failure>>

\* What seek's catch sees: a rejection, a close during the await, or a context
\* that is not in the state it was asked for.
SeekBroken(c) ==
  /\ op[c].kind = "seek"
  /\ \/ op[c].wait = "fail"
     \/ /\ op[c].wait = "value" /\ op[c].step \in {"suspend", "prefill", "restore"}
        /\ \/ Closed
           \/ op[c].step = "suspend" /\ ctx # "suspended"
           \/ op[c].step = "restore" /\ ctx # "running"

SeekFails(c) ==
  /\ Runs(c) /\ SeekBroken(c)
  /\ IF Closed
       THEN Settle(c, "rejected") /\ UNCHANGED <<stack, aborted, state>>
       ELSE /\ Shut([op EXCEPT ![c].step = "closing", ![c].wait = "none"])
            /\ UNCHANGED <<queue, pendingSeeks>>
  /\ UNCHANGED <<opening, failure, context>>

SeekClosed(c) ==
  /\ op[c].step = "closing" /\ drained /\ Settle(c, "rejected")
  /\ UNCHANGED <<opening, stack, aborted, state, failure, context>>

-----------------------------------------------------------------------------
Advance(c) == \/ StartPlay(c) \/ StartPause(c) \/ StartSeek(c)
              \/ ContinuePlay(c) \/ ContinuePause(c) \/ CallFails(c)
              \/ SeekAdvances(c) \/ SeekFails(c) \/ SeekClosed(c)

Cleaning == CloseNext \/ CleanedUp

\* Everything has ended: the owner has no call left and nothing is pending.
Finished == /\ state \in {"closed", "rejected"} /\ drained /\ ~attaching
            /\ failure \notin {"reported", "closing"}
            /\ \A c \in Call : Closed => op[c].step \in {"fulfilled", "rejected"}
            /\ UNCHANGED vars

Next ==
  \/ Acquire \/ Proceed \/ ControlArrives \/ ControlFails \/ Refuse \/ HandOver \/ HandOverFails \/ CallerAborts
  \/ Cleaning \/ Close \/ PumpFails \/ NotifyPumpFailure \/ OnError \/ ContextSteps \/ Finished
  \/ \E c \in Call : (\E k \in Kind : Invoke(c, k)) \/ Prepared(c) \/ WaitFails(c) \/ Advance(c)

\* The program's own continuations run, and closes settle.  No promise of the
\* platform, the feed or the pump is assumed to.
Fairness == /\ WF_vars(Cleaning) /\ WF_vars(NotifyPumpFailure) /\ WF_vars(OnError)
            /\ \A c \in Call : WF_vars(Advance(c))

Spec == Init /\ [][Next]_vars /\ Fairness

-----------------------------------------------------------------------------
(* Properties *)

Step == {"idle", "queued", "resume", "again", "ready", "suspend", "pump", "prefill",
         "restore", "closing", "fulfilled", "rejected"}

\* The type of every variable of one session.
TypeOK ==
  /\ sparse \in BOOLEAN /\ attaching \in BOOLEAN /\ aborted \in BOOLEAN
  /\ forwarded \in BOOLEAN /\ drained \in BOOLEAN
  /\ todo \in Seq(Resource \cup Signalled)
  /\ res \in [Resource -> {"none", "open", "closed"}]
  /\ cleanup \in Seq(Resource)
  /\ state \in {"opening", "ready", "playing", "paused", "closed", "refused", "rejected"}
  /\ failure \in {"none", "reported", "ignored", "refusing", "closing", "told"}
  /\ op \in [Call -> [kind : Kind, step : Step, was : BOOLEAN,
                      wait : {"none", "asked", "settled", "broken", "pending", "value", "fail"}]]
  /\ queue \in Seq(Call) /\ pendingSeeks \in 0..Len(queue)
  /\ ctx \in {"suspended", "running", "closed"} /\ ctxq \in Seq({"suspended", "running"} \X Call)

\* session.ts:441: whatever the opening or the session holds is on the cleanup
\* stack, so the stack emptied means nothing is held.
StackCovers == \A r \in Resource : res[r] = "open" => Contains(cleanup, r)

\* session.ts:1029: a resource outlives every resource opened after it, which
\* uses it: the pump never runs over a closed feed, nor the feed over a closed
\* engine, nor anything over a closed lease.  Only the control is closed early.
ClosedInReverse ==
  \A i, j \in 1..Len(cleanup) :
    i < j /\ res[cleanup[j]] = "open" => cleanup[i] = "control" \/ res[cleanup[i]] = "open"

\* session.ts:284: nothing survives an opening that rejected or a session that
\* finished closing, the control that attached too late included.
NothingLeft == drained => \A r \in Resource : res[r] # "open"

CleanupExact == StackCovers /\ ClosedInReverse /\ NothingLeft

\* session.ts:394, README.md:482: while a seek prepares, the context is
\* suspended and nobody has asked it to resume.
SeekPreparesSuspended ==
  \A c \in Call : op[c].kind = "seek" /\ op[c].step \in {"ready", "pump", "prefill"} /\ ~Closed
    => ctx = "suspended" /\ \A i \in 1..Len(ctxq) : ctxq[i][1] # "running"

\* session.ts:372: play resumes before it is queued, behind pauses that will
\* suspend; once every call has ended well, state and context agree.
QuietAgrees ==
  state \in {"ready", "playing", "paused"}
    /\ (\A c \in Call : op[c].step \in {"idle", "fulfilled"})
  => (ctx = "running" <=> state = "playing")

\* The context does what the session's state and its pending seek say.
ContextAgrees == SeekPreparesSuspended /\ QuietAgrees

\* session.ts:180, :423, README.md:487: the promise to the caller, with its
\* liveness: closing ends, rejects what is pending and then tells onError.
Held == \E r \in Resource : res[r] = "open"
Phase == CASE state \in {"opening", "refused"} -> "opening"
           [] state \in {"ready", "playing", "paused"} -> "open"
           [] state = "rejected" -> "refused"
           [] OTHER -> IF drained THEN "closed" ELSE "closing"
Answer == [c \in Call |-> CASE op[c].step = "idle" -> "none"
                            [] op[c].step \in {"fulfilled", "rejected"} -> op[c].step
                            [] OTHER -> "pending"]
Promise == INSTANCE SessionPromise WITH
  phase <- Phase, held <- Held, answer <- Answer, told <- (failure = "told"),
  cause <- IF ~Closed THEN "none" ELSE IF failure \in {"closing", "told"} THEN "failure" ELSE "owner"
PromiseKept == Promise!Spec

\* session.ts:274, :287, :443: an opening that was aborted hands nothing out,
\* and a closed session stays closed.
NeverOpenedAborted == [][/\ aborted /\ state = "opening" => state' \in {"opening", "refused"}
                         /\ Closed => state' = "closed"]_vars
=============================================================================
