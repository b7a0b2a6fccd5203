------------------------------ MODULE StemStore ------------------------------
(***************************************************************************)
(* The verified PCM store (src/src/stems/store.ts) as several tabs see it. *)
(* Every opener is one VerifiedStemStore in its own tab making one         *)
(* openSession call; all of them share one OPFS folder: final files, their *)
(* own staging files, the index, and the Web Locks that guard them.        *)
(*                                                                         *)
(* A task <<o, s>> is the #ensure call of opener o for stem s.  The global *)
(* and the folder lock of one stem (or of the index) are always taken in   *)
(* the same order by #withLock, so each pair is one lock here.  A stem is  *)
(* one unit of storage, and the index file takes no space.                 *)
(***************************************************************************)
EXTENDS Naturals, FiniteSets

CONSTANTS Openers, Stems,
          Wants,          \* [Openers -> SUBSET Stems]: the declared stems
          WrongBytes,     \* openers whose declared byte counts are wrong
          Width,          \* runBounded width of one openSession
          VerifyWidth,    \* permits of the verification admission
          Quota,          \* units of origin-private storage
          Reasons,        \* what a caller may abort with (AbortError or other)
          OpenedFirst,    \* every store finished open() before this history
          LocksQueryable, \* navigator.locks.query exists and answers
          Faults,         \* the faults the environment may inject
          MaxFaults,      \* bound on the injected faults
          Offline, Free   \* the offline pin; nobody holds the lock

Tasks == {t \in Openers \X Stems : t[2] \in Wants[t[1]]}
Pins == Openers \cup {Offline}
Content == {"absent", "good", "bad"}

Phases == {"new", "sweepStaging", "sweepFinals", "ready", "opening", "open",
           "rollback", "failed", "leaked", "closed", "crashed"}

\* What a task waits for or does next; the names of pass "warm" and "cold".
Waiting == {"todo", "lock", "room", "evict", "wait", "done", "failed", "littered"}
Hashing == {"read", "hash", "drop", "unrow"}
Ingesting == {"fetch", "write", "stream", "move", "commit", "undo", "undoFinal"}
HoldsOwn == {"admit", "own"} \cup Hashing \cup Ingesting
Evicting == {"evictIndex", "evictRow"}
Steps == Waiting \cup HoldsOwn \cup Evicting
Failed == {"failed", "littered"}   \* littered: its staging file could not be removed

AllFaults == {"corrupt", "rebuild", "read", "write", "remove", "crash", "resolver"}

ASSUME StoreAssumption ==
  /\ IsFiniteSet(Openers) /\ IsFiniteSet(Stems)
  /\ Wants \in [Openers -> SUBSET Stems]
  /\ WrongBytes \subseteq Openers
  /\ Width \in Nat \ {0} /\ VerifyWidth \in Nat \ {0} /\ Quota \in Nat \ {0}
  /\ Reasons \subseteq {"AbortError", "other"}
  /\ OpenedFirst \in BOOLEAN /\ LocksQueryable \in BOOLEAN
  /\ Faults \subseteq AllFaults /\ MaxFaults \in Nat
  /\ Offline \notin Openers
  /\ Free \notin Openers \cup (Openers \X Stems)
  /\ Openers \cap (Openers \X Stems) = {}

VARIABLES final,      \* content of the blake3-<digest> file of each stem
          staging,    \* the tasks whose staging-<instance>-<digest> file exists
          rows,       \* the stems the index has a row for
          pins,       \* the pins in each row
          indexLock,  \* who holds the index lock across several steps
          stemLock,   \* the task that holds the lock of each stem
          pc, pass,   \* where each task is, and in which half of #ensure
          victims,    \* the reclaim snapshot each task still has to visit
          victim,     \* the victim whose locks the task is working under
          phase,      \* of each opener: its store, its openSession, its lease
          abort,      \* the reason the session's AbortController fired with
          live,       \* the lock names #openOnce saw, of each opener
          pinLock,    \* the openers that hold their lifetime pin lock
          demoting,   \* lease reads that removed a final, row still to demote
          faults

vars == <<final, staging, rows, pins, indexLock, stemLock, pc, pass, victims,
          victim, phase, abort, live, pinLock, demoting, faults>>

fileVars == <<final, staging>>
indexVars == <<rows, pins>>
lockVars == <<indexLock, stemLock>>
taskVars == <<pc, pass, victims, victim>>
sessionVars == <<phase, abort, live, pinLock>>
rest == <<demoting, faults>>

TypeOK ==
  /\ final \in [Stems -> Content]
  /\ staging \subseteq Tasks
  /\ rows \subseteq Stems
  /\ pins \in [Stems -> SUBSET Pins]
  /\ indexLock \in Openers \cup Tasks \cup {Free}
  /\ stemLock \in [Stems -> Tasks \cup {Free}]
  /\ pc \in [Tasks -> Steps]
  /\ pass \in [Tasks -> {"warm", "cold"}]
  /\ victims \in [Tasks -> SUBSET Stems]
  /\ victim \in [Tasks -> Stems]
  /\ phase \in [Openers -> Phases]
  /\ abort \in [Openers -> {"none", "AbortError", "other"}]
  /\ live \in [Openers -> SUBSET Stems]
  /\ pinLock \subseteq Openers
  /\ demoting \subseteq Tasks
  /\ faults \in 0..MaxFaults

-----------------------------------------------------------------------------
(* A cache some earlier sessions left behind: verified, indexed, unpinned. *)
Init ==
  /\ \E cached \in SUBSET Stems :
       /\ Cardinality(cached) <= Quota
       /\ rows = cached
       /\ final = [s \in Stems |-> IF s \in cached THEN "good" ELSE "absent"]
  /\ staging = {}
  /\ pins = [s \in Stems |-> {}]
  /\ indexLock = Free
  /\ stemLock = [s \in Stems |-> Free]
  /\ pc = [t \in Tasks |-> "todo"]
  /\ pass = [t \in Tasks |-> "warm"]
  /\ victims = [t \in Tasks |-> {}]
  /\ victim = [t \in Tasks |-> t[2]]
  /\ phase = [o \in Openers |-> IF OpenedFirst THEN "ready" ELSE "new"]
  /\ abort = [o \in Openers |-> "none"]
  /\ live = [o \in Openers |-> {}]
  /\ pinLock = {}
  /\ demoting = {}
  /\ faults = 0

Usage == Cardinality({s \in Stems : final[s] # "absent"}) + Cardinality(staging)
HasRoom == Usage < Quota
Aborted(t) == abort[t[1]] # "none"
\* Mutant: the snapshot of the held locks comes out empty.
LiveStemsUnseen == {}
LiveStems == {s \in Stems : stemLock[s] # Free}

\* The index lock is free: a critical section that is one step may run now.
IndexFree == indexLock = Free

Inject(kind) ==
  /\ kind \in Faults
  /\ faults < MaxFaults
  /\ faults' = faults + 1

Goto(t, step) == pc' = [pc EXCEPT ![t] = step]

\* The task's work rejected: runBounded aborts the siblings with that error,
\* and every Web Lock the task held is released as its callbacks unwind.
Unwind(t) ==
  /\ abort' = [abort EXCEPT ![t[1]] = IF @ = "none" THEN "other" ELSE @]
  /\ stemLock' = [s \in Stems |-> IF stemLock[s] = t THEN Free ELSE stemLock[s]]
  /\ indexLock' = IF indexLock = t THEN Free ELSE indexLock
  /\ UNCHANGED <<pass, victims, victim, phase, live, pinLock>>

Reject(t) == Goto(t, "failed") /\ Unwind(t)

-----------------------------------------------------------------------------
(* open(): one store opening the folder, all of it under the index lock. *)

OpenStore(o) ==
  /\ phase[o] = "new" /\ IndexFree
  /\ indexLock' = o
  /\ live' = [live EXCEPT ![o] = LiveStems]
  /\ phase' = [phase EXCEPT ![o] = "sweepStaging"]
  /\ UNCHANGED <<fileVars, indexVars, stemLock, taskVars, abort, pinLock, rest>>

\* Staging files whose stem was not locked in the snapshot, ...
Leftovers(o) == {t \in staging : LocksQueryable /\ t[2] \notin live[o]}
\* ... and finals without a row whose stem was not.
Orphans(o) == {s \in Stems : LocksQueryable /\ s \notin rows \cup live[o]}
Without(gone) == [s \in Stems |-> IF s \in gone THEN "absent" ELSE final[s]]

SweepStaging(o) ==
  /\ phase[o] = "sweepStaging"
  /\ staging' = staging \ Leftovers(o)
  /\ phase' = [phase EXCEPT ![o] = "sweepFinals"]
  /\ UNCHANGED <<final, indexVars, lockVars, taskVars, abort, live, pinLock, rest>>

SweepFinals(o) ==
  /\ phase[o] = "sweepFinals"
  /\ final' = Without(Orphans(o))
  /\ indexLock' = Free
  /\ phase' = [phase EXCEPT ![o] = "ready"]
  /\ UNCHANGED <<staging, indexVars, stemLock, taskVars, abort, live, pinLock, rest>>

\* A removal fails: open() rejects with the sweep half done, and may be retried.
SweepFails(o) ==
  /\ \/ /\ phase[o] = "sweepStaging" /\ UNCHANGED final
        /\ \E gone \in SUBSET Leftovers(o) : staging' = staging \ gone
     \/ /\ phase[o] = "sweepFinals" /\ UNCHANGED staging
        /\ \E gone \in SUBSET Orphans(o) : final' = Without(gone)
  /\ Inject("remove")
  /\ indexLock' = Free
  /\ phase' = [phase EXCEPT ![o] = "new"]
  /\ UNCHANGED <<indexVars, stemLock, taskVars, abort, live, pinLock, demoting>>

-----------------------------------------------------------------------------
(* openSession, its cancellation, its outcome, and the lease it returns. *)

OpenSession(o) ==
  /\ phase[o] = "ready"
  /\ phase' = [phase EXCEPT ![o] = "opening"]
  /\ pinLock' = pinLock \cup {o}
  /\ UNCHANGED <<fileVars, indexVars, lockVars, taskVars, abort, live, rest>>

Cancel(o) ==
  /\ phase[o] = "opening" /\ abort[o] = "none"
  /\ \E reason \in Reasons : abort' = [abort EXCEPT ![o] = reason]
  /\ UNCHANGED <<fileVars, indexVars, lockVars, taskVars, phase, live, pinLock, rest>>

TasksOf(o) == {t \in Tasks : t[1] = o}
Running(o) == {t \in TasksOf(o) : pc[t] \notin {"todo", "done"} \cup Failed}
AnyFailed(o) == \E t \in TasksOf(o) : pc[t] \in Failed
AllDone(o) == \A t \in TasksOf(o) : pc[t] = "done"

\* runBounded: the next unstarted stem, unless one has failed already.
StartTask(t) ==
  /\ phase[t[1]] = "opening" /\ pc[t] = "todo"
  /\ ~AnyFailed(t[1]) /\ Cardinality(Running(t[1])) < Width
  /\ Goto(t, "lock")
  /\ UNCHANGED <<fileVars, indexVars, lockVars, pass, victims, victim, sessionVars, rest>>

Settled(o) == phase[o] = "opening" /\ Running(o) = {} /\ (AnyFailed(o) \/ AllDone(o))

Grant(o) ==
  /\ Settled(o) /\ AllDone(o) /\ abort[o] = "none"
  /\ phase' = [phase EXCEPT ![o] = "open"]
  /\ UNCHANGED <<fileVars, indexVars, lockVars, taskVars, abort, live, pinLock, rest>>

Owned(o) == {s \in Stems : o \in pins[s]}

\* Mutant: the lifetime lock goes before the pins that it covers.
RefuseUnlocksFirst(o) ==
  /\ Settled(o) /\ (AnyFailed(o) \/ abort[o] # "none")
  /\ phase' = [phase EXCEPT ![o] = IF Owned(o) = {} THEN "failed" ELSE "rollback"]
  /\ pinLock' = pinLock \ {o}
  /\ UNCHANGED <<fileVars, indexVars, lockVars, taskVars, abort, live, rest>>

\* The catch block: release what was owned, if anything was.
Refuse(o) ==
  /\ Settled(o) /\ (AnyFailed(o) \/ abort[o] # "none")
  /\ IF Owned(o) = {}
     THEN /\ phase' = [phase EXCEPT ![o] = "failed"]
          /\ pinLock' = pinLock \ {o}
     ELSE /\ phase' = [phase EXCEPT ![o] = "rollback"]
          /\ UNCHANGED pinLock
  /\ UNCHANGED <<fileVars, indexVars, lockVars, taskVars, abort, live, rest>>

Unpin(o) == pins' = [s \in Stems |-> pins[s] \ {o}]

Rollback(o) ==
  /\ phase[o] = "rollback" /\ IndexFree
  /\ Unpin(o)
  /\ phase' = [phase EXCEPT ![o] = "failed"]
  /\ pinLock' = pinLock \ {o}
  /\ UNCHANGED <<fileVars, rows, lockVars, taskVars, abort, live, rest>>

\* The rollback's own index write fails: the lifetime lock goes, the pin stays.
RollbackFails(o) ==
  /\ phase[o] = "rollback" /\ IndexFree
  /\ Inject("write")
  /\ phase' = [phase EXCEPT ![o] = "leaked"]
  /\ pinLock' = pinLock \ {o}
  /\ UNCHANGED <<fileVars, indexVars, lockVars, taskVars, abort, live, demoting>>

\* VerifiedStemSessionLease.close; a failed index write leaves it open for retry.
CloseLease(o) ==
  /\ phase[o] = "open" /\ IndexFree
  /\ Unpin(o)
  /\ phase' = [phase EXCEPT ![o] = "closed"]
  /\ pinLock' = pinLock \ {o}
  /\ UNCHANGED <<fileVars, rows, lockVars, taskVars, abort, live, rest>>

\* lease.read: a failing read removes the final without taking the stem lock...
LeaseReadFails(t) ==
  /\ phase[t[1]] = "open" /\ t[2] \in rows /\ t \notin demoting
  /\ Inject("read")
  /\ final' = [final EXCEPT ![t[2]] = "absent"]
  /\ demoting' = demoting \cup {t}
  /\ UNCHANGED <<staging, indexVars, lockVars, taskVars, sessionVars>>

\* ... and then drops the row if nobody pins it.
DemoteRow(t) ==
  /\ t \in demoting /\ IndexFree
  /\ rows' = IF pins[t[2]] = {} THEN rows \ {t[2]} ELSE rows
  /\ demoting' = demoting \ {t}
  /\ UNCHANGED <<fileVars, pins, lockVars, taskVars, sessionVars, faults>>

\* setOfflinePin(identity, pinId, pinned)
SetOfflinePin(s, pinned) ==
  /\ IndexFree /\ s \in rows /\ (Offline \in pins[s]) # pinned
  /\ pins' = [pins EXCEPT ![s] = IF pinned THEN @ \cup {Offline} ELSE @ \ {Offline}]
  /\ UNCHANGED <<fileVars, rows, lockVars, taskVars, sessionVars, rest>>

-----------------------------------------------------------------------------
(* #ensure, both passes: take the stem lock and a permit, verify, own. *)

\* Mutant: the lock is entered in the name of the tab, not of the request.
LockStemForTab(t) ==
  /\ pc[t] = "lock" /\ ~Aborted(t) /\ stemLock[t[2]] = Free
  /\ stemLock' = [stemLock EXCEPT ![t[2]] = t[1]]
  /\ Goto(t, "admit")
  /\ UNCHANGED <<fileVars, indexVars, indexLock, pass, victims, victim, sessionVars, rest>>

LockStem(t) ==
  /\ pc[t] = "lock" /\ ~Aborted(t) /\ stemLock[t[2]] = Free
  /\ stemLock' = [stemLock EXCEPT ![t[2]] = t]
  /\ Goto(t, "admit")
  /\ UNCHANGED <<fileVars, indexVars, indexLock, pass, victims, victim, sessionVars, rest>>

Admit(t) ==
  /\ pc[t] = "admit" /\ ~Aborted(t)
  /\ Cardinality({u \in TasksOf(t[1]) : pc[u] \in Hashing}) < VerifyWidth
  /\ Goto(t, "read")
  /\ UNCHANGED <<fileVars, indexVars, lockVars, pass, victims, victim, sessionVars, rest>>

\* #verifyIndexed answered false: the warm pass gives its lock back and makes
\* room, the cold pass ingests under the lock it has.
Miss(t) ==
  \/ /\ pass[t] = "warm"
     /\ Goto(t, "room")
     /\ stemLock' = [stemLock EXCEPT ![t[2]] = Free]
     /\ pass' = [pass EXCEPT ![t] = "cold"]
  \/ /\ pass[t] = "cold"
     /\ Goto(t, "fetch")
     /\ UNCHANGED <<stemLock, pass>>

ReadRow(t) ==
  /\ pc[t] = "read" /\ ~Aborted(t) /\ IndexFree
  /\ \/ t[2] \in rows /\ Goto(t, "hash") /\ UNCHANGED <<stemLock, pass>>
     \/ t[2] \notin rows /\ Miss(t)
  /\ UNCHANGED <<fileVars, indexVars, indexLock, victims, victim, sessionVars, rest>>

\* #verifyFile hashed the whole final: the right bytes are owned, or refused
\* when the declaration disagrees with them; anything else is demoted.
Hash(t) ==
  /\ pc[t] = "hash"
  /\ IF final[t[2]] # "good"
     THEN Goto(t, "drop") /\ UNCHANGED <<lockVars, pass, victims, victim, sessionVars>>
     ELSE IF t[1] \in WrongBytes THEN Reject(t)
     ELSE Goto(t, "own") /\ UNCHANGED <<lockVars, pass, victims, victim, sessionVars>>
  /\ UNCHANGED <<fileVars, indexVars, rest>>

\* Mutant: an aborted hash counts as a file that does not verify.
HashAbortedDemotes(t) ==
  /\ pc[t] = "hash" /\ Aborted(t)
  /\ Goto(t, "drop")
  /\ UNCHANGED <<fileVars, indexVars, lockVars, pass, victims, victim, sessionVars, rest>>

\* The abort reason surfaces inside #verifyFile. Only an AbortError is rethrown:
\* any other reason is taken for a file that does not verify.
HashAborted(t) ==
  /\ pc[t] = "hash" /\ Aborted(t)
  /\ IF abort[t[1]] = "AbortError" THEN Reject(t)
     ELSE Goto(t, "drop") /\ UNCHANGED <<lockVars, pass, victims, victim, sessionVars>>
  /\ UNCHANGED <<fileVars, indexVars, rest>>

\* A read that fails or makes no progress is taken for corruption as well.
HashReadFails(t) ==
  /\ pc[t] = "hash" /\ Inject("read")
  /\ Goto(t, "drop")
  /\ UNCHANGED <<fileVars, indexVars, lockVars, pass, victims, victim, sessionVars, demoting>>

Drop(t) ==
  /\ pc[t] = "drop"
  /\ final' = [final EXCEPT ![t[2]] = "absent"]
  /\ Goto(t, "unrow")
  /\ UNCHANGED <<staging, indexVars, lockVars, pass, victims, victim, sessionVars, rest>>

Unrow(t) ==
  /\ pc[t] = "unrow" /\ IndexFree
  /\ rows' = IF pins[t[2]] = {} THEN rows \ {t[2]} ELSE rows
  /\ Miss(t)
  /\ UNCHANGED <<fileVars, pins, indexLock, victims, victim, sessionVars, rest>>

Own(t) ==
  /\ pc[t] = "own" /\ IndexFree /\ t[2] \in rows
  /\ pins' = [pins EXCEPT ![t[2]] = @ \cup {t[1]}]
  /\ stemLock' = [stemLock EXCEPT ![t[2]] = Free]
  /\ Goto(t, IF Aborted(t) THEN "failed" ELSE "done")  \* throwIfAborted comes after
  /\ UNCHANGED <<fileVars, rows, indexLock, pass, victims, victim, sessionVars, rest>>

\* "Verified stem disappeared before leasing"
OwnMissing(t) ==
  /\ pc[t] = "own" /\ IndexFree /\ t[2] \notin rows
  /\ Reject(t)
  /\ UNCHANGED <<fileVars, indexVars, rest>>

-----------------------------------------------------------------------------
(* #preflight(reclaim): make room holding no lock but the victim's. *)

Room(t) ==
  /\ pc[t] = "room"
  /\ \/ HasRoom /\ Goto(t, "lock") /\ UNCHANGED victims
     \/ /\ ~HasRoom /\ ~Aborted(t) /\ IndexFree
        /\ victims' = [victims EXCEPT ![t] = {s \in rows : pins[s] = {}}]
        /\ Goto(t, "evict")
  /\ UNCHANGED <<fileVars, indexVars, lockVars, pass, victim, sessionVars, rest>>

\* The least recently used victim is next, any of them here: it waits for the
\* lock of that one, whoever holds it, and passes over none.
ChooseVictim(t, v) ==
  /\ pc[t] = "evict" /\ ~Aborted(t) /\ v \in victims[t]
  /\ victim' = [victim EXCEPT ![t] = v]
  /\ victims' = [victims EXCEPT ![t] = @ \ {v}]
  /\ Goto(t, "wait")
  /\ UNCHANGED <<fileVars, indexVars, lockVars, pass, sessionVars, rest>>

LockVictim(t) ==
  /\ pc[t] = "wait" /\ ~Aborted(t) /\ stemLock[victim[t]] = Free
  /\ stemLock' = [stemLock EXCEPT ![victim[t]] = t]
  /\ Goto(t, "evictIndex")
  /\ UNCHANGED <<fileVars, indexVars, indexLock, pass, victims, victim, sessionVars, rest>>

NoVictim(t) ==
  /\ pc[t] = "evict" /\ victims[t] = {}
  /\ Reject(t)
  /\ UNCHANGED <<fileVars, indexVars, rest>>

\* Mutant: the victim is removed on the strength of the snapshot alone.
CheckVictimStale(t) ==
  /\ pc[t] = "evictIndex" /\ ~Aborted(t) /\ IndexFree
  /\ final' = [final EXCEPT ![victim[t]] = "absent"]
  /\ indexLock' = t
  /\ Goto(t, "evictRow")
  /\ UNCHANGED <<stemLock, staging, indexVars, pass, victims, victim, sessionVars, rest>>

\* Ownership and room are rechecked under both locks before the removal.
Spared(t) == HasRoom \/ victim[t] \notin rows \/ pins[victim[t]] # {}

CheckVictim(t) ==
  /\ pc[t] = "evictIndex" /\ ~Aborted(t) /\ IndexFree
  /\ \/ /\ Spared(t)
        /\ stemLock' = [stemLock EXCEPT ![victim[t]] = Free]
        /\ Goto(t, IF HasRoom THEN "lock" ELSE "evict")
        /\ UNCHANGED <<final, indexLock>>
     \/ /\ ~Spared(t)
        /\ final' = [final EXCEPT ![victim[t]] = "absent"]
        /\ indexLock' = t
        /\ Goto(t, "evictRow")
        /\ UNCHANGED stemLock
  /\ UNCHANGED <<staging, indexVars, pass, victims, victim, sessionVars, rest>>

\* Mutant: the victim's lock is kept.
EvictRowLocked(t) ==
  /\ pc[t] = "evictRow"
  /\ rows' = rows \ {victim[t]}
  /\ indexLock' = Free
  /\ Goto(t, IF HasRoom THEN "lock" ELSE "evict")
  /\ UNCHANGED <<stemLock, fileVars, pins, pass, victims, victim, sessionVars, rest>>

EvictRow(t) ==
  /\ pc[t] = "evictRow"
  /\ rows' = rows \ {victim[t]}
  /\ indexLock' = Free
  /\ stemLock' = [stemLock EXCEPT ![victim[t]] = Free]
  /\ Goto(t, IF HasRoom THEN "lock" ELSE "evict")
  /\ UNCHANGED <<fileVars, pins, pass, victims, victim, sessionVars, rest>>

-----------------------------------------------------------------------------
(* #ingest, under the stem lock. *)

\* #preflight(no reclaim), then ask the resolver for the stream.
Fetch(t) ==
  /\ pc[t] = "fetch" /\ ~Aborted(t)
  /\ IF HasRoom
     THEN Goto(t, "write") /\ UNCHANGED <<lockVars, pass, victims, victim, sessionVars>>
     ELSE Reject(t)
  /\ UNCHANGED <<fileVars, indexVars, rest>>

\* The writer of the staging file; somebody else may have used the room since.
Write(t) ==
  /\ pc[t] = "write" /\ ~Aborted(t)
  /\ IF HasRoom THEN staging' = staging \cup {t} /\ Goto(t, "stream")
                ELSE Goto(t, "undo") /\ UNCHANGED staging
  /\ UNCHANGED <<final, indexVars, lockVars, pass, victims, victim, sessionVars, rest>>

\* The stream ended with the declared bytes and digest, and the writer closed.
Verified(t) ==
  /\ pc[t] = "stream" /\ ~Aborted(t) /\ t[1] \notin WrongBytes
  /\ Goto(t, "move")
  /\ UNCHANGED <<fileVars, indexVars, lockVars, pass, victims, victim, sessionVars, rest>>

\* It did not: abort, network, short or long stream, or the wrong digest.
StreamFails(t) ==
  /\ \/ pc[t] \in {"write", "stream"} /\ Aborted(t)
     \/ pc[t] = "stream" /\ (t[1] \in WrongBytes \/ "resolver" \in Faults)
  /\ Goto(t, "undo")
  /\ UNCHANGED <<fileVars, indexVars, lockVars, pass, victims, victim, sessionVars, rest>>

Promote(t) ==
  /\ final' = [final EXCEPT ![t[2]] = "good"]
  /\ staging' = staging \ {t}

Move(t) ==
  /\ pc[t] = "move"
  /\ \/ t \in staging /\ Promote(t) /\ Goto(t, IF Aborted(t) THEN "undoFinal" ELSE "commit")
     \/ t \notin staging /\ Goto(t, "undo") /\ UNCHANGED fileVars
  /\ UNCHANGED <<indexVars, lockVars, pass, victims, victim, sessionVars, rest>>

\* The move was issued, but the deadline wrapper rejected first, with the abort or
\* the deadline: #ingest does not know of the promotion and leaves the final there.
MoveAbandoned(t) ==
  /\ pc[t] = "move"
  /\ \/ Aborted(t) /\ UNCHANGED faults
     \/ Inject("write")
  /\ \/ t \in staging /\ Promote(t)
     \/ UNCHANGED fileVars
  /\ Goto(t, "undo")
  /\ UNCHANGED <<indexVars, lockVars, pass, victims, victim, sessionVars, demoting>>

\* Mutant: a repaired stem gets a fresh row that forgets the pins of the old one.
CommitFreshRow(t) ==
  /\ pc[t] = "commit" /\ IndexFree
  /\ rows' = rows \cup {t[2]}
  /\ pins' = [pins EXCEPT ![t[2]] = {}]
  /\ Goto(t, "own")
  /\ UNCHANGED <<fileVars, lockVars, pass, victims, victim, sessionVars, rest>>

Commit(t) ==
  /\ pc[t] = "commit" /\ IndexFree
  /\ rows' = rows \cup {t[2]}
  /\ Goto(t, "own")
  /\ UNCHANGED <<fileVars, pins, lockVars, pass, victims, victim, sessionVars, rest>>

CommitFails(t) ==
  /\ pc[t] = "commit"
  /\ \/ Aborted(t) /\ UNCHANGED faults
     \/ IndexFree /\ Inject("write")
  /\ Goto(t, "undoFinal")
  /\ UNCHANGED <<fileVars, indexVars, lockVars, pass, victims, victim, sessionVars, demoting>>

\* Mutant: the cleanup of a failed ingest forgets the staging file.
UndoLeavesStaging(t) ==
  /\ pc[t] \in {"undo", "undoFinal"}
  /\ final' = IF pc[t] = "undoFinal" THEN [final EXCEPT ![t[2]] = "absent"] ELSE final
  /\ Reject(t)
  /\ UNCHANGED <<staging, indexVars, rest>>

Undo(t) ==
  /\ pc[t] \in {"undo", "undoFinal"}
  /\ staging' = staging \ {t}
  /\ final' = IF pc[t] = "undoFinal" THEN [final EXCEPT ![t[2]] = "absent"] ELSE final
  /\ Reject(t)
  /\ UNCHANGED <<indexVars, rest>>

\* A removal of the cleanup fails or times out, and nobody is told: the staging
\* file, or the final that has no row, stays until some tab opens the folder.
UndoFails(t) ==
  /\ \/ pc[t] = "undo" /\ Goto(t, "littered")
     \/ pc[t] = "undoFinal" /\ Goto(t, "failed")
  /\ Inject("remove") /\ Unwind(t)
  /\ UNCHANGED <<fileVars, indexVars, demoting>>

-----------------------------------------------------------------------------
(* What ends a task early, and what the environment does. *)

\* A pending lock or permit request, or the next throwIfAborted.
GiveUp(t) ==
  /\ Aborted(t)
  /\ \/ pc[t] \in {"lock", "admit", "read", "own", "evict", "wait", "evictIndex", "fetch"}
     \/ pc[t] = "room" /\ ~HasRoom
  /\ Reject(t)
  /\ UNCHANGED <<fileVars, indexVars, rest>>

\* Writing the index fails (quota, deadline): the old index stays in place.
IndexWriteFails(t) ==
  /\ \/ pc[t] \in {"unrow", "own"} /\ IndexFree
     \/ pc[t] = "evictRow"
  /\ Inject("write")
  /\ Reject(t)
  /\ UNCHANGED <<fileVars, indexVars, demoting>>

\* A removal outside the cleanup fails, or times out as the file goes: of an own
\* leftover before an ingest, of a final in #demote, of a victim.
RemoveFails(t) ==
  /\ \/ pc[t] = "fetch" /\ ~Aborted(t) /\ UNCHANGED final
     \/ pc[t] = "drop" /\ final' \in {final, Without({t[2]})}
     \/ /\ pc[t] = "evictIndex" /\ ~Aborted(t) /\ IndexFree /\ ~Spared(t)
        /\ final' \in {final, Without({victim[t]})}
  /\ Inject("remove") /\ Reject(t)
  /\ UNCHANGED <<staging, indexVars, demoting>>

Corrupt(s) ==
  /\ final[s] = "good" /\ Inject("corrupt")
  /\ final' = [final EXCEPT ![s] = "bad"]
  /\ UNCHANGED <<staging, indexVars, lockVars, taskVars, sessionVars, demoting>>

\* The index is lost or malformed and the next reader rebuilds it from the
\* finals no live lock protects. Nobody reads it in between, so this is one step.
RebuildIndex ==
  /\ IndexFree /\ Inject("rebuild")
  /\ LET skipped == IF LocksQueryable THEN LiveStems ELSE {}
         bad == {s \in Stems \ skipped : final[s] = "bad"} IN
       /\ rows' = {s \in Stems \ skipped : final[s] = "good"}
       /\ final' = [s \in Stems |-> IF LocksQueryable /\ s \in bad THEN "absent"
                                    ELSE final[s]]
  /\ pins' = [s \in Stems |-> {}]
  /\ UNCHANGED <<staging, lockVars, taskVars, sessionVars, demoting>>

\* The tab dies: its locks are released, its files and pins stay.
Crash(o) ==
  /\ phase[o] \notin {"failed", "leaked", "closed", "crashed"}
  /\ Inject("crash")
  /\ phase' = [phase EXCEPT ![o] = "crashed"]
  /\ pc' = [t \in Tasks |-> IF t[1] = o THEN "failed" ELSE pc[t]]
  /\ stemLock' = [s \in Stems |-> IF stemLock[s] \in TasksOf(o) THEN Free ELSE stemLock[s]]
  /\ indexLock' = IF indexLock \in TasksOf(o) \cup {o} THEN Free ELSE indexLock
  /\ pinLock' = pinLock \ {o}
  /\ demoting' = {t \in demoting : t[1] # o}
  /\ UNCHANGED <<fileVars, indexVars, pass, victims, victim, abort, live>>

OpenerStep(o) ==
  \/ OpenStore(o) \/ SweepStaging(o) \/ SweepFinals(o) \/ OpenSession(o)
  \/ Grant(o) \/ Refuse(o) \/ Rollback(o)

TaskStep(t) ==
  \/ StartTask(t) \/ LockStem(t) \/ Admit(t) \/ ReadRow(t) \/ Hash(t) \/ HashAborted(t)
  \/ Drop(t) \/ Unrow(t) \/ Own(t) \/ OwnMissing(t)
  \/ Room(t) \/ (\E v \in Stems : ChooseVictim(t, v)) \/ LockVictim(t) \/ NoVictim(t)
  \/ CheckVictim(t) \/ EvictRow(t)
  \/ Fetch(t) \/ Write(t) \/ Verified(t) \/ StreamFails(t) \/ Move(t) \/ MoveAbandoned(t)
  \/ Commit(t) \/ Undo(t) \/ GiveUp(t) \/ DemoteRow(t)

\* What the page, the user agent or the disk may do and need not.
OpenerEvent(o) == Cancel(o) \/ CloseLease(o) \/ SweepFails(o) \/ RollbackFails(o) \/ Crash(o)
TaskEvent(t) == \/ LeaseReadFails(t) \/ HashReadFails(t) \/ CommitFails(t) \/ IndexWriteFails(t)
                \/ UndoFails(t) \/ RemoveFails(t)
StemEvent(s) == Corrupt(s) \/ (\E pinned \in BOOLEAN : SetOfflinePin(s, pinned))

Next ==
  \/ \E o \in Openers : OpenerStep(o) \/ OpenerEvent(o)
  \/ \E t \in Tasks : TaskStep(t) \/ TaskEvent(t)
  \/ \E s \in Stems : StemEvent(s)
  \/ RebuildIndex

Spec == Init /\ [][Next]_vars

\* Promises settle, Web Locks are granted in turn, and every read and write runs
\* under a deadline; nothing forces the page to cancel, close or pin.
Fairness ==
  /\ \A o \in Openers : WF_vars(OpenerStep(o))
  /\ \A t \in Tasks : WF_vars(TaskStep(t)) /\ SF_vars(LockStem(t)) /\ SF_vars(LockVictim(t))

FairSpec == Spec /\ Fairness

-----------------------------------------------------------------------------
(* Properties. *)

\* Ownership bookkeeping.  A pin always sits in an index row, so no removal of a
\* row can strand one (#demote, #preflight, RebuildIndex).
PinsHaveRows == \A s \in Stems : pins[s] # {} => s \in rows

\* A session pin is backed by the lifetime lock of the tab that wrote it, until
\* that tab crashes or the write that should have taken the pin back fails
\* (#holdPinLock, openSession's catch, VerifiedStemSessionLease.close).
PinCovered ==
  \A s \in Stems : \A o \in pins[s] \cap Openers :
    o \in pinLock \/ phase[o] \in {"crashed", "leaked"}

\* Every way out of openSession and of a lease gives back each pin it took,
\* whatever the interleaving of the stems' work, its abort and the evictions.
NoPinLeaks ==
  \A o \in Openers : phase[o] \in {"failed", "closed"} => \A s \in Stems : o \notin pins[s]

\* Pins are where they belong, for as long as they should be, and no longer.
PinsExact == PinsHaveRows /\ PinCovered /\ NoPinLeaks

\* What a lease promises: while it is open each declared stem is indexed, pinned
\* by it and present as verified bytes, through the other openers' evictions,
\* demotions, ingests, rollbacks and folder sweeps (openSession, #preflight).
LeaseBacked ==
  \A o \in Openers : phase[o] = "open" =>
    \A s \in Wants[o] : s \in rows /\ o \in pins[s] /\ final[s] = "good"

\* A verified final that an index row vouches for goes away only while nobody
\* pins it: eviction and #demote never take it from a session or offline intent.
PinnedFinalKept ==
  [][\A s \in Stems :
       final[s] = "good" /\ final'[s] = "absent" /\ s \in rows => pins[s] = {}]_vars

\* The index never vouches for a missing final, except while the step that
\* removed it still holds the lock to take the row away as well.
RowsBacked ==
  \A s \in rows : final[s] = "absent" =>
    \E t \in Tasks : \/ pc[t] = "evictRow" /\ victim[t] = s
                     \/ pc[t] = "unrow" /\ t[2] = s

\* Leases and rows: no file that a lease or the index relies on is missing.
FilesBacked == LeaseBacked /\ RowsBacked

\* A pin survives every opener's evictions, demotions, repairs, crashes and
\* failed index writes: an offline pin until setOfflinePin takes it back, a
\* session's until its own rollback or close (#ingest's row, #demote, release).
\* Only an index that was lost and rebuilt has forgotten its pins.
PinsKept ==
  [][\A s \in Stems : \A p \in pins[s] \ pins'[s] :
       \/ RebuildIndex
       \/ p = Offline /\ SetOfflinePin(s, FALSE)
       \/ p \in Openers /\ (CloseLease(p) \/ Rollback(p))]_vars

\* A staging file is one its locked task still answers for, or what a dead tab or
\* a cleanup whose own removal failed has left: no other way out of a failed,
\* cancelled or interrupted ingest leaves bytes behind (#ingest's catch block).
StagingOwned ==
  \A t \in staging : stemLock[t[2]] = t \/ phase[t[1]] = "crashed" \/ pc[t] = "littered"

\* Web Locks do not deadlock: a task that waits for a victim's lock holds none
\* itself, so every openSession call settles whoever else is opening or evicting.
OpenSettles == \A o \in Openers : phase[o] = "opening" ~> phase[o] # "opening"

\* No lock outlives the openSession calls: once none is in progress nobody holds
\* a stem or the index, so a later tab never waits for an earlier one.
LocksReturned ==
  (\A o \in Openers : phase[o] \notin {"sweepStaging", "sweepFinals", "opening"}) =>
    (\A s \in Stems : stemLock[s] = Free) /\ indexLock = Free

\* What a failed, cancelled or dead opening leaves behind blocks nobody.
NothingStranded == StagingOwned /\ LocksReturned

-----------------------------------------------------------------------------
(* The inductive invariant behind the ownership properties. *)

\* A lock is held exactly by the task whose program counter is inside it.
LocksHeld ==
  /\ \A t \in Tasks : pc[t] \in HoldsOwn => stemLock[t[2]] = t
  /\ \A t \in Tasks : pc[t] \in Evicting => stemLock[victim[t]] = t
  /\ \A s \in Stems : \A t \in Tasks : stemLock[s] = t =>
       \/ pc[t] \in HoldsOwn /\ t[2] = s
       \/ pc[t] \in Evicting /\ victim[t] = s

IndexHeld ==
  /\ \A t \in Tasks : indexLock = t <=> pc[t] = "evictRow"
  /\ \A o \in Openers : indexLock = o <=> phase[o] \in {"sweepStaging", "sweepFinals"}

\* Tasks only run inside their openSession call.
TasksInSession ==
  \A t \in Tasks : pc[t] \notin {"todo", "done"} \cup Failed => phase[t[1]] = "opening"

\* Between openSession and its rollback or close a tab holds its lifetime lock,
\* outside of them it owns nothing.
PinLife ==
  \A o \in Openers :
    /\ phase[o] \in {"opening", "open", "rollback"} => o \in pinLock
    /\ phase[o] \in {"new", "sweepStaging", "sweepFinals", "ready", "failed", "closed"} =>
         \A s \in Stems : o \notin pins[s]

VictimUnpinned == \A t \in Tasks : pc[t] = "evictRow" => pins[victim[t]] = {}

StagingInIngest ==
  \A t \in staging : \/ pc[t] \in {"stream", "move", "undo", "littered"}
                     \/ phase[t[1]] = "crashed"

Ownership ==
  /\ TypeOK /\ LocksHeld /\ IndexHeld /\ TasksInSession
  /\ PinLife /\ PinsHaveRows /\ VictimUnpinned /\ StagingInIngest
=============================================================================
