--------------------------- MODULE StemStoreProofs ---------------------------
(***************************************************************************)
(* What StemStore keeps for every set of tabs, stems, quota and faults.    *)
(***************************************************************************)
EXTENDS StemStore, FiniteSetTheorems, TLAPS

\* Every variable of StemStore holds a value of its type in every reachable
\* state of any instance: the invariant TypeOK that the runs check.
LEMMA TypeInit == Init => TypeOK
  BY StoreAssumption DEF Init, TypeOK, Tasks, Pins, Content, Phases, Steps, Waiting,
     HoldsOwn, Hashing, Ingesting, Evicting

\* What Goto, Miss, Unwind and Reject do to the types of the task's own variables.
LEMMA GotoType ==
  ASSUME TypeOK, NEW t \in Tasks, NEW step \in Steps, Goto(t, step)
  PROVE  pc' \in [Tasks -> Steps]
  BY DEF TypeOK, Goto

\* A missed verification keeps the types, in the warm pass and in the cold one.
LEMMA MissType ==
  ASSUME TypeOK, NEW t \in Tasks, Miss(t)
  PROVE  /\ pc' \in [Tasks -> Steps]
         /\ stemLock' \in [Stems -> Tasks \cup {Free}]
         /\ pass' \in [Tasks -> {"warm", "cold"}]
<1>1. {"room", "fetch"} \subseteq Steps
  BY DEF Steps, Waiting, HoldsOwn, Ingesting
<1>2. pc' \in [Tasks -> Steps]
  BY <1>1, GotoType DEF Miss
<1>3. CASE pass[t] = "warm"
  BY <1>2, <1>3 DEF Miss, TypeOK
<1>4. CASE pass[t] = "cold"
  BY <1>2, <1>4 DEF Miss, TypeOK
<1> QED
  BY <1>3, <1>4 DEF Miss

\* So does the release of every lock of a task whose work rejected, ...
LEMMA UnwindType ==
  ASSUME TypeOK, NEW t \in Tasks, Unwind(t)
  PROVE  /\ stemLock' \in [Stems -> Tasks \cup {Free}]
         /\ indexLock' \in Openers \cup Tasks \cup {Free}
         /\ abort' \in [Openers -> {"none", "AbortError", "other"}]
         /\ UNCHANGED <<pass, victims, victim, phase, live, pinLock>>
  BY DEF Unwind, TypeOK, Tasks

\* ... which is how a rejection ends.
LEMMA RejectType ==
  ASSUME TypeOK, NEW t \in Tasks, Reject(t)
  PROVE  pc' \in [Tasks -> Steps] /\ Unwind(t)
<1>1. "failed" \in Steps
  BY DEF Steps, Waiting
<1> QED
  BY <1>1, GotoType DEF Reject

\* No step of any tab, task or fault leaves the types.
LEMMA TypeNext == TypeOK /\ [Next]_vars => TypeOK'
<1> SUFFICES ASSUME TypeOK, [Next]_vars PROVE TypeOK'
  OBVIOUS
<1> USE StoreAssumption DEF TypeOK, fileVars, indexVars, lockVars, taskVars, sessionVars, rest,
     Goto, Phases, Steps, Waiting, HoldsOwn, Hashing, Ingesting, Evicting
<1>0. \A t \in Tasks : t \in Openers \X Stems /\ t[1] \in Openers /\ t[2] \in Stems
  BY DEF Tasks
<1>1. ASSUME NEW o \in Openers, OpenStore(o) PROVE TypeOK'
  BY <1>0, <1>1 DEF OpenStore, LiveStems
<1>2. ASSUME NEW o \in Openers, SweepStaging(o) PROVE TypeOK'
  BY <1>0, <1>2 DEF SweepStaging, Leftovers
<1>3. ASSUME NEW o \in Openers, SweepFinals(o) PROVE TypeOK'
  BY <1>0, <1>3 DEF SweepFinals, Orphans, Without, Content
<1>4. ASSUME NEW o \in Openers, OpenSession(o) PROVE TypeOK'
  BY <1>0, <1>4 DEF OpenSession
<1>5. ASSUME NEW o \in Openers, Grant(o) PROVE TypeOK'
  BY <1>0, <1>5 DEF Grant
<1>6. ASSUME NEW o \in Openers, Refuse(o) PROVE TypeOK'
  BY <1>0, <1>6 DEF Refuse
<1>7. ASSUME NEW o \in Openers, Rollback(o) PROVE TypeOK'
  BY <1>0, <1>7 DEF Rollback, Unpin
<1>8. ASSUME NEW o \in Openers, Cancel(o) PROVE TypeOK'
  BY <1>0, <1>8 DEF Cancel
<1>9. ASSUME NEW o \in Openers, CloseLease(o) PROVE TypeOK'
  BY <1>0, <1>9 DEF CloseLease, Unpin
<1>10. ASSUME NEW o \in Openers, RollbackFails(o) PROVE TypeOK'
  BY <1>0, <1>10 DEF RollbackFails, Inject
<1>11. ASSUME NEW o \in Openers, Crash(o) PROVE TypeOK'
  BY <1>0, <1>11 DEF Crash, Inject, TasksOf
<1>12. ASSUME NEW t \in Tasks, StartTask(t) PROVE TypeOK'
  BY <1>0, <1>12 DEF StartTask
<1>13. ASSUME NEW t \in Tasks, LockStem(t) PROVE TypeOK'
  BY <1>0, <1>13 DEF LockStem
<1>14. ASSUME NEW t \in Tasks, Admit(t) PROVE TypeOK'
  BY <1>0, <1>14 DEF Admit
<1>15. ASSUME NEW t \in Tasks, ReadRow(t) PROVE TypeOK'
  <2>1. pc' \in [Tasks -> Steps]
    BY <1>15, MissType, GotoType DEF ReadRow
  <2>2. stemLock' \in [Stems -> Tasks \cup {Free}] /\ pass' \in [Tasks -> {"warm", "cold"}]
    BY <1>15, MissType DEF ReadRow
  <2> QED
    BY <1>15, <2>1, <2>2 DEF ReadRow
<1>16. ASSUME NEW t \in Tasks, Hash(t) PROVE TypeOK'
  <2>1. pc' \in [Tasks -> Steps]
    BY <1>16, RejectType, GotoType DEF Hash
  <2> QED
    BY <1>16, <2>1, RejectType, UnwindType DEF Hash
<1>17. ASSUME NEW t \in Tasks, HashAborted(t) PROVE TypeOK'
  <2>1. pc' \in [Tasks -> Steps]
    BY <1>17, RejectType, GotoType DEF HashAborted
  <2> QED
    BY <1>17, <2>1, RejectType, UnwindType DEF HashAborted
<1>18. ASSUME NEW t \in Tasks, Drop(t) PROVE TypeOK'
  BY <1>0, <1>18 DEF Drop, Content
<1>19. ASSUME NEW t \in Tasks, Unrow(t) PROVE TypeOK'
  BY <1>0, <1>19, MissType DEF Unrow
<1>20. ASSUME NEW t \in Tasks, Own(t) PROVE TypeOK'
  <2>1. CASE Aborted(t)
    BY <1>0, <1>20, <2>1 DEF Own, Pins
  <2>2. CASE ~Aborted(t)
    BY <1>0, <1>20, <2>2 DEF Own, Pins
  <2> QED
    BY <2>1, <2>2
<1>21. ASSUME NEW t \in Tasks, OwnMissing(t) PROVE TypeOK'
  BY <1>0, <1>21 DEF OwnMissing, Reject, Unwind
<1>22. ASSUME NEW t \in Tasks, Room(t) PROVE TypeOK'
  <2>1. CASE HasRoom
    BY <1>0, <1>22, <2>1 DEF Room
  <2>2. CASE ~HasRoom
    <3>1. pc' \in [Tasks -> Steps]
      BY <1>22, <2>2, GotoType DEF Room
    <3>2. victims' \in [Tasks -> SUBSET Stems]
      BY <1>22, <2>2 DEF Room
    <3> QED
      BY <1>22, <2>2, <3>1, <3>2 DEF Room
  <2> QED
    BY <2>1, <2>2
<1>23. ASSUME NEW t \in Tasks, NoVictim(t) PROVE TypeOK'
  BY <1>0, <1>23 DEF NoVictim, Reject, Unwind
<1>24. ASSUME NEW t \in Tasks, CheckVictim(t) PROVE TypeOK'
  <2>1. pc' \in [Tasks -> Steps]
    BY <1>24, GotoType DEF CheckVictim
  <2>2. final' \in [Stems -> Content]
    BY <1>24 DEF CheckVictim, Content
  <2>3. stemLock' \in [Stems -> Tasks \cup {Free}] /\ indexLock' \in Openers \cup Tasks \cup {Free}
    BY <1>24 DEF CheckVictim
  <2> QED
    BY <1>24, <2>1, <2>2, <2>3 DEF CheckVictim
<1>25. ASSUME NEW t \in Tasks, EvictRow(t) PROVE TypeOK'
  BY <1>0, <1>25 DEF EvictRow
<1>26. ASSUME NEW t \in Tasks, Fetch(t) PROVE TypeOK'
  <2>1. pc' \in [Tasks -> Steps]
    BY <1>26, RejectType, GotoType DEF Fetch
  <2> QED
    BY <1>26, <2>1, RejectType, UnwindType DEF Fetch
<1>27. ASSUME NEW t \in Tasks, Write(t) PROVE TypeOK'
  BY <1>0, <1>27 DEF Write
<1>28. ASSUME NEW t \in Tasks, Verified(t) PROVE TypeOK'
  <2>1. pc' \in [Tasks -> Steps]
    BY <1>28, GotoType DEF Verified
  <2> QED
    BY <1>28, <2>1 DEF Verified
<1>29. ASSUME NEW t \in Tasks, StreamFails(t) PROVE TypeOK'
  BY <1>0, <1>29 DEF StreamFails
<1>30. ASSUME NEW t \in Tasks, Move(t) PROVE TypeOK'
  <2>1. pc' \in [Tasks -> Steps]
    BY <1>30, GotoType DEF Move
  <2>2. final' \in [Stems -> Content] /\ staging' \subseteq Tasks
    BY <1>0, <1>30 DEF Move, Promote, Content
  <2> QED
    BY <1>30, <2>1, <2>2 DEF Move
<1>31. ASSUME NEW t \in Tasks, MoveAbandoned(t) PROVE TypeOK'
  BY <1>0, <1>31 DEF MoveAbandoned, Promote, Content, Inject
<1>32. ASSUME NEW t \in Tasks, Commit(t) PROVE TypeOK'
  BY <1>0, <1>32 DEF Commit
<1>33. ASSUME NEW t \in Tasks, Undo(t) PROVE TypeOK'
  BY <1>0, <1>33 DEF Undo, Reject, Unwind, Content
<1>34. ASSUME NEW t \in Tasks, GiveUp(t) PROVE TypeOK'
  BY <1>0, <1>34 DEF GiveUp, Reject, Unwind
<1>35. ASSUME NEW t \in Tasks, DemoteRow(t) PROVE TypeOK'
  BY <1>0, <1>35 DEF DemoteRow
<1>36. ASSUME NEW t \in Tasks, LeaseReadFails(t) PROVE TypeOK'
  BY <1>0, <1>36 DEF LeaseReadFails, Inject, Content
<1>37. ASSUME NEW t \in Tasks, HashReadFails(t) PROVE TypeOK'
  BY <1>0, <1>37 DEF HashReadFails, Inject
<1>38. ASSUME NEW t \in Tasks, CommitFails(t) PROVE TypeOK'
  BY <1>0, <1>38 DEF CommitFails, Inject
<1>39. ASSUME NEW t \in Tasks, IndexWriteFails(t) PROVE TypeOK'
  BY <1>0, <1>39 DEF IndexWriteFails, Inject, Reject, Unwind
<1>40. ASSUME NEW t \in Tasks, LockVictim(t) PROVE TypeOK'
  BY <1>0, <1>40 DEF LockVictim
<1>41. ASSUME NEW s \in Stems, Corrupt(s) PROVE TypeOK'
  BY <1>0, <1>41 DEF Corrupt, Inject, Content
<1>42. ASSUME NEW s \in Stems, NEW pinned \in BOOLEAN, SetOfflinePin(s, pinned) PROVE TypeOK'
  BY <1>0, <1>42 DEF SetOfflinePin, Pins
<1>43. ASSUME RebuildIndex PROVE TypeOK'
  BY <1>0, <1>43 DEF RebuildIndex, Inject, Content, Pins, LiveStems
<1>45. ASSUME NEW o \in Openers, SweepFails(o) PROVE TypeOK'
  <2>1. final' \in [Stems -> Content] /\ staging' \subseteq Tasks
    BY <1>45 DEF SweepFails, Orphans, Without, Content
  <2>2. faults' \in 0..MaxFaults
    BY <1>45 DEF SweepFails, Inject
  <2> QED
    BY <1>45, <2>1, <2>2 DEF SweepFails
<1>46. ASSUME NEW t \in Tasks, UndoFails(t) PROVE TypeOK'
  <2>1. pc' \in [Tasks -> Steps]
    BY <1>46, GotoType DEF UndoFails
  <2>2. faults' \in 0..MaxFaults
    BY <1>46 DEF UndoFails, Inject
  <2> QED
    BY <1>46, <2>1, <2>2, UnwindType DEF UndoFails
<1>47. ASSUME NEW t \in Tasks, RemoveFails(t) PROVE TypeOK'
  <2>1. final' \in [Stems -> Content]
    BY <1>47 DEF RemoveFails, Without, Content
  <2>2. faults' \in 0..MaxFaults
    BY <1>47 DEF RemoveFails, Inject
  <2> QED
    BY <1>47, <2>1, <2>2, RejectType, UnwindType DEF RemoveFails
<1>48. ASSUME NEW t \in Tasks, NEW v \in Stems, ChooseVictim(t, v) PROVE TypeOK'
  BY <1>0, <1>48 DEF ChooseVictim
<1>44. CASE UNCHANGED vars
  BY <1>0, <1>44 DEF vars
<1> HIDE DEF TypeOK
<1> QED
  BY <1>1, <1>2, <1>3, <1>4, <1>5, <1>6, <1>7, <1>8, <1>9, <1>10, <1>11, <1>12, <1>13, <1>14, <1>15, <1>16, <1>17, <1>18, <1>19, <1>20, <1>21, <1>22, <1>23, <1>24, <1>25, <1>26, <1>27, <1>28, <1>29, <1>30, <1>31, <1>32, <1>33, <1>34, <1>35, <1>36, <1>37, <1>38, <1>39, <1>40, <1>41, <1>42, <1>43, <1>44, <1>45, <1>46, <1>47, <1>48
  DEF Next, OpenerStep, OpenerEvent, TaskStep, TaskEvent, StemEvent

\* Every variable of StemStore keeps its type in any instance.
THEOREM TypeCorrect == Spec => []TypeOK
  BY TypeInit, TypeNext, PTL DEF Spec

\* The lock holders and the index holder are never among the things a lock
\* compares them with by accident.
LEMMA Holders ==
  /\ \A t \in Tasks : t \in Openers \X Stems /\ t[1] \in Openers /\ t[2] \in Stems
  /\ Tasks \cap Openers = {} /\ Free \notin Tasks /\ Free \notin Openers
  BY StoreAssumption DEF Tasks

Locks == LocksHeld /\ IndexHeld /\ TasksInSession

\* Steps inside the stem's own lock, a missed verification, and a rejection.
LEMMA InsideLocks ==
  ASSUME TypeOK, Locks, NEW t \in Tasks, NEW step \in HoldsOwn, pc[t] \in HoldsOwn,
         Goto(t, step), UNCHANGED <<lockVars, victim, phase>>
  PROVE  Locks'
  BY Holders DEF Locks, LocksHeld, IndexHeld, TasksInSession, TypeOK, lockVars, Goto,
     HoldsOwn, Hashing, Ingesting, Evicting, Failed

\* Giving back the one stem lock a task is under and waiting for something else.
LEMMA LeaveLocks ==
  ASSUME TypeOK, Locks, NEW t \in Tasks, NEW step \in Waiting, NEW s \in Stems,
         \/ pc[t] \in HoldsOwn /\ s = t[2]
         \/ pc[t] = "evictIndex" /\ s = victim[t],
         Goto(t, step), stemLock' = [stemLock EXCEPT ![s] = Free],
         UNCHANGED <<indexLock, victim, phase>>
  PROVE  Locks'
<1> USE Holders DEF Waiting, HoldsOwn, Hashing, Ingesting, Evicting, Failed
<1>1. /\ pc' = [pc EXCEPT ![t] = step] /\ pc \in [Tasks -> Steps]
      /\ stemLock \in [Stems -> Tasks \cup {Free}]
  BY DEF Goto, TypeOK
<1>2. stemLock[s] = t /\ phase[t[1]] = "opening"
  BY DEF Locks, LocksHeld, TasksInSession
<1>3. \A u \in Tasks \ {t}, r \in Stems : stemLock[r] = u => r # s /\ stemLock'[r] = u /\ pc'[u] = pc[u]
  BY <1>1, <1>2
<1>4. \A r \in Stems : stemLock'[r] # t
  BY <1>1, <1>2 DEF Locks, LocksHeld
<1>5. LocksHeld'
  <2>1. \A u \in Tasks : pc'[u] \in HoldsOwn => stemLock'[u[2]] = u
    BY <1>1, <1>3 DEF Locks, LocksHeld
  <2>2. \A u \in Tasks : pc'[u] \in Evicting => stemLock'[victim[u]] = u
    BY <1>1, <1>3 DEF Locks, LocksHeld, TypeOK
  <2>3. \A r \in Stems, u \in Tasks : stemLock'[r] = u =>
          \/ pc'[u] \in HoldsOwn /\ u[2] = r
          \/ pc'[u] \in Evicting /\ victim[u] = r
    BY <1>1, <1>2, <1>4 DEF Locks, LocksHeld
  <2> QED
    BY <2>1, <2>2, <2>3 DEF LocksHeld
<1>6. IndexHeld' /\ TasksInSession'
  BY <1>1, <1>2 DEF Locks, IndexHeld, TasksInSession
<1> QED
  BY <1>5, <1>6 DEF Locks

\* A miss keeps the stem lock of a cold pass and returns the one of a warm pass.
LEMMA MissLocks ==
  ASSUME TypeOK, Locks, NEW t \in Tasks, pc[t] \in Hashing,
         Miss(t), UNCHANGED <<indexLock, victim, phase>>
  PROVE  Locks'
<1>1. CASE pass[t] = "warm"
  BY <1>1, LeaveLocks, Holders DEF Miss, HoldsOwn, Waiting
<1>2. CASE pass[t] = "cold"
  BY <1>2, InsideLocks DEF Miss, lockVars, HoldsOwn, Ingesting
<1> QED
  BY <1>1, <1>2 DEF Miss

\* A rejected task holds no lock afterwards, and nobody else lost one.
LEMMA RejectLocks ==
  ASSUME TypeOK, Locks, NEW t \in Tasks, Reject(t)
  PROVE  Locks'
  BY Holders DEF Locks, LocksHeld, IndexHeld, TasksInSession, TypeOK, Reject, Unwind, Goto,
     HoldsOwn, Hashing, Ingesting, Evicting, Failed

\* Every step keeps the locks and the program counters in agreement.
LEMMA LocksNext == TypeOK /\ Locks /\ [Next]_vars => Locks'
<1> SUFFICES ASSUME TypeOK, Locks, [Next]_vars PROVE Locks'
  OBVIOUS
<1> USE Holders DEF Locks, LocksHeld, IndexHeld, TasksInSession, TypeOK, fileVars, indexVars, lockVars, taskVars,
     sessionVars, rest, Goto, IndexFree, Waiting, HoldsOwn, Hashing, Ingesting, Evicting, Failed
<1>1. ASSUME NEW o \in Openers, OpenStore(o) PROVE Locks'
  BY <1>1 DEF OpenStore
<1>2. ASSUME NEW o \in Openers, SweepStaging(o) PROVE Locks'
  BY <1>2 DEF SweepStaging, Leftovers
<1>3. ASSUME NEW o \in Openers, SweepFinals(o) PROVE Locks'
  BY <1>3 DEF SweepFinals, Orphans, Without
<1>4. ASSUME NEW o \in Openers, OpenSession(o) PROVE Locks'
  BY <1>4 DEF OpenSession
<1>5. ASSUME NEW o \in Openers, Grant(o) PROVE Locks'
  BY <1>5 DEF Grant, Settled, Running, TasksOf
<1>6. ASSUME NEW o \in Openers, Refuse(o) PROVE Locks'
  BY <1>6 DEF Refuse, Owned, Settled, Running, TasksOf
<1>7. ASSUME NEW o \in Openers, Rollback(o) PROVE Locks'
  BY <1>7 DEF Rollback, Unpin
<1>8. ASSUME NEW o \in Openers, Cancel(o) PROVE Locks'
  BY <1>8 DEF Cancel
<1>9. ASSUME NEW o \in Openers, CloseLease(o) PROVE Locks'
  BY <1>9 DEF CloseLease, Unpin
<1>10. ASSUME NEW o \in Openers, RollbackFails(o) PROVE Locks'
  BY <1>10 DEF RollbackFails
<1>11. ASSUME NEW o \in Openers, Crash(o) PROVE Locks'
  BY <1>11 DEF Crash, TasksOf
<1>12. ASSUME NEW t \in Tasks, StartTask(t) PROVE Locks'
  BY <1>12 DEF StartTask
<1>13. ASSUME NEW t \in Tasks, LockStem(t) PROVE Locks'
  BY <1>13 DEF LockStem
<1>14. ASSUME NEW t \in Tasks, Admit(t) PROVE Locks'
  BY <1>14 DEF Admit
<1>15. ASSUME NEW t \in Tasks, ReadRow(t) PROVE Locks'
  BY <1>15, MissLocks, InsideLocks DEF ReadRow
<1>16. ASSUME NEW t \in Tasks, Hash(t) PROVE Locks'
  BY <1>16, InsideLocks, RejectLocks DEF Hash
<1>17. ASSUME NEW t \in Tasks, HashAborted(t) PROVE Locks'
  BY <1>17, InsideLocks, RejectLocks DEF HashAborted
<1>18. ASSUME NEW t \in Tasks, Drop(t) PROVE Locks'
  BY <1>18 DEF Drop
<1>19. ASSUME NEW t \in Tasks, Unrow(t) PROVE Locks'
  BY <1>19, MissLocks DEF Unrow
<1>20. ASSUME NEW t \in Tasks, Own(t) PROVE Locks'
  BY <1>20 DEF Own
<1>21. ASSUME NEW t \in Tasks, OwnMissing(t) PROVE Locks'
  BY <1>21 DEF OwnMissing, Reject, Unwind
<1>22. ASSUME NEW t \in Tasks, Room(t) PROVE Locks'
  <2>1. PICK step \in {"lock", "evict"} : Goto(t, step)
    BY <1>22 DEF Room
  <2> QED
    BY <1>22, <2>1 DEF Room
<1>23. ASSUME NEW t \in Tasks, NoVictim(t) PROVE Locks'
  BY <1>23 DEF NoVictim, Reject, Unwind
<1>24. ASSUME NEW t \in Tasks, CheckVictim(t) PROVE Locks'
  <2>1. CASE Spared(t)
    <3>1. PICK step \in {"lock", "evict"} : Goto(t, step)
      BY <1>24, <2>1 DEF CheckVictim
    <3>2. /\ pc[t] = "evictIndex" /\ stemLock' = [stemLock EXCEPT ![victim[t]] = Free]
          /\ UNCHANGED <<indexLock, victim, phase>>
      BY <1>24, <2>1 DEF CheckVictim
    <3> HIDE DEF Locks, LocksHeld, IndexHeld, TasksInSession
    <3> QED
      BY <3>1, <3>2, LeaveLocks
  <2>2. CASE ~Spared(t)
    <3>1. LocksHeld'
      BY <1>24, <2>2 DEF CheckVictim
    <3>2. IndexHeld'
      BY <1>24, <2>2 DEF CheckVictim
    <3>3. TasksInSession'
      <4>1. pc' = [pc EXCEPT ![t] = "evictRow"] /\ phase' = phase /\ phase[t[1]] = "opening"
        BY <1>24, <2>2 DEF CheckVictim
      <4> QED
        BY <4>1
    <3> QED
      BY <3>1, <3>2, <3>3 DEF Locks
  <2> QED
    BY <2>1, <2>2
<1>25. ASSUME NEW t \in Tasks, EvictRow(t) PROVE Locks'
  BY <1>25 DEF EvictRow
<1>26. ASSUME NEW t \in Tasks, Fetch(t) PROVE Locks'
  BY <1>26, InsideLocks, RejectLocks DEF Fetch
<1>27. ASSUME NEW t \in Tasks, Write(t) PROVE Locks'
  BY <1>27, InsideLocks DEF Write
<1>28. ASSUME NEW t \in Tasks, Verified(t) PROVE Locks'
  BY <1>28 DEF Verified
<1>29. ASSUME NEW t \in Tasks, StreamFails(t) PROVE Locks'
  BY <1>29 DEF StreamFails
<1>30. ASSUME NEW t \in Tasks, Move(t) PROVE Locks'
  BY <1>30, InsideLocks DEF Move
<1>31. ASSUME NEW t \in Tasks, MoveAbandoned(t) PROVE Locks'
  BY <1>31 DEF MoveAbandoned, Inject
<1>32. ASSUME NEW t \in Tasks, Commit(t) PROVE Locks'
  BY <1>32 DEF Commit
<1>33. ASSUME NEW t \in Tasks, Undo(t) PROVE Locks'
  BY <1>33 DEF Undo, Reject, Unwind
<1>34. ASSUME NEW t \in Tasks, GiveUp(t) PROVE Locks'
  BY <1>34 DEF GiveUp, Reject, Unwind
<1>35. ASSUME NEW t \in Tasks, DemoteRow(t) PROVE Locks'
  BY <1>35 DEF DemoteRow
<1>36. ASSUME NEW t \in Tasks, LeaseReadFails(t) PROVE Locks'
  BY <1>36 DEF LeaseReadFails
<1>37. ASSUME NEW t \in Tasks, HashReadFails(t) PROVE Locks'
  BY <1>37 DEF HashReadFails
<1>38. ASSUME NEW t \in Tasks, CommitFails(t) PROVE Locks'
  BY <1>38 DEF CommitFails
<1>39. ASSUME NEW t \in Tasks, IndexWriteFails(t) PROVE Locks'
  BY <1>39 DEF IndexWriteFails, Reject, Unwind
<1>40. ASSUME NEW t \in Tasks, LockVictim(t) PROVE Locks'
  BY <1>40 DEF LockVictim
<1>41. ASSUME NEW s \in Stems, Corrupt(s) PROVE Locks'
  BY <1>41 DEF Corrupt
<1>42. ASSUME NEW s \in Stems, NEW pinned \in BOOLEAN, SetOfflinePin(s, pinned) PROVE Locks'
  BY <1>42 DEF SetOfflinePin
<1>43. ASSUME RebuildIndex PROVE Locks'
  BY <1>43 DEF RebuildIndex
<1>45. ASSUME NEW o \in Openers, SweepFails(o) PROVE Locks'
  BY <1>45 DEF SweepFails, Leftovers, Orphans, Without, Inject
<1>46. ASSUME NEW t \in Tasks, UndoFails(t) PROVE Locks'
  BY <1>46 DEF UndoFails, Unwind
<1>47. ASSUME NEW t \in Tasks, RemoveFails(t) PROVE Locks'
  BY <1>47 DEF RemoveFails, Without, Spared, Reject, Unwind
<1>48. ASSUME NEW t \in Tasks, NEW v \in Stems, ChooseVictim(t, v) PROVE Locks'
  BY <1>48 DEF ChooseVictim
<1>44. CASE UNCHANGED vars
  BY <1>44 DEF vars
<1> QED
  BY <1>1, <1>2, <1>3, <1>4, <1>5, <1>6, <1>7, <1>8, <1>9, <1>10, <1>11, <1>12, <1>13, <1>14, <1>15, <1>16, <1>17, <1>18, <1>19, <1>20, <1>21, <1>22, <1>23, <1>24, <1>25, <1>26, <1>27, <1>28, <1>29, <1>30, <1>31, <1>32, <1>33, <1>34, <1>35, <1>36, <1>37, <1>38, <1>39, <1>40, <1>41, <1>42, <1>43, <1>44, <1>45, <1>46, <1>47, <1>48
  DEF Next, OpenerStep, OpenerEvent, TaskStep, TaskEvent, StemEvent


PinsOwned == PinLife /\ PinsHaveRows /\ VictimUnpinned

\* Every step keeps pins on rows and inside the life of the tab that took them.
LEMMA PinsNext == TypeOK /\ Locks /\ PinsOwned /\ [Next]_vars => PinsOwned'
<1> SUFFICES ASSUME TypeOK, Locks, PinsOwned, [Next]_vars PROVE PinsOwned'
  OBVIOUS
<1>0. \A t \in Tasks : indexLock = t <=> pc[t] = "evictRow"
  BY DEF Locks, IndexHeld
<1>00. \A t \in Tasks : pc[t] \notin {"todo", "done"} \cup Failed => phase[t[1]] = "opening"
  BY DEF Locks, TasksInSession
<1> USE Holders, <1>0, <1>00 DEF PinsOwned, PinLife, PinsHaveRows, VictimUnpinned, TypeOK, fileVars, indexVars, lockVars, taskVars,
     sessionVars, rest, Goto, IndexFree
<1>1. ASSUME NEW o \in Openers, OpenStore(o) PROVE PinsOwned'
  BY <1>1 DEF OpenStore
<1>2. ASSUME NEW o \in Openers, SweepStaging(o) PROVE PinsOwned'
  BY <1>2 DEF SweepStaging, Leftovers
<1>3. ASSUME NEW o \in Openers, SweepFinals(o) PROVE PinsOwned'
  BY <1>3 DEF SweepFinals, Orphans, Without
<1>4. ASSUME NEW o \in Openers, OpenSession(o) PROVE PinsOwned'
  BY <1>4 DEF OpenSession
<1>5. ASSUME NEW o \in Openers, Grant(o) PROVE PinsOwned'
  BY <1>5 DEF Grant, Settled, Running, TasksOf
<1>6. ASSUME NEW o \in Openers, Refuse(o) PROVE PinsOwned'
  BY <1>6 DEF Refuse, Owned, Settled, Running, TasksOf
<1>7. ASSUME NEW o \in Openers, Rollback(o) PROVE PinsOwned'
  BY <1>7 DEF Rollback, Unpin
<1>8. ASSUME NEW o \in Openers, Cancel(o) PROVE PinsOwned'
  BY <1>8 DEF Cancel
<1>9. ASSUME NEW o \in Openers, CloseLease(o) PROVE PinsOwned'
  BY <1>9 DEF CloseLease, Unpin
<1>10. ASSUME NEW o \in Openers, RollbackFails(o) PROVE PinsOwned'
  BY <1>10 DEF RollbackFails
<1>11. ASSUME NEW o \in Openers, Crash(o) PROVE PinsOwned'
  BY <1>11 DEF Crash, TasksOf
<1>12. ASSUME NEW t \in Tasks, StartTask(t) PROVE PinsOwned'
  BY <1>12 DEF StartTask
<1>13. ASSUME NEW t \in Tasks, LockStem(t) PROVE PinsOwned'
  BY <1>13 DEF LockStem
<1>14. ASSUME NEW t \in Tasks, Admit(t) PROVE PinsOwned'
  BY <1>14 DEF Admit
<1>15. ASSUME NEW t \in Tasks, ReadRow(t) PROVE PinsOwned'
  BY <1>15 DEF ReadRow, Miss
<1>16. ASSUME NEW t \in Tasks, Hash(t) PROVE PinsOwned'
  BY <1>16 DEF Hash, Reject, Unwind
<1>17. ASSUME NEW t \in Tasks, HashAborted(t) PROVE PinsOwned'
  BY <1>17 DEF HashAborted, Reject, Unwind
<1>18. ASSUME NEW t \in Tasks, Drop(t) PROVE PinsOwned'
  BY <1>18 DEF Drop
<1>19. ASSUME NEW t \in Tasks, Unrow(t) PROVE PinsOwned'
  BY <1>19 DEF Unrow, Miss
<1>20. ASSUME NEW t \in Tasks, Own(t) PROVE PinsOwned'
  <2>1. /\ pc[t] = "own" /\ indexLock = Free /\ t[2] \in rows /\ phase[t[1]] = "opening"
        /\ pins' = [pins EXCEPT ![t[2]] = @ \cup {t[1]}]
        /\ UNCHANGED <<rows, phase, pinLock, victim>>
    BY <1>20 DEF Own, Failed
  <2>2. \A u \in Tasks : pc[u] # "evictRow" /\ pc'[u] # "evictRow"
    BY <1>20, <2>1 DEF Own
  <2> QED
    BY <2>1, <2>2
<1>21. ASSUME NEW t \in Tasks, OwnMissing(t) PROVE PinsOwned'
  BY <1>21 DEF OwnMissing, Reject, Unwind
<1>22. ASSUME NEW t \in Tasks, Room(t) PROVE PinsOwned'
  BY <1>22 DEF Room
<1>23. ASSUME NEW t \in Tasks, NoVictim(t) PROVE PinsOwned'
  BY <1>23 DEF NoVictim, Reject, Unwind
<1>24. ASSUME NEW t \in Tasks, CheckVictim(t) PROVE PinsOwned'
  BY <1>24 DEF CheckVictim, Spared
<1>25. ASSUME NEW t \in Tasks, EvictRow(t) PROVE PinsOwned'
  BY <1>25 DEF EvictRow
<1>26. ASSUME NEW t \in Tasks, Fetch(t) PROVE PinsOwned'
  <2>1. UNCHANGED <<pins, rows, phase, pinLock, victim>>
    BY <1>26 DEF Fetch, Reject, Unwind
  <2>2. \A u \in Tasks : pc'[u] = "evictRow" => pc[u] = "evictRow"
    BY <1>26 DEF Fetch, Reject
  <2> QED
    BY <2>1, <2>2
<1>27. ASSUME NEW t \in Tasks, Write(t) PROVE PinsOwned'
  BY <1>27 DEF Write
<1>28. ASSUME NEW t \in Tasks, Verified(t) PROVE PinsOwned'
  BY <1>28 DEF Verified
<1>29. ASSUME NEW t \in Tasks, StreamFails(t) PROVE PinsOwned'
  BY <1>29 DEF StreamFails
<1>30. ASSUME NEW t \in Tasks, Move(t) PROVE PinsOwned'
  BY <1>30 DEF Move
<1>31. ASSUME NEW t \in Tasks, MoveAbandoned(t) PROVE PinsOwned'
  BY <1>31 DEF MoveAbandoned, Inject
<1>32. ASSUME NEW t \in Tasks, Commit(t) PROVE PinsOwned'
  BY <1>32 DEF Commit
<1>33. ASSUME NEW t \in Tasks, Undo(t) PROVE PinsOwned'
  BY <1>33 DEF Undo, Reject, Unwind
<1>34. ASSUME NEW t \in Tasks, GiveUp(t) PROVE PinsOwned'
  BY <1>34 DEF GiveUp, Reject, Unwind
<1>35. ASSUME NEW t \in Tasks, DemoteRow(t) PROVE PinsOwned'
  BY <1>35 DEF DemoteRow
<1>36. ASSUME NEW t \in Tasks, LeaseReadFails(t) PROVE PinsOwned'
  BY <1>36 DEF LeaseReadFails
<1>37. ASSUME NEW t \in Tasks, HashReadFails(t) PROVE PinsOwned'
  BY <1>37 DEF HashReadFails
<1>38. ASSUME NEW t \in Tasks, CommitFails(t) PROVE PinsOwned'
  BY <1>38 DEF CommitFails
<1>39. ASSUME NEW t \in Tasks, IndexWriteFails(t) PROVE PinsOwned'
  BY <1>39 DEF IndexWriteFails, Reject, Unwind
<1>40. ASSUME NEW t \in Tasks, LockVictim(t) PROVE PinsOwned'
  BY <1>40 DEF LockVictim
<1>41. ASSUME NEW s \in Stems, Corrupt(s) PROVE PinsOwned'
  BY <1>41 DEF Corrupt
<1>42. ASSUME NEW s \in Stems, NEW pinned \in BOOLEAN, SetOfflinePin(s, pinned) PROVE PinsOwned'
  BY <1>42, StoreAssumption DEF SetOfflinePin
<1>43. ASSUME RebuildIndex PROVE PinsOwned'
  BY <1>43 DEF RebuildIndex
<1>45. ASSUME NEW o \in Openers, SweepFails(o) PROVE PinsOwned'
  BY <1>45 DEF SweepFails, Leftovers, Orphans, Without, Inject
<1>46. ASSUME NEW t \in Tasks, UndoFails(t) PROVE PinsOwned'
  BY <1>46 DEF UndoFails, Unwind
<1>47. ASSUME NEW t \in Tasks, RemoveFails(t) PROVE PinsOwned'
  BY <1>47 DEF RemoveFails, Without, Spared, Reject, Unwind
<1>48. ASSUME NEW t \in Tasks, NEW v \in Stems, ChooseVictim(t, v) PROVE PinsOwned'
  BY <1>48 DEF ChooseVictim
<1>44. CASE UNCHANGED vars
  BY <1>44 DEF vars
<1> HIDE DEF PinsOwned
<1> QED
  BY <1>1, <1>2, <1>3, <1>4, <1>5, <1>6, <1>7, <1>8, <1>9, <1>10, <1>11, <1>12, <1>13, <1>14, <1>15, <1>16, <1>17, <1>18, <1>19, <1>20, <1>21, <1>22, <1>23, <1>24, <1>25, <1>26, <1>27, <1>28, <1>29, <1>30, <1>31, <1>32, <1>33, <1>34, <1>35, <1>36, <1>37, <1>38, <1>39, <1>40, <1>41, <1>42, <1>43, <1>44, <1>45, <1>46, <1>47, <1>48
  DEF Next, OpenerStep, OpenerEvent, TaskStep, TaskEvent, StemEvent

\* Every step keeps the staging files inside the ingest that wrote them.
LEMMA StagingNext == TypeOK /\ StagingInIngest /\ [Next]_vars => StagingInIngest'
<1> SUFFICES ASSUME TypeOK, StagingInIngest, [Next]_vars PROVE StagingInIngest'
  OBVIOUS
<1> USE DEF StagingInIngest, TypeOK, fileVars, indexVars, lockVars, taskVars, sessionVars, rest, Goto, Promote
<1>1. ASSUME NEW o \in Openers, OpenStore(o) PROVE StagingInIngest'
  BY <1>1 DEF OpenStore
<1>2. ASSUME NEW o \in Openers, SweepStaging(o) PROVE StagingInIngest'
  BY <1>2 DEF SweepStaging, Leftovers
<1>3. ASSUME NEW o \in Openers, SweepFinals(o) PROVE StagingInIngest'
  BY <1>3 DEF SweepFinals, Orphans, Without
<1>4. ASSUME NEW o \in Openers, OpenSession(o) PROVE StagingInIngest'
  BY <1>4 DEF OpenSession
<1>5. ASSUME NEW o \in Openers, Grant(o) PROVE StagingInIngest'
  BY <1>5 DEF Grant, Settled, Running, TasksOf
<1>6. ASSUME NEW o \in Openers, Refuse(o) PROVE StagingInIngest'
  <2>1. phase[o] = "opening" /\ UNCHANGED <<staging, pc>>
    BY <1>6 DEF Refuse, Settled
  <2>2. \A p \in Openers \ {o} : phase'[p] = phase[p]
    BY <1>6 DEF Refuse
  <2> QED
    BY <2>1, <2>2, Holders
<1>7. ASSUME NEW o \in Openers, Rollback(o) PROVE StagingInIngest'
  BY <1>7 DEF Rollback, Unpin
<1>8. ASSUME NEW o \in Openers, Cancel(o) PROVE StagingInIngest'
  BY <1>8 DEF Cancel
<1>9. ASSUME NEW o \in Openers, CloseLease(o) PROVE StagingInIngest'
  BY <1>9 DEF CloseLease, Unpin
<1>10. ASSUME NEW o \in Openers, RollbackFails(o) PROVE StagingInIngest'
  BY <1>10 DEF RollbackFails
<1>11. ASSUME NEW o \in Openers, Crash(o) PROVE StagingInIngest'
  BY <1>11 DEF Crash, TasksOf
<1>12. ASSUME NEW t \in Tasks, StartTask(t) PROVE StagingInIngest'
  BY <1>12 DEF StartTask
<1>13. ASSUME NEW t \in Tasks, LockStem(t) PROVE StagingInIngest'
  BY <1>13 DEF LockStem
<1>14. ASSUME NEW t \in Tasks, Admit(t) PROVE StagingInIngest'
  BY <1>14 DEF Admit
<1>15. ASSUME NEW t \in Tasks, ReadRow(t) PROVE StagingInIngest'
  BY <1>15 DEF ReadRow, Miss
<1>16. ASSUME NEW t \in Tasks, Hash(t) PROVE StagingInIngest'
  BY <1>16 DEF Hash, Reject, Unwind
<1>17. ASSUME NEW t \in Tasks, HashAborted(t) PROVE StagingInIngest'
  BY <1>17 DEF HashAborted, Reject, Unwind
<1>18. ASSUME NEW t \in Tasks, Drop(t) PROVE StagingInIngest'
  BY <1>18 DEF Drop
<1>19. ASSUME NEW t \in Tasks, Unrow(t) PROVE StagingInIngest'
  BY <1>19 DEF Unrow, Miss
<1>20. ASSUME NEW t \in Tasks, Own(t) PROVE StagingInIngest'
  BY <1>20 DEF Own
<1>21. ASSUME NEW t \in Tasks, OwnMissing(t) PROVE StagingInIngest'
  BY <1>21 DEF OwnMissing, Reject, Unwind
<1>22. ASSUME NEW t \in Tasks, Room(t) PROVE StagingInIngest'
  BY <1>22 DEF Room
<1>23. ASSUME NEW t \in Tasks, NoVictim(t) PROVE StagingInIngest'
  BY <1>23 DEF NoVictim, Reject, Unwind
<1>24. ASSUME NEW t \in Tasks, CheckVictim(t) PROVE StagingInIngest'
  BY <1>24 DEF CheckVictim
<1>25. ASSUME NEW t \in Tasks, EvictRow(t) PROVE StagingInIngest'
  BY <1>25 DEF EvictRow
<1>26. ASSUME NEW t \in Tasks, Fetch(t) PROVE StagingInIngest'
  BY <1>26 DEF Fetch, Reject, Unwind
<1>27. ASSUME NEW t \in Tasks, Write(t) PROVE StagingInIngest'
  BY <1>27 DEF Write
<1>28. ASSUME NEW t \in Tasks, Verified(t) PROVE StagingInIngest'
  BY <1>28 DEF Verified
<1>29. ASSUME NEW t \in Tasks, StreamFails(t) PROVE StagingInIngest'
  BY <1>29 DEF StreamFails
<1>30. ASSUME NEW t \in Tasks, Move(t) PROVE StagingInIngest'
  BY <1>30 DEF Move
<1>31. ASSUME NEW t \in Tasks, MoveAbandoned(t) PROVE StagingInIngest'
  BY <1>31 DEF MoveAbandoned, Inject
<1>32. ASSUME NEW t \in Tasks, Commit(t) PROVE StagingInIngest'
  BY <1>32 DEF Commit
<1>33. ASSUME NEW t \in Tasks, Undo(t) PROVE StagingInIngest'
  BY <1>33 DEF Undo, Reject, Unwind
<1>34. ASSUME NEW t \in Tasks, GiveUp(t) PROVE StagingInIngest'
  BY <1>34 DEF GiveUp, Reject, Unwind
<1>35. ASSUME NEW t \in Tasks, DemoteRow(t) PROVE StagingInIngest'
  BY <1>35 DEF DemoteRow
<1>36. ASSUME NEW t \in Tasks, LeaseReadFails(t) PROVE StagingInIngest'
  BY <1>36 DEF LeaseReadFails
<1>37. ASSUME NEW t \in Tasks, HashReadFails(t) PROVE StagingInIngest'
  BY <1>37 DEF HashReadFails
<1>38. ASSUME NEW t \in Tasks, CommitFails(t) PROVE StagingInIngest'
  BY <1>38 DEF CommitFails
<1>39. ASSUME NEW t \in Tasks, IndexWriteFails(t) PROVE StagingInIngest'
  BY <1>39 DEF IndexWriteFails, Reject, Unwind
<1>40. ASSUME NEW t \in Tasks, LockVictim(t) PROVE StagingInIngest'
  BY <1>40 DEF LockVictim
<1>41. ASSUME NEW s \in Stems, Corrupt(s) PROVE StagingInIngest'
  BY <1>41 DEF Corrupt
<1>42. ASSUME NEW s \in Stems, NEW pinned \in BOOLEAN, SetOfflinePin(s, pinned) PROVE StagingInIngest'
  BY <1>42 DEF SetOfflinePin
<1>43. ASSUME RebuildIndex PROVE StagingInIngest'
  BY <1>43 DEF RebuildIndex
<1>45. ASSUME NEW o \in Openers, SweepFails(o) PROVE StagingInIngest'
  BY <1>45 DEF SweepFails, Leftovers, Orphans, Without, Inject
<1>46. ASSUME NEW t \in Tasks, UndoFails(t) PROVE StagingInIngest'
  <2>1. UNCHANGED <<staging, phase>>
    BY <1>46 DEF UndoFails, Unwind
  <2>2. CASE pc[t] = "undo" /\ pc' = [pc EXCEPT ![t] = "littered"]
    BY <2>1, <2>2
  <2>3. CASE pc[t] = "undoFinal" /\ pc' = [pc EXCEPT ![t] = "failed"]
    BY <2>1, <2>3
  <2> QED
    BY <1>46, <2>2, <2>3 DEF UndoFails
<1>47. ASSUME NEW t \in Tasks, RemoveFails(t) PROVE StagingInIngest'
  BY <1>47 DEF RemoveFails, Without, Spared, Reject, Unwind
<1>48. ASSUME NEW t \in Tasks, NEW v \in Stems, ChooseVictim(t, v) PROVE StagingInIngest'
  BY <1>48 DEF ChooseVictim
<1>44. CASE UNCHANGED vars
  BY <1>44 DEF vars
<1> QED
  BY <1>1, <1>2, <1>3, <1>4, <1>5, <1>6, <1>7, <1>8, <1>9, <1>10, <1>11, <1>12, <1>13, <1>14, <1>15, <1>16, <1>17, <1>18, <1>19, <1>20, <1>21, <1>22, <1>23, <1>24, <1>25, <1>26, <1>27, <1>28, <1>29, <1>30, <1>31, <1>32, <1>33, <1>34, <1>35, <1>36, <1>37, <1>38, <1>39, <1>40, <1>41, <1>42, <1>43, <1>44, <1>45, <1>46, <1>47, <1>48
  DEF Next, OpenerStep, OpenerEvent, TaskStep, TaskEvent, StemEvent


-----------------------------------------------------------------------------
\* It holds of a cache that earlier sessions left, with nobody in it.
LEMMA OwnershipInit == ASSUME Init PROVE Ownership
<1>1. TypeOK
  BY TypeInit
<1>2. LocksHeld /\ IndexHeld /\ TasksInSession
  BY Holders DEF Init, LocksHeld, IndexHeld, TasksInSession, HoldsOwn, Hashing, Ingesting, Evicting
<1>3. PinLife /\ PinsHaveRows /\ VictimUnpinned /\ StagingInIngest
  BY DEF Init, PinLife, PinsHaveRows, VictimUnpinned, StagingInIngest
<1> QED
  BY <1>1, <1>2, <1>3 DEF Ownership

\* Every step of every tab, and every fault, keeps it.
LEMMA OwnershipKept == ASSUME Ownership, [Next]_vars PROVE Ownership'
  BY TypeNext, LocksNext, PinsNext, StagingNext DEF Ownership, Locks, PinsOwned

\* Ownership is inductive: it holds in every reachable state of any instance,
\* under every fault the model knows.
THEOREM OwnershipInvariant == Spec => []Ownership
<1>1. Ownership /\ [Next]_vars => Ownership'
  BY OwnershipKept
<1> QED
  BY OwnershipInit, <1>1, PTL DEF Spec

\* Neither an eviction, a demotion nor a rebuild strands a pin without its row.
THEOREM PinsAlwaysHaveRows == Spec => []PinsHaveRows
<1>1. Ownership => PinsHaveRows
  BY DEF Ownership
<1> QED
  BY <1>1, OwnershipInvariant, PTL

\* A session's pin is covered by its lifetime lock unless its tab crashed or the
\* rollback's own write failed.
THEOREM PinsAlwaysCovered == Spec => []PinCovered
<1>1. Ownership => PinCovered
  <2> SUFFICES ASSUME Ownership, NEW s \in Stems, NEW o \in pins[s] \cap Openers
               PROVE  o \in pinLock \/ phase[o] \in {"crashed", "leaked"}
    BY DEF PinCovered
  <2>1. phase[o] \in Phases
    BY DEF Ownership, TypeOK
  <2> QED
    BY <2>1 DEF Ownership, PinLife, Phases
<1> QED
  BY <1>1, OwnershipInvariant, PTL

\* A refused openSession and a closed lease have given every pin back.
THEOREM PinsNeverLeak == Spec => []NoPinLeaks
<1>1. Ownership => NoPinLeaks
  BY DEF Ownership, PinLife, NoPinLeaks
<1> QED
  BY <1>1, OwnershipInvariant, PTL

\* Whatever fails, aborts or dies, a staging file is one its ingest still answers
\* for under the stem's lock, or one whose own removal failed, or a dead tab's.
THEOREM StagingAlwaysOwned == Spec => []StagingOwned
<1>1. Ownership => StagingOwned
  BY DEF Ownership, StagingInIngest, StagingOwned, LocksHeld, HoldsOwn, Hashing, Ingesting, TypeOK
<1> QED
  BY <1>1, OwnershipInvariant, PTL

\* No stem or index lock outlives the openSession calls it was taken for.
THEOREM LocksAlwaysReturned == Spec => []LocksReturned
<1>1. Ownership => LocksReturned
  <2> SUFFICES ASSUME Ownership,
                      \A o \in Openers : phase[o] \notin {"sweepStaging", "sweepFinals", "opening"}
               PROVE  (\A s \in Stems : stemLock[s] = Free) /\ indexLock = Free
    BY DEF LocksReturned
  <2>1. \A t \in Tasks : pc[t] \in {"todo", "done"} \cup Failed
    BY Holders DEF Ownership, TasksInSession
  <2>2. \A s \in Stems : stemLock[s] = Free
    BY <2>1 DEF Ownership, LocksHeld, TypeOK, HoldsOwn, Hashing, Ingesting, Evicting, Failed
  <2>3. indexLock = Free
    BY <2>1 DEF Ownership, IndexHeld, TypeOK, Failed
  <2> QED
    BY <2>2, <2>3
<1> QED
  BY <1>1, OwnershipInvariant, PTL

\* No eviction, demotion, rollback or rebuild leaves pins and rows apart: every
\* pin has its row, is covered by a living tab, and is given back on refusal.
THEOREM PinsAlwaysExact == Spec => []PinsExact
<1>1. PinsHaveRows /\ PinCovered /\ NoPinLeaks => PinsExact
  BY DEF PinsExact
<1> QED
  BY <1>1, PinsAlwaysHaveRows, PinsAlwaysCovered, PinsNeverLeak, PTL

\* A failed ingest, a crash or a refused session leaves no stem lock and no index
\* lock taken, and no staging file but a dead tab's or one whose removal failed.
THEOREM NothingEverStranded == Spec => []NothingStranded
<1>1. StagingOwned /\ LocksReturned => NothingStranded
  BY DEF NothingStranded
<1> QED
  BY <1>1, StagingAlwaysOwned, LocksAlwaysReturned, PTL
-----------------------------------------------------------------------------
(* What keeps the files of a lease in place. *)

\* A session pins only files whose bytes it has verified or ingested.
SessionPinsGood == \A s \in Stems : \A o \in pins[s] \cap Openers : final[s] = "good"

\* Only a stem that no session pins is demoted or ingested.
MendsUnpinned ==
  \A t \in Tasks :
    /\ pc[t] = "drop" => final[t[2]] # "good"
    /\ pc[t] \in {"drop", "unrow"} \cup Ingesting => pins[t[2]] \cap Openers = {}

\* What a task is about to index or to pin is there, under its lock.
OwnsGood == \A t \in Tasks : pc[t] \in {"commit", "own"} => final[t[2]] = "good"

\* A task that is past the index saw no sweep, or the sweep saw its lock: nobody
\* reads the index while a folder sweep holds it.
SweepSpares ==
  \A o \in Openers : phase[o] \in {"sweepStaging", "sweepFinals"} =>
    \A t \in Tasks : pc[t] \in HoldsOwn \ {"admit", "read"} => t[2] \in live[o]

\* While its session lasts, a stem that is done stays pinned.
DoneIsPinned ==
  \A t \in Tasks :
    /\ phase[t[1]] \in {"opening", "open"} /\ pc[t] = "done" => t[1] \in pins[t[2]]
    /\ phase[t[1]] = "open" => pc[t] = "done"
    /\ phase[t[1]] \in {"new", "sweepStaging", "sweepFinals", "ready"} => pc[t] = "todo"

Backing == SessionPinsGood /\ MendsUnpinned /\ OwnsGood /\ SweepSpares /\ DoneIsPinned

\* Files rot, the index is lost, or a lease's own read fails: what no lock prevents.
Calm == Faults \cap {"corrupt", "rebuild", "read"} = {}

\* A hash that was cut short is not taken for a file with the wrong bytes.
HashesDecide == \A t \in Tasks : pc[t] = "hash" /\ pc'[t] = "drop" => final[t[2]] # "good"

\* Every step keeps the files that sessions rely on, unless a hash lies.
LEMMA BackingNext == ASSUME Calm, Ownership, Backing, [Next]_vars, HashesDecide PROVE Backing'
<1>0. /\ LocksHeld /\ IndexHeld /\ TypeOK /\ PinsHaveRows /\ VictimUnpinned /\ TasksInSession
      /\ PinLife
  BY DEF Ownership
<1>a. \A t, u \in Tasks : pc[t] \in HoldsOwn /\ pc[u] \in HoldsOwn /\ t[2] = u[2] => t = u
  BY <1>0 DEF LocksHeld
<1>b. \A t, u \in Tasks : pc[t] \in Evicting /\ pc[u] \in HoldsOwn => victim[t] # u[2]
  <2> SUFFICES ASSUME NEW t \in Tasks, NEW u \in Tasks, pc[t] \in Evicting, pc[u] \in HoldsOwn,
                      victim[t] = u[2]
               PROVE  FALSE
    OBVIOUS
  <2>1. t = u BY <1>0 DEF LocksHeld
  <2> QED BY <2>1 DEF HoldsOwn, Evicting, Hashing, Ingesting
<1>c. \A t \in Tasks : pc[t] \in HoldsOwn => stemLock[t[2]] = t
  BY <1>0 DEF LocksHeld
<1>d. pc' \in [Tasks -> Steps]
  BY <1>0, TypeNext DEF TypeOK
<1> USE Holders, <1>0, <1>a, <1>b, <1>c DEF Backing, SessionPinsGood, MendsUnpinned, OwnsGood, SweepSpares, DoneIsPinned,
     IndexHeld, PinsHaveRows, VictimUnpinned, TasksInSession, TypeOK, Calm, HashesDecide,
     fileVars, indexVars, lockVars, taskVars, sessionVars, rest, Goto, IndexFree, HoldsOwn, Evicting, Hashing, Ingesting
<1>1. ASSUME NEW o \in Openers, OpenStore(o) PROVE Backing'
  BY <1>1 DEF OpenStore, LiveStems
<1>2. ASSUME NEW o \in Openers, SweepStaging(o) PROVE Backing'
  BY <1>2 DEF SweepStaging, Leftovers
<1>3. ASSUME NEW o \in Openers, SweepFinals(o) PROVE Backing'
  <2>1. UNCHANGED <<pins, rows, pc, live>> /\ phase' = [phase EXCEPT ![o] = "ready"] /\ phase[o] = "sweepFinals"
    BY <1>3 DEF SweepFinals, Orphans, Without
  <2>2. \A s \in Stems : final'[s] # final[s] => s \notin rows \cup live[o]
    BY <1>3 DEF SweepFinals, Orphans, Without
  <2>3. \A s \in Stems : final'[s] \in {final[s], "absent"}
    BY <1>3 DEF SweepFinals, Orphans, Without
  <2>4. \A u \in Tasks : pc[u] \in {"commit", "own"} => final'[u[2]] = final[u[2]]
    BY <2>1, <2>2
  <2>5. \A s \in Stems : pins[s] # {} => final'[s] = final[s]
    BY <2>2
  <2> QED BY <2>1, <2>3, <2>4, <2>5
<1>4. ASSUME NEW o \in Openers, OpenSession(o) PROVE Backing'
  BY <1>4 DEF OpenSession
<1>5. ASSUME NEW o \in Openers, Grant(o) PROVE Backing'
  BY <1>5 DEF Grant, Settled, AllDone, TasksOf
<1>6. ASSUME NEW o \in Openers, Refuse(o) PROVE Backing'
  BY <1>6 DEF Refuse, Settled
<1>7. ASSUME NEW o \in Openers, Rollback(o) PROVE Backing'
  BY <1>7 DEF Rollback, Unpin
<1>8. ASSUME NEW o \in Openers, Cancel(o) PROVE Backing'
  BY <1>8 DEF Cancel
<1>9. ASSUME NEW o \in Openers, CloseLease(o) PROVE Backing'
  BY <1>9 DEF CloseLease, Unpin
<1>10. ASSUME NEW o \in Openers, RollbackFails(o) PROVE Backing'
  BY <1>10 DEF RollbackFails, Inject
<1>11. ASSUME NEW o \in Openers, Crash(o) PROVE Backing'
  BY <1>11 DEF Crash, TasksOf, Inject, Hashing, Ingesting
<1>12. ASSUME NEW t \in Tasks, StartTask(t) PROVE Backing'
  BY <1>12 DEF StartTask
<1>13. ASSUME NEW t \in Tasks, LockStem(t) PROVE Backing'
  BY <1>13 DEF LockStem
<1>14. ASSUME NEW t \in Tasks, Admit(t) PROVE Backing'
  BY <1>14 DEF Admit
<1>15. ASSUME NEW t \in Tasks, ReadRow(t) PROVE Backing'
  BY <1>15 DEF ReadRow, Miss, Hashing, Ingesting
<1>16. ASSUME NEW t \in Tasks, Hash(t) PROVE Backing'
  <2>1. CASE Reject(t)
    BY <1>16, <2>1 DEF Hash, Reject, Unwind
  <2>2. CASE ~Reject(t)
    <3>1. pc' = [pc EXCEPT ![t] = "drop"] \/ pc' = [pc EXCEPT ![t] = "own"]
      BY <1>16, <2>2 DEF Hash
    <3>2. UNCHANGED <<final, pins, rows, phase, live>>
      BY <1>16, <2>2 DEF Hash
    <3>3. pc[t] = "hash" /\ (pc'[t] = "own" => final[t[2]] = "good")
      BY <1>16, <2>2 DEF Hash
    <3>4. \A u \in Tasks : pc'[u] \in HoldsOwn => pc[u] \in HoldsOwn \ {"admit", "read"} \/ pc'[u] = pc[u]
      BY <3>1, <3>3
    <3>5. SessionPinsGood' /\ SweepSpares'
      BY <3>2, <3>4
    <3>6. OwnsGood'
      BY <3>1, <3>2, <3>3
    <3>7. MendsUnpinned'
      BY <3>1, <3>2, <3>3
    <3>8. DoneIsPinned'
      BY <3>1, <3>2, <3>3 DEF Failed
    <3> QED BY <3>5, <3>6, <3>7, <3>8
  <2> QED BY <2>1, <2>2
<1>17. ASSUME NEW t \in Tasks, HashAborted(t) PROVE Backing'
  <2>1. CASE Reject(t)
    BY <1>17, <2>1 DEF HashAborted, Reject, Unwind
  <2>2. CASE ~Reject(t)
    <3>1. pc[t] = "hash" /\ pc' = [pc EXCEPT ![t] = "drop"]
      BY <1>17, <2>2 DEF HashAborted
    <3>2. UNCHANGED <<final, pins, rows, phase, live>>
      BY <1>17, <2>2 DEF HashAborted
    <3> QED BY <3>1, <3>2
  <2> QED BY <2>1, <2>2
<1>18. ASSUME NEW t \in Tasks, Drop(t) PROVE Backing'
  BY <1>18 DEF Drop
<1>19. ASSUME NEW t \in Tasks, Unrow(t) PROVE Backing'
  BY <1>19 DEF Unrow, Miss
<1>20. ASSUME NEW t \in Tasks, Own(t) PROVE Backing'
  BY <1>20 DEF Own
<1>21. ASSUME NEW t \in Tasks, OwnMissing(t) PROVE Backing'
  BY <1>21 DEF OwnMissing, Reject, Unwind
<1>22. ASSUME NEW t \in Tasks, Room(t) PROVE Backing'
  BY <1>22 DEF Room
<1>23. ASSUME NEW t \in Tasks, NoVictim(t) PROVE Backing'
  BY <1>23 DEF NoVictim, Reject, Unwind
<1>24. ASSUME NEW t \in Tasks, CheckVictim(t) PROVE Backing'
  <2>1. CASE UNCHANGED final
    <3>1. pc'[t] \in {"lock", "evict", "evictRow"}
      BY <1>24 DEF CheckVictim
    <3>2. \A u \in Tasks \ {t} : pc'[u] = pc[u]
      BY <1>24 DEF CheckVictim
    <3>3. pc[t] = "evictIndex" /\ UNCHANGED <<pins, rows, phase, live>>
      BY <1>24 DEF CheckVictim
    <3>4. \A u \in Tasks : pc'[u] \in HoldsOwn \cup {"done", "todo"} => u # t /\ pc'[u] = pc[u]
      BY <3>1, <3>2
    <3>5. SessionPinsGood' /\ OwnsGood' /\ MendsUnpinned' BY <2>1, <3>3, <3>4
    <3>6. \A u \in Tasks : phase[u[1]] # "opening" => u # t BY <3>3 DEF Failed
    <3>7. SweepSpares' BY <3>3, <3>4
    <3>8. DoneIsPinned' BY <3>2, <3>3, <3>4, <3>6
    <3> QED BY <3>5, <3>7, <3>8
  <2>2. CASE ~Spared(t) /\ final' = [final EXCEPT ![victim[t]] = "absent"]
    <3>1. pc[t] = "evictIndex" /\ pc'[t] \in {"lock", "evict", "evictRow"}
      BY <1>24 DEF CheckVictim
    <3>2. \A u \in Tasks \ {t} : pc'[u] = pc[u]
      BY <1>24 DEF CheckVictim
    <3>3. UNCHANGED <<pins, rows, phase, live>> /\ pins[victim[t]] = {}
      BY <1>24, <2>2 DEF CheckVictim, Spared
    <3>4. \A u \in Tasks : pc[u] \in HoldsOwn => final'[u[2]] = final[u[2]]
      BY <1>24, <2>2 DEF CheckVictim
    <3>5. \A s \in Stems : pins[s] # {} => final'[s] = final[s]
      BY <2>2, <3>3
    <3>6. SessionPinsGood' BY <3>3, <3>5
    <3>7. OwnsGood' BY <1>d, <3>1, <3>2, <3>3, <3>4
    <3>8. MendsUnpinned'
      <4>1. \A u \in Tasks : pc'[u] = "drop" => pc[u] = "drop" /\ u # t BY <3>1, <3>2
      <4>2. \A u \in Tasks : pc'[u] \in {"drop", "unrow"} \cup Ingesting => pc'[u] = pc[u] BY <3>1, <3>2
      <4> QED BY <3>3, <3>4, <4>1, <4>2
    <3>9. SweepSpares' /\ DoneIsPinned' BY <1>d, <3>1, <3>2, <3>3
    <3> QED BY <3>6, <3>7, <3>8, <3>9
  <2> QED BY <1>24, <2>1, <2>2 DEF CheckVictim
<1>25. ASSUME NEW t \in Tasks, EvictRow(t) PROVE Backing'
  BY <1>25 DEF EvictRow
<1>26. ASSUME NEW t \in Tasks, Fetch(t) PROVE Backing'
  <2>1. CASE HasRoom
    <3>1. pc[t] = "fetch" /\ pc' = [pc EXCEPT ![t] = "write"]
      BY <1>26, <2>1 DEF Fetch
    <3>2. UNCHANGED <<final, pins, rows, phase, live>>
      BY <1>26, <2>1 DEF Fetch
    <3> QED BY <3>1, <3>2
  <2>2. CASE ~HasRoom
    <3>1. pc[t] = "fetch" /\ pc' = [pc EXCEPT ![t] = "failed"]
      BY <1>26, <2>2 DEF Fetch, Reject, Unwind
    <3>2. UNCHANGED <<final, pins, rows, phase, live>>
      BY <1>26, <2>2 DEF Fetch, Reject, Unwind
    <3> QED BY <3>1, <3>2
  <2> QED BY <2>1, <2>2
<1>27. ASSUME NEW t \in Tasks, Write(t) PROVE Backing'
  <2>1. pc[t] = "write" /\ pc'[t] \in {"stream", "undo"}
    BY <1>27 DEF Write
  <2>2. \A u \in Tasks \ {t} : pc'[u] = pc[u]
    BY <1>27 DEF Write
  <2>3. UNCHANGED <<final, pins, rows, phase, live>>
    BY <1>27 DEF Write
  <2> QED BY <1>d, <2>1, <2>2, <2>3
<1>28. ASSUME NEW t \in Tasks, Verified(t) PROVE Backing'
  BY <1>28 DEF Verified
<1>29. ASSUME NEW t \in Tasks, StreamFails(t) PROVE Backing'
  BY <1>29 DEF StreamFails
<1>30. ASSUME NEW t \in Tasks, Move(t) PROVE Backing'
  <2>1. CASE Promote(t)
    <3>1. pc[t] = "move" /\ final' = [final EXCEPT ![t[2]] = "good"] /\ final'[t[2]] = "good"
      BY <1>30, <2>1 DEF Move, Promote
    <3>2. pc'[t] \in {"undoFinal", "commit", "undo"} /\ \A u \in Tasks \ {t} : pc'[u] = pc[u]
      BY <1>30, <2>1 DEF Move
    <3>3. UNCHANGED <<pins, rows, phase, live>>
      BY <1>30, <2>1 DEF Move
    <3>4. \A u \in Tasks \ {t} : pc[u] \in HoldsOwn => final'[u[2]] = final[u[2]]
      BY <3>1
    <3>5. SessionPinsGood' BY <3>1, <3>3
    <3>6. MendsUnpinned'
      <4>1. \A u \in Tasks : pc'[u] = "drop" => u # t /\ pc[u] = "drop" BY <3>2
      <4>2. \A u \in Tasks \ {t} : pc'[u] = pc[u] BY <3>2
      <4>3. pins[t[2]] \cap Openers = {} BY <3>1
      <4> QED BY <3>3, <3>4, <4>1, <4>2, <4>3
    <3>7. OwnsGood' BY <1>d, <3>1, <3>2, <3>4
    <3>8. SweepSpares' /\ DoneIsPinned' BY <1>d, <3>1, <3>2, <3>3
    <3> QED BY <3>5, <3>6, <3>7, <3>8
  <2>2. CASE UNCHANGED fileVars
    <3>1. pc[t] = "move" /\ pc' = [pc EXCEPT ![t] = "undo"]
      BY <1>30, <2>2 DEF Move, Promote
    <3>2. UNCHANGED <<final, pins, rows, phase, live>>
      BY <1>30, <2>2 DEF Move
    <3> QED BY <3>1, <3>2
  <2> QED BY <1>30, <2>1, <2>2 DEF Move
<1>31. ASSUME NEW t \in Tasks, MoveAbandoned(t) PROVE Backing'
  BY <1>31 DEF MoveAbandoned, Promote, Inject
<1>32. ASSUME NEW t \in Tasks, Commit(t) PROVE Backing'
  BY <1>32 DEF Commit
<1>33. ASSUME NEW t \in Tasks, Undo(t) PROVE Backing'
  BY <1>33 DEF Undo, Reject, Unwind
<1>34. ASSUME NEW t \in Tasks, GiveUp(t) PROVE Backing'
  BY <1>34 DEF GiveUp, Reject, Unwind
<1>35. ASSUME NEW t \in Tasks, DemoteRow(t) PROVE Backing'
  BY <1>35 DEF DemoteRow
<1>36. ASSUME NEW t \in Tasks, LeaseReadFails(t) PROVE Backing'
  BY <1>36 DEF LeaseReadFails, Inject
<1>37. ASSUME NEW t \in Tasks, HashReadFails(t) PROVE Backing'
  BY <1>37 DEF HashReadFails, Inject
<1>38. ASSUME NEW t \in Tasks, CommitFails(t) PROVE Backing'
  BY <1>38 DEF CommitFails, Inject
<1>39. ASSUME NEW t \in Tasks, IndexWriteFails(t) PROVE Backing'
  BY <1>39 DEF IndexWriteFails, Reject, Unwind, Inject
<1>40. ASSUME NEW t \in Tasks, LockVictim(t) PROVE Backing'
  BY <1>40 DEF LockVictim
<1>41. ASSUME NEW s \in Stems, Corrupt(s) PROVE Backing'
  BY <1>41 DEF Corrupt, Inject
<1>42. ASSUME NEW s \in Stems, NEW pinned \in BOOLEAN, SetOfflinePin(s, pinned) PROVE Backing'
  <2>1. \A r \in Stems : pins'[r] \cap Openers = pins[r] \cap Openers
    BY <1>42, StoreAssumption DEF SetOfflinePin
  <2>2. \A r \in Stems, o \in Openers : o \in pins'[r] <=> o \in pins[r]
    BY <2>1
  <2> QED BY <1>42, <2>1, <2>2 DEF SetOfflinePin
<1>43. ASSUME RebuildIndex PROVE Backing'
  BY <1>43 DEF RebuildIndex, Inject
<1>45. ASSUME NEW o \in Openers, SweepFails(o) PROVE Backing'
  <2>1. /\ UNCHANGED <<pins, rows, pc, live>> /\ phase' = [phase EXCEPT ![o] = "new"]
        /\ phase[o] \in {"sweepStaging", "sweepFinals"}
    BY <1>45 DEF SweepFails
  <2>2. \A s \in Stems : final'[s] # final[s] => s \notin rows \cup live[o]
    BY <1>45 DEF SweepFails, Orphans, Without
  <2>3. \A s \in Stems : final'[s] \in {final[s], "absent"}
    BY <1>45 DEF SweepFails, Orphans, Without
  <2>4. \A u \in Tasks : pc[u] \in {"commit", "own"} => u[2] \in live[o]
    BY <2>1
  <2>5. \A u \in Tasks : pc[u] \in {"commit", "own"} => final'[u[2]] = final[u[2]]
    BY <2>2, <2>4
  <2>6. \A s \in Stems : pins[s] # {} => final'[s] = final[s]
    BY <2>2
  <2> QED BY <2>1, <2>3, <2>5, <2>6
<1>46. ASSUME NEW t \in Tasks, UndoFails(t) PROVE Backing'
  <2>1. /\ UNCHANGED <<final, pins, rows, phase, live>> /\ pc[t] \in {"undo", "undoFinal"}
        /\ pc'[t] \in {"littered", "failed"} /\ (\A u \in Tasks \ {t} : pc'[u] = pc[u])
    BY <1>46 DEF UndoFails, Unwind
  <2>2. \A u \in Tasks : pc'[u] \in HoldsOwn \cup {"done", "todo"} => u # t /\ pc'[u] = pc[u]
    BY <2>1
  <2>3. phase[t[1]] = "opening"
    BY <2>1 DEF Failed
  <2>4. SessionPinsGood' /\ MendsUnpinned' /\ OwnsGood'
    BY <2>1, <2>2
  <2>5. SweepSpares'
    BY <2>1, <2>2
  <2>6. DoneIsPinned'
    BY <2>1, <2>3
  <2> QED
    BY <2>4, <2>5, <2>6
<1>47. ASSUME NEW t \in Tasks, RemoveFails(t) PROVE Backing'
  BY <1>47 DEF RemoveFails, Without, Spared, Reject, Unwind, Inject
<1>48. ASSUME NEW t \in Tasks, NEW v \in Stems, ChooseVictim(t, v) PROVE Backing'
  BY <1>48 DEF ChooseVictim
<1>44. CASE UNCHANGED vars
  BY <1>44 DEF vars
<1> HIDE DEF Backing
<1> QED
  BY <1>1, <1>2, <1>3, <1>4, <1>5, <1>6, <1>7, <1>8, <1>9, <1>10, <1>11, <1>12, <1>13, <1>14, <1>15, <1>16, <1>17, <1>18, <1>19, <1>20, <1>21, <1>22, <1>23, <1>24, <1>25, <1>26, <1>27, <1>28, <1>29, <1>30, <1>31, <1>32, <1>33, <1>34, <1>35, <1>36, <1>37, <1>38, <1>39, <1>40, <1>41, <1>42, <1>43, <1>44, <1>45, <1>46, <1>47, <1>48
  DEF Next, OpenerStep, OpenerEvent, TaskStep, TaskEvent, StemEvent

\* Only the resolver may fail.
Quiet == Faults \subseteq {"resolver"}

\* Every row vouches for a file, except the one an eviction is removing; a file
\* that is hashed has its row, one that is ingested has none, none is demoted.
Vouched ==
  /\ demoting = {}
  /\ \A s \in Stems : final[s] # "bad"
  /\ \A s \in rows : final[s] = "good" \/ \E t \in Tasks : pc[t] = "evictRow" /\ victim[t] = s
  /\ \A t \in Tasks : /\ pc[t] = "hash" => t[2] \in rows
                      /\ pc[t] \in Ingesting => t[2] \notin rows
                      /\ pc[t] \notin {"drop", "unrow"}

\* Every step keeps rows and files together while only the resolver may fail.
LEMMA VouchedNext ==
  ASSUME Quiet, Ownership, Backing, Vouched, [Next]_vars, HashesDecide PROVE Vouched'
<1>0. /\ LocksHeld /\ IndexHeld /\ TypeOK
  BY DEF Ownership
<1>a. \A t, u \in Tasks : pc[t] \in HoldsOwn /\ pc[u] \in HoldsOwn /\ t[2] = u[2] => t = u
  BY <1>0 DEF LocksHeld
<1>b. \A t, u \in Tasks : pc[t] \in Evicting /\ pc[u] \in HoldsOwn => victim[t] # u[2]
  <2> SUFFICES ASSUME NEW t \in Tasks, NEW u \in Tasks, pc[t] \in Evicting, pc[u] \in HoldsOwn,
                      victim[t] = u[2]
               PROVE  FALSE
    OBVIOUS
  <2>1. t = u BY <1>0 DEF LocksHeld
  <2> QED BY <2>1 DEF HoldsOwn, Evicting, Hashing, Ingesting
<1>c. \A t \in Tasks : pc[t] = "commit" => final[t[2]] = "good"
  BY DEF Backing, OwnsGood
<1>d. pc' \in [Tasks -> Steps]
  BY <1>0, TypeNext DEF TypeOK
<1> USE Holders, <1>0, <1>a, <1>b, <1>c, <1>d DEF Vouched, IndexHeld, TypeOK, Quiet, HashesDecide,
     fileVars, indexVars, lockVars, taskVars, sessionVars, rest, Goto, IndexFree, HoldsOwn, Evicting,
     Hashing, Ingesting
<1>1. ASSUME NEW o \in Openers, OpenStore(o) PROVE Vouched'
  BY <1>1 DEF OpenStore, LiveStems
<1>2. ASSUME NEW o \in Openers, SweepStaging(o) PROVE Vouched'
  BY <1>2 DEF SweepStaging, Leftovers
<1>3. ASSUME NEW o \in Openers, SweepFinals(o) PROVE Vouched'
  BY <1>3 DEF SweepFinals, Orphans, Without
<1>4. ASSUME NEW o \in Openers, OpenSession(o) PROVE Vouched'
  BY <1>4 DEF OpenSession
<1>5. ASSUME NEW o \in Openers, Grant(o) PROVE Vouched'
  BY <1>5 DEF Grant, Settled, AllDone, TasksOf
<1>6. ASSUME NEW o \in Openers, Refuse(o) PROVE Vouched'
  BY <1>6 DEF Refuse, Settled
<1>7. ASSUME NEW o \in Openers, Rollback(o) PROVE Vouched'
  BY <1>7 DEF Rollback, Unpin
<1>8. ASSUME NEW o \in Openers, Cancel(o) PROVE Vouched'
  BY <1>8 DEF Cancel
<1>9. ASSUME NEW o \in Openers, CloseLease(o) PROVE Vouched'
  BY <1>9 DEF CloseLease, Unpin
<1>10. ASSUME NEW o \in Openers, RollbackFails(o) PROVE Vouched'
  BY <1>10 DEF RollbackFails, Inject
<1>11. ASSUME NEW o \in Openers, Crash(o) PROVE Vouched'
  BY <1>11 DEF Crash, TasksOf, Inject
<1>12. ASSUME NEW t \in Tasks, StartTask(t) PROVE Vouched'
  BY <1>12 DEF StartTask
<1>13. ASSUME NEW t \in Tasks, LockStem(t) PROVE Vouched'
  BY <1>13 DEF LockStem
<1>14. ASSUME NEW t \in Tasks, Admit(t) PROVE Vouched'
  BY <1>14 DEF Admit
<1>15. ASSUME NEW t \in Tasks, ReadRow(t) PROVE Vouched'
  BY <1>15 DEF ReadRow, Miss
<1>16. ASSUME NEW t \in Tasks, Hash(t) PROVE Vouched'
  BY <1>16 DEF Hash, Reject, Unwind
<1>17. ASSUME NEW t \in Tasks, HashAborted(t) PROVE Vouched'
  BY <1>17 DEF HashAborted, Reject, Unwind
<1>18. ASSUME NEW t \in Tasks, Drop(t) PROVE Vouched'
  BY <1>18 DEF Drop
<1>19. ASSUME NEW t \in Tasks, Unrow(t) PROVE Vouched'
  BY <1>19 DEF Unrow, Miss
<1>20. ASSUME NEW t \in Tasks, Own(t) PROVE Vouched'
  BY <1>20 DEF Own
<1>21. ASSUME NEW t \in Tasks, OwnMissing(t) PROVE Vouched'
  BY <1>21 DEF OwnMissing, Reject, Unwind
<1>22. ASSUME NEW t \in Tasks, Room(t) PROVE Vouched'
  BY <1>22 DEF Room
<1>23. ASSUME NEW t \in Tasks, NoVictim(t) PROVE Vouched'
  BY <1>23 DEF NoVictim, Reject, Unwind
<1>24. ASSUME NEW t \in Tasks, CheckVictim(t) PROVE Vouched'
  BY <1>24 DEF CheckVictim, Spared
<1>25. ASSUME NEW t \in Tasks, EvictRow(t) PROVE Vouched'
  BY <1>25 DEF EvictRow
<1>26. ASSUME NEW t \in Tasks, Fetch(t) PROVE Vouched'
  BY <1>26 DEF Fetch, Reject, Unwind
<1>27. ASSUME NEW t \in Tasks, Write(t) PROVE Vouched'
  BY <1>27 DEF Write
<1>28. ASSUME NEW t \in Tasks, Verified(t) PROVE Vouched'
  BY <1>28 DEF Verified
<1>29. ASSUME NEW t \in Tasks, StreamFails(t) PROVE Vouched'
  BY <1>29 DEF StreamFails
<1>30. ASSUME NEW t \in Tasks, Move(t) PROVE Vouched'
  <2>1. pc[t] = "move" /\ pc'[t] \in {"commit", "undoFinal", "undo"} /\ \A u \in Tasks \ {t} : pc'[u] = pc[u]
    BY <1>30 DEF Move
  <2>2. UNCHANGED <<rows, demoting, victim>> /\ t[2] \notin rows
    BY <1>30, <2>1 DEF Move
  <2>3. final' = final \/ final' = [final EXCEPT ![t[2]] = "good"]
    BY <1>30 DEF Move, Promote
  <2>4. \A s \in rows : final'[s] = final[s]
    BY <2>2, <2>3
  <2>5. \A s \in Stems : final'[s] # "bad"
    BY <2>3
  <2> QED
    BY <2>1, <2>2, <2>4, <2>5
<1>31. ASSUME NEW t \in Tasks, MoveAbandoned(t) PROVE Vouched'
  BY <1>31 DEF MoveAbandoned, Promote, Inject
<1>32. ASSUME NEW t \in Tasks, Commit(t) PROVE Vouched'
  BY <1>32 DEF Commit
<1>33. ASSUME NEW t \in Tasks, Undo(t) PROVE Vouched'
  BY <1>33 DEF Undo, Reject, Unwind
<1>34. ASSUME NEW t \in Tasks, GiveUp(t) PROVE Vouched'
  BY <1>34 DEF GiveUp, Reject, Unwind
<1>35. ASSUME NEW t \in Tasks, DemoteRow(t) PROVE Vouched'
  BY <1>35 DEF DemoteRow
<1>36. ASSUME NEW t \in Tasks, LeaseReadFails(t) PROVE Vouched'
  BY <1>36 DEF LeaseReadFails, Inject
<1>37. ASSUME NEW t \in Tasks, HashReadFails(t) PROVE Vouched'
  BY <1>37 DEF HashReadFails, Inject
<1>38. ASSUME NEW t \in Tasks, CommitFails(t) PROVE Vouched'
  BY <1>38 DEF CommitFails, Inject
<1>39. ASSUME NEW t \in Tasks, IndexWriteFails(t) PROVE Vouched'
  BY <1>39 DEF IndexWriteFails, Reject, Unwind, Inject
<1>40. ASSUME NEW t \in Tasks, LockVictim(t) PROVE Vouched'
  BY <1>40 DEF LockVictim
<1>41. ASSUME NEW s \in Stems, Corrupt(s) PROVE Vouched'
  BY <1>41 DEF Corrupt, Inject
<1>42. ASSUME NEW s \in Stems, NEW pinned \in BOOLEAN, SetOfflinePin(s, pinned) PROVE Vouched'
  BY <1>42 DEF SetOfflinePin
<1>43. ASSUME RebuildIndex PROVE Vouched'
  BY <1>43 DEF RebuildIndex, Inject
<1>45. ASSUME NEW o \in Openers, SweepFails(o) PROVE Vouched'
  BY <1>45 DEF SweepFails, Leftovers, Orphans, Without, Inject
<1>46. ASSUME NEW t \in Tasks, UndoFails(t) PROVE Vouched'
  BY <1>46 DEF UndoFails, Unwind, Inject
<1>47. ASSUME NEW t \in Tasks, RemoveFails(t) PROVE Vouched'
  BY <1>47 DEF RemoveFails, Without, Spared, Reject, Unwind, Inject
<1>48. ASSUME NEW t \in Tasks, NEW v \in Stems, ChooseVictim(t, v) PROVE Vouched'
  BY <1>48 DEF ChooseVictim
<1>44. CASE UNCHANGED vars
  BY <1>44 DEF vars
<1> HIDE DEF Vouched
<1> QED
  BY <1>1, <1>2, <1>3, <1>4, <1>5, <1>6, <1>7, <1>8, <1>9, <1>10, <1>11, <1>12, <1>13, <1>14, <1>15, <1>16, <1>17, <1>18, <1>19, <1>20, <1>21, <1>22, <1>23, <1>24, <1>25, <1>26, <1>27, <1>28, <1>29, <1>30, <1>31, <1>32, <1>33, <1>34, <1>35, <1>36, <1>37, <1>38, <1>39, <1>40, <1>41, <1>42, <1>43, <1>44, <1>45, <1>46, <1>47, <1>48
  DEF Next, OpenerStep, OpenerEvent, TaskStep, TaskEvent, StemEvent

\* One stem of an openSession at a time, cancelled with an AbortError only.
Serial == Width = 1 /\ Reasons \subseteq {"AbortError"}

Active(t) == pc[t] \notin {"todo", "done"} \cup Failed

\* At most one stem of a session is under way, none after one has failed, and a
\* session is aborted with anything but an AbortError only because one has failed.
OneAtATime ==
  /\ \A t, u \in Tasks : t[1] = u[1] /\ Active(t) /\ Active(u) => t = u
  /\ \A t, u \in Tasks : t[1] = u[1] /\ pc[t] \in Failed => ~Active(u)
  /\ \A o \in Openers : abort[o] = "other" => \E t \in Tasks : t[1] = o /\ pc[t] \in Failed

\* With width one a task starts only if no other stem of its session is under way.
LEMMA NobodyRuns ==
  ASSUME Serial, NEW o \in Openers, Cardinality(Running(o)) < Width PROVE Running(o) = {}
<1>1. IsFiniteSet(Openers \X Stems)
  BY StoreAssumption, FS_Product
<1>2. IsFiniteSet(Running(o))
  BY <1>1, FS_Subset DEF Running, TasksOf, Tasks
<1>3. Cardinality(Running(o)) \in Nat
  BY <1>2, FS_CardinalityType
<1>4. Cardinality(Running(o)) = 0
  BY <1>3 DEF Serial
<1> QED
  BY <1>2, <1>4, FS_EmptySet

\* A step of the one stem under way keeps it alone.
LEMMA StepAlone ==
  ASSUME TypeOK, OneAtATime, NEW t \in Tasks, Active(t), pc' \in [Tasks -> Steps],
         \A u \in Tasks \ {t} : pc'[u] = pc[u],
         \/ UNCHANGED abort
         \/ pc'[t] \in Failed /\ \A o \in Openers \ {t[1]} : abort'[o] = abort[o]
  PROVE  OneAtATime'
<1>1. \A u \in Tasks : u[1] = t[1] /\ u # t => ~Active(u) /\ ~Active(u)' /\ pc[u] \notin Failed /\ pc'[u] \notin Failed
  BY DEF OneAtATime, Active
<1>2. \A u, v \in Tasks : u[1] = v[1] /\ Active(u)' /\ Active(v)' => u = v
  BY <1>1 DEF OneAtATime, Active
<1>3. \A u, v \in Tasks : u[1] = v[1] /\ pc'[u] \in Failed => ~Active(v)'
  BY <1>1 DEF OneAtATime, Active
<1>4. \A o \in Openers : abort'[o] = "other" => \E u \in Tasks : u[1] = o /\ pc'[u] \in Failed
  <2>1. CASE UNCHANGED abort
    BY <2>1 DEF OneAtATime, Active
  <2>2. CASE pc'[t] \in Failed /\ \A o \in Openers \ {t[1]} : abort'[o] = abort[o]
    BY <2>2 DEF OneAtATime, Active
  <2> QED BY <2>1, <2>2
<1> QED
  BY <1>2, <1>3, <1>4 DEF OneAtATime

\* No step runs two stems of a serial session, or one after a failure.
LEMMA SerialNext == ASSUME Serial, TypeOK, OneAtATime, [Next]_vars PROVE OneAtATime'
<1>0. pc' \in [Tasks -> Steps]
  BY TypeNext DEF TypeOK
<1> USE Holders, <1>0 DEF OneAtATime, Active, Serial, TypeOK,
     fileVars, indexVars, lockVars, taskVars, sessionVars, rest, Goto
<1>1. ASSUME NEW o \in Openers, OpenStore(o) PROVE OneAtATime'
  BY <1>1 DEF OpenStore, LiveStems
<1>2. ASSUME NEW o \in Openers, SweepStaging(o) PROVE OneAtATime'
  BY <1>2 DEF SweepStaging, Leftovers
<1>3. ASSUME NEW o \in Openers, SweepFinals(o) PROVE OneAtATime'
  BY <1>3 DEF SweepFinals, Orphans, Without
<1>4. ASSUME NEW o \in Openers, OpenSession(o) PROVE OneAtATime'
  BY <1>4 DEF OpenSession
<1>5. ASSUME NEW o \in Openers, Grant(o) PROVE OneAtATime'
  BY <1>5 DEF Grant, Settled, AllDone, TasksOf
<1>6. ASSUME NEW o \in Openers, Refuse(o) PROVE OneAtATime'
  BY <1>6 DEF Refuse, Settled
<1>7. ASSUME NEW o \in Openers, Rollback(o) PROVE OneAtATime'
  BY <1>7 DEF Rollback, Unpin
<1>8. ASSUME NEW o \in Openers, Cancel(o) PROVE OneAtATime'
  <2>1. abort'[o] = "AbortError" /\ (\A p \in Openers \ {o} : abort'[p] = abort[p]) /\ UNCHANGED pc
    BY <1>8 DEF Cancel
  <2> QED BY <2>1
<1>9. ASSUME NEW o \in Openers, CloseLease(o) PROVE OneAtATime'
  BY <1>9 DEF CloseLease, Unpin
<1>10. ASSUME NEW o \in Openers, RollbackFails(o) PROVE OneAtATime'
  BY <1>10 DEF RollbackFails, Inject
<1>11. ASSUME NEW o \in Openers, Crash(o) PROVE OneAtATime'
  <2>1. \A u \in Tasks : pc'[u] = IF u[1] = o THEN "failed" ELSE pc[u]
    BY <1>11 DEF Crash
  <2>2. UNCHANGED abort
    BY <1>11 DEF Crash
  <2>3. \A u \in Tasks : Active(u)' => u[1] # o /\ Active(u)
    BY <2>1 DEF Failed
  <2>4. \A u \in Tasks : pc'[u] \in Failed => u[1] = o \/ pc[u] \in Failed
    BY <2>1
  <2>5. \A u \in Tasks : pc[u] \in Failed => pc'[u] \in Failed
    BY <2>1 DEF Failed
  <2> QED BY <2>2, <2>3, <2>4, <2>5
<1>12. ASSUME NEW t \in Tasks, StartTask(t) PROVE OneAtATime'
  <2>1. Running(t[1]) = {}
    BY <1>12, NobodyRuns DEF StartTask
  <2>2. \A u \in Tasks : u[1] = t[1] => ~Active(u) /\ pc[u] \notin Failed
    BY <1>12, <2>1 DEF StartTask, Running, AnyFailed, TasksOf
  <2>3. UNCHANGED abort /\ pc'[t] = "lock" /\ \A u \in Tasks \ {t} : pc'[u] = pc[u]
    BY <1>12 DEF StartTask
  <2> USE DEF Failed
  <2>4. \A u, v \in Tasks : u[1] = v[1] /\ Active(u)' /\ Active(v)' => u = v
    BY <2>2, <2>3
  <2>5. \A u, v \in Tasks : u[1] = v[1] /\ pc'[u] \in Failed => ~Active(v)'
    BY <2>2, <2>3
  <2>6. \A o \in Openers : abort'[o] = "other" => \E u \in Tasks : u[1] = o /\ pc'[u] \in Failed
    BY <2>2, <2>3
  <2> QED BY <2>4, <2>5, <2>6
<1>13. ASSUME NEW t \in Tasks, LockStem(t) PROVE OneAtATime'
  <2>1. Active(t) /\ (\A u \in Tasks \ {t} : pc'[u] = pc[u])
    BY <1>13 DEF LockStem, Failed
  <2>2. UNCHANGED abort \/ (pc'[t] \in Failed /\ \A o \in Openers \ {t[1]} : abort'[o] = abort[o])
    BY <1>13 DEF LockStem, Failed
  <2> HIDE DEF OneAtATime, Active, TypeOK
  <2> QED BY <2>1, <2>2, StepAlone
<1>14. ASSUME NEW t \in Tasks, Admit(t) PROVE OneAtATime'
  <2>1. Active(t) /\ (\A u \in Tasks \ {t} : pc'[u] = pc[u])
    BY <1>14 DEF Admit, Failed
  <2>2. UNCHANGED abort \/ (pc'[t] \in Failed /\ \A o \in Openers \ {t[1]} : abort'[o] = abort[o])
    BY <1>14 DEF Admit, Failed
  <2> HIDE DEF OneAtATime, Active, TypeOK
  <2> QED BY <2>1, <2>2, StepAlone
<1>15. ASSUME NEW t \in Tasks, ReadRow(t) PROVE OneAtATime'
  <2>1. Active(t) /\ (\A u \in Tasks \ {t} : pc'[u] = pc[u])
    BY <1>15 DEF ReadRow, Miss, Failed
  <2>2. UNCHANGED abort \/ (pc'[t] \in Failed /\ \A o \in Openers \ {t[1]} : abort'[o] = abort[o])
    BY <1>15 DEF ReadRow, Miss, Failed
  <2> HIDE DEF OneAtATime, Active, TypeOK
  <2> QED BY <2>1, <2>2, StepAlone
<1>16. ASSUME NEW t \in Tasks, Hash(t) PROVE OneAtATime'
  <2>1. Active(t) /\ (\A u \in Tasks \ {t} : pc'[u] = pc[u])
    BY <1>16 DEF Hash, Reject, Unwind, Failed
  <2>2. UNCHANGED abort \/ (pc'[t] \in Failed /\ \A o \in Openers \ {t[1]} : abort'[o] = abort[o])
    BY <1>16 DEF Hash, Reject, Unwind, Failed
  <2> HIDE DEF OneAtATime, Active, TypeOK
  <2> QED BY <2>1, <2>2, StepAlone
<1>17. ASSUME NEW t \in Tasks, HashAborted(t) PROVE OneAtATime'
  <2>1. Active(t) /\ (\A u \in Tasks \ {t} : pc'[u] = pc[u])
    BY <1>17 DEF HashAborted, Reject, Unwind, Failed
  <2>2. UNCHANGED abort \/ (pc'[t] \in Failed /\ \A o \in Openers \ {t[1]} : abort'[o] = abort[o])
    BY <1>17 DEF HashAborted, Reject, Unwind, Failed
  <2> HIDE DEF OneAtATime, Active, TypeOK
  <2> QED BY <2>1, <2>2, StepAlone
<1>18. ASSUME NEW t \in Tasks, Drop(t) PROVE OneAtATime'
  <2>1. Active(t) /\ (\A u \in Tasks \ {t} : pc'[u] = pc[u])
    BY <1>18 DEF Drop, Failed
  <2>2. UNCHANGED abort \/ (pc'[t] \in Failed /\ \A o \in Openers \ {t[1]} : abort'[o] = abort[o])
    BY <1>18 DEF Drop, Failed
  <2> HIDE DEF OneAtATime, Active, TypeOK
  <2> QED BY <2>1, <2>2, StepAlone
<1>19. ASSUME NEW t \in Tasks, Unrow(t) PROVE OneAtATime'
  <2>1. Active(t) /\ (\A u \in Tasks \ {t} : pc'[u] = pc[u])
    BY <1>19 DEF Unrow, Miss, Failed
  <2>2. UNCHANGED abort \/ (pc'[t] \in Failed /\ \A o \in Openers \ {t[1]} : abort'[o] = abort[o])
    BY <1>19 DEF Unrow, Miss, Failed
  <2> HIDE DEF OneAtATime, Active, TypeOK
  <2> QED BY <2>1, <2>2, StepAlone
<1>20. ASSUME NEW t \in Tasks, Own(t) PROVE OneAtATime'
  <2>1. Active(t) /\ (\A u \in Tasks \ {t} : pc'[u] = pc[u])
    BY <1>20 DEF Own, Failed
  <2>2. UNCHANGED abort \/ (pc'[t] \in Failed /\ \A o \in Openers \ {t[1]} : abort'[o] = abort[o])
    BY <1>20 DEF Own, Failed
  <2> HIDE DEF OneAtATime, Active, TypeOK
  <2> QED BY <2>1, <2>2, StepAlone
<1>21. ASSUME NEW t \in Tasks, OwnMissing(t) PROVE OneAtATime'
  <2>1. Active(t) /\ (\A u \in Tasks \ {t} : pc'[u] = pc[u])
    BY <1>21 DEF OwnMissing, Reject, Unwind, Failed
  <2>2. UNCHANGED abort \/ (pc'[t] \in Failed /\ \A o \in Openers \ {t[1]} : abort'[o] = abort[o])
    BY <1>21 DEF OwnMissing, Reject, Unwind, Failed
  <2> HIDE DEF OneAtATime, Active, TypeOK
  <2> QED BY <2>1, <2>2, StepAlone
<1>22. ASSUME NEW t \in Tasks, Room(t) PROVE OneAtATime'
  <2>1. Active(t) /\ (\A u \in Tasks \ {t} : pc'[u] = pc[u])
    BY <1>22 DEF Room, Failed
  <2>2. UNCHANGED abort \/ (pc'[t] \in Failed /\ \A o \in Openers \ {t[1]} : abort'[o] = abort[o])
    BY <1>22 DEF Room, Failed
  <2> HIDE DEF OneAtATime, Active, TypeOK
  <2> QED BY <2>1, <2>2, StepAlone
<1>23. ASSUME NEW t \in Tasks, NoVictim(t) PROVE OneAtATime'
  <2>1. Active(t) /\ (\A u \in Tasks \ {t} : pc'[u] = pc[u])
    BY <1>23 DEF NoVictim, Reject, Unwind, Failed
  <2>2. UNCHANGED abort \/ (pc'[t] \in Failed /\ \A o \in Openers \ {t[1]} : abort'[o] = abort[o])
    BY <1>23 DEF NoVictim, Reject, Unwind, Failed
  <2> HIDE DEF OneAtATime, Active, TypeOK
  <2> QED BY <2>1, <2>2, StepAlone
<1>24. ASSUME NEW t \in Tasks, CheckVictim(t) PROVE OneAtATime'
  <2>1. Active(t) /\ (\A u \in Tasks \ {t} : pc'[u] = pc[u])
    BY <1>24 DEF CheckVictim, Spared, Failed
  <2>2. UNCHANGED abort \/ (pc'[t] \in Failed /\ \A o \in Openers \ {t[1]} : abort'[o] = abort[o])
    BY <1>24 DEF CheckVictim, Spared, Failed
  <2> HIDE DEF OneAtATime, Active, TypeOK
  <2> QED BY <2>1, <2>2, StepAlone
<1>25. ASSUME NEW t \in Tasks, EvictRow(t) PROVE OneAtATime'
  <2>1. Active(t) /\ (\A u \in Tasks \ {t} : pc'[u] = pc[u])
    BY <1>25 DEF EvictRow, Failed
  <2>2. UNCHANGED abort \/ (pc'[t] \in Failed /\ \A o \in Openers \ {t[1]} : abort'[o] = abort[o])
    BY <1>25 DEF EvictRow, Failed
  <2> HIDE DEF OneAtATime, Active, TypeOK
  <2> QED BY <2>1, <2>2, StepAlone
<1>26. ASSUME NEW t \in Tasks, Fetch(t) PROVE OneAtATime'
  <2>1. Active(t) /\ (\A u \in Tasks \ {t} : pc'[u] = pc[u])
    BY <1>26 DEF Fetch, Reject, Unwind, Failed
  <2>2. UNCHANGED abort \/ (pc'[t] \in Failed /\ \A o \in Openers \ {t[1]} : abort'[o] = abort[o])
    BY <1>26 DEF Fetch, Reject, Unwind, Failed
  <2> HIDE DEF OneAtATime, Active, TypeOK
  <2> QED BY <2>1, <2>2, StepAlone
<1>27. ASSUME NEW t \in Tasks, Write(t) PROVE OneAtATime'
  <2>1. Active(t) /\ (\A u \in Tasks \ {t} : pc'[u] = pc[u])
    BY <1>27 DEF Write, Failed
  <2>2. UNCHANGED abort \/ (pc'[t] \in Failed /\ \A o \in Openers \ {t[1]} : abort'[o] = abort[o])
    BY <1>27 DEF Write, Failed
  <2> HIDE DEF OneAtATime, Active, TypeOK
  <2> QED BY <2>1, <2>2, StepAlone
<1>28. ASSUME NEW t \in Tasks, Verified(t) PROVE OneAtATime'
  <2>1. Active(t) /\ (\A u \in Tasks \ {t} : pc'[u] = pc[u])
    BY <1>28 DEF Verified, Failed
  <2>2. UNCHANGED abort \/ (pc'[t] \in Failed /\ \A o \in Openers \ {t[1]} : abort'[o] = abort[o])
    BY <1>28 DEF Verified, Failed
  <2> HIDE DEF OneAtATime, Active, TypeOK
  <2> QED BY <2>1, <2>2, StepAlone
<1>29. ASSUME NEW t \in Tasks, StreamFails(t) PROVE OneAtATime'
  <2>1. Active(t) /\ (\A u \in Tasks \ {t} : pc'[u] = pc[u])
    BY <1>29 DEF StreamFails, Failed
  <2>2. UNCHANGED abort \/ (pc'[t] \in Failed /\ \A o \in Openers \ {t[1]} : abort'[o] = abort[o])
    BY <1>29 DEF StreamFails, Failed
  <2> HIDE DEF OneAtATime, Active, TypeOK
  <2> QED BY <2>1, <2>2, StepAlone
<1>30. ASSUME NEW t \in Tasks, Move(t) PROVE OneAtATime'
  <2>1. Active(t) /\ (\A u \in Tasks \ {t} : pc'[u] = pc[u])
    BY <1>30 DEF Move, Promote, Failed
  <2>2. UNCHANGED abort \/ (pc'[t] \in Failed /\ \A o \in Openers \ {t[1]} : abort'[o] = abort[o])
    BY <1>30 DEF Move, Promote, Failed
  <2> HIDE DEF OneAtATime, Active, TypeOK
  <2> QED BY <2>1, <2>2, StepAlone
<1>31. ASSUME NEW t \in Tasks, MoveAbandoned(t) PROVE OneAtATime'
  <2>1. Active(t) /\ (\A u \in Tasks \ {t} : pc'[u] = pc[u])
    BY <1>31 DEF MoveAbandoned, Promote, Inject, Failed
  <2>2. UNCHANGED abort \/ (pc'[t] \in Failed /\ \A o \in Openers \ {t[1]} : abort'[o] = abort[o])
    BY <1>31 DEF MoveAbandoned, Promote, Inject, Failed
  <2> HIDE DEF OneAtATime, Active, TypeOK
  <2> QED BY <2>1, <2>2, StepAlone
<1>32. ASSUME NEW t \in Tasks, Commit(t) PROVE OneAtATime'
  <2>1. Active(t) /\ (\A u \in Tasks \ {t} : pc'[u] = pc[u])
    BY <1>32 DEF Commit, Failed
  <2>2. UNCHANGED abort \/ (pc'[t] \in Failed /\ \A o \in Openers \ {t[1]} : abort'[o] = abort[o])
    BY <1>32 DEF Commit, Failed
  <2> HIDE DEF OneAtATime, Active, TypeOK
  <2> QED BY <2>1, <2>2, StepAlone
<1>33. ASSUME NEW t \in Tasks, Undo(t) PROVE OneAtATime'
  <2>1. Active(t) /\ (\A u \in Tasks \ {t} : pc'[u] = pc[u])
    BY <1>33 DEF Undo, Reject, Unwind, Failed
  <2>2. UNCHANGED abort \/ (pc'[t] \in Failed /\ \A o \in Openers \ {t[1]} : abort'[o] = abort[o])
    BY <1>33 DEF Undo, Reject, Unwind, Failed
  <2> HIDE DEF OneAtATime, Active, TypeOK
  <2> QED BY <2>1, <2>2, StepAlone
<1>34. ASSUME NEW t \in Tasks, GiveUp(t) PROVE OneAtATime'
  <2>1. Active(t) /\ (\A u \in Tasks \ {t} : pc'[u] = pc[u])
    BY <1>34 DEF GiveUp, Reject, Unwind, Failed
  <2>2. UNCHANGED abort \/ (pc'[t] \in Failed /\ \A o \in Openers \ {t[1]} : abort'[o] = abort[o])
    BY <1>34 DEF GiveUp, Reject, Unwind, Failed
  <2> HIDE DEF OneAtATime, Active, TypeOK
  <2> QED BY <2>1, <2>2, StepAlone
<1>35. ASSUME NEW t \in Tasks, DemoteRow(t) PROVE OneAtATime'
  BY <1>35 DEF DemoteRow
<1>36. ASSUME NEW t \in Tasks, LeaseReadFails(t) PROVE OneAtATime'
  BY <1>36 DEF LeaseReadFails, Inject
<1>37. ASSUME NEW t \in Tasks, HashReadFails(t) PROVE OneAtATime'
  <2>1. Active(t) /\ (\A u \in Tasks \ {t} : pc'[u] = pc[u])
    BY <1>37 DEF HashReadFails, Inject, Failed
  <2>2. UNCHANGED abort \/ (pc'[t] \in Failed /\ \A o \in Openers \ {t[1]} : abort'[o] = abort[o])
    BY <1>37 DEF HashReadFails, Inject, Failed
  <2> HIDE DEF OneAtATime, Active, TypeOK
  <2> QED BY <2>1, <2>2, StepAlone
<1>38. ASSUME NEW t \in Tasks, CommitFails(t) PROVE OneAtATime'
  <2>1. Active(t) /\ (\A u \in Tasks \ {t} : pc'[u] = pc[u])
    BY <1>38 DEF CommitFails, Inject, Failed
  <2>2. UNCHANGED abort \/ (pc'[t] \in Failed /\ \A o \in Openers \ {t[1]} : abort'[o] = abort[o])
    BY <1>38 DEF CommitFails, Inject, Failed
  <2> HIDE DEF OneAtATime, Active, TypeOK
  <2> QED BY <2>1, <2>2, StepAlone
<1>39. ASSUME NEW t \in Tasks, IndexWriteFails(t) PROVE OneAtATime'
  <2>1. Active(t) /\ (\A u \in Tasks \ {t} : pc'[u] = pc[u])
    BY <1>39 DEF IndexWriteFails, Reject, Unwind, Inject, Failed
  <2>2. UNCHANGED abort \/ (pc'[t] \in Failed /\ \A o \in Openers \ {t[1]} : abort'[o] = abort[o])
    BY <1>39 DEF IndexWriteFails, Reject, Unwind, Inject, Failed
  <2> HIDE DEF OneAtATime, Active, TypeOK
  <2> QED BY <2>1, <2>2, StepAlone
<1>40. ASSUME NEW t \in Tasks, LockVictim(t) PROVE OneAtATime'
  <2>1. Active(t) /\ (\A u \in Tasks \ {t} : pc'[u] = pc[u])
    BY <1>40 DEF LockVictim, Failed
  <2>2. UNCHANGED abort \/ (pc'[t] \in Failed /\ \A o \in Openers \ {t[1]} : abort'[o] = abort[o])
    BY <1>40 DEF LockVictim, Failed
  <2> HIDE DEF OneAtATime, Active, TypeOK
  <2> QED BY <2>1, <2>2, StepAlone
<1>41. ASSUME NEW s \in Stems, Corrupt(s) PROVE OneAtATime'
  BY <1>41 DEF Corrupt, Inject
<1>42. ASSUME NEW s \in Stems, NEW pinned \in BOOLEAN, SetOfflinePin(s, pinned) PROVE OneAtATime'
  BY <1>42 DEF SetOfflinePin
<1>43. ASSUME RebuildIndex PROVE OneAtATime'
  BY <1>43 DEF RebuildIndex, Inject
<1>45. ASSUME NEW o \in Openers, SweepFails(o) PROVE OneAtATime'
  BY <1>45 DEF SweepFails, Leftovers, Orphans, Without, Inject
<1>46. ASSUME NEW t \in Tasks, UndoFails(t) PROVE OneAtATime'
  <2>1. Active(t) /\ (\A u \in Tasks \ {t} : pc'[u] = pc[u])
    BY <1>46 DEF UndoFails, Unwind, Inject, Failed
  <2>2. UNCHANGED abort \/ (pc'[t] \in Failed /\ \A o \in Openers \ {t[1]} : abort'[o] = abort[o])
    BY <1>46 DEF UndoFails, Unwind, Inject, Failed
  <2> HIDE DEF OneAtATime, Active, TypeOK
  <2> QED BY <2>1, <2>2, StepAlone
<1>47. ASSUME NEW t \in Tasks, RemoveFails(t) PROVE OneAtATime'
  <2>1. Active(t) /\ (\A u \in Tasks \ {t} : pc'[u] = pc[u])
    BY <1>47 DEF RemoveFails, Without, Spared, Reject, Unwind, Inject, Failed
  <2>2. UNCHANGED abort \/ (pc'[t] \in Failed /\ \A o \in Openers \ {t[1]} : abort'[o] = abort[o])
    BY <1>47 DEF RemoveFails, Without, Spared, Reject, Unwind, Inject, Failed
  <2> HIDE DEF OneAtATime, Active, TypeOK
  <2> QED BY <2>1, <2>2, StepAlone
<1>48. ASSUME NEW t \in Tasks, NEW v \in Stems, ChooseVictim(t, v) PROVE OneAtATime'
  <2>1. Active(t) /\ (\A u \in Tasks \ {t} : pc'[u] = pc[u])
    BY <1>48 DEF ChooseVictim, Failed
  <2>2. UNCHANGED abort \/ (pc'[t] \in Failed /\ \A o \in Openers \ {t[1]} : abort'[o] = abort[o])
    BY <1>48 DEF ChooseVictim, Failed
  <2> HIDE DEF OneAtATime, Active, TypeOK
  <2> QED BY <2>1, <2>2, StepAlone
<1>44. CASE UNCHANGED vars
  BY <1>44 DEF vars
<1> HIDE DEF OneAtATime
<1> QED
  BY <1>1, <1>2, <1>3, <1>4, <1>5, <1>6, <1>7, <1>8, <1>9, <1>10, <1>11, <1>12, <1>13, <1>14, <1>15, <1>16, <1>17, <1>18, <1>19, <1>20, <1>21, <1>22, <1>23, <1>24, <1>25, <1>26, <1>27, <1>28, <1>29, <1>30, <1>31, <1>32, <1>33, <1>34, <1>35, <1>36, <1>37, <1>38, <1>39, <1>40, <1>41, <1>42, <1>43, <1>44, <1>45, <1>46, <1>47, <1>48
  DEF Next, OpenerStep, OpenerEvent, TaskStep, TaskEvent, StemEvent

\* What can take a task from its hash to the demotion of its file.
DropSource(t) == Hash(t) \/ HashAborted(t) \/ HashReadFails(t)

LEMMA DropStep ==
  ASSUME TypeOK, NEW t \in Tasks, pc[t] = "hash", pc'[t] = "drop", [Next]_vars
  PROVE  DropSource(t)
<1> USE Holders DEF TypeOK, DropSource, lockVars, taskVars, Goto
<1>1. ASSUME NEW o \in Openers, OpenStore(o) PROVE DropSource(t)
  BY <1>1 DEF OpenStore, LiveStems
<1>2. ASSUME NEW o \in Openers, SweepStaging(o) PROVE DropSource(t)
  BY <1>2 DEF SweepStaging, Leftovers
<1>3. ASSUME NEW o \in Openers, SweepFinals(o) PROVE DropSource(t)
  BY <1>3 DEF SweepFinals, Orphans, Without
<1>4. ASSUME NEW o \in Openers, OpenSession(o) PROVE DropSource(t)
  BY <1>4 DEF OpenSession
<1>5. ASSUME NEW o \in Openers, Grant(o) PROVE DropSource(t)
  BY <1>5 DEF Grant, Settled, AllDone, TasksOf
<1>6. ASSUME NEW o \in Openers, Refuse(o) PROVE DropSource(t)
  BY <1>6 DEF Refuse, Settled
<1>7. ASSUME NEW o \in Openers, Rollback(o) PROVE DropSource(t)
  BY <1>7 DEF Rollback, Unpin
<1>8. ASSUME NEW o \in Openers, Cancel(o) PROVE DropSource(t)
  BY <1>8 DEF Cancel
<1>9. ASSUME NEW o \in Openers, CloseLease(o) PROVE DropSource(t)
  BY <1>9 DEF CloseLease, Unpin
<1>10. ASSUME NEW o \in Openers, RollbackFails(o) PROVE DropSource(t)
  BY <1>10 DEF RollbackFails, Inject
<1>11. ASSUME NEW o \in Openers, Crash(o) PROVE DropSource(t)
  BY <1>11 DEF Crash, TasksOf, Inject
<1>12. ASSUME NEW u \in Tasks, StartTask(u) PROVE DropSource(t)
  BY <1>12 DEF StartTask
<1>13. ASSUME NEW u \in Tasks, LockStem(u) PROVE DropSource(t)
  BY <1>13 DEF LockStem
<1>14. ASSUME NEW u \in Tasks, Admit(u) PROVE DropSource(t)
  BY <1>14 DEF Admit
<1>15. ASSUME NEW u \in Tasks, ReadRow(u) PROVE DropSource(t)
  BY <1>15 DEF ReadRow, Miss
<1>16. ASSUME NEW u \in Tasks, Hash(u) PROVE DropSource(t)
  BY <1>16 DEF Hash, Reject, Unwind
<1>17. ASSUME NEW u \in Tasks, HashAborted(u) PROVE DropSource(t)
  BY <1>17 DEF HashAborted, Reject, Unwind
<1>18. ASSUME NEW u \in Tasks, Drop(u) PROVE DropSource(t)
  BY <1>18 DEF Drop
<1>19. ASSUME NEW u \in Tasks, Unrow(u) PROVE DropSource(t)
  BY <1>19 DEF Unrow, Miss
<1>20. ASSUME NEW u \in Tasks, Own(u) PROVE DropSource(t)
  BY <1>20 DEF Own
<1>21. ASSUME NEW u \in Tasks, OwnMissing(u) PROVE DropSource(t)
  BY <1>21 DEF OwnMissing, Reject, Unwind
<1>22. ASSUME NEW u \in Tasks, Room(u) PROVE DropSource(t)
  BY <1>22 DEF Room
<1>23. ASSUME NEW u \in Tasks, NoVictim(u) PROVE DropSource(t)
  BY <1>23 DEF NoVictim, Reject, Unwind
<1>24. ASSUME NEW u \in Tasks, CheckVictim(u) PROVE DropSource(t)
  BY <1>24 DEF CheckVictim, Spared
<1>25. ASSUME NEW u \in Tasks, EvictRow(u) PROVE DropSource(t)
  BY <1>25 DEF EvictRow
<1>26. ASSUME NEW u \in Tasks, Fetch(u) PROVE DropSource(t)
  BY <1>26 DEF Fetch, Reject, Unwind
<1>27. ASSUME NEW u \in Tasks, Write(u) PROVE DropSource(t)
  BY <1>27 DEF Write
<1>28. ASSUME NEW u \in Tasks, Verified(u) PROVE DropSource(t)
  BY <1>28 DEF Verified
<1>29. ASSUME NEW u \in Tasks, StreamFails(u) PROVE DropSource(t)
  BY <1>29 DEF StreamFails
<1>30. ASSUME NEW u \in Tasks, Move(u) PROVE DropSource(t)
  BY <1>30 DEF Move, Promote
<1>31. ASSUME NEW u \in Tasks, MoveAbandoned(u) PROVE DropSource(t)
  BY <1>31 DEF MoveAbandoned, Promote, Inject
<1>32. ASSUME NEW u \in Tasks, Commit(u) PROVE DropSource(t)
  BY <1>32 DEF Commit
<1>33. ASSUME NEW u \in Tasks, Undo(u) PROVE DropSource(t)
  BY <1>33 DEF Undo, Reject, Unwind
<1>34. ASSUME NEW u \in Tasks, GiveUp(u) PROVE DropSource(t)
  BY <1>34 DEF GiveUp, Reject, Unwind
<1>35. ASSUME NEW u \in Tasks, DemoteRow(u) PROVE DropSource(t)
  BY <1>35 DEF DemoteRow
<1>36. ASSUME NEW u \in Tasks, LeaseReadFails(u) PROVE DropSource(t)
  BY <1>36 DEF LeaseReadFails, Inject
<1>37. ASSUME NEW u \in Tasks, HashReadFails(u) PROVE DropSource(t)
  BY <1>37 DEF HashReadFails, Inject
<1>38. ASSUME NEW u \in Tasks, CommitFails(u) PROVE DropSource(t)
  BY <1>38 DEF CommitFails, Inject
<1>39. ASSUME NEW u \in Tasks, IndexWriteFails(u) PROVE DropSource(t)
  BY <1>39 DEF IndexWriteFails, Reject, Unwind, Inject
<1>40. ASSUME NEW u \in Tasks, LockVictim(u) PROVE DropSource(t)
  BY <1>40 DEF LockVictim
<1>41. ASSUME NEW s \in Stems, Corrupt(s) PROVE DropSource(t)
  BY <1>41 DEF Corrupt, Inject
<1>42. ASSUME NEW s \in Stems, NEW pinned \in BOOLEAN, SetOfflinePin(s, pinned) PROVE DropSource(t)
  BY <1>42 DEF SetOfflinePin
<1>43. ASSUME RebuildIndex PROVE DropSource(t)
  BY <1>43 DEF RebuildIndex, Inject
<1>45. ASSUME NEW o \in Openers, SweepFails(o) PROVE DropSource(t)
  BY <1>45 DEF SweepFails, Leftovers, Orphans, Without, Inject
<1>46. ASSUME NEW u \in Tasks, UndoFails(u) PROVE DropSource(t)
  BY <1>46 DEF UndoFails, Unwind, Inject
<1>47. ASSUME NEW u \in Tasks, RemoveFails(u) PROVE DropSource(t)
  BY <1>47 DEF RemoveFails, Without, Spared, Reject, Unwind, Inject
<1>48. ASSUME NEW u \in Tasks, NEW v \in Stems, ChooseVictim(u, v) PROVE DropSource(t)
  BY <1>48 DEF ChooseVictim
<1>44. CASE UNCHANGED vars
  BY <1>44 DEF vars
<1> HIDE DEF DropSource
<1> QED
  BY <1>1, <1>2, <1>3, <1>4, <1>5, <1>6, <1>7, <1>8, <1>9, <1>10, <1>11, <1>12, <1>13, <1>14, <1>15, <1>16, <1>17, <1>18, <1>19, <1>20, <1>21, <1>22, <1>23, <1>24, <1>25, <1>26, <1>27, <1>28, <1>29, <1>30, <1>31, <1>32, <1>33, <1>34, <1>35, <1>36, <1>37, <1>38, <1>39, <1>40, <1>41, <1>42, <1>43, <1>44, <1>45, <1>46, <1>47, <1>48
  DEF Next, OpenerStep, OpenerEvent, TaskStep, TaskEvent, StemEvent

\* So a serial session cuts no hash short with anything but an AbortError.
LEMMA SerialHashesDecide ==
  ASSUME Calm, TypeOK, OneAtATime, [Next]_vars PROVE HashesDecide
<1> SUFFICES ASSUME NEW t \in Tasks, pc[t] = "hash", pc'[t] = "drop" PROVE final[t[2]] # "good"
  BY DEF HashesDecide
<1>1. CASE Hash(t)
  BY <1>1, Holders DEF Hash, Reject, Unwind, Goto, TypeOK
<1>2. CASE HashAborted(t)
  <2>1. abort[t[1]] # "AbortError"
    BY <1>2 DEF HashAborted, Reject, Unwind, Goto, TypeOK
  <2>2. abort[t[1]] = "other"
    BY <1>2, <2>1, Holders DEF HashAborted, Aborted, TypeOK
  <2> QED BY <2>2, Holders DEF OneAtATime, Active, Failed
<1>3. CASE HashReadFails(t)
  BY <1>3 DEF HashReadFails, Inject, Calm
<1> QED
  BY <1>1, <1>2, <1>3, DropStep DEF DropSource

\* Only stems that are done are leased, with their files.
LEMMA BackedLease == ASSUME Ownership, Backing PROVE LeaseBacked
<1> SUFFICES ASSUME NEW o \in Openers, phase[o] = "open", NEW s \in Wants[o]
             PROVE  s \in rows /\ o \in pins[s] /\ final[s] = "good"
  BY DEF LeaseBacked
<1>1. s \in Stems /\ <<o, s>> \in Tasks
  BY StoreAssumption DEF Tasks
<1>2. o \in pins[s]
  BY <1>1 DEF Backing, DoneIsPinned
<1>3. final[s] = "good" /\ s \in rows
  BY <1>1, <1>2 DEF Backing, SessionPinsGood, Ownership, PinsHaveRows
<1> QED
  BY <1>2, <1>3

LEMMA BackingInit == ASSUME Init PROVE Backing
  BY Holders DEF Init, Backing, SessionPinsGood, MendsUnpinned, OwnsGood, SweepSpares, DoneIsPinned,
     HoldsOwn, Hashing, Ingesting

LEMMA VouchedInit == ASSUME Init PROVE Vouched
  BY Holders DEF Init, Vouched, Ingesting

LEMMA OneAtATimeInit == ASSUME Init PROVE OneAtATime
  BY Holders DEF Init, OneAtATime, Active

\* openSession, #verifyFile, #preflight: through evictions, ingests, demotions,
\* rollbacks, folder sweeps, crashes and failed index writes of any number of tabs,
\* an open lease keeps row, pin and verified file of each of its stems, if no hash
\* is cut short and then taken for a file with the wrong bytes (section 6 of the
\* README has the history in which one is).
THEOREM LeasesAlwaysBacked ==
  ASSUME Calm PROVE Spec /\ [][HashesDecide]_vars => []LeaseBacked
<1>1. Init => Backing
  BY BackingInit
<1>2. Ownership /\ Backing /\ [Next]_vars /\ [HashesDecide]_vars => Backing'
  <2> SUFFICES ASSUME Ownership, Backing, [Next]_vars, [HashesDecide]_vars PROVE Backing'
    OBVIOUS
  <2>1. HashesDecide
    BY DEF vars, HashesDecide
  <2> QED BY <2>1, BackingNext
<1>3. Ownership /\ Backing => LeaseBacked
  BY BackedLease
<1> QED
  BY <1>1, <1>2, <1>3, OwnershipInvariant, PTL DEF Spec

\* The three layers together are inductive where no hash is cut short.
SerialInv == Ownership /\ OneAtATime /\ Backing /\ Vouched

LEMMA SerialInvNext ==
  ASSUME Quiet, Serial PROVE SerialInv /\ [Next]_vars => SerialInv' /\ HashesDecide
<1> SUFFICES ASSUME SerialInv, [Next]_vars PROVE SerialInv' /\ HashesDecide
  OBVIOUS
<1>1. Calm
  BY DEF Quiet, Calm
<1>2. OneAtATime' /\ HashesDecide
  BY <1>1, SerialNext, SerialHashesDecide DEF SerialInv, Ownership
<1> QED
  BY <1>1, <1>2, OwnershipKept, BackingNext, VouchedNext DEF SerialInv

THEOREM SerialAlways == ASSUME Quiet, Serial PROVE Spec => []SerialInv
<1>1. Init => SerialInv
  <2>1. Init => Ownership
    BY OwnershipInit
  <2> QED BY <2>1, BackingInit, VouchedInit, OneAtATimeInit DEF SerialInv
<1> QED
  BY <1>1, SerialInvNext, PTL DEF Spec

\* Where stems are ensured one at a time, calls are cancelled with AbortErrors and
\* only resolvers fail, no file is missing that a lease or an index row relies on.
THEOREM FilesAlwaysBacked == ASSUME Quiet, Serial PROVE Spec => []FilesBacked
<1>1. SerialInv => LeaseBacked
  BY BackedLease DEF SerialInv
<1>2. SerialInv => RowsBacked
  BY DEF SerialInv, Vouched, RowsBacked
<1> QED
  BY <1>1, <1>2, SerialAlways, PTL DEF FilesBacked

\* An indexed file that goes away was not pinned.
Kept == \A s \in Stems : final[s] = "good" /\ final'[s] = "absent" /\ s \in rows => pins[s] = {}

LEMMA KeptNext == ASSUME Quiet, SerialInv, [Next]_vars PROVE Kept
<1>0. /\ TypeOK
      /\ \A t \in Tasks : pc[t] \notin {"drop", "unrow"} /\ (pc[t] \in Ingesting => t[2] \notin rows)
  BY DEF SerialInv, Vouched, Ownership
<1> USE Holders, <1>0 DEF Kept, TypeOK, Quiet, Ingesting, fileVars, indexVars
<1>1. ASSUME NEW o \in Openers, OpenStore(o) PROVE Kept
  BY <1>1 DEF OpenStore, LiveStems
<1>2. ASSUME NEW o \in Openers, SweepStaging(o) PROVE Kept
  BY <1>2 DEF SweepStaging, Leftovers
<1>3. ASSUME NEW o \in Openers, SweepFinals(o) PROVE Kept
  BY <1>3 DEF SweepFinals, Orphans, Without
<1>4. ASSUME NEW o \in Openers, OpenSession(o) PROVE Kept
  BY <1>4 DEF OpenSession
<1>5. ASSUME NEW o \in Openers, Grant(o) PROVE Kept
  BY <1>5 DEF Grant, Settled, AllDone, TasksOf
<1>6. ASSUME NEW o \in Openers, Refuse(o) PROVE Kept
  BY <1>6 DEF Refuse, Settled
<1>7. ASSUME NEW o \in Openers, Rollback(o) PROVE Kept
  BY <1>7 DEF Rollback, Unpin
<1>8. ASSUME NEW o \in Openers, Cancel(o) PROVE Kept
  BY <1>8 DEF Cancel
<1>9. ASSUME NEW o \in Openers, CloseLease(o) PROVE Kept
  BY <1>9 DEF CloseLease, Unpin
<1>10. ASSUME NEW o \in Openers, RollbackFails(o) PROVE Kept
  BY <1>10 DEF RollbackFails, Inject
<1>11. ASSUME NEW o \in Openers, Crash(o) PROVE Kept
  BY <1>11 DEF Crash, TasksOf, Inject
<1>12. ASSUME NEW t \in Tasks, StartTask(t) PROVE Kept
  BY <1>12 DEF StartTask
<1>13. ASSUME NEW t \in Tasks, LockStem(t) PROVE Kept
  BY <1>13 DEF LockStem
<1>14. ASSUME NEW t \in Tasks, Admit(t) PROVE Kept
  BY <1>14 DEF Admit
<1>15. ASSUME NEW t \in Tasks, ReadRow(t) PROVE Kept
  BY <1>15 DEF ReadRow, Miss
<1>16. ASSUME NEW t \in Tasks, Hash(t) PROVE Kept
  BY <1>16 DEF Hash, Reject, Unwind
<1>17. ASSUME NEW t \in Tasks, HashAborted(t) PROVE Kept
  BY <1>17 DEF HashAborted, Reject, Unwind
<1>18. ASSUME NEW t \in Tasks, Drop(t) PROVE Kept
  BY <1>18 DEF Drop
<1>19. ASSUME NEW t \in Tasks, Unrow(t) PROVE Kept
  BY <1>19 DEF Unrow, Miss
<1>20. ASSUME NEW t \in Tasks, Own(t) PROVE Kept
  BY <1>20 DEF Own
<1>21. ASSUME NEW t \in Tasks, OwnMissing(t) PROVE Kept
  BY <1>21 DEF OwnMissing, Reject, Unwind
<1>22. ASSUME NEW t \in Tasks, Room(t) PROVE Kept
  BY <1>22 DEF Room
<1>23. ASSUME NEW t \in Tasks, NoVictim(t) PROVE Kept
  BY <1>23 DEF NoVictim, Reject, Unwind
<1>24. ASSUME NEW t \in Tasks, CheckVictim(t) PROVE Kept
  BY <1>24 DEF CheckVictim, Spared
<1>25. ASSUME NEW t \in Tasks, EvictRow(t) PROVE Kept
  BY <1>25 DEF EvictRow
<1>26. ASSUME NEW t \in Tasks, Fetch(t) PROVE Kept
  BY <1>26 DEF Fetch, Reject, Unwind
<1>27. ASSUME NEW t \in Tasks, Write(t) PROVE Kept
  BY <1>27 DEF Write
<1>28. ASSUME NEW t \in Tasks, Verified(t) PROVE Kept
  BY <1>28 DEF Verified
<1>29. ASSUME NEW t \in Tasks, StreamFails(t) PROVE Kept
  BY <1>29 DEF StreamFails
<1>30. ASSUME NEW t \in Tasks, Move(t) PROVE Kept
  BY <1>30 DEF Move, Promote
<1>31. ASSUME NEW t \in Tasks, MoveAbandoned(t) PROVE Kept
  BY <1>31 DEF MoveAbandoned, Promote, Inject
<1>32. ASSUME NEW t \in Tasks, Commit(t) PROVE Kept
  BY <1>32 DEF Commit
<1>33. ASSUME NEW t \in Tasks, Undo(t) PROVE Kept
  BY <1>33 DEF Undo, Reject, Unwind
<1>34. ASSUME NEW t \in Tasks, GiveUp(t) PROVE Kept
  BY <1>34 DEF GiveUp, Reject, Unwind
<1>35. ASSUME NEW t \in Tasks, DemoteRow(t) PROVE Kept
  BY <1>35 DEF DemoteRow
<1>36. ASSUME NEW t \in Tasks, LeaseReadFails(t) PROVE Kept
  BY <1>36 DEF LeaseReadFails, Inject
<1>37. ASSUME NEW t \in Tasks, HashReadFails(t) PROVE Kept
  BY <1>37 DEF HashReadFails, Inject
<1>38. ASSUME NEW t \in Tasks, CommitFails(t) PROVE Kept
  BY <1>38 DEF CommitFails, Inject
<1>39. ASSUME NEW t \in Tasks, IndexWriteFails(t) PROVE Kept
  BY <1>39 DEF IndexWriteFails, Reject, Unwind, Inject
<1>40. ASSUME NEW t \in Tasks, LockVictim(t) PROVE Kept
  BY <1>40 DEF LockVictim
<1>41. ASSUME NEW s \in Stems, Corrupt(s) PROVE Kept
  BY <1>41 DEF Corrupt, Inject
<1>42. ASSUME NEW s \in Stems, NEW pinned \in BOOLEAN, SetOfflinePin(s, pinned) PROVE Kept
  BY <1>42 DEF SetOfflinePin
<1>43. ASSUME RebuildIndex PROVE Kept
  BY <1>43 DEF RebuildIndex, Inject
<1>45. ASSUME NEW o \in Openers, SweepFails(o) PROVE Kept
  BY <1>45 DEF SweepFails, Leftovers, Orphans, Without, Inject
<1>46. ASSUME NEW t \in Tasks, UndoFails(t) PROVE Kept
  BY <1>46 DEF UndoFails, Unwind, Inject
<1>47. ASSUME NEW t \in Tasks, RemoveFails(t) PROVE Kept
  BY <1>47 DEF RemoveFails, Without, Spared, Reject, Unwind, Inject
<1>48. ASSUME NEW t \in Tasks, NEW v \in Stems, ChooseVictim(t, v) PROVE Kept
  BY <1>48 DEF ChooseVictim
<1>44. CASE UNCHANGED vars
  BY <1>44 DEF vars
<1> HIDE DEF Kept
<1> QED
  BY <1>1, <1>2, <1>3, <1>4, <1>5, <1>6, <1>7, <1>8, <1>9, <1>10, <1>11, <1>12, <1>13, <1>14, <1>15, <1>16, <1>17, <1>18, <1>19, <1>20, <1>21, <1>22, <1>23, <1>24, <1>25, <1>26, <1>27, <1>28, <1>29, <1>30, <1>31, <1>32, <1>33, <1>34, <1>35, <1>36, <1>37, <1>38, <1>39, <1>40, <1>41, <1>42, <1>43, <1>44, <1>45, <1>46, <1>47, <1>48
  DEF Next, OpenerStep, OpenerEvent, TaskStep, TaskEvent, StemEvent

\* #preflight, #demote, #ingest: in the same circumstances a verified file that the
\* index vouches for is removed only while nobody, session or user, pins it.
THEOREM PinnedFinalsAlwaysKept == ASSUME Quiet, Serial PROVE Spec => PinnedFinalKept
<1>1. SerialInv /\ [Next]_vars => [Kept]_vars
  BY KeptNext
<1>2. Kept => \A s \in Stems : final[s] = "good" /\ final'[s] = "absent" /\ s \in rows => pins[s] = {}
  BY DEF Kept
<1>3. SerialInv /\ [Next]_vars =>
        [\A s \in Stems : final[s] = "good" /\ final'[s] = "absent" /\ s \in rows => pins[s] = {}]_vars
  BY <1>1, <1>2
<1> QED
  BY <1>3, SerialAlways, PTL DEF Spec, PinnedFinalKept

\* What may take pin p away from stem s.
PinsStay(s, p) ==
  p \in pins'[s] \/ RebuildIndex \/ (p = Offline /\ SetOfflinePin(s, FALSE))
  \/ (p \in Openers /\ (CloseLease(p) \/ Rollback(p)))

LEMMA PinsStayNext ==
  ASSUME TypeOK, NEW s \in Stems, NEW p \in pins[s], [Next]_vars PROVE PinsStay(s, p)
<1> USE Holders DEF TypeOK, PinsStay, indexVars
<1>1. ASSUME NEW o \in Openers, OpenStore(o) PROVE PinsStay(s, p)
  BY <1>1 DEF OpenStore, LiveStems
<1>2. ASSUME NEW o \in Openers, SweepStaging(o) PROVE PinsStay(s, p)
  BY <1>2 DEF SweepStaging, Leftovers
<1>3. ASSUME NEW o \in Openers, SweepFinals(o) PROVE PinsStay(s, p)
  BY <1>3 DEF SweepFinals, Orphans, Without
<1>4. ASSUME NEW o \in Openers, OpenSession(o) PROVE PinsStay(s, p)
  BY <1>4 DEF OpenSession
<1>5. ASSUME NEW o \in Openers, Grant(o) PROVE PinsStay(s, p)
  BY <1>5 DEF Grant, Settled, AllDone, TasksOf
<1>6. ASSUME NEW o \in Openers, Refuse(o) PROVE PinsStay(s, p)
  BY <1>6 DEF Refuse, Settled
<1>7. ASSUME NEW o \in Openers, Rollback(o) PROVE PinsStay(s, p)
  BY <1>7 DEF Rollback, Unpin
<1>8. ASSUME NEW o \in Openers, Cancel(o) PROVE PinsStay(s, p)
  BY <1>8 DEF Cancel
<1>9. ASSUME NEW o \in Openers, CloseLease(o) PROVE PinsStay(s, p)
  BY <1>9 DEF CloseLease, Unpin
<1>10. ASSUME NEW o \in Openers, RollbackFails(o) PROVE PinsStay(s, p)
  BY <1>10 DEF RollbackFails, Inject
<1>11. ASSUME NEW o \in Openers, Crash(o) PROVE PinsStay(s, p)
  BY <1>11 DEF Crash, TasksOf, Inject
<1>12. ASSUME NEW t \in Tasks, StartTask(t) PROVE PinsStay(s, p)
  BY <1>12 DEF StartTask
<1>13. ASSUME NEW t \in Tasks, LockStem(t) PROVE PinsStay(s, p)
  BY <1>13 DEF LockStem
<1>14. ASSUME NEW t \in Tasks, Admit(t) PROVE PinsStay(s, p)
  BY <1>14 DEF Admit
<1>15. ASSUME NEW t \in Tasks, ReadRow(t) PROVE PinsStay(s, p)
  BY <1>15 DEF ReadRow, Miss
<1>16. ASSUME NEW t \in Tasks, Hash(t) PROVE PinsStay(s, p)
  BY <1>16 DEF Hash, Reject, Unwind
<1>17. ASSUME NEW t \in Tasks, HashAborted(t) PROVE PinsStay(s, p)
  BY <1>17 DEF HashAborted, Reject, Unwind
<1>18. ASSUME NEW t \in Tasks, Drop(t) PROVE PinsStay(s, p)
  BY <1>18 DEF Drop
<1>19. ASSUME NEW t \in Tasks, Unrow(t) PROVE PinsStay(s, p)
  BY <1>19 DEF Unrow, Miss
<1>20. ASSUME NEW t \in Tasks, Own(t) PROVE PinsStay(s, p)
  BY <1>20 DEF Own
<1>21. ASSUME NEW t \in Tasks, OwnMissing(t) PROVE PinsStay(s, p)
  BY <1>21 DEF OwnMissing, Reject, Unwind
<1>22. ASSUME NEW t \in Tasks, Room(t) PROVE PinsStay(s, p)
  BY <1>22 DEF Room
<1>23. ASSUME NEW t \in Tasks, NoVictim(t) PROVE PinsStay(s, p)
  BY <1>23 DEF NoVictim, Reject, Unwind
<1>24. ASSUME NEW t \in Tasks, CheckVictim(t) PROVE PinsStay(s, p)
  BY <1>24 DEF CheckVictim, Spared
<1>25. ASSUME NEW t \in Tasks, EvictRow(t) PROVE PinsStay(s, p)
  BY <1>25 DEF EvictRow
<1>26. ASSUME NEW t \in Tasks, Fetch(t) PROVE PinsStay(s, p)
  BY <1>26 DEF Fetch, Reject, Unwind
<1>27. ASSUME NEW t \in Tasks, Write(t) PROVE PinsStay(s, p)
  BY <1>27 DEF Write
<1>28. ASSUME NEW t \in Tasks, Verified(t) PROVE PinsStay(s, p)
  BY <1>28 DEF Verified
<1>29. ASSUME NEW t \in Tasks, StreamFails(t) PROVE PinsStay(s, p)
  BY <1>29 DEF StreamFails
<1>30. ASSUME NEW t \in Tasks, Move(t) PROVE PinsStay(s, p)
  BY <1>30 DEF Move, Promote
<1>31. ASSUME NEW t \in Tasks, MoveAbandoned(t) PROVE PinsStay(s, p)
  BY <1>31 DEF MoveAbandoned, Promote, Inject
<1>32. ASSUME NEW t \in Tasks, Commit(t) PROVE PinsStay(s, p)
  BY <1>32 DEF Commit
<1>33. ASSUME NEW t \in Tasks, Undo(t) PROVE PinsStay(s, p)
  BY <1>33 DEF Undo, Reject, Unwind
<1>34. ASSUME NEW t \in Tasks, GiveUp(t) PROVE PinsStay(s, p)
  BY <1>34 DEF GiveUp, Reject, Unwind
<1>35. ASSUME NEW t \in Tasks, DemoteRow(t) PROVE PinsStay(s, p)
  BY <1>35 DEF DemoteRow
<1>36. ASSUME NEW t \in Tasks, LeaseReadFails(t) PROVE PinsStay(s, p)
  BY <1>36 DEF LeaseReadFails, Inject
<1>37. ASSUME NEW t \in Tasks, HashReadFails(t) PROVE PinsStay(s, p)
  BY <1>37 DEF HashReadFails, Inject
<1>38. ASSUME NEW t \in Tasks, CommitFails(t) PROVE PinsStay(s, p)
  BY <1>38 DEF CommitFails, Inject
<1>39. ASSUME NEW t \in Tasks, IndexWriteFails(t) PROVE PinsStay(s, p)
  BY <1>39 DEF IndexWriteFails, Reject, Unwind, Inject
<1>40. ASSUME NEW t \in Tasks, LockVictim(t) PROVE PinsStay(s, p)
  BY <1>40 DEF LockVictim
<1>41. ASSUME NEW r \in Stems, Corrupt(r) PROVE PinsStay(s, p)
  BY <1>41 DEF Corrupt, Inject
<1>42. ASSUME NEW r \in Stems, NEW pinned \in BOOLEAN, SetOfflinePin(r, pinned) PROVE PinsStay(s, p)
  BY <1>42 DEF SetOfflinePin
<1>43. ASSUME RebuildIndex PROVE PinsStay(s, p)
  BY <1>43 DEF RebuildIndex, Inject
<1>45. ASSUME NEW o \in Openers, SweepFails(o) PROVE PinsStay(s, p)
  BY <1>45 DEF SweepFails, Leftovers, Orphans, Without, Inject
<1>46. ASSUME NEW t \in Tasks, UndoFails(t) PROVE PinsStay(s, p)
  BY <1>46 DEF UndoFails, Unwind, Inject
<1>47. ASSUME NEW t \in Tasks, RemoveFails(t) PROVE PinsStay(s, p)
  BY <1>47 DEF RemoveFails, Without, Spared, Reject, Unwind, Inject
<1>48. ASSUME NEW t \in Tasks, NEW v \in Stems, ChooseVictim(t, v) PROVE PinsStay(s, p)
  BY <1>48 DEF ChooseVictim
<1>44. CASE UNCHANGED vars
  BY <1>44 DEF vars
<1> HIDE DEF PinsStay
<1> QED
  BY <1>1, <1>2, <1>3, <1>4, <1>5, <1>6, <1>7, <1>8, <1>9, <1>10, <1>11, <1>12, <1>13, <1>14, <1>15, <1>16, <1>17, <1>18, <1>19, <1>20, <1>21, <1>22, <1>23, <1>24, <1>25, <1>26, <1>27, <1>28, <1>29, <1>30, <1>31, <1>32, <1>33, <1>34, <1>35, <1>36, <1>37, <1>38, <1>39, <1>40, <1>41, <1>42, <1>43, <1>44, <1>45, <1>46, <1>47, <1>48
  DEF Next, OpenerStep, OpenerEvent, TaskStep, TaskEvent, StemEvent

\* #ingest, #demote, release, setOfflinePin: whatever happens, faults included, a
\* session loses its pin by its own close or rollback only, and the offline pin goes
\* only when it is taken back, unless the whole index was lost.
THEOREM PinsAlwaysKept == Spec => PinsKept
<1>1. TypeOK /\ [Next]_vars =>
        [\A s \in Stems : \A p \in pins[s] \ pins'[s] :
           \/ RebuildIndex
           \/ p = Offline /\ SetOfflinePin(s, FALSE)
           \/ p \in Openers /\ (CloseLease(p) \/ Rollback(p))]_vars
  BY PinsStayNext DEF PinsStay
<1> QED
  BY <1>1, TypeCorrect, PTL DEF Spec, PinsKept
=============================================================================
