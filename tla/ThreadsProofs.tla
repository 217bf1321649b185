----------------------------- MODULE ThreadsProofs -----------------------------
(***************************************************************************)
(* The systems of MCThreads for any number of threads: timed_mutex,        *)
(* recursive_timed_mutex, std::lock and condition_variable_any are proved  *)
(* here, and the proofs about the database hold beside them.               *)
(***************************************************************************)
EXTENDS MCThreads, TLAPS, FiniteSetTheorems, FunctionTheorems, SequenceTheorems

DBP == INSTANCE DebugDbProofs WITH pc <- stage, MaxCount <- MaxNodes

(***************************************************************************)
(* timed_mutex: the bool stands for one owner, no sleeping thread is       *)
(* forgotten, nobody uses the mutex after its destructor.                  *)
(***************************************************************************)
(* __m_ has one holder between two actions: without this an unlock() that   *)
(* ends could leave another one inside the section it thinks is free.      *)
OneHolder == \A t, u \in mutex : t = u

TimedInv == TM!Inv /\ OneHolder /\ TM!NothingOutlivesDestruction

LEMMA TimedInit == TM!Init => TimedInv
BY DEF TM!Init, TimedInv, TM!Inv, TM!TypeOK, TM!Labels, TM!Calls, TM!OneOwner, TM!Owners,
       TM!NoLostWakeup, OneHolder, TM!NothingOutlivesDestruction

(* The owner is one thread, which the bool stands for.                     *)
LEMMA TimedOwnerKnown ==
  ASSUME TM!Inv, NEW t \in Threads, pc[t] = "owner"
  PROVE  locked /\ \A u \in Threads : pc[u] = "owner" => u = t
BY DEF TM!Inv, TM!OneOwner, TM!Owners

(* A thread takes the free mutex: in lock(), in try_lock_until() or in     *)
(* try_lock().                                                             *)
TimedTakes(t) ==
  /\ ~locked /\ alive /\ mutex = {}
  /\ pc[t] \in TM!Calls \cup {"idle"} /\ t \notin waiting
  /\ locked' = TRUE
  /\ TM!Return(t, "owner")
  /\ UNCHANGED <<mutex, waiting, alive>>

(* A thread that finds it owned sleeps, and has not been late before.      *)
TimedSleeps(t) ==
  /\ locked /\ alive /\ mutex = {}
  /\ pc[t] \in TM!Calls \cup {"idle"} /\ t \notin late
  /\ \E way \in TM!Calls : (pc[t] = "idle" \/ pc[t] = way) /\ TM!Goto(t, way)
  /\ waiting' = waiting \cup {t}
  /\ UNCHANGED <<locked, late, mutex, alive>>

LEMMA TimedEntersAre ==
  ASSUME TimedInv, NEW t \in Threads, TM!BeginLock(t) \/ TM!Retry(t) \/ TM!TryLock(t)
  PROVE  TimedTakes(t) \/ TimedSleeps(t)
<1>1. CASE TM!BeginLock(t)
  <2>1. PICK way \in TM!Calls : TM!Enter(t, way)
    BY <1>1 DEF TM!BeginLock
  <2>2. pc[t] = "idle" /\ alive /\ t \notin waiting
    BY <1>1 DEF TM!BeginLock, TimedInv, TM!Inv, TM!TypeOK, TM!Calls
  <2>3. QED
    BY <2>1, <2>2 DEF TM!Enter, TimedTakes, TimedSleeps
<1>2. CASE TM!Retry(t)
  <2>1. pc[t] \in TM!Calls /\ t \notin waiting /\ TM!Enter(t, pc[t])
    BY <1>2 DEF TM!Retry, TM!Awake
  <2>2. alive
    BY <2>1 DEF TimedInv, TM!NothingOutlivesDestruction, TM!Calls, TM!Inv, TM!TypeOK
  <2>3. QED
    BY <2>1, <2>2 DEF TM!Enter, TimedTakes, TimedSleeps
<1>3. CASE TM!TryLock(t)
  BY <1>3 DEF TM!TryLock, TimedTakes, TimedInv, TM!Inv, TM!TypeOK, TM!Calls
<1>4. QED
  BY <1>1, <1>2, <1>3

LEMMA TimedTakesKeeps ==
  ASSUME TimedInv, NEW t \in Threads, TimedTakes(t)
  PROVE  TimedInv'
<1> USE DEF TimedInv, TM!Inv, OneHolder, TimedTakes, TM!Return, TM!Goto
<1>1. TM!TypeOK'
  BY DEF TM!TypeOK, TM!Labels, TM!Calls
<1>2. TM!Owners = {} /\ TM!Owners' = {t}
  BY DEF TM!OneOwner, TM!Owners, TM!TypeOK
<1>3. TM!OneOwner'
  BY <1>2 DEF TM!OneOwner
<1>4. TM!NoLostWakeup'
  BY DEF TM!NoLostWakeup
<1>5. TM!NothingOutlivesDestruction'
  BY DEF TM!NothingOutlivesDestruction
<1>6. QED
  BY <1>1, <1>3, <1>4, <1>5

LEMMA TimedSleepsKeeps ==
  ASSUME TimedInv, NEW t \in Threads, TimedSleeps(t)
  PROVE  TimedInv'
<1> USE DEF TimedInv, TM!Inv, OneHolder, TimedSleeps, TM!Goto
<1>0. PICK way \in TM!Calls : (pc[t] = "idle" \/ pc[t] = way) /\ pc' = [pc EXCEPT ![t] = way]
  OBVIOUS
<1>1. TM!TypeOK'
  BY <1>0 DEF TM!TypeOK, TM!Labels, TM!Calls
<1>2. TM!Owners' = TM!Owners
  BY <1>0 DEF TM!Owners, TM!TypeOK, TM!Calls
<1>3. TM!OneOwner'
  BY <1>2 DEF TM!OneOwner
<1>4. TM!NoLostWakeup'
  BY DEF TM!NoLostWakeup
<1>5. TM!NothingOutlivesDestruction'
  BY DEF TM!NothingOutlivesDestruction
<1>6. QED
  BY <1>1, <1>3, <1>4, <1>5

LEMMA TimedTimeoutKeeps ==
  ASSUME TimedInv, NEW t \in Threads, TM!Timeout(t)
  PROVE  TimedInv'
<1> USE DEF TimedInv, TM!Inv, OneHolder, TM!Timeout, TM!Awake, TM!Return, TM!Goto
<1>1. TM!TypeOK'
  BY DEF TM!TypeOK, TM!Labels, TM!Calls
<1>2. TM!Owners' = TM!Owners
  BY DEF TM!Owners, TM!TypeOK, TM!Calls
<1>3. TM!OneOwner' /\ TM!NoLostWakeup'
  BY <1>2 DEF TM!OneOwner, TM!NoLostWakeup
<1>4. TM!NothingOutlivesDestruction'
  BY DEF TM!NothingOutlivesDestruction, TM!TypeOK
<1>5. QED
  BY <1>1, <1>3, <1>4

LEMMA TimedUnlockStoreKeeps ==
  ASSUME TimedInv, NEW t \in Threads, TM!UnlockStore(t)
  PROVE  TimedInv'
<1> USE DEF TimedInv, TM!Inv, OneHolder, TM!UnlockStore, TM!Goto
<1>1. TM!TypeOK'
  BY DEF TM!TypeOK, TM!Labels, TM!Calls
<1>2. TM!Owners' = {}
  BY TimedOwnerKnown DEF TM!Owners, TM!TypeOK
<1>3. TM!OneOwner'
  BY <1>2 DEF TM!OneOwner
<1>4. TM!NoLostWakeup'
  BY DEF TM!NoLostWakeup, TM!TypeOK
<1>5. TM!NothingOutlivesDestruction'
  BY DEF TM!NothingOutlivesDestruction, TM!TypeOK
<1>6. QED
  BY <1>1, <1>3, <1>4, <1>5

(* The thread that notify_one wakes takes the notifier's place in the duty *)
(* to look after the others.                                               *)
LEMMA TimedUnlockNotifyKeeps ==
  ASSUME TimedInv, NEW t \in Threads, TM!UnlockNotify(t)
  PROVE  TimedInv'
<1> USE DEF TimedInv, TM!Inv, OneHolder, TM!UnlockNotify, TM!Goto
<1>1. waiting' \subseteq waiting
  BY DEF TM!NotifyOne
<1>2. TM!TypeOK'
  BY <1>1 DEF TM!TypeOK, TM!Labels, TM!Calls
<1>3. TM!Owners' = TM!Owners
  BY DEF TM!Owners, TM!TypeOK
<1>4. TM!OneOwner'
  BY <1>3 DEF TM!OneOwner
<1>5. TM!NoLostWakeup'
  <2>1. CASE waiting = {}
    BY <2>1 DEF TM!NotifyOne, TM!NoLostWakeup
  <2>2. CASE waiting # {}
    <3>1. PICK u \in waiting : waiting' = waiting \ {u}
      BY <2>2 DEF TM!NotifyOne
    <3>2. u \in Threads /\ pc[u] \in TM!Calls /\ u # t
      BY DEF TM!TypeOK, TM!Calls
    <3>3. TM!Awake(u)'
      BY <3>1, <3>2 DEF TM!Awake, TM!TypeOK
    <3>4. QED
      BY <3>2, <3>3 DEF TM!NoLostWakeup
  <2>3. QED
    BY <2>1, <2>2
<1>6. TM!NothingOutlivesDestruction'
  BY DEF TM!NothingOutlivesDestruction, TM!TypeOK
<1>7. QED
  BY <1>2, <1>4, <1>5, <1>6

LEMMA TimedWakesKeeps ==
  ASSUME TimedInv, NEW t \in Threads, TM!SpuriousWakeup(t) \/ TM!DeadlinePasses(t)
  PROVE  TimedInv'
<1> USE DEF TimedInv, TM!Inv, OneHolder
<1>0. /\ waiting' = waiting \ {t} /\ UNCHANGED <<locked, mutex, alive, pc>>
      /\ pc[t] \in TM!Calls
  BY DEF TM!SpuriousWakeup, TM!DeadlinePasses, TM!TypeOK, TM!Calls
<1>1. TM!TypeOK'
  BY <1>0 DEF TM!SpuriousWakeup, TM!DeadlinePasses, TM!TypeOK
<1>2. TM!OneOwner'
  BY <1>0 DEF TM!OneOwner, TM!Owners
<1>3. TM!Awake(t)'
  BY <1>0 DEF TM!Awake
<1>4. TM!NoLostWakeup' /\ TM!NothingOutlivesDestruction'
  BY <1>0, <1>3 DEF TM!NoLostWakeup, TM!NothingOutlivesDestruction
<1>5. QED
  BY <1>0, <1>1, <1>2, <1>4

(* The destructor waits for __m_: no unlock() is under way when it returns.*)
LEMMA TimedDestroyKeeps ==
  ASSUME TimedInv, TM!Destroy
  PROVE  TimedInv'
<1> USE DEF TimedInv, TM!Inv, OneHolder, TM!Destroy
<1>1. TM!TypeOK'
  BY DEF TM!TypeOK
<1>2. TM!OneOwner' /\ TM!NoLostWakeup'
  BY DEF TM!OneOwner, TM!Owners, TM!NoLostWakeup, TM!Awake
<1>3. \A t \in Threads : pc[t] = "idle"
  BY DEF TM!Unowned, TM!TypeOK
<1>4. QED
  BY <1>1, <1>2, <1>3 DEF TM!NothingOutlivesDestruction

LEMMA TimedKeeps == TimedInv /\ [TM!Next]_(TM!vars) => TimedInv'
<1> SUFFICES ASSUME TimedInv, [TM!Next]_(TM!vars) PROVE TimedInv'
  OBVIOUS
<1>1. CASE UNCHANGED TM!vars
  BY <1>1 DEF TM!vars, TimedInv, TM!Inv, OneHolder, TM!TypeOK, TM!OneOwner, TM!Owners,
              TM!NoLostWakeup, TM!Awake,
              TM!NothingOutlivesDestruction
<1>2. ASSUME NEW t \in Threads, TM!BeginLock(t) \/ TM!Retry(t) \/ TM!TryLock(t) PROVE TimedInv'
  BY <1>2, TimedEntersAre, TimedTakesKeeps, TimedSleepsKeeps
<1>3. ASSUME NEW t \in Threads, TM!Timeout(t) PROVE TimedInv'
  BY <1>3, TimedTimeoutKeeps
<1>4. ASSUME NEW t \in Threads, TM!UnlockStore(t) PROVE TimedInv'
  BY <1>4, TimedUnlockStoreKeeps
<1>5. ASSUME NEW t \in Threads, TM!UnlockNotify(t) PROVE TimedInv'
  BY <1>5, TimedUnlockNotifyKeeps
<1>6. ASSUME NEW t \in Threads, TM!SpuriousWakeup(t) \/ TM!DeadlinePasses(t) PROVE TimedInv'
  BY <1>6, TimedWakesKeeps
<1>7. CASE TM!Destroy
  BY <1>7, TimedDestroyKeeps
<1>8. QED
  BY <1>1, <1>2, <1>3, <1>4, <1>5, <1>6, <1>7 DEF TM!Next

-----------------------------------------------------------------------------
TimedDepth == [t \in Threads |-> IF t \in TM!Owners THEN 1 ELSE 0]

(* What a step does to the owners is what it does to the lock.             *)
LEMMA TimedSameOwners ==
  ASSUME TM!Owners' = TM!Owners
  PROVE  TimedDepth' = TimedDepth
BY DEF TimedDepth

LEMMA TimedRefines == TimedInv /\ [TM!Next]_(TM!vars) => [TM!L!LockNext]_TimedDepth
<1> SUFFICES ASSUME TimedInv, [TM!Next]_(TM!vars) PROVE TM!L!LockNext \/ TimedDepth' = TimedDepth
  OBVIOUS
<1> USE DEF TimedInv, TM!Inv, OneHolder
<1>1. CASE UNCHANGED TM!vars
  BY <1>1, TimedSameOwners DEF TM!vars, TM!Owners
<1>2. ASSUME NEW t \in Threads, TimedTakes(t) PROVE TM!L!LockNext
  <2>1. TM!Owners = {} /\ TM!Owners' = {t}
    BY <1>2 DEF TimedTakes, TM!Return, TM!Goto, TM!OneOwner, TM!Owners, TM!TypeOK
  <2>2. \A u \in Threads : TimedDepth[u] = 0
    BY <2>1 DEF TimedDepth
  <2>3. TimedDepth' = [TimedDepth EXCEPT ![t] = TimedDepth[t] + 1]
    BY <2>1, <2>2 DEF TimedDepth
  <2>4. (\A u \in Threads \ {t} : TimedDepth[u] = 0) /\ TimedDepth[t] < 1
    BY <2>2
  <2>5. TM!L!Acquire(t)
    BY <2>3, <2>4, Zenon DEF TM!L!Acquire, TimedDepth
  <2>6. QED
    BY <2>5 DEF TM!L!LockNext
<1>3. ASSUME NEW t \in Threads, TimedSleeps(t) PROVE TimedDepth' = TimedDepth
  BY <1>3, TimedSameOwners DEF TimedSleeps, TM!Goto, TM!Owners, TM!TypeOK, TM!Calls
<1>4. ASSUME NEW t \in Threads, TM!Timeout(t) PROVE TimedDepth' = TimedDepth
  BY <1>4, TimedSameOwners DEF TM!Timeout, TM!Awake, TM!Return, TM!Goto, TM!Owners, TM!TypeOK,
                               TM!Calls
<1>5. ASSUME NEW t \in Threads, TM!UnlockStore(t) PROVE TM!L!LockNext
  <2>1. TM!Owners = {t} /\ TM!Owners' = {}
    BY <1>5, TimedOwnerKnown DEF TM!UnlockStore, TM!Goto, TM!Owners, TM!TypeOK
  <2>2. /\ TimedDepth = [u \in Threads |-> IF u = t THEN 1 ELSE 0]
        /\ TimedDepth' = [u \in Threads |-> 0]
    BY <2>1 DEF TimedDepth
  <2>3. TimedDepth[t] > 0
    BY <2>2
  <2>4. TimedDepth' = [TimedDepth EXCEPT ![t] = TimedDepth[t] - 1]
    BY <2>2
  <2>5. TM!L!Release(t)
    BY <2>3, <2>4, Zenon DEF TM!L!Release, TimedDepth
  <2>6. QED
    BY <2>5 DEF TM!L!LockNext
<1>6. ASSUME NEW t \in Threads, TM!UnlockNotify(t) PROVE TimedDepth' = TimedDepth
  BY <1>6, TimedSameOwners DEF TM!UnlockNotify, TM!Goto, TM!Owners, TM!TypeOK
<1>7. ASSUME NEW t \in Threads, TM!SpuriousWakeup(t) \/ TM!DeadlinePasses(t)
      PROVE  TimedDepth' = TimedDepth
  BY <1>7, TimedSameOwners DEF TM!SpuriousWakeup, TM!DeadlinePasses, TM!Owners
<1>8. CASE TM!Destroy
  BY <1>8, TimedSameOwners DEF TM!Destroy, TM!Owners
<1>9. QED
  BY <1>1, <1>2, <1>3, <1>4, <1>5, <1>6, <1>7, <1>8, TimedEntersAre DEF TM!Next

-----------------------------------------------------------------------------
(***************************************************************************)
(* recursive_timed_mutex: the count and the id are those of the owner, and *)
(* no sleeping thread is forgotten although unlock() notifies when it has  *)
(* let __m_ go.                                                            *)
(***************************************************************************)
LEMMA RecursiveInit ==
  ASSUME RM!Init
  PROVE  RM!Inv
BY ThreadsAssumption DEF RM!Init, RM!Inv, RM!TypeOK, RM!Labels, RM!Calls, RM!OwnerExact,
                         RM!NoLostWakeup

(* The thread that __id_ names is the one with locks to release.           *)
LEMMA RecursiveHolderIsOwner ==
  ASSUME RM!Inv, NEW t \in Threads, held[t] > 0
  PROVE  id = t /\ count = held[t] /\ count \in 1..MaxCount
BY ThreadsAssumption DEF RM!Inv, RM!OwnerExact, RM!TypeOK

LEMMA RecursiveFreeMeansNoneHeld ==
  ASSUME RM!Inv, count = 0
  PROVE  id = Nobody /\ \A t \in Threads : held[t] = 0
BY ThreadsAssumption DEF RM!Inv, RM!OwnerExact, RM!TypeOK

(* A call that returns with one more lock, of a mutex that is free or its  *)
(* thread's own.                                                           *)
LEMMA RecursiveOwnKeeps ==
  ASSUME RM!Inv, NEW t \in Threads, pc[t] \in RM!Calls \cup {"idle"}, t \notin waiting,
         count = 0 \/ id = t, count # MaxCount, RM!Own(t, count + 1), UNCHANGED waiting
  PROVE  RM!Inv'
<1> USE DEF RM!Own, RM!Goto
<1>1. held[t] = count /\ \A u \in Threads \ {t} : held[u] = 0
  BY ThreadsAssumption DEF RM!Inv, RM!OwnerExact
<1>2. count + 1 \in 1..MaxCount /\ count' = count + 1 /\ id' = t
  BY ThreadsAssumption DEF RM!Inv, RM!TypeOK
<1>3. held' = [held EXCEPT ![t] = count + 1] /\ held' \in [Threads -> 0..MaxCount]
  BY <1>1, <1>2 DEF RM!Inv, RM!TypeOK
<1>4. RM!TypeOK'
  BY <1>2, <1>3 DEF RM!Inv, RM!TypeOK, RM!Labels, RM!Calls
<1>5. RM!OwnerExact'
  BY <1>1, <1>2, <1>3, ThreadsAssumption DEF RM!Inv, RM!TypeOK, RM!OwnerExact
<1>6. RM!NoLostWakeup'
  BY <1>2 DEF RM!NoLostWakeup
<1>7. QED
  BY <1>4, <1>5, <1>6 DEF RM!Inv

(* The thread sleeps: somebody owns the mutex.                             *)
RecursiveSleeps(t) ==
  /\ count # 0 /\ t \notin late /\ pc[t] \in RM!Calls \cup {"idle"}
  /\ waiting' = waiting \cup {t}
  /\ \E way \in RM!Calls : (pc[t] = "idle" \/ pc[t] = way) /\ RM!Goto(t, way)
  /\ UNCHANGED <<count, id, late, held>>

LEMMA RecursiveSleepsKeeps ==
  ASSUME RM!Inv, NEW t \in Threads, RecursiveSleeps(t)
  PROVE  RM!Inv'
<1> USE DEF RecursiveSleeps, RM!Goto
<1>0. PICK way \in RM!Calls : (pc[t] = "idle" \/ pc[t] = way) /\ pc' = [pc EXCEPT ![t] = way]
  OBVIOUS
<1>1. RM!TypeOK'
  BY <1>0 DEF RM!Inv, RM!TypeOK, RM!Labels, RM!Calls
<1>2. RM!OwnerExact' /\ RM!NoLostWakeup'
  BY DEF RM!Inv, RM!OwnerExact, RM!NoLostWakeup
<1>3. QED
  BY <1>1, <1>2 DEF RM!Inv

RecursiveOwns(t) == RM!Own(t, count + 1) /\ (count = 0 \/ id = t) /\ count # MaxCount
           /\ UNCHANGED waiting /\ pc[t] \in RM!Calls \cup {"idle"} /\ t \notin waiting

LEMMA RecursiveLocksAre ==
  ASSUME RM!Inv, NEW t \in Threads,
         RM!Relock(t) \/ RM!BeginLock(t) \/ RM!Retry(t) \/ RM!TryLock(t)
  PROVE  RecursiveOwns(t) \/ RecursiveSleeps(t)
<1>0. 0 # MaxCount /\ 0 + 1 = 1
  BY ThreadsAssumption
<1>1. CASE RM!Relock(t)
  BY <1>1 DEF RM!Relock, RecursiveOwns, RM!Inv, RM!TypeOK, RM!Calls
<1>2. CASE RM!BeginLock(t)
  <2>1. PICK way \in RM!Calls : RM!Enter(t, way)
    BY <1>2 DEF RM!BeginLock
  <2>2. pc[t] = "idle" /\ t \notin waiting
    BY <1>2 DEF RM!BeginLock, RM!Inv, RM!TypeOK, RM!Calls
  <2>3. QED
    BY <1>0, <2>1, <2>2 DEF RM!Enter, RecursiveOwns, RecursiveSleeps
<1>3. CASE RM!Retry(t)
  BY <1>0, <1>3 DEF RM!Retry, RM!Awake, RM!Enter, RecursiveOwns, RecursiveSleeps
<1>4. CASE RM!TryLock(t)
  BY <1>0, <1>4 DEF RM!TryLock, RecursiveOwns, RM!Inv, RM!TypeOK, RM!Calls
<1>5. QED
  BY <1>1, <1>2, <1>3, <1>4

LEMMA RecursiveTimeoutKeeps ==
  ASSUME RM!Inv, NEW t \in Threads, RM!Timeout(t)
  PROVE  RM!Inv'
<1> USE DEF RM!Timeout, RM!Awake, RM!Goto
<1>1. RM!TypeOK'
  BY DEF RM!Inv, RM!TypeOK, RM!Labels, RM!Calls
<1>2. RM!OwnerExact' /\ RM!NoLostWakeup'
  BY DEF RM!Inv, RM!OwnerExact, RM!NoLostWakeup
<1>3. QED
  BY <1>1, <1>2 DEF RM!Inv

LEMMA RecursiveUnlockKeeps ==
  ASSUME RM!Inv, NEW t \in Threads, RM!Unlock(t)
  PROVE  RM!Inv'
<1> USE DEF RM!Unlock, RM!Goto
<1>1. /\ id = t /\ count = held[t] /\ count \in 1..MaxCount
      /\ count' = count - 1 /\ count' \in 0..MaxCount
  BY RecursiveHolderIsOwner, ThreadsAssumption
<1>2. held' = [held EXCEPT ![t] = count - 1]
  BY <1>1
<1>3. RM!TypeOK'
  BY <1>1, <1>2 DEF RM!Inv, RM!TypeOK, RM!Labels, RM!Calls
<1>4. RM!OwnerExact'
  BY <1>1, <1>2, ThreadsAssumption DEF RM!Inv, RM!TypeOK, RM!OwnerExact
<1>5. RM!NoLostWakeup'
  BY <1>1 DEF RM!Inv, RM!TypeOK, RM!NoLostWakeup
<1>6. QED
  BY <1>3, <1>4, <1>5 DEF RM!Inv

(* By the time of the notification another thread may own the mutex: the   *)
(* one that is woken looks after the others all the same.                  *)
LEMMA RecursiveNotifyKeeps ==
  ASSUME RM!Inv, NEW t \in Threads, RM!Notify(t)
  PROVE  RM!Inv'
<1> USE DEF RM!Notify, RM!Goto
<1>1. RM!TypeOK'
  BY DEF RM!Inv, RM!TypeOK, RM!Labels, RM!Calls
<1>2. RM!OwnerExact'
  BY DEF RM!Inv, RM!OwnerExact
<1>3. RM!NoLostWakeup'
  <2>1. CASE waiting = {}
    BY <2>1 DEF RM!NoLostWakeup
  <2>2. CASE waiting # {}
    <3>1. PICK u \in waiting : waiting' = waiting \ {u}
      BY <2>2
    <3>2. u \in Threads /\ pc[u] \in RM!Calls /\ u # t
      BY DEF RM!Inv, RM!TypeOK, RM!Calls
    <3>3. RM!Awake(u)'
      BY <3>1, <3>2 DEF RM!Awake, RM!Inv, RM!TypeOK
    <3>4. QED
      BY <3>2, <3>3 DEF RM!NoLostWakeup
  <2>3. QED
    BY <2>1, <2>2
<1>4. QED
  BY <1>1, <1>2, <1>3 DEF RM!Inv

LEMMA RecursiveWakesKeeps ==
  ASSUME RM!Inv, NEW t \in Threads, RM!SpuriousWakeup(t) \/ RM!DeadlinePasses(t)
  PROVE  RM!Inv'
<1>0. waiting' = waiting \ {t} /\ UNCHANGED <<count, id, pc, held>> /\ pc[t] \in RM!Calls
  BY DEF RM!SpuriousWakeup, RM!DeadlinePasses, RM!Inv, RM!TypeOK, RM!Calls
<1>1. RM!TypeOK'
  BY <1>0 DEF RM!SpuriousWakeup, RM!DeadlinePasses, RM!Inv, RM!TypeOK
<1>2. RM!OwnerExact'
  BY <1>0 DEF RM!Inv, RM!OwnerExact
<1>3. RM!Awake(t)'
  BY <1>0 DEF RM!Awake
<1>4. RM!NoLostWakeup'
  BY <1>0, <1>3 DEF RM!NoLostWakeup
<1>5. QED
  BY <1>1, <1>2, <1>4 DEF RM!Inv

LEMMA RecursiveKeeps == RM!Inv /\ [RM!Next]_(RM!vars) => RM!Inv'
<1> SUFFICES ASSUME RM!Inv, [RM!Next]_(RM!vars) PROVE RM!Inv'
  OBVIOUS
<1>1. CASE UNCHANGED RM!vars
  BY <1>1 DEF RM!vars, RM!Inv, RM!TypeOK, RM!OwnerExact, RM!NoLostWakeup, RM!Awake
<1>2. ASSUME NEW t \in Threads, RM!Relock(t) \/ RM!BeginLock(t) \/ RM!Retry(t) \/ RM!TryLock(t)
      PROVE  RM!Inv'
  BY <1>2, RecursiveLocksAre, RecursiveOwnKeeps, RecursiveSleepsKeeps DEF RecursiveOwns
<1>3. ASSUME NEW t \in Threads, RM!Timeout(t) PROVE RM!Inv'
  BY <1>3, RecursiveTimeoutKeeps
<1>4. ASSUME NEW t \in Threads, RM!Unlock(t) PROVE RM!Inv'
  BY <1>4, RecursiveUnlockKeeps
<1>5. ASSUME NEW t \in Threads, RM!Notify(t) PROVE RM!Inv'
  BY <1>5, RecursiveNotifyKeeps
<1>6. ASSUME NEW t \in Threads, RM!SpuriousWakeup(t) \/ RM!DeadlinePasses(t) PROVE RM!Inv'
  BY <1>6, RecursiveWakesKeeps
<1>7. QED
  BY <1>1, <1>2, <1>3, <1>4, <1>5, <1>6 DEF RM!Next

-----------------------------------------------------------------------------
LEMMA RecursiveRefines == RM!Inv /\ [RM!Next]_(RM!vars) => [RM!L!LockNext]_held
<1> SUFFICES ASSUME RM!Inv, [RM!Next]_(RM!vars) PROVE RM!L!LockNext \/ held' = held
  OBVIOUS
<1>1. ASSUME NEW t \in Threads, RecursiveOwns(t) PROVE RM!L!LockNext
  <2>1. held[t] = count /\ \A u \in Threads \ {t} : held[u] = 0
    BY <1>1, ThreadsAssumption DEF RecursiveOwns, RM!Inv, RM!OwnerExact
  <2>2. held[t] < MaxCount
    BY <1>1, <2>1, ThreadsAssumption DEF RecursiveOwns, RM!Inv, RM!TypeOK
  <2>3. held' = [held EXCEPT ![t] = @ + 1]
    BY <1>1 DEF RecursiveOwns, RM!Own
  <2>4. QED
    BY <2>1, <2>2, <2>3 DEF RM!L!LockNext, RM!L!Acquire
<1>2. ASSUME NEW t \in Threads, RM!Relock(t) \/ RM!BeginLock(t) \/ RM!Retry(t) \/ RM!TryLock(t)
      PROVE  RM!L!LockNext \/ held' = held
  BY <1>1, <1>2, RecursiveLocksAre DEF RecursiveSleeps
<1>3. ASSUME NEW t \in Threads, RM!Unlock(t) PROVE RM!L!LockNext
  BY <1>3 DEF RM!Unlock, RM!L!LockNext, RM!L!Release
<1>4. ASSUME NEW t \in Threads,
             RM!Timeout(t) \/ RM!Notify(t) \/ RM!SpuriousWakeup(t) \/ RM!DeadlinePasses(t)
      PROVE  held' = held
  BY <1>4 DEF RM!Timeout, RM!Notify, RM!SpuriousWakeup, RM!DeadlinePasses
<1>5. CASE UNCHANGED RM!vars
  BY <1>5 DEF RM!vars
<1>6. QED
  BY <1>2, <1>3, <1>4, <1>5 DEF RM!Next

-----------------------------------------------------------------------------
(***************************************************************************)
(* condition_variable_any.                                                 *)
(***************************************************************************)
WaiterPlaces == {"test", "enter", "entered", "released", "asleep", "woken", "leaving",
                 "relocked", "finish"}
SetterPlaces == {"locked", "notifyLocked", "unlockFirst", "signalLocked", "unlock", "notify",
                 "signal"}

Places ==
  /\ internal \in Waiters \cup Setters \cup {Nobody}
  /\ place \in [Waiters \cup Setters -> WaiterPlaces \cup SetterPlaces \cup {"start", "end"}]
  /\ \A t \in Waiters \cup Setters : /\ place[t] \in WaiterPlaces => t \in Waiters
                                     /\ place[t] \in SetterPlaces => t \in Setters
  /\ sleeping \subseteq {w \in Waiters : place[w] = "asleep"}

(* The internal mutex has an owner only inside wait(), up to the sleep and *)
(* after it: not while the thread takes the user's lock back.              *)
OwnsInternal == \A t \in Waiters \cup Setters :
  internal = t <=> place[t] \in {"entered", "released", "woken"}

(* A share lasts from the lock of the internal mutex to the end of wait(). *)
SharesInternal == \A w \in Waiters :
  place[w] \in {"entered", "released", "asleep", "woken", "leaving", "relocked"} => w \in shares

(* Once the object is gone no wait() can begin.                            *)
DestroyedInTime == Nobody \notin shares =>
  /\ flag /\ sleeping = {}
  /\ \A s \in Setters : place[s] = "end"
  /\ \A w \in Waiters : place[w] \notin {"enter", "entered", "released"}

ConditionInv == Places /\ OwnsInternal /\ SharesInternal /\ DestroyedInTime

LEMMA ConditionInit == CV!Init => ConditionInv
BY ThreadsAssumption
   DEF CV!Init, CV!Callers, CV!Object, ConditionInv, Places, OwnsInternal,
       SharesInternal, DestroyedInTime, WaiterPlaces, SetterPlaces

(* Setters do not touch the internal mutex nor the shares.                 *)
LEMMA SetterKeeps ==
  ASSUME ConditionInv, NEW s \in Setters, CV!SetterStep(s)
  PROVE  ConditionInv'
<1> USE DEF ConditionInv
<1>1. \E from \in SetterPlaces \cup {"start"}, to \in SetterPlaces \cup {"end"} :
        place[s] = from /\ place' = [place EXCEPT ![s] = to]
  BY DEF CV!SetterStep, CV!LockUser, CV!UnlockUser, CV!SetFlag, CV!Barrier, CV!Broadcast,
         CV!Step, CV!Goto, SetterPlaces
<1>2. UNCHANGED <<internal, shares>> /\ sleeping' \subseteq sleeping
  BY DEF CV!SetterStep, CV!LockUser, CV!UnlockUser, CV!SetFlag, CV!Barrier, CV!Broadcast
<1>3. Places'
  BY <1>1, <1>2 DEF Places, WaiterPlaces, SetterPlaces
<1>4. OwnsInternal'
  BY <1>1, <1>2 DEF Places, OwnsInternal, SetterPlaces
<1>5. SharesInternal'
  BY <1>1, <1>2 DEF Places, SharesInternal, SetterPlaces
<1>6. DestroyedInTime'
  BY <1>1, <1>2 DEF DestroyedInTime, SetterPlaces
<1>7. QED
  BY <1>3, <1>4, <1>5, <1>6

(* A step of wait() other than a lock or an unlock of the internal mutex.  *)
LEMMA WaiterMovesKeep ==
  ASSUME ConditionInv, NEW w \in Waiters,
         \/ CV!LockUser(w, "start", "test") \/ CV!Test(w)
         \/ CV!Release(w) \/ CV!Relock(w) \/ CV!DropShare(w)
         \/ CV!UnlockUser(w, "finish", "end")
  PROVE  ConditionInv'
<1> USE DEF ConditionInv
<1>1. /\ UNCHANGED <<internal, sleeping, flag>>
      /\ \/ CV!Step(w, "start", "test") /\ UNCHANGED shares
         \/ CV!Step(w, "test", "enter") /\ ~flag /\ UNCHANGED shares
         \/ CV!Step(w, "test", "finish") /\ UNCHANGED shares
         \/ CV!Step(w, "entered", "released") /\ UNCHANGED shares
         \/ CV!Step(w, "leaving", "relocked") /\ UNCHANGED shares
         \/ CV!Step(w, "relocked", "test") /\ shares' = shares \ {w}
         \/ CV!Step(w, "finish", "end") /\ UNCHANGED shares
  BY DEF CV!LockUser, CV!Test, CV!UnlockUser, CV!Release, CV!Relock, CV!DropShare
<1>2. Places'
  BY <1>1 DEF CV!Step, CV!Goto, Places, WaiterPlaces, SetterPlaces
<1>3. OwnsInternal'
  BY <1>1 DEF CV!Step, CV!Goto, Places, OwnsInternal
<1>4. SharesInternal'
  BY <1>1 DEF CV!Step, CV!Goto, Places, SharesInternal
<1>5. DestroyedInTime'
  BY <1>1, ThreadsAssumption DEF CV!Step, CV!Goto, Places, DestroyedInTime
<1>6. QED
  BY <1>2, <1>3, <1>4, <1>5

(* wait() locks the internal mutex, which was free.                        *)
LEMMA LocksKeep ==
  ASSUME ConditionInv, NEW w \in Waiters, CV!Enter(w) \/ CV!Wake(w)
  PROVE  ConditionInv'
<1> USE DEF ConditionInv
<1>1. /\ internal = Nobody /\ internal' = w
      /\ UNCHANGED <<sleeping, flag>>
      /\ \/ CV!Step(w, "enter", "entered") /\ shares' = shares \cup {w}
         \/ CV!Step(w, "asleep", "woken") /\ w \notin sleeping /\ UNCHANGED shares
  BY DEF CV!Enter, CV!Wake, CV!LockInternal
<1>2. Places'
  BY <1>1 DEF CV!Step, CV!Goto, Places, WaiterPlaces, SetterPlaces
<1>3. OwnsInternal'
  BY <1>1, ThreadsAssumption DEF CV!Step, CV!Goto, Places, OwnsInternal
<1>4. SharesInternal'
  BY <1>1 DEF CV!Step, CV!Goto, Places, SharesInternal
<1>5. DestroyedInTime'
  BY <1>1 DEF CV!Step, CV!Goto, Places, DestroyedInTime
<1>6. QED
  BY <1>2, <1>3, <1>4, <1>5

(* ... and unlocks its own.                                                *)
LEMMA UnlocksKeep ==
  ASSUME ConditionInv, NEW w \in Waiters, CV!Sleep(w) \/ CV!Leave(w)
  PROVE  ConditionInv'
<1> USE DEF ConditionInv
<1>1. /\ internal' = Nobody
      /\ UNCHANGED <<shares, flag>>
      /\ \/ CV!Step(w, "released", "asleep") /\ sleeping' = sleeping \cup {w}
         \/ CV!Step(w, "woken", "leaving") /\ UNCHANGED sleeping
  BY DEF CV!Sleep, CV!Leave, CV!UnlockInternal
<1>2. Places'
  BY <1>1 DEF CV!Step, CV!Goto, Places, WaiterPlaces, SetterPlaces
<1>3. OwnsInternal'
  BY <1>1, ThreadsAssumption DEF CV!Step, CV!Goto, Places, OwnsInternal
<1>4. SharesInternal'
  BY <1>1 DEF CV!Step, CV!Goto, Places, SharesInternal
<1>5. DestroyedInTime'
  BY <1>1 DEF CV!Step, CV!Goto, Places, DestroyedInTime
<1>6. QED
  BY <1>2, <1>3, <1>4, <1>5

LEMMA ConditionStep ==
  ASSUME ConditionInv, [CV!Next]_condition
  PROVE  ConditionInv'
<1>1. CASE UNCHANGED condition
  BY <1>1 DEF condition, ConditionInv, Places, OwnsInternal, SharesInternal, DestroyedInTime
<1>2. ASSUME NEW w \in Waiters, CV!WaiterStep(w) PROVE ConditionInv'
  BY <1>2, WaiterMovesKeep, LocksKeep, UnlocksKeep DEF CV!WaiterStep
<1>3. ASSUME NEW w \in Waiters, CV!SpuriousWakeup(w) \/ CV!DeadlinePasses(w) PROVE ConditionInv'
  BY <1>3 DEF CV!SpuriousWakeup, CV!DeadlinePasses, ConditionInv, Places, OwnsInternal,
              SharesInternal, DestroyedInTime
<1>4. ASSUME NEW s \in Setters, CV!SetterStep(s) PROVE ConditionInv'
  BY <1>4, SetterKeeps
<1>5. CASE CV!Destroy
  BY <1>5, ThreadsAssumption
     DEF CV!Destroy, CV!Object, ConditionInv, Places, OwnsInternal, SharesInternal,
         DestroyedInTime
<1>6. CASE CV!Terminated
  BY <1>1, <1>6 DEF CV!Terminated, CV!vars, condition
<1>7. QED
  BY <1>1, <1>2, <1>3, <1>4, <1>5, <1>6 DEF CV!Next

LEMMA ConditionImplies ==
  ASSUME ConditionInv
  PROVE  CV!OutlivesTheObject
<1> USE DEF ConditionInv
<1>1. internal # Nobody => internal \in shares
  <2> SUFFICES ASSUME internal # Nobody PROVE internal \in shares
    OBVIOUS
  <2>1. place[internal] \in {"entered", "released", "woken"} /\ internal \in Waiters \cup Setters
    BY DEF Places, OwnsInternal
  <2>2. QED
    BY <2>1 DEF Places, SharesInternal, WaiterPlaces
<1>2. QED
  BY <1>1 DEF Places, SharesInternal, DestroyedInTime, WaiterPlaces, SetterPlaces,
              CV!OutlivesTheObject, CV!Alive, CV!Object, CV!Callers

-----------------------------------------------------------------------------
(***************************************************************************)
(* std::lock and std::try_lock: a call owns the mutexes that it has        *)
(* counted, and nobody waits for a mutex with another one in its hands.    *)
(***************************************************************************)
(* The owner of a free mutex is no thread.  The calls take two mutexes or  *)
(* more, and none of them twice.                                           *)
SeveralLimits ==
  /\ Nobody \notin Lockers
  /\ \A list \in Arguments :
       /\ list \in Seq(Mutexes) /\ Len(list) >= 2
       /\ \A i, j \in 1..Len(list) : list[i] = list[j] => i = j

(* It is what is assumed of the lists.                                     *)
LEMMA SeveralLimitsHold == SeveralLimits
BY ThreadsAssumption DEF SeveralLimits

SeveralTypeOK ==
  /\ owner \in [Mutexes -> Lockers \cup {Nobody}]
  /\ order \in [Lockers -> Seq(Mutexes)]
  /\ done \in [Lockers -> Nat]
  /\ call \in [Lockers -> {"none", "block", "try", "tryOnly", "undo", "undoOnly", "owner"}]

(* A call has a list of different mutexes, and owns no other.              *)
OwnsFromList(t) ==
  /\ call[t] # "none" => Len(order[t]) >= 2
  /\ \A i, j \in 1..Len(order[t]) : order[t][i] = order[t][j] => i = j
  /\ \A m \in Mutexes : owner[m] = t => \E i \in 1..Len(order[t]) : order[t][i] = m

(* What a call owns is an interval of its list: at the front while it goes *)
(* forward, anywhere after a rotation, and at the end when it unlocks.     *)
OwnsInterval(t) ==
  /\ call[t] = "none" => order[t] = <<>> /\ done[t] = 0
  /\ call[t] = "block" => SL!Held(t) = {} /\ done[t] = 0
  /\ call[t] \in {"try", "tryOnly"} => done[t] < Len(order[t]) /\ SL!Held(t) = 1..done[t]
  /\ call[t] \in {"undo", "undoOnly"} =>
       \E a \in 1..Len(order[t]) + 1 : /\ a + done[t] - 1 <= Len(order[t])
                                       /\ SL!Held(t) = a..(a + done[t] - 1)
  /\ call[t] = "owner" => \E a \in 1..Len(order[t]) : SL!Held(t) = a..Len(order[t])

SeveralInv == SeveralTypeOK /\ \A t \in Lockers : OwnsFromList(t) /\ OwnsInterval(t)
-----------------------------------------------------------------------------
(***************************************************************************)
(* The operators.                                                          *)
(***************************************************************************)
(* The instance counts like the module.                                    *)
LEMMA SeveralCounts == \A S : SL!Cardinality(S) = Cardinality(S)
BY DEF SL!Cardinality, Cardinality

(* The ends of an interval.                                                *)
LEMMA MaxOfInterval ==
  ASSUME NEW a \in Int, NEW b \in Int, a <= b
  PROVE  SL!Max(a..b) = b
<1>1. b \in a..b /\ \A y \in a..b : b >= y
  OBVIOUS
<1>2. ASSUME NEW x \in a..b, \A y \in a..b : x >= y
      PROVE  x = b
  BY <1>1, <1>2
<1>3. QED
  BY <1>1, <1>2 DEF SL!Max

LEMMA MinOfInterval ==
  ASSUME NEW a \in Int, NEW b \in Int, a <= b
  PROVE  SL!Min(a..b) = a
<1>1. a \in a..b /\ \A y \in a..b : a =< y
  OBVIOUS
<1>2. ASSUME NEW x \in a..b, \A y \in a..b : x =< y
      PROVE  x = a
  BY <1>1, <1>2
<1>3. QED
  BY <1>1, <1>2 DEF SL!Min

(* The first n - 1 elements go to the end.                                 *)
LEMMA RotatedProperties ==
  ASSUME NEW S, NEW s \in Seq(S), NEW n \in 1..Len(s)
  PROVE  /\ SL!Rotated(s, n) \in Seq(S)
         /\ Len(SL!Rotated(s, n)) = Len(s)
         /\ \A i \in 1..Len(s) :
              SL!Rotated(s, n)[i] = IF i <= Len(s) - n + 1 THEN s[i + n - 1]
                                                        ELSE s[i - (Len(s) - n + 1)]
<1> DEFINE back == SubSeq(s, n, Len(s))
           front == SubSeq(s, 1, n - 1)
<1>1. Len(s) \in Nat /\ \A i \in 1..Len(s) : s[i] \in S
  OBVIOUS
<1>2. /\ back \in Seq(S) /\ Len(back) = Len(s) - n + 1
      /\ \A i \in 1..Len(s) - n + 1 : back[i] = s[n + i - 1]
  BY <1>1, SubSeqProperties
<1>3. /\ front \in Seq(S) /\ Len(front) = n - 1
      /\ \A i \in 1..n - 1 : front[i] = s[i]
  BY <1>1, SubSeqProperties
<1> HIDE DEF back, front
<1>4. /\ back \o front \in Seq(S) /\ Len(back \o front) = Len(back) + Len(front)
      /\ \A i \in 1..Len(back) + Len(front) :
           (back \o front)[i] = IF i <= Len(back) THEN back[i] ELSE front[i - Len(back)]
  BY <1>2, <1>3, ConcatProperties
<1>5. SL!Rotated(s, n) = back \o front
  BY DEF SL!Rotated, back, front
<1>6. Len(back) + Len(front) = Len(s)
  BY <1>1, <1>2, <1>3
<1>7. ASSUME NEW i \in 1..Len(s)
      PROVE  (back \o front)[i] = IF i <= Len(s) - n + 1 THEN s[i + n - 1]
                                                         ELSE s[i - (Len(s) - n + 1)]
  <2>1. CASE i <= Len(s) - n + 1
    <3>1. back[i] = s[n + i - 1] /\ n + i - 1 = i + n - 1
      BY <1>1, <1>2, <2>1
    <3>2. (back \o front)[i] = back[i]
      BY <1>1, <1>2, <1>4, <1>6, <2>1
    <3>3. QED
      BY <2>1, <3>1, <3>2
  <2>2. CASE ~(i <= Len(s) - n + 1)
    <3> DEFINE k == i - (Len(s) - n + 1)
    <3>1. k \in 1..n - 1 /\ k = i - Len(back)
      BY <1>1, <1>2, <2>2
    <3>2. front[k] = s[k]
      BY <1>3, <3>1
    <3>3. (back \o front)[i] = front[k]
      BY <1>1, <1>2, <1>4, <1>6, <2>2, <3>1
    <3>4. QED
      BY <2>2, <3>2, <3>3
  <2>3. QED
    BY <2>1, <2>2
<1>8. QED
  BY <1>1, <1>4, <1>5, <1>6, <1>7

(* The places of the mutexes of t, as numbers.                             *)
LEMMA HeldIs ==
  ASSUME SeveralTypeOK, NEW t \in Lockers
  PROVE  /\ SL!Held(t) = {i \in 1..Len(order[t]) : owner[order[t][i]] = t}
         /\ Len(order[t]) \in Nat
         /\ \A i \in 1..Len(order[t]) : order[t][i] \in Mutexes
BY DEF SeveralTypeOK, SL!Held
-----------------------------------------------------------------------------
(***************************************************************************)
(* What a step of t does to what the threads own.                          *)
(***************************************************************************)
LEMMA OthersKeep ==
  ASSUME SeveralLimits, SeveralInv, SeveralTypeOK', NEW t \in Lockers,
         \A m \in Mutexes : owner'[m] # owner[m] => {owner[m], owner'[m]} \subseteq {t, Nobody},
         \A u \in Lockers \ {t} : order'[u] = order[u] /\ done'[u] = done[u] /\ call'[u] = call[u]
  PROVE  \A u \in Lockers \ {t} : OwnsFromList(u)' /\ OwnsInterval(u)'
<1> TAKE u \in Lockers \ {t}
<1>1. \A m \in Mutexes : owner'[m] = u <=> owner[m] = u
  BY DEF SeveralLimits, SeveralInv, SeveralTypeOK
<1>2. SL!Held(u)' = SL!Held(u)
  BY <1>1, HeldIs DEF SeveralInv, SL!Held
<1>3. QED
  BY <1>1, <1>2 DEF SeveralInv, OwnsFromList, OwnsInterval

LEMMA TakeAdds ==
  ASSUME SeveralLimits, SeveralInv, NEW t \in Lockers, NEW i \in 1..Len(order[t]), order' = order,
         owner[order[t][i]] = Nobody, SL!Take(t, order[t][i])
  PROVE  SL!Held(t)' = SL!Held(t) \cup {i}
<1>1. /\ SL!Held(t) = {j \in 1..Len(order[t]) : owner[order[t][j]] = t}
      /\ SL!Held(t)' = {j \in 1..Len(order[t]) : owner'[order[t][j]] = t}
  BY HeldIs DEF SeveralInv, SL!Held
<1>2. \A j \in 1..Len(order[t]) : owner'[order[t][j]] = t <=> owner[order[t][j]] = t \/ j = i
  BY HeldIs DEF SeveralInv, OwnsFromList, SL!Take, SeveralTypeOK
<1>3. QED
  BY <1>1, <1>2

LEMMA FreeRemoves ==
  ASSUME SeveralLimits, SeveralInv, NEW t \in Lockers, NEW i \in SL!Held(t), order' = order,
         SL!Free(order[t][i])
  PROVE  SL!Held(t)' = SL!Held(t) \ {i}
<1>1. /\ SL!Held(t) = {j \in 1..Len(order[t]) : owner[order[t][j]] = t}
      /\ SL!Held(t)' = {j \in 1..Len(order[t]) : owner'[order[t][j]] = t}
  BY HeldIs DEF SeveralInv, SL!Held
<1>2. i \in 1..Len(order[t])
  BY <1>1
<1>3. \A j \in 1..Len(order[t]) : owner'[order[t][j]] = t <=> owner[order[t][j]] = t /\ j # i
  BY <1>2, HeldIs DEF SeveralLimits, SeveralInv, OwnsFromList, SL!Free, SeveralTypeOK
<1>4. QED
  BY <1>1, <1>3
-----------------------------------------------------------------------------
LEMMA SeveralInit ==
  ASSUME SeveralLimits, SL!Init
  PROVE  SeveralInv
<1>1. SeveralTypeOK
  BY DEF SL!Init, SeveralTypeOK
<1>2. \A t \in Lockers : OwnsFromList(t) /\ OwnsInterval(t)
  BY DEF SL!Init, SeveralLimits, OwnsFromList, OwnsInterval
<1>3. QED
  BY <1>1, <1>2 DEF SeveralInv

LEMMA BeginKeeps ==
  ASSUME SeveralLimits, SeveralInv, NEW t \in Lockers, NEW list \in Arguments,
         NEW where \in {"block", "tryOnly"}, SL!Begin(t, list, where)
  PROVE  SeveralInv'
<1>1. SeveralTypeOK'
  BY DEF SeveralLimits, SeveralInv, SeveralTypeOK, SL!Begin, SL!Goto
<1>2. \A u \in Lockers \ {t} : OwnsFromList(u)' /\ OwnsInterval(u)'
  BY <1>1, OthersKeep DEF SeveralInv, SeveralTypeOK, SL!Begin, SL!Goto
<1>3. /\ order'[t] = list /\ call'[t] = where /\ done'[t] = 0 /\ call[t] = "none"
      /\ \A m \in Mutexes : owner'[m] # t
  BY DEF SeveralInv, SeveralTypeOK, SL!Begin, SL!Goto, SL!Idle, OwnsInterval, OwnsFromList
<1>4. SL!Held(t)' = {}
  BY <1>1, <1>3 DEF SL!Held, SeveralTypeOK
<1>5. OwnsFromList(t)' /\ OwnsInterval(t)'
  BY <1>3, <1>4 DEF SeveralLimits, OwnsFromList, OwnsInterval
<1>6. QED
  BY <1>1, <1>2, <1>5 DEF SeveralInv

LEMMA BlockKeeps ==
  ASSUME SeveralLimits, SeveralInv, NEW t \in Lockers, SL!Block(t)
  PROVE  SeveralInv'
<1>1. /\ call[t] = "block" /\ Len(order[t]) \in Nat /\ Len(order[t]) >= 2 /\ SL!Held(t) = {}
      /\ order[t][1] \in Mutexes
  BY HeldIs DEF SL!Block, SeveralInv, OwnsFromList, OwnsInterval
<1>2. SeveralTypeOK'
  BY <1>1 DEF SeveralInv, SeveralTypeOK, SL!Block, SL!Take, SL!Goto
<1>3. \A u \in Lockers \ {t} : OwnsFromList(u)' /\ OwnsInterval(u)'
  BY <1>1, <1>2, OthersKeep DEF SeveralInv, SeveralTypeOK, SL!Block, SL!Take, SL!Goto
<1>4. SL!Held(t)' = {1}
  BY <1>1, TakeAdds DEF SL!Block
<1>5. OwnsFromList(t)'
  BY <1>1 DEF SeveralInv, SeveralTypeOK, OwnsFromList, SL!Block, SL!Take, SL!Goto
<1>6. OwnsInterval(t)'
  BY <1>1, <1>4 DEF SeveralInv, SeveralTypeOK, OwnsInterval, SL!Block, SL!Goto
<1>7. QED
  BY <1>2, <1>3, <1>5, <1>6 DEF SeveralInv

LEMMA TrySucceedsKeeps ==
  ASSUME SeveralLimits, SeveralInv, NEW t \in Lockers, SL!TrySucceeds(t)
  PROVE  SeveralInv'
<1> DEFINE n == done[t] + 1
<1>1. /\ n \in 1..Len(order[t]) /\ Len(order[t]) \in Nat /\ done[t] \in Nat
      /\ SL!Held(t) = 1..done[t] /\ order[t][n] \in Mutexes /\ call[t] \in {"try", "tryOnly"}
  BY HeldIs DEF SL!TrySucceeds, SeveralInv, OwnsInterval, SeveralTypeOK
<1>2. SeveralTypeOK'
  <2>1. call' \in [Lockers -> {"none", "block", "try", "tryOnly", "undo", "undoOnly", "owner"}]
    BY DEF SeveralInv, SeveralTypeOK, SL!TrySucceeds, SL!Goto
  <2>2. owner' = [owner EXCEPT ![order[t][n]] = t] /\ done' = [done EXCEPT ![t] = n]
    BY DEF SL!TrySucceeds, SL!Take
  <2>3. order' = order
    BY DEF SL!TrySucceeds
  <2>4. QED
    BY <1>1, <2>1, <2>2, <2>3 DEF SeveralInv, SeveralTypeOK
<1>3. \A u \in Lockers \ {t} : OwnsFromList(u)' /\ OwnsInterval(u)'
  BY <1>1, <1>2, OthersKeep DEF SeveralInv, SeveralTypeOK, SL!TrySucceeds, SL!Take, SL!Goto
<1>4. SL!Held(t)' = 1..n
  <2>1. SL!Held(t)' = SL!Held(t) \cup {n}
    BY <1>1, TakeAdds DEF SL!TrySucceeds
  <2>2. QED
    BY <1>1, <2>1
<1>5. OwnsFromList(t)'
  BY <1>1 DEF SeveralInv, SeveralTypeOK, OwnsFromList, SL!TrySucceeds, SL!Take, SL!Goto
<1>6. OwnsInterval(t)'
  BY <1>1, <1>4 DEF SeveralInv, SeveralTypeOK, OwnsInterval, SL!TrySucceeds, SL!Goto
<1>7. QED
  BY <1>2, <1>3, <1>5, <1>6 DEF SeveralInv

LEMMA FailedTryKeeps ==
  ASSUME SeveralLimits, SeveralInv, NEW t \in Lockers, SL!TryFails(t)
  PROVE  SeveralInv'
<1>1. PICK n, L : n = done[t] + 1 /\ L = Len(order[t])
  OBVIOUS
<1>2. /\ n \in 1..L /\ L \in Nat /\ done[t] = n - 1
      /\ SL!Held(t) = 1..n - 1 /\ call[t] \in {"try", "tryOnly"}
      /\ order[t] \in Seq(Mutexes) /\ L >= 2
  BY <1>1, HeldIs DEF SL!TryFails, SeveralInv, OwnsInterval, OwnsFromList, SeveralTypeOK
<1>3. /\ order'[t] \in Seq(Mutexes) /\ Len(order'[t]) = L
      /\ \A i \in 1..L : order'[t][i] = IF i <= L - n + 1 THEN order[t][i + n - 1]
                                                          ELSE order[t][i - (L - n + 1)]
  <2>1. order'[t] = SL!Rotated(order[t], n)
    BY <1>1 DEF SL!TryFails, SeveralInv, SeveralTypeOK
  <2>2. n \in 1..Len(order[t])
    BY <1>1, <1>2
  <2>3. /\ SL!Rotated(order[t], n) \in Seq(Mutexes)
        /\ Len(SL!Rotated(order[t], n)) = Len(order[t])
        /\ \A i \in 1..Len(order[t]) :
             SL!Rotated(order[t], n)[i] = IF i <= Len(order[t]) - n + 1 THEN order[t][i + n - 1]
                                       ELSE order[t][i - (Len(order[t]) - n + 1)]
    BY <1>2, <2>2, RotatedProperties
  <2>4. QED
    BY <1>1, <2>1, <2>3
<1>4. SeveralTypeOK'
  BY <1>2, <1>3 DEF SeveralInv, SeveralTypeOK, SL!TryFails, SL!Goto
<1>5. \A u \in Lockers \ {t} : OwnsFromList(u)' /\ OwnsInterval(u)'
  BY <1>4, OthersKeep DEF SeveralInv, SeveralTypeOK, SL!TryFails, SL!Goto
<1>6. SL!Held(t)' = (L - n + 2)..L
  <2>1. SL!Held(t)' = {i \in 1..L : owner[order'[t][i]] = t}
    BY <1>3, <1>4 DEF SL!Held, SeveralTypeOK, SL!TryFails
  <2>2. \A i \in 1..L : owner[order[t][i]] = t <=> i \in 1..n - 1
    BY <1>1, <1>2, HeldIs DEF SeveralInv
  <2>3. ASSUME NEW i \in 1..L
        PROVE  owner[order'[t][i]] = t <=> i > L - n + 1
    <3>1. CASE i <= L - n + 1
      BY <1>2, <1>3, <2>2, <3>1, i + n - 1 \in 1..L, ~(i + n - 1 \in 1..n - 1)
    <3>2. CASE i > L - n + 1
      <4>1. i - (L - n + 1) \in 1..L /\ i - (L - n + 1) \in 1..n - 1
        BY <1>2, <3>2
      <4>2. order'[t][i] = order[t][i - (L - n + 1)]
        BY <1>2, <1>3, <3>2
      <4>3. QED
        BY <2>2, <3>2, <4>1, <4>2
    <3>3. QED
      BY <1>2, <3>1, <3>2
  <2>4. QED
    BY <1>2, <2>1, <2>3
<1>7. OwnsFromList(t)'
  <2>1. ASSUME NEW i \in 1..L, NEW j \in 1..L, order'[t][i] = order'[t][j]
        PROVE  i = j
    <3>1. \A k, l \in 1..L : order[t][k] = order[t][l] => k = l
      BY <1>1 DEF SeveralInv, OwnsFromList
    <3>2. CASE i <= L - n + 1 /\ j <= L - n + 1
      <4>1. i + n - 1 \in 1..L /\ j + n - 1 \in 1..L
        BY <1>2, <3>2
      <4>2. order[t][i + n - 1] = order[t][j + n - 1]
        BY <1>3, <2>1, <3>2
      <4>3. QED
        BY <1>2, <3>1, <4>1, <4>2
    <3>3. CASE i <= L - n + 1 /\ j > L - n + 1
      BY <1>2, <1>3, <2>1, <3>1, <3>3, i + n - 1 \in 1..L, j - (L - n + 1) \in 1..n - 1
    <3>4. CASE i > L - n + 1 /\ j <= L - n + 1
      BY <1>2, <1>3, <2>1, <3>1, <3>4, j + n - 1 \in 1..L, i - (L - n + 1) \in 1..n - 1
    <3>5. CASE i > L - n + 1 /\ j > L - n + 1
      BY <1>2, <1>3, <2>1, <3>1, <3>5, i - (L - n + 1) \in 1..L, j - (L - n + 1) \in 1..L
    <3>6. QED
      BY <1>2, <3>2, <3>3, <3>4, <3>5
  <2>2. ASSUME NEW m \in Mutexes, owner[m] = t
        PROVE  \E i \in 1..L : order'[t][i] = m
    <3>1. PICK k \in 1..L : order[t][k] = m
      BY <1>1, <2>2 DEF SeveralInv, OwnsFromList
    <3>2. CASE k >= n
      <4>1. k - n + 1 \in 1..L - n + 1 /\ (k - n + 1) + n - 1 = k
        BY <1>2, <3>2
      <4>2. k - n + 1 \in 1..L /\ k - n + 1 <= L - n + 1
        BY <1>2, <4>1
      <4>3. order'[t][k - n + 1] = order[t][(k - n + 1) + n - 1]
        BY <1>3, <4>2
      <4>4. QED
        BY <3>1, <4>1, <4>2, <4>3
    <3>3. CASE k < n
      <4>1. k + (L - n + 1) \in L - n + 2..L /\ (k + (L - n + 1)) - (L - n + 1) = k
        BY <1>2, <3>3
      <4>2. k + (L - n + 1) \in 1..L /\ ~(k + (L - n + 1) <= L - n + 1)
        BY <1>2, <4>1
      <4>3. order'[t][k + (L - n + 1)] = order[t][(k + (L - n + 1)) - (L - n + 1)]
        BY <1>3, <4>2
      <4>4. QED
        BY <3>1, <4>1, <4>2, <4>3
    <3>4. QED
      BY <1>2, <3>2, <3>3
  <2>3. QED
    BY <1>2, <1>3, <2>1, <2>2 DEF OwnsFromList, SL!TryFails
<1>8. OwnsInterval(t)'
  <2>1. call'[t] \in {"undo", "undoOnly"} /\ done'[t] = n - 1
    BY <1>2 DEF SeveralInv, SeveralTypeOK, SL!TryFails, SL!Goto
  <2>2. L - n + 2 \in 1..L + 1 /\ (L - n + 2) + (n - 1) - 1 = L
    BY <1>2
  <2>3. QED
    BY <1>3, <1>6, <2>1, <2>2 DEF OwnsInterval
<1>9. QED
  BY <1>4, <1>5, <1>7, <1>8 DEF SeveralInv

LEMMA UndoKeeps ==
  ASSUME SeveralLimits, SeveralInv, NEW t \in Lockers, SL!Undo(t)
  PROVE  SeveralInv'
<1>1. PICK a \in 1..Len(order[t]) + 1 : /\ a + done[t] - 1 <= Len(order[t])
                                        /\ SL!Held(t) = a..(a + done[t] - 1)
  BY DEF SL!Undo, SeveralInv, OwnsInterval
<1>2. /\ done[t] \in Nat /\ done[t] > 0 /\ Len(order[t]) \in Nat /\ call[t] \in {"undo", "undoOnly"}
  BY HeldIs DEF SL!Undo, SeveralInv, SeveralTypeOK
<1>3. PICK b : b = a + done[t] - 1
  OBVIOUS
<1>4. b \in Int /\ a <= b /\ SL!Held(t) = a..b /\ SL!Max(SL!Held(t)) = b /\ b \in SL!Held(t)
  BY <1>1, <1>2, <1>3, MaxOfInterval
<1>5. order[t][b] \in Mutexes
  BY <1>4, HeldIs DEF SeveralInv
<1>6. SeveralTypeOK'
  BY <1>2, <1>4, <1>5 DEF SeveralInv, SeveralTypeOK, SL!Undo, SL!Free
<1>7. \A u \in Lockers \ {t} : OwnsFromList(u)' /\ OwnsInterval(u)'
  <2>1. owner[order[t][b]] = t
    BY <1>4, HeldIs DEF SeveralInv
  <2>2. QED
    BY <1>4, <1>5, <1>6, <2>1, OthersKeep DEF SeveralInv, SeveralTypeOK, SL!Undo, SL!Free
<1>8. SL!Held(t)' = a..b - 1
  <2>1. SL!Held(t)' = SL!Held(t) \ {b}
    BY <1>4, FreeRemoves DEF SL!Undo
  <2>2. QED
    BY <1>2, <1>4, <2>1
<1>9. OwnsFromList(t)'
  BY <1>4, <1>5 DEF SeveralLimits, SeveralInv, SeveralTypeOK, OwnsFromList, SL!Undo, SL!Free
<1>10. OwnsInterval(t)'
  <2>1. done'[t] = done[t] - 1 /\ call' = call /\ order' = order
    BY DEF SL!Undo, SeveralInv, SeveralTypeOK
  <2>2. b - 1 = a + done'[t] - 1 /\ a + done'[t] - 1 <= Len(order[t])
    BY <1>1, <1>2, <1>3, <2>1
  <2>3. QED
    BY <1>2, <1>8, <2>1, <2>2 DEF OwnsInterval
<1>11. QED
  BY <1>6, <1>7, <1>9, <1>10 DEF SeveralInv

(* Nothing is owned when the last of the locks has been undone.            *)
LEMMA UndoneHoldsNothing ==
  ASSUME SeveralInv, NEW t \in Lockers, call[t] \in {"undo", "undoOnly"}, done[t] = 0
  PROVE  SL!Held(t) = {} /\ \A m \in Mutexes : owner[m] # t
<1>1. SL!Held(t) = {}
  BY HeldIs DEF SeveralInv, OwnsInterval
<1>2. QED
  BY <1>1, HeldIs DEF SeveralInv, OwnsFromList

LEMMA RetryKeeps ==
  ASSUME SeveralLimits, SeveralInv, NEW t \in Lockers, SL!Retry(t)
  PROVE  SeveralInv'
<1>1. SeveralTypeOK'
  BY DEF SeveralInv, SeveralTypeOK, SL!Retry, SL!Goto
<1>2. \A u \in Lockers \ {t} : OwnsFromList(u)' /\ OwnsInterval(u)'
  BY <1>1, OthersKeep DEF SeveralInv, SeveralTypeOK, SL!Retry, SL!Goto
<1>3. SL!Held(t)' = {}
  BY <1>1, UndoneHoldsNothing, HeldIs DEF SL!Retry, SL!Held
<1>4. OwnsFromList(t)' /\ OwnsInterval(t)'
  BY <1>3 DEF SeveralInv, SeveralTypeOK, SL!Retry, SL!Goto, OwnsFromList, OwnsInterval
<1>5. QED
  BY <1>1, <1>2, <1>4 DEF SeveralInv

LEMMA GiveUpKeeps ==
  ASSUME SeveralLimits, SeveralInv, NEW t \in Lockers, SL!GiveUp(t)
  PROVE  SeveralInv'
<1>1. SeveralTypeOK'
  BY DEF SeveralInv, SeveralTypeOK, SL!GiveUp, SL!Goto
<1>2. \A u \in Lockers \ {t} : OwnsFromList(u)' /\ OwnsInterval(u)'
  BY <1>1, OthersKeep DEF SeveralInv, SeveralTypeOK, SL!GiveUp, SL!Goto
<1>3. order'[t] = <<>> /\ call'[t] = "none" /\ done'[t] = 0 /\ \A m \in Mutexes : owner'[m] # t
  BY UndoneHoldsNothing DEF SeveralInv, SeveralTypeOK, SL!GiveUp, SL!Goto
<1>4. OwnsFromList(t)' /\ OwnsInterval(t)'
  BY <1>3 DEF OwnsFromList, OwnsInterval
<1>5. QED
  BY <1>1, <1>2, <1>4 DEF SeveralInv

LEMMA UnlockKeeps ==
  ASSUME SeveralLimits, SeveralInv, NEW t \in Lockers, SL!Unlock(t)
  PROVE  SeveralInv'
<1>1. PICK a \in 1..Len(order[t]) : SL!Held(t) = a..Len(order[t])
  BY DEF SL!Unlock, SeveralInv, OwnsInterval
<1>2. /\ Len(order[t]) \in Nat /\ call[t] = "owner" /\ a <= Len(order[t])
      /\ SL!Min(SL!Held(t)) = a /\ a \in SL!Held(t)
  BY <1>1, HeldIs, MinOfInterval DEF SL!Unlock, SeveralInv
<1>3. order[t][a] \in Mutexes /\ owner[order[t][a]] = t
  BY <1>2, HeldIs DEF SeveralInv
<1>4. owner' = [owner EXCEPT ![order[t][a]] = Nobody]
  BY <1>2 DEF SL!Unlock, SL!Free
<1>5. SeveralTypeOK'
  <2>1. owner' \in [Mutexes -> Lockers \cup {Nobody}]
    BY <1>4 DEF SeveralInv, SeveralTypeOK
  <2>2. order' \in [Lockers -> Seq(Mutexes)] /\ done' \in [Lockers -> Nat]
    <3>1. CASE Cardinality(SL!Held(t)) = 1
      <4>1. order' = [order EXCEPT ![t] = <<>>] /\ done' = [done EXCEPT ![t] = 0]
        BY <3>1, SeveralCounts DEF SL!Unlock
      <4>2. QED
        BY <4>1 DEF SeveralInv, SeveralTypeOK
    <3>2. CASE Cardinality(SL!Held(t)) # 1
      BY <3>2, SeveralCounts DEF SeveralInv, SeveralTypeOK, SL!Unlock
    <3>3. QED
      BY <3>1, <3>2
  <2>3. call' \in [Lockers -> {"none", "block", "try", "tryOnly", "undo", "undoOnly", "owner"}]
    BY DEF SeveralInv, SeveralTypeOK, SL!Unlock, SL!Goto
  <2>4. QED
    BY <2>1, <2>2, <2>3 DEF SeveralTypeOK
<1>6. \A u \in Lockers \ {t} : OwnsFromList(u)' /\ OwnsInterval(u)'
  BY <1>3, <1>4, <1>5, OthersKeep, SeveralCounts DEF SeveralInv, SeveralTypeOK, SL!Unlock, SL!Goto
<1>7. Cardinality(SL!Held(t)) = Len(order[t]) - a + 1
  BY <1>1, <1>2, FS_Interval
<1>8. CASE a = Len(order[t])
  <2>1. order'[t] = <<>> /\ call'[t] = "none" /\ done'[t] = 0
    BY <1>2, <1>7, <1>8, SeveralCounts DEF SeveralInv, SeveralTypeOK, SL!Unlock, SL!Goto
  <2>2. \A m \in Mutexes : owner'[m] # t
    <3>1. ASSUME NEW m \in Mutexes, owner[m] = t
          PROVE  m = order[t][a]
      <4>1. PICK i \in 1..Len(order[t]) : order[t][i] = m
        BY <3>1 DEF SeveralInv, OwnsFromList
      <4>2. i \in SL!Held(t)
        BY <3>1, <4>1, HeldIs DEF SeveralInv
      <4>3. QED
        BY <1>1, <1>2, <1>8, <4>1, <4>2
    <3>2. QED
      BY <1>3, <1>4, <3>1 DEF SeveralLimits, SeveralInv, SeveralTypeOK
  <2>3. OwnsFromList(t)' /\ OwnsInterval(t)'
    BY <2>1, <2>2 DEF OwnsFromList, OwnsInterval
  <2>4. QED
    BY <1>5, <1>6, <2>3 DEF SeveralInv
<1>9. CASE a < Len(order[t])
  <2>1. UNCHANGED <<order, done, call>>
    BY <1>2, <1>7, <1>9, SeveralCounts DEF SL!Unlock
  <2>2. SL!Held(t)' = a + 1..Len(order[t])
    <3>1. SL!Held(t)' = SL!Held(t) \ {a}
      BY <1>2, <2>1, FreeRemoves DEF SL!Unlock
    <3>2. QED
      BY <1>1, <1>2, <3>1
  <2>3. OwnsFromList(t)'
    BY <1>3, <1>4, <2>1 DEF SeveralLimits, SeveralInv, SeveralTypeOK, OwnsFromList
  <2>4. OwnsInterval(t)'
    <3>1. a + 1 \in 1..Len(order[t])
      BY <1>2, <1>9
    <3>2. QED
      BY <1>2, <2>1, <2>2, <3>1 DEF OwnsInterval
  <2>5. QED
    BY <1>5, <1>6, <2>3, <2>4 DEF SeveralInv
<1>10. QED
  BY <1>2, <1>8, <1>9

LEMMA SeveralStep ==
  ASSUME SeveralLimits, SeveralInv, [SL!Next]_(SL!vars)
  PROVE  SeveralInv'
<1>1. CASE UNCHANGED SL!vars
  <2>1. SeveralTypeOK'
    BY <1>1 DEF SL!vars, SeveralInv, SeveralTypeOK
  <2>2. \A t \in Lockers : SL!Held(t)' = SL!Held(t)
    BY <1>1 DEF SL!vars, SL!Held
  <2>3. \A t \in Lockers : OwnsFromList(t)' /\ OwnsInterval(t)'
    BY <1>1, <2>2 DEF SL!vars, SeveralInv, OwnsFromList, OwnsInterval
  <2>4. QED
    BY <2>1, <2>3 DEF SeveralInv
<1>2. CASE SL!Next
  BY <1>2, BeginKeeps, BlockKeeps, TrySucceedsKeeps, FailedTryKeeps, UndoKeeps, RetryKeeps,
     GiveUpKeeps, UnlockKeeps DEF SL!Next, SL!BeginLock, SL!BeginTryLock
<1>3. QED
  BY <1>1, <1>2
-----------------------------------------------------------------------------
(* The places in the list and the mutexes that are owned match one to one. *)
LEMMA HeldCounts ==
  ASSUME SeveralInv, NEW t \in Lockers
  PROVE  Cardinality(SL!Held(t)) = Cardinality({m \in Mutexes : owner[m] = t})
<1> DEFINE at == [i \in SL!Held(t) |-> order[t][i]]
           mine == {m \in Mutexes : owner[m] = t}
<1>1. SL!Held(t) \subseteq 1..Len(order[t]) /\ Len(order[t]) \in Nat
  BY HeldIs DEF SeveralInv
<1>2. at \in Bijection(SL!Held(t), mine)
  <2>1. at \in [SL!Held(t) -> mine]
    BY HeldIs DEF SeveralInv
  <2>2. \A i, j \in SL!Held(t) : at[i] = at[j] => i = j
    BY <1>1 DEF SeveralInv, OwnsFromList
  <2>3. \A m \in mine : \E i \in SL!Held(t) : at[i] = m
    BY HeldIs DEF SeveralInv, OwnsFromList
  <2>4. QED
    BY <2>1, <2>2, <2>3 DEF Bijection, Injection, Surjection, IsInjective
<1>3. IsFiniteSet(SL!Held(t))
  <2>1. IsFiniteSet(1..Len(order[t]))
    BY <1>1, FS_Interval
  <2>2. QED
    BY <1>1, <2>1, FS_Subset
<1>4. QED
  BY <1>2, <1>3, FS_Bijection DEF ExistsBijection

LEMMA SeveralImplies ==
  ASSUME SeveralInv
  PROVE  SL!HoldsNothingBlocked
<1> SUFFICES ASSUME NEW t \in Lockers
             PROVE  /\ Cardinality(SL!Held(t)) = Cardinality({m \in Mutexes : owner[m] = t})
                    /\ call[t] \in {"try", "tryOnly"} => SL!Held(t) = 1..done[t]
                    /\ call[t] \in {"undo", "undoOnly"} => Cardinality(SL!Held(t)) = done[t]
                    /\ call[t] \in {"none", "block"} => SL!Held(t) = {}
  BY SeveralCounts DEF SL!HoldsNothingBlocked, SL!OwnsWhatItCounted
<1>1. call[t] \in {"undo", "undoOnly"} => Cardinality(SL!Held(t)) = done[t]
  <2> SUFFICES ASSUME call[t] \in {"undo", "undoOnly"} PROVE Cardinality(SL!Held(t)) = done[t]
    OBVIOUS
  <2>1. PICK a \in 1..Len(order[t]) + 1 : SL!Held(t) = a..(a + done[t] - 1)
    BY DEF SeveralInv, OwnsInterval
  <2>2. done[t] \in Nat /\ a \in Int /\ a + done[t] - 1 \in Int /\ a \in Nat
    BY HeldIs DEF SeveralInv, SeveralTypeOK
  <2>3. Cardinality(a..(a + done[t] - 1)) =
          IF a > a + done[t] - 1 THEN 0 ELSE (a + done[t] - 1) - a + 1
    BY <2>2, FS_Interval
  <2>4. QED
    BY <2>1, <2>2, <2>3
<1>2. call[t] \in {"none", "block"} => SL!Held(t) = {}
  BY HeldIs DEF SeveralInv, OwnsInterval
<1>3. call[t] \in {"try", "tryOnly"} => SL!Held(t) = 1..done[t]
  BY DEF SeveralInv, OwnsInterval
<1>4. QED
  BY <1>1, <1>2, <1>3, HeldCounts

-----------------------------------------------------------------------------
(* The database has the parameters that its proofs are for.                *)
LEMMA DatabaseLimits == DBP!Limits
<1>1. IsFiniteSet(Containers) => DBP!IsFiniteSet(Containers)
  BY DEF IsFiniteSet, DBP!IsFiniteSet
<1>2. QED
  BY <1>1, ThreadsAssumption DEF DBP!Limits

LEMMA DatabaseSame ==
  /\ DB!Init <=> DBP!Init
  /\ DB!Next <=> DBP!Next
  /\ DB!StaleLink <=> DBP!StaleLink
  /\ \A c : DB!Found(c) <=> DBP!Found(c)
<1>1. DB!Init <=> DBP!Init
  BY DEF DB!Init, DBP!Init
<1>2. DB!Steps = DBP!Steps
  BY DEF DB!Steps, DBP!Steps, DB!Cardinality, DBP!Cardinality
<1>3. \A p : DB!Walk(p) = DBP!Walk(p)
  BY <1>2 DEF DB!Walk, DBP!Walk
<1>4. /\ \A c, n : DB!HashIn(c, n) = DBP!HashIn(c, n)
      /\ DB!Nodes = DBP!Nodes /\ DB!Kept = DBP!Kept
      /\ \A S : DB!Orphaned(S) = DBP!Orphaned(S)
      /\ \A i, j : DB!Copied(i, j) = DBP!Copied(i, j)
  BY DEF DB!HashIn, DBP!HashIn, DB!Nodes, DBP!Nodes, DB!Kept, DBP!Kept, DB!Orphaned, DBP!Orphaned, DB!Copied,
         DBP!Copied
<1>5. \A c : DB!Found(c) <=> DBP!Found(c)
  BY <1>2, <1>3, <1>4 DEF DB!Found, DBP!Found, DB!Meets, DBP!Meets
<1>6. \A n : DB!NextPrime(n) = DBP!NextPrime(n)
  BY DEF DB!NextPrime, DBP!NextPrime, DB!IsPrime, DBP!IsPrime
<1>7. \A V : DB!Front(V) = DBP!Front(V)
  BY <1>3
     DEF DB!Front, DBP!Front, DB!Visited, DBP!Visited, DB!Latest, DBP!Latest, DB!Before,
         DBP!Before
<1>8. DB!Visits = DBP!Visits
  BY <1>2, <1>3 DEF DB!Visits, DBP!Visits
<1>9. \A n : DB!Rehash(n) = DBP!Rehash(n)
  BY DEF DB!Rehash, DBP!Rehash, DB!Visits, DBP!Visits, DB!Visited, DBP!Visited, DB!Walk,
         DBP!Walk, DB!Steps, DBP!Steps, DB!Cardinality, DBP!Cardinality, DB!HashIn,
         DBP!HashIn, DB!Front, DBP!Front, DB!Latest, DBP!Latest, DB!Before, DBP!Before
<1>10. DB!Grown = DBP!Grown
  BY <1>6, <1>9 DEF DB!Grown, DBP!Grown, DB!GrowthNeeded, DBP!GrowthNeeded
<1>11. \A c : DB!Unlink(c) <=> DBP!Unlink(c)
  BY DEF DB!Unlink, DBP!Unlink, DB!Walk, DBP!Walk, DB!Steps, DBP!Steps, DB!Cardinality,
         DBP!Cardinality, DB!HashIn, DBP!HashIn
<1>12. \A m, c : /\ DB!InsertC(m, c) <=> DBP!InsertC(m, c)
                 /\ DB!FailToInsertC(m, c) <=> DBP!FailToInsertC(m, c)
  <2>1. \A m, c : DB!InsertC(m, c) <=> DBP!InsertC(m, c)
    BY <1>4, <1>10 DEF DB!InsertC, DBP!InsertC
  <2>2. \A S : DB!Cardinality(S) = DBP!Cardinality(S)
    BY DEF DB!Cardinality, DBP!Cardinality
  <2>3. \A m, c : DB!FailToInsertC(m, c) <=> DBP!FailToInsertC(m, c)
    BY <1>4, <1>10, <2>2 DEF DB!FailToInsertC, DBP!FailToInsertC
  <2>4. QED
    BY <2>1, <2>3
<1>13. \A m, c : DB!EraseC(m, c) <=> DBP!EraseC(m, c)
  BY <1>4, <1>5, <1>11 DEF DB!EraseC, DBP!EraseC, DB!making, DBP!making, DB!history, DBP!history
<1>14. \A m : /\ DB!ReadNode(m) <=> DBP!ReadNode(m)
              /\ DB!ConstructNode(m) <=> DBP!ConstructNode(m)
  BY DEF DB!ReadNode, DBP!ReadNode, DB!ConstructNode, DBP!ConstructNode, DB!table,
         DBP!table, DB!history, DBP!history
<1>15. /\ DB!table = DBP!table /\ DB!making = DBP!making
       /\ (UNCHANGED DB!table) <=> UNCHANGED DBP!table
       /\ (UNCHANGED DB!making) <=> UNCHANGED DBP!making
  BY DEF DB!table, DBP!table, DB!making, DBP!making, DB!history, DBP!history
<1>16. \A i : /\ DB!InsertI(i) <=> DBP!InsertI(i)
              /\ DB!EraseI(i) <=> DBP!EraseI(i)
  BY <1>15 DEF DB!InsertI, DBP!InsertI, DB!EraseI, DBP!EraseI
<1>17. \A i, c : DB!InsertIC(i, c) <=> DBP!InsertIC(i, c)
  BY <1>5, <1>15 DEF DB!InsertIC, DBP!InsertIC
<1>18. \A i, j : DB!IteratorCopy(i, j) <=> DBP!IteratorCopy(i, j)
  BY <1>4, <1>15 DEF DB!IteratorCopy, DBP!IteratorCopy
<1>19. \A c, S : DB!Invalidate(c, S) <=> DBP!Invalidate(c, S)
  BY <1>4, <1>5, <1>15 DEF DB!Invalidate, DBP!Invalidate
<1>20. \A c, d : /\ \A S : DB!Splice(c, d, S) <=> DBP!Splice(c, d, S)
                 /\ DB!Swap(c, d) <=> DBP!Swap(c, d)
  BY <1>5, <1>15 DEF DB!Splice, DBP!Splice, DB!Swap, DBP!Swap
<1>21. QED
  BY <1>1, <1>5, <1>12, <1>13, <1>14, <1>16, <1>17, <1>18, <1>19, <1>20
     DEF DB!Next, DBP!Next, DB!StaleLink, DBP!StaleLink

-----------------------------------------------------------------------------
(***************************************************************************)
(* The systems side by side: the one that sys names keeps its invariant,   *)
(* and the variables of the others keep theirs by not changing.            *)
(***************************************************************************)
IInv ==
  /\ sys = "timed" => TimedInv
  /\ sys = "recursive" => RM!Inv
  /\ sys # "timed" => TM!Owners = {}
  /\ SeveralInv
  /\ ConditionInv

LEMMA InitIInv == Init => IInv
<1> SUFFICES ASSUME Init PROVE IInv
  OBVIOUS
<1>1. TM!Init /\ RM!Init /\ SL!Init
  BY DEF Init
<1>2. TimedInv
  BY <1>1, TimedInit
<1>3. RM!Inv
  BY <1>1, RecursiveInit
<1>4. SeveralInv
  BY <1>1, SeveralInit, SeveralLimitsHold
<1>5. ConditionInv
  BY ConditionInit DEF Init
<1>6. TM!Owners = {}
  BY <1>1 DEF TM!Init, TM!Owners
<1>7. QED
  BY <1>2, <1>3, <1>4, <1>5, <1>6 DEF IInv

(* A step of one system, for the others, is a step that does nothing.      *)
LEMMA StepsSideBySide ==
  ASSUME [Next]_vars
  PROVE  /\ UNCHANGED sys
         /\ sys = "timed" => [TM!Next]_(TM!vars)
         /\ sys = "recursive" => [RM!Next]_(RM!vars)
         /\ sys # "recursive" => UNCHANGED <<count, id, held>>
         /\ sys \notin {"timed", "recursive"} => UNCHANGED pc
         /\ [SL!Next]_(SL!vars)
         /\ [CV!Next]_condition
         /\ [DB!Next]_(DB!vars)
<1> USE DEF timed, both, recursive, several, condition, database, vars,
            TM!vars, RM!vars, SL!vars, DB!vars, DB!history, KeepTimed, KeepRecursive, KeepCondition
<1>1. CASE TimedNext
  BY <1>1 DEF TimedNext
<1>2. CASE RecursiveNext
  BY <1>2 DEF RecursiveNext
<1>3. CASE SeveralNext
  BY <1>3 DEF SeveralNext
<1>4. CASE ConditionNext
  BY <1>4 DEF ConditionNext
<1>5. CASE DatabaseNext
  BY <1>5 DEF DatabaseNext
<1>6. CASE UNCHANGED vars
  BY <1>6
<1>7. QED
  BY <1>1, <1>2, <1>3, <1>4, <1>5, <1>6 DEF Next, Destroyed

LEMMA StepIInv == IInv /\ [Next]_vars => IInv'
<1> SUFFICES ASSUME IInv, [Next]_vars PROVE IInv'
  OBVIOUS
<1> USE StepsSideBySide DEF IInv
<1>1. sys' = "timed" => TimedInv'
  BY TimedKeeps
<1>2. sys' = "recursive" => RM!Inv'
  BY RecursiveKeeps
<1>3. sys' # "timed" => TM!Owners' = {}
  <2>1. CASE sys = "recursive"
    BY <1>2, <2>1 DEF RM!Inv, RM!TypeOK, RM!Labels, RM!Calls, TM!Owners
  <2>2. CASE sys \notin {"timed", "recursive"}
    BY <2>2 DEF TM!Owners
  <2>3. QED
    BY <2>1, <2>2
<1>4. SeveralInv'
  BY SeveralLimitsHold, SeveralStep
<1>5. ConditionInv'
  BY ConditionStep
<1>6. QED
  BY <1>1, <1>2, <1>3, <1>4, <1>5

(* The inductive invariant.                                                *)
THEOREM Invariance == Spec => []IInv
BY InitIInv, StepIInv, PTL DEF Spec

(* Both timed mutexes: __locked_, or __count_ and __id_, say who the owner *)
(* is, and while a thread sleeps somebody is bound to give it a chance.    *)
THEOREM OwnersAndWaitersAgree == Spec => []Inv
<1>1. IInv => Inv
  BY DEF IInv, Inv, TimedInv
<1>2. QED
  BY <1>1, Invariance, PTL

(* No call uses a timed_mutex that is destroyed; and a wait() that has not *)
(* returned when the condition_variable_any is destroyed has a share of    *)
(* the internal mutex that it owns or is going to lock.                    *)
THEOREM MutexesOutliveTheirUse == Spec => []NothingOutlivesDestruction
<1>1. IInv => NothingOutlivesDestruction
  BY ConditionImplies DEF IInv, NothingOutlivesDestruction, TimedInv
<1>2. QED
  BY <1>1, Invariance, PTL

(* A call of std::lock owns nothing while it blocks for a mutex, whatever  *)
(* the number of mutexes and the orders in which the threads name them;    *)
(* and a call owns what it has counted, so that it gives back all of it.   *)
THEOREM NothingHeldWhileBlocked == Spec => []HoldsNothingBlocked
<1>1. IInv => HoldsNothingBlocked
  BY SeveralImplies DEF IInv, HoldsNothingBlocked
<1>2. QED
  BY <1>1, Invariance, PTL

-----------------------------------------------------------------------------
LEMMA TimedStepRefines ==
  ASSUME IInv, [Next]_vars
  PROVE  [TM!L!LockNext]_TimedDepth
<1>1. CASE sys = "timed"
  BY <1>1, StepsSideBySide, TimedRefines DEF IInv
<1>2. CASE sys # "timed"
  <2>1. TM!Owners = {} /\ TM!Owners' = {}
    BY <1>2, StepsSideBySide, StepIInv DEF IInv
  <2>2. UNCHANGED TimedDepth
    BY <2>1, TimedSameOwners
  <2>3. QED
    BY <2>2
<1>3. QED
  BY <1>1, <1>2

LEMMA RecursiveStepRefines ==
  ASSUME IInv, [Next]_vars
  PROVE  [RM!L!LockNext]_held
<1>1. CASE sys = "recursive"
  BY <1>1, StepsSideBySide, RecursiveRefines DEF IInv
<1>2. CASE sys # "recursive"
  BY <1>2, StepsSideBySide
<1>3. QED
  BY <1>1, <1>2

(* The bool, or the count and the id, with __cv_ implement a mutex.        *)
THEOREM Refinement == Spec => ImplementsLock
<1>1. Init => TM!L!LockInit /\ RM!L!LockInit
  BY DEF Init, TM!Init, RM!Init, TM!L!LockInit, RM!L!LockInit, TM!Owners
<1>2. IInv /\ [Next]_vars =>
        [TM!L!LockNext]_([t \in Threads |-> IF t \in TM!Owners THEN 1 ELSE 0])
  BY TimedStepRefines DEF TimedDepth
<1>3. IInv /\ [Next]_vars => [RM!L!LockNext]_held
  BY RecursiveStepRefines
<1>4. QED
  BY <1>1, <1>2, <1>3, Invariance, PTL
     DEF Spec, ImplementsLock, TM!ImplementsLock, RM!ImplementsLock, TM!L!LockSpec,
            RM!L!LockSpec

-----------------------------------------------------------------------------
(***************************************************************************)
(* The database, as long as no node is constructed with a link that        *)
(* another thread has changed since it was read.                           *)
(***************************************************************************)
LEMMA DatabaseStep ==
  ASSUME DBP!IInv, [Next]_vars, [~DB!StaleLink]_vars
  PROVE  DBP!IInv' /\ [DBP!RG!RGNext]_<<live, DBP!Owners>>
<1>1. [DBP!Next]_(DBP!vars)
  BY StepsSideBySide, DatabaseSame DEF DB!vars, DBP!vars, DB!history, DBP!history
<1>2. UNCHANGED vars => UNCHANGED DBP!vars
  BY DEF vars, database, DBP!vars, DBP!history
<1>3. [~DBP!StaleLink]_(DBP!vars)
  BY <1>2, DatabaseSame
<1>4. QED
  BY <1>1, <1>3, DatabaseLimits, DBP!NextKeeps

LEMMA DatabaseInvariance == Spec /\ [][~DB!StaleLink]_vars => []DBP!IInv
<1>1. Init => DBP!IInv
  BY DatabaseSame, DatabaseLimits, DBP!Initially DEF Init
<1>2. DBP!IInv /\ [Next]_vars /\ [~DB!StaleLink]_vars => DBP!IInv'
  BY DatabaseStep
<1>3. QED
  BY <1>1, <1>2, PTL DEF Spec

(* The database for any number of containers, iterators and threads that   *)
(* make containers, any hash and any failure of malloc, as long as no node *)
(* is constructed with a stale link: no chain has a cycle, or a node of a  *)
(* container that is gone or of another hash; every container that exists  *)
(* is found, unless a failed malloc has cut its chain off; an iterator is  *)
(* on the list of its container and on no other.                           *)
THEOREM TablesAreExact == Spec /\ [][~DB!StaleLink]_vars => []RegistrationExact
<1>1. ASSUME DBP!IInv PROVE RegistrationExact
  <2>1. DBP!Inv /\ DBP!RegistrationExact /\ DBP!InternalChecksHold
    BY <1>1, DatabaseLimits, DBP!InvariantSuffices
  <2>2. DB!TypeOK <=> DBP!TypeOK
    BY DEF DB!TypeOK, DBP!TypeOK, DB!Kept, DBP!Kept, DB!Nodes, DBP!Nodes, DB!Cardinality,
           DBP!Cardinality
  <2>3. DB!ChainsSound <=> DBP!ChainsSound
    BY DEF DB!ChainsSound, DBP!ChainsSound, DB!Walk, DBP!Walk, DB!Steps, DBP!Steps,
           DB!Cardinality, DBP!Cardinality, DB!Kept, DBP!Kept, DB!Nodes, DBP!Nodes, DB!HashIn,
           DBP!HashIn
  <2>4. DB!RegistrationExact <=> DBP!RegistrationExact
    BY DEF DB!RegistrationExact, DBP!RegistrationExact
  <2>5. DB!InternalChecksHold <=> DBP!InternalChecksHold
    BY DatabaseSame DEF DB!InternalChecksHold, DBP!InternalChecksHold
  <2>6. QED
    BY <2>1, <2>2, <2>3, <2>4, <2>5 DEF RegistrationExact, DB!Inv, DBP!Inv
<1>2. QED
  BY <1>1, DatabaseInvariance, PTL

(* The tables and lists implement the ownership of iterators, as long as   *)
(* no node is constructed with a stale link: what happens to a container   *)
(* happens to all of its iterators and to no other, also when its node was *)
(* cut off and the code leaves the iterators with it.                      *)
THEOREM DatabaseRefinement == Spec /\ [][~DB!StaleLink]_vars => ImplementsRegistry
<1>1. Init => DB!RG!RGInit
  <2> SUFFICES ASSUME Init PROVE DB!RG!RGInit
    OBVIOUS
  <2>1. live = {} /\ lost = {} /\ itsC = [i \in Iterators |-> Unregistered]
    BY DEF Init, DB!Init
  <2>2. QED
    BY <2>1 DEF DB!RG!RGInit, DB!Owners
<1>2. DB!Owners = DBP!Owners /\ DB!Owners' = DBP!Owners'
  BY DEF DB!Owners, DBP!Owners
<1>3. DB!RG!RGNext <=> DBP!RG!RGNext
  BY DEF DB!RG!RGNext, DB!RG!Make, DB!RG!Destroy, DB!RG!Invalidate, DB!RG!Exchange,
         DB!RG!Assign, DBP!RG!RGNext, DBP!RG!Make, DBP!RG!Destroy, DBP!RG!Invalidate,
         DBP!RG!Exchange, DBP!RG!Assign, DB!Owners, DBP!Owners
<1>4. DBP!IInv /\ [Next]_vars /\ [~DB!StaleLink]_vars => [DB!RG!RGNext]_<<live, DB!Owners>>
  BY <1>2, <1>3, DatabaseStep
<1>5. QED
  BY <1>1, <1>4, DatabaseInvariance, PTL
     DEF Spec, ImplementsRegistry, DB!ImplementsRegistry, DB!RG!RGSpec, DB!RG!rgvars
==============================================================================
