-------------------------- MODULE SharedMutexProofs --------------------------
(***************************************************************************)
(* What the run of SharedMutex shows on four threads, for any finite set   *)
(* of threads and any limit on the readers.                                *)
(***************************************************************************)
EXTENDS SharedMutex, FiniteSetTheorems, TLAPS

(* A thread is in a gate's wait set only while it is in a loop on that     *)
(* gate: what makes the other invariants inductive.                        *)
GatesMatchLoops ==
  /\ \A t \in gate1 : pc[t] \in ExclusiveGate1 \cup SharedGate1
  /\ \A t \in gate2 : pc[t] \in ExclusiveGate2

IInv == TypeOK /\ StateWordExact /\ GatesMatchLoops /\ NoLostWakeup

-----------------------------------------------------------------------------
(* The sets of owners and claimants after one thread has moved.            *)
LEMMA MoveSets ==
  ASSUME TypeOK, NEW t \in Threads, NEW label \in Labels, Goto(t, label)
  PROVE  /\ Readers' = IF label = "reader" THEN Readers \cup {t} ELSE Readers \ {t}
         /\ Writers' = IF label = "writer" THEN Writers \cup {t} ELSE Writers \ {t}
         /\ Claimants' = IF label \in ExclusiveGate2 \cup {"writer"}
                           THEN Claimants \cup {t} ELSE Claimants \ {t}
         /\ pc'[t] = label
         /\ \A u \in Threads \ {t} : pc'[u] = pc[u]
         /\ pc' \in [Threads -> Labels]
BY DEF TypeOK, Goto, Readers, Writers, Claimants

(* The same for a step in which nobody moves.                              *)
LEMMA StaySets ==
  ASSUME UNCHANGED pc
  PROVE  Readers' = Readers /\ Writers' = Writers /\ Claimants' = Claimants
BY DEF Readers, Writers, Claimants

LEMMA EmptyCount == Cardinality({}) = 0
BY FS_EmptySet

(* Counting the readers when one joins or leaves.                          *)
LEMMA ReaderCount ==
  ASSUME TypeOK, NEW t \in Threads
  PROVE  /\ IsFiniteSet(Readers)
         /\ Cardinality(Readers) \in Nat
         /\ Cardinality(Readers) = 0 <=> Readers = {}
         /\ t \notin Readers => Cardinality(Readers \cup {t}) = Cardinality(Readers) + 1
         /\ t \in Readers => Cardinality(Readers \ {t}) = Cardinality(Readers) - 1
         /\ t \notin Readers => Readers \ {t} = Readers
<1>1. IsFiniteSet(Readers)
  BY FS_Subset, SharedMutexAssumption DEF Readers
<1>2. Cardinality(Readers) \in Nat
  BY <1>1, FS_CardinalityType
<1>3. Cardinality(Readers) = 0 <=> Readers = {}
  BY <1>1, FS_EmptySet
<1>4. ASSUME t \notin Readers
      PROVE  Cardinality(Readers \cup {t}) = Cardinality(Readers) + 1
  BY <1>1, <1>4, FS_AddElement
<1>5. ASSUME t \in Readers
      PROVE  Cardinality(Readers \ {t}) = Cardinality(Readers) - 1
  BY <1>1, <1>5, FS_RemoveElement
<1>6. t \notin Readers => Readers \ {t} = Readers
  OBVIOUS
<1>7. QED
  BY <1>1, <1>2, <1>3, <1>4, <1>5, <1>6

-----------------------------------------------------------------------------
(* Each way of changing the mutex keeps the invariant; the handlers are    *)
(* made of these.                                                          *)
LEMMA WithdrawKeeps ==
  ASSUME IInv, NEW t \in Threads, Withdraw(t), pc[t] \notin {"reader", "writer"},
         ~writeEntered \/ t \in Claimants, t \notin gate2
  PROVE  IInv'
<1>1. /\ Goto(t, "idle") /\ writeEntered' = FALSE /\ gate1' = {}
      /\ numReaders' = numReaders /\ gate2' = gate2 /\ late' = late \ {t}
  BY DEF Withdraw, Return
<1>2. /\ Readers' = Readers /\ Writers' = {} /\ Claimants' = {}
      /\ \A u \in Threads \ {t} : pc'[u] = pc[u]
      /\ pc' \in [Threads -> Labels]
  BY <1>1, MoveSets DEF IInv, TypeOK, StateWordExact, Labels, ExclusiveGate2,
     Readers, Writers, Claimants
<1>3. gate2 = {}
  BY DEF IInv, TypeOK, GatesMatchLoops, StateWordExact, Claimants, ExclusiveGate2
<1>4. QED
  BY <1>1, <1>2, <1>3 DEF IInv, TypeOK, StateWordExact, GatesMatchLoops, NoLostWakeup

LEMMA WaitKeeps ==
  ASSUME IInv, NEW t \in Threads, NEW call \in ExclusiveGate1 \cup SharedGate1,
         pc[t] \notin {"reader", "writer"} \cup ExclusiveGate2, t \notin gate2,
         Wait(t, gate1, gate1', call),
         call \in ExclusiveGate1 => writeEntered,
         UNCHANGED <<writeEntered, numReaders, gate2>>
  PROVE  IInv'
<1>1. call \in Labels /\ call \notin {"reader", "writer"} \cup ExclusiveGate2
  BY DEF Labels, ExclusiveGate1, SharedGate1, ExclusiveGate2
<1>2. /\ Readers' = Readers /\ Writers' = Writers /\ Claimants' = Claimants
      /\ \A u \in Threads \ {t} : pc'[u] = pc[u]
      /\ pc'[t] = call
      /\ pc' \in [Threads -> Labels]
  BY <1>1, MoveSets DEF Wait, IInv, Readers, Writers, Claimants
<1>3. gate1' = gate1 \cup {t} /\ late' = late
  BY DEF Wait
<1>4. TypeOK' /\ StateWordExact'
  BY <1>2, <1>3 DEF IInv, TypeOK, StateWordExact
<1>5. GatesMatchLoops' /\ NoLostWakeup'
  BY <1>2, <1>3 DEF IInv, TypeOK, GatesMatchLoops, NoLostWakeup
<1>6. QED
  BY <1>4, <1>5 DEF IInv

LEMMA EnterExclusiveKeeps ==
  ASSUME IInv, NEW t \in Threads, NEW call \in ExclusiveGate1, EnterExclusive(t, call),
         pc[t] \in {"idle"} \cup ExclusiveGate1, Awake(t)
  PROVE  IInv'
<1> USE DEF ExclusiveGate1, ExclusiveGate2
<1>1. CASE writeEntered
  BY <1>1, WaitKeeps DEF EnterExclusive, Awake
<1>2. CASE ~writeEntered /\ t \in late /\ numReaders > 0 /\ Withdraw(t)
  BY <1>2, WithdrawKeeps DEF Awake
<1>3. ASSUME ~writeEntered, numReaders > 0, writeEntered' = TRUE,
             Wait(t, gate2, gate2', DrainOf(call)), UNCHANGED <<numReaders, gate1>>
      PROVE  IInv'
  <2>1. DrainOf(call) \in ExclusiveGate2
    BY DEF DrainOf
  <2>2. /\ Readers' = Readers /\ Writers' = {} /\ Claimants' = {t}
        /\ \A u \in Threads \ {t} : pc'[u] = pc[u]
        /\ pc'[t] = DrainOf(call)
        /\ pc' \in [Threads -> Labels]
    BY <1>3, <2>1, MoveSets
    DEF Wait, IInv, StateWordExact, Labels, Readers, Writers, Claimants
  <2>3. gate2' = gate2 \cup {t} /\ late' = late
    BY <1>3 DEF Wait
  <2>4. QED
    BY <1>3, <2>1, <2>2, <2>3
    DEF IInv, TypeOK, StateWordExact, GatesMatchLoops, NoLostWakeup, Awake
<1>4. ASSUME ~writeEntered, numReaders = 0, writeEntered' = TRUE,
             Return(t, "writer"), UNCHANGED <<numReaders, gate1, gate2>>
      PROVE  IInv'
  <2>1. /\ Readers' = {} /\ Readers = {} /\ Writers' = {t} /\ Claimants' = {t}
        /\ \A u \in Threads \ {t} : pc'[u] = pc[u]
        /\ pc' \in [Threads -> Labels]
        /\ late' = late \ {t}
    BY <1>4, MoveSets, ReaderCount
    DEF Return, IInv, StateWordExact, Labels, Readers, Writers, Claimants
  <2>2. QED
    BY <1>4, <2>1
    DEF IInv, TypeOK, StateWordExact, GatesMatchLoops, NoLostWakeup, Awake
<1>5. QED
  BY <1>1, <1>2, <1>3, <1>4 DEF EnterExclusive, ClaimWrite

LEMMA AddReaderKeeps ==
  ASSUME IInv, NEW t \in Threads, AddReader(t), ~SharedBlocked,
         pc[t] \in {"idle"} \cup SharedGate1, Awake(t),
         UNCHANGED <<writeEntered, gate1, gate2>>
  PROVE  IInv'
<1>1. /\ Readers' = Readers \cup {t} /\ t \notin Readers
      /\ Writers' = {} /\ Claimants' = {}
      /\ \A u \in Threads \ {t} : pc'[u] = pc[u]
      /\ pc' \in [Threads -> Labels]
      /\ late' = late \ {t}
  BY MoveSets DEF AddReader, Return, SharedBlocked, IInv, StateWordExact, Labels,
     SharedGate1, ExclusiveGate2, Readers, Writers, Claimants
<1>2. numReaders' = Cardinality(Readers') /\ numReaders' \in 0..NReaders
  BY <1>1, ReaderCount, SharedMutexAssumption
  DEF AddReader, SharedBlocked, IInv, TypeOK, StateWordExact
<1>3. QED
  BY <1>1, <1>2
  DEF IInv, TypeOK, StateWordExact, GatesMatchLoops, NoLostWakeup, SharedBlocked, Awake

LEMMA EnterSharedKeeps ==
  ASSUME IInv, NEW t \in Threads, NEW call \in SharedGate1, EnterShared(t, call),
         pc[t] \in {"idle"} \cup SharedGate1, Awake(t)
  PROVE  IInv'
<1>1. CASE SharedBlocked /\ Wait(t, gate1, gate1', call) /\ UNCHANGED numReaders
  BY <1>1, WaitKeeps DEF EnterShared, SharedGate1, ExclusiveGate1, ExclusiveGate2, Awake
<1>2. CASE ~SharedBlocked /\ AddReader(t) /\ UNCHANGED gate1
  BY <1>2, AddReaderKeeps DEF EnterShared
<1>3. QED
  BY <1>1, <1>2 DEF EnterShared

LEMMA ReturnKeeps ==
  ASSUME IInv, NEW t \in Threads, Return(t, "idle"), Awake(t),
         pc[t] \in ExclusiveGate1 \cup SharedGate1,
         UNCHANGED <<writeEntered, numReaders, gate1, gate2>>
  PROVE  IInv'
<1>1. /\ Readers' = Readers /\ Writers' = Writers /\ Claimants' = Claimants
      /\ \A u \in Threads \ {t} : pc'[u] = pc[u]
      /\ pc' \in [Threads -> Labels]
      /\ late' = late \ {t}
  BY MoveSets DEF Return, IInv, Labels, ExclusiveGate1, ExclusiveGate2, SharedGate1,
     Readers, Writers, Claimants
<1>2. QED
  BY <1>1 DEF IInv, TypeOK, StateWordExact, GatesMatchLoops, NoLostWakeup, Awake

LEMMA UnlockSharedKeeps ==
  ASSUME IInv, NEW t \in Threads, UnlockShared(t)
  PROVE  IInv'
<1>1. /\ Goto(t, "idle") /\ pc[t] = "reader"
      /\ numReaders' = numReaders - 1 /\ late' = late \ {t}
      /\ writeEntered' = writeEntered
      /\ gate1' \subseteq gate1 /\ gate2' \subseteq gate2
      /\ writeEntered /\ numReaders' = 0 => NotifyOne(gate2, gate2')
  BY DEF UnlockShared, Return, NotifyOne
<1>2. /\ Readers' = Readers \ {t} /\ t \in Readers
      /\ Writers' = Writers /\ Claimants' = Claimants
      /\ \A u \in Threads \ {t} : pc'[u] = pc[u]
      /\ pc' \in [Threads -> Labels]
  BY <1>1, MoveSets DEF IInv, Labels, ExclusiveGate2, Readers, Writers, Claimants
<1>3. numReaders' = Cardinality(Readers') /\ numReaders' \in 0..NReaders
  BY <1>1, <1>2, ReaderCount, SharedMutexAssumption DEF IInv, TypeOK, StateWordExact
<1>4. TypeOK' /\ StateWordExact'
  BY <1>1, <1>2, <1>3 DEF IInv, TypeOK, StateWordExact
<1>5. GatesMatchLoops'
  BY <1>1, <1>2 DEF IInv, TypeOK, GatesMatchLoops, ExclusiveGate1, ExclusiveGate2, SharedGate1
<1>6. gate2' # {} => numReaders' > 0 /\ writeEntered'
  <2>1. \A u, v \in gate2 : u = v
    BY DEF IInv, TypeOK, GatesMatchLoops, StateWordExact, Claimants
  <2>2. writeEntered /\ numReaders' = 0 => gate2' = {}
    BY <1>1, <2>1 DEF NotifyOne
  <2>3. QED
    <3>1. gate2' # {} => writeEntered
      BY <1>1 DEF IInv, NoLostWakeup
    <3>2. gate2' # {} => numReaders' # 0
      BY <2>2, <3>1
    <3>3. numReaders' # 0 => numReaders' > 0
      BY <1>3, SharedMutexAssumption
    <3>4. QED
      BY <1>1, <3>1, <3>2, <3>3
<1>7. NoLostWakeup'
  <2>1. ASSUME NEW u \in gate1', pc'[u] \in ExclusiveGate1
        PROVE  writeEntered'
    <3>1. u \in gate1 /\ u # t /\ u \in Threads
      BY <1>1, <2>1 DEF IInv, TypeOK, GatesMatchLoops, ExclusiveGate1, SharedGate1
    <3>2. QED
      BY <1>1, <1>2, <2>1, <3>1 DEF IInv, NoLostWakeup
  <2>2. QED
    BY <1>6, <2>1 DEF NoLostWakeup
<1>8. QED
  BY <1>4, <1>5, <1>7 DEF IInv

LEMMA UnlockKeeps ==
  ASSUME IInv, NEW t \in Threads, Unlock(t)
  PROVE  IInv'
<1>1. /\ Goto(t, "idle") /\ pc[t] = "writer"
      /\ numReaders' = 0 /\ writeEntered' = FALSE /\ late' = late \ {t}
      /\ gate1' = {} /\ gate2' = gate2
  BY DEF Unlock, Return
<1>2. /\ Readers' = {} /\ Writers' = {} /\ Claimants' = {}
      /\ pc' \in [Threads -> Labels]
  BY <1>1, MoveSets
  DEF IInv, TypeOK, StateWordExact, Labels, ExclusiveGate2, Readers, Writers, Claimants
<1>3. gate2 = {}
  BY <1>1 DEF IInv, TypeOK, GatesMatchLoops, StateWordExact, Claimants, ExclusiveGate2
<1>4. 0 \in 0..NReaders
  BY SharedMutexAssumption
<1>5. TypeOK'
  BY <1>1, <1>2, <1>4 DEF IInv, TypeOK
<1>6. StateWordExact'
  BY <1>1, <1>2, EmptyCount DEF StateWordExact
<1>7. GatesMatchLoops' /\ NoLostWakeup'
  BY <1>1, <1>3 DEF GatesMatchLoops, NoLostWakeup
<1>8. QED
  BY <1>5, <1>6, <1>7 DEF IInv

LEMMA TakeFreeKeeps ==
  ASSUME IInv, NEW t \in Threads, TryLock(t)
  PROVE  IInv'
<1>1. /\ Goto(t, "writer") /\ pc[t] = "idle" /\ ~writeEntered /\ numReaders = 0
      /\ numReaders' = 0 /\ writeEntered' = TRUE /\ late' = late \ {t}
      /\ gate1' = gate1 /\ gate2' = gate2
  BY DEF TryLock, Return
<1>2. /\ Readers = {} /\ Readers' = {} /\ Writers' = {t} /\ Claimants' = {t}
      /\ \A u \in Threads \ {t} : pc'[u] = pc[u]
      /\ pc' \in [Threads -> Labels]
  BY <1>1, MoveSets, ReaderCount
  DEF IInv, StateWordExact, Labels, Readers, Writers, Claimants
<1>3. t \notin gate1 \cup gate2
  BY <1>1 DEF IInv, GatesMatchLoops, ExclusiveGate1, ExclusiveGate2, SharedGate1
<1>4. QED
  BY <1>1, <1>2, <1>3 DEF IInv, TypeOK, StateWordExact, GatesMatchLoops, NoLostWakeup

LEMMA RetryDrainKeeps ==
  ASSUME IInv, NEW t \in Threads, RetryDrain(t)
  PROVE  IInv'
<1>1. /\ pc[t] \in ExclusiveGate2 /\ t \notin gate1 \cup gate2
      /\ UNCHANGED <<writeEntered, numReaders, gate1>>
  BY DEF RetryDrain, Awake
<1>2. CASE numReaders > 0 /\ Wait(t, gate2, gate2', pc[t])
  <2>1. pc' = pc /\ gate2' = gate2 \cup {t} /\ late' = late
    BY <1>2 DEF Wait, Goto, IInv, TypeOK
  <2>2. t \in Claimants
    BY <1>1 DEF Claimants
  <2>3. QED
    BY <1>1, <1>2, <2>1, <2>2, StaySets
    DEF IInv, TypeOK, StateWordExact, GatesMatchLoops, NoLostWakeup
<1>3. CASE numReaders = 0 /\ Return(t, "writer") /\ UNCHANGED gate2
  <2>1. /\ Readers' = {} /\ Readers = {} /\ Claimants' = Claimants /\ t \in Claimants
        /\ \A u \in Threads \ {t} : pc'[u] = pc[u]
        /\ pc' \in [Threads -> Labels]
        /\ late' = late \ {t}
    BY <1>1, <1>3, MoveSets, ReaderCount
    DEF Return, IInv, StateWordExact, Labels, Readers, Claimants
  <2>2. gate2 = {}
    BY <1>3 DEF IInv, NoLostWakeup
  <2>3. TypeOK' /\ StateWordExact'
    BY <1>1, <1>3, <2>1 DEF IInv, TypeOK, StateWordExact
  <2>4. GatesMatchLoops' /\ NoLostWakeup'
    BY <1>1, <1>3, <2>1, <2>2 DEF IInv, TypeOK, GatesMatchLoops, NoLostWakeup
  <2>5. QED
    BY <2>3, <2>4 DEF IInv
<1>4. QED
  BY <1>2, <1>3 DEF RetryDrain

LEMMA LeaveGateKeeps ==
  ASSUME IInv, NEW t \in Threads, LeaveGate(t), late' \in SUBSET Threads
  PROVE  IInv'
BY StaySets
DEF LeaveGate, IInv, TypeOK, StateWordExact, GatesMatchLoops, NoLostWakeup

-----------------------------------------------------------------------------
LEMMA InitIInv == Init => IInv
<1> SUFFICES ASSUME Init PROVE IInv
  OBVIOUS
<1>1. Readers = {} /\ Writers = {} /\ Claimants = {}
  BY DEF Init, Readers, Writers, Claimants, ExclusiveGate2
<1>2. 0 \in 0..NReaders
  BY SharedMutexAssumption
<1>3. TypeOK
  BY <1>2 DEF Init, TypeOK, Labels
<1>4. StateWordExact
  BY <1>1, EmptyCount DEF Init, StateWordExact
<1>5. GatesMatchLoops /\ NoLostWakeup
  BY DEF Init, GatesMatchLoops, NoLostWakeup
<1>6. QED
  BY <1>3, <1>4, <1>5 DEF IInv

LEMMA StepIInv == IInv /\ [Next]_vars => IInv'
<1> SUFFICES ASSUME IInv, [Next]_vars PROVE IInv'
  OBVIOUS
<1>1. CASE UNCHANGED vars
  BY <1>1, StaySets
  DEF vars, IInv, TypeOK, StateWordExact, GatesMatchLoops, NoLostWakeup
<1>2. ASSUME NEW t \in Threads, Lock(t) PROVE IInv'
  <2>1. Awake(t)
    BY <1>2 DEF Lock, Awake, IInv, GatesMatchLoops, ExclusiveGate1, ExclusiveGate2, SharedGate1
  <2>2. QED
    BY <1>2, <2>1, EnterExclusiveKeeps DEF Lock
<1>3. ASSUME NEW t \in Threads, RetryLock(t) PROVE IInv'
  BY <1>3, EnterExclusiveKeeps DEF RetryLock
<1>4. ASSUME NEW t \in Threads, RetryDrain(t) PROVE IInv'
  BY <1>4, RetryDrainKeeps
<1>5. ASSUME NEW t \in Threads, TimeoutLock(t) PROVE IInv'
  BY <1>5, ReturnKeeps DEF TimeoutLock, ExclusiveGate1
<1>6. ASSUME NEW t \in Threads, TimeoutDrain(t) PROVE IInv'
  BY <1>6, WithdrawKeeps DEF TimeoutDrain, Awake, Claimants, ExclusiveGate2
<1>7. ASSUME NEW t \in Threads, TryLock(t) PROVE IInv'
  BY <1>7, TakeFreeKeeps
<1>8. ASSUME NEW t \in Threads, Unlock(t) PROVE IInv'
  BY <1>8, UnlockKeeps
<1>9. ASSUME NEW t \in Threads, LockShared(t) PROVE IInv'
  <2>1. Awake(t)
    BY <1>9 DEF LockShared, Awake, IInv, GatesMatchLoops, ExclusiveGate1, ExclusiveGate2, SharedGate1
  <2>2. QED
    BY <1>9, <2>1, EnterSharedKeeps DEF LockShared
<1>10. ASSUME NEW t \in Threads, RetryLockShared(t) PROVE IInv'
  BY <1>10, EnterSharedKeeps DEF RetryLockShared
<1>11. ASSUME NEW t \in Threads, TimeoutLockShared(t) PROVE IInv'
  BY <1>11, ReturnKeeps DEF TimeoutLockShared, SharedGate1
<1>12. ASSUME NEW t \in Threads, TryLockShared(t) PROVE IInv'
  <2>1. Awake(t)
    BY <1>12 DEF TryLockShared, Awake, IInv, GatesMatchLoops, ExclusiveGate1, ExclusiveGate2, SharedGate1
  <2>2. QED
    BY <1>12, <2>1, AddReaderKeeps DEF TryLockShared
<1>13. ASSUME NEW t \in Threads, UnlockShared(t) PROVE IInv'
  BY <1>13, UnlockSharedKeeps
<1>14. ASSUME NEW t \in Threads, SpuriousWakeup(t) PROVE IInv'
  BY <1>14, LeaveGateKeeps DEF SpuriousWakeup, IInv, TypeOK
<1>15. ASSUME NEW t \in Threads, DeadlinePasses(t) PROVE IInv'
  BY <1>15, LeaveGateKeeps DEF DeadlinePasses, IInv, TypeOK
<1>16. QED
  BY <1>1, <1>2, <1>3, <1>4, <1>5, <1>6, <1>7, <1>8, <1>9, <1>10, <1>11, <1>12,
     <1>13, <1>14, <1>15 DEF Next

(* No execution leaves the invariant.                                      *)
THEOREM Invariance == Spec => []IInv
BY InitIInv, StepIInv, PTL DEF Spec

(* The fields hold what their declarations say; the count of readers never *)
(* runs past the limit or below 0.                                         *)
THEOREM TypeCorrect == Spec => []TypeOK
<1>1. IInv => TypeOK
  BY DEF IInv
<1>2. QED
  BY <1>1, Invariance, PTL

(* __state_ counts the shared owners and marks the one exclusive claim, in *)
(* every state that any number of threads can reach.                       *)
THEOREM StateWordIsExact == Spec => []StateWordExact
<1>1. IInv => StateWordExact
  BY DEF IInv
<1>2. QED
  BY <1>1, Invariance, PTL

(* No thread sleeps at the second gate, or at the first for an exclusive   *)
(* call, when what it waits for has happened.                              *)
THEOREM NoWakeupIsLost == Spec => []NoLostWakeup
<1>1. IInv => NoLostWakeup
  BY DEF IInv
<1>2. QED
  BY <1>1, Invariance, PTL

-----------------------------------------------------------------------------
(* At most one thread finds no room at the limit.                          *)
EnoughRoom == Cardinality(Threads) <= NReaders + 1

(* With room for all threads but one, the reader that leaves a full lock   *)
(* wakes the only thread that can be blocked at the first gate.            *)
LEMMA StepNoLostReader ==
  ASSUME EnoughRoom, IInv, NoLostReaderWakeup, [Next]_vars
  PROVE  NoLostReaderWakeup'
<1> USE DEF NoLostReaderWakeup, SharedBlocked
<1>1. CASE UNCHANGED vars
  BY <1>1 DEF vars
<1>2. ASSUME NEW t \in Threads, NEW call \in ExclusiveGate1, EnterExclusive(t, call)
      PROVE  NoLostReaderWakeup'
  BY <1>2 DEF EnterExclusive, ClaimWrite, Withdraw, Wait
<1>3. ASSUME NEW t \in Threads, NEW call \in SharedGate1, EnterShared(t, call)
      PROVE  NoLostReaderWakeup'
  BY <1>3 DEF EnterShared, Wait
<1>4. ASSUME NEW t \in Threads, UnlockShared(t)
      PROVE  NoLostReaderWakeup'
  <2>1. CASE writeEntered
    BY <1>4, <2>1 DEF UnlockShared
  <2>2. CASE ~writeEntered /\ numReaders # NReaders
    BY <1>4, <2>2 DEF UnlockShared, NotifyOne
  <2>3. CASE ~writeEntered /\ numReaders = NReaders
    <3>1. \A u, v \in gate1 : u = v
      <4> SUFFICES ASSUME NEW u \in gate1, NEW v \in gate1, u # v PROVE FALSE
        OBVIOUS
      <4>1. u \in Threads \ Readers /\ v \in Threads \ Readers
        BY DEF IInv, TypeOK, GatesMatchLoops, ExclusiveGate1, SharedGate1, Readers
      <4>2. /\ IsFiniteSet(Readers) /\ Cardinality(Readers) = NReaders
            /\ IsFiniteSet(Readers \cup {u})
            /\ Cardinality(Readers \cup {u}) = NReaders + 1
        BY <2>3, <4>1, ReaderCount, FS_AddElement DEF IInv, StateWordExact
      <4>3. Cardinality((Readers \cup {u}) \cup {v}) = (NReaders + 1) + 1
        BY <4>1, <4>2, FS_AddElement
      <4>4. ((Readers \cup {u}) \cup {v}) \subseteq Threads
        BY <4>1 DEF Readers
      <4>5. Cardinality((Readers \cup {u}) \cup {v}) <= Cardinality(Threads)
        BY <4>4, FS_Subset, SharedMutexAssumption
      <4>6. Cardinality(Threads) \in Nat
        BY FS_CardinalityType, SharedMutexAssumption
      <4>7. QED
        BY <4>3, <4>5, <4>6, SharedMutexAssumption DEF EnoughRoom
    <3>2. numReaders' = NReaders - 1
      BY <1>4, <2>3 DEF UnlockShared
    <3>3. NotifyOne(gate1, gate1')
      BY <1>4, <2>3, <3>2 DEF UnlockShared
    <3>4. gate1' = {}
      BY <3>1, <3>3 DEF NotifyOne
    <3>5. QED
      BY <3>4
  <2>4. QED
    BY <2>1, <2>2, <2>3
<1>5. ASSUME NEW t \in Threads, Lock(t) \/ RetryLock(t) PROVE NoLostReaderWakeup'
  BY <1>2, <1>5 DEF Lock, RetryLock
<1>6. ASSUME NEW t \in Threads, LockShared(t) \/ RetryLockShared(t)
      PROVE  NoLostReaderWakeup'
  BY <1>3, <1>6 DEF LockShared, RetryLockShared
<1>7. ASSUME NEW t \in Threads, TimeoutDrain(t) \/ Unlock(t) PROVE NoLostReaderWakeup'
  BY <1>7 DEF TimeoutDrain, Withdraw, Unlock
<1>8. ASSUME NEW t \in Threads,
             RetryDrain(t) \/ TimeoutLock(t) \/ TimeoutLockShared(t)
      PROVE NoLostReaderWakeup'
  BY <1>8 DEF RetryDrain, TimeoutLock, TimeoutLockShared
<1>9. ASSUME NEW t \in Threads, TryLock(t) \/ TryLockShared(t)
      PROVE NoLostReaderWakeup'
  BY <1>9 DEF TryLock, TryLockShared
<1>10. ASSUME NEW t \in Threads, SpuriousWakeup(t) \/ DeadlinePasses(t)
       PROVE NoLostReaderWakeup'
  BY <1>10 DEF SpuriousWakeup, DeadlinePasses, LeaveGate
<1>11. QED
  BY <1>1, <1>4, <1>5, <1>6, <1>7, <1>8, <1>9, <1>10 DEF Next

(* As long as all threads but one fit in the reader count, no thread, a    *)
(* reader included, sleeps at the first gate when the lock would let it in.*)
THEOREM NoReaderWakeupIsLost ==
  ASSUME EnoughRoom
  PROVE  Spec => []NoLostReaderWakeup
<1>1. Init => NoLostReaderWakeup
  BY DEF Init, NoLostReaderWakeup
<1>2. IInv /\ NoLostReaderWakeup /\ [Next]_vars => NoLostReaderWakeup'
  BY StepNoLostReader
<1>3. QED
  BY <1>1, <1>2, Invariance, PTL DEF Spec

-----------------------------------------------------------------------------
(* A step that leaves the owners and the claim alone is a stutter of the   *)
(* abstract lock.                                                          *)
AbstractStutter == Readers' = Readers /\ Writers' = Writers /\ Claimants' = Claimants

LEMMA QuietMove ==
  ASSUME TypeOK, NEW t \in Threads,
         NEW label \in {"idle"} \cup ExclusiveGate1 \cup SharedGate1, Goto(t, label),
         pc[t] \in {"idle"} \cup ExclusiveGate1 \cup SharedGate1
  PROVE  AbstractStutter
BY MoveSets DEF AbstractStutter, Labels, ExclusiveGate1, ExclusiveGate2, SharedGate1,
   Readers, Writers, Claimants

LEMMA WithdrawRefines ==
  ASSUME IInv, NEW t \in Threads, Withdraw(t), pc[t] \notin {"reader", "writer"},
         ~writeEntered \/ t \in Claimants
  PROVE  RW!GiveUp(t) \/ AbstractStutter
<1>1. /\ Readers' = Readers /\ Claimants' = {} /\ Writers' = {}
      /\ Claimants = {} \/ Claimants = {t}
      /\ Writers \subseteq Claimants
  BY MoveSets DEF Withdraw, Return, IInv, TypeOK, StateWordExact, Labels, ExclusiveGate2,
     Readers, Writers, Claimants
<1>2. QED
  BY <1>1 DEF RW!GiveUp, AbstractStutter

LEMMA EnterExclusiveRefines ==
  ASSUME IInv, NEW t \in Threads, NEW call \in ExclusiveGate1, EnterExclusive(t, call),
         pc[t] \in {"idle"} \cup ExclusiveGate1
  PROVE  RW!Claim(t) \/ RW!TakeExclusive(t) \/ RW!GiveUp(t) \/ AbstractStutter
<1>1. CASE writeEntered /\ Wait(t, gate1, gate1', call)
  BY <1>1, QuietMove DEF Wait, IInv
<1>2. CASE ~writeEntered /\ Withdraw(t)
  BY <1>2, WithdrawRefines DEF ExclusiveGate1
<1>3. ASSUME ~writeEntered, Wait(t, gate2, gate2', DrainOf(call)) PROVE RW!Claim(t)
  <2>1. DrainOf(call) \in ExclusiveGate2 /\ Goto(t, DrainOf(call))
    BY <1>3 DEF DrainOf, ExclusiveGate2, Wait
  <2>2. /\ Readers' = Readers /\ Writers' = Writers
        /\ Claimants = {} /\ Claimants' = {t}
    BY <1>3, <2>1, MoveSets DEF IInv, StateWordExact, Labels, ExclusiveGate1, ExclusiveGate2,
       Readers, Writers, Claimants
  <2>3. QED
    BY <2>2 DEF RW!Claim
<1>4. ASSUME ~writeEntered, numReaders = 0, Return(t, "writer") PROVE RW!TakeExclusive(t)
  <2>1. /\ Readers' = {} /\ Readers = {} /\ Writers' = {t} /\ Writers = {}
        /\ Claimants = {} /\ Claimants' = {t}
    BY <1>4, MoveSets, ReaderCount
    DEF Return, IInv, StateWordExact, Labels, Readers, Writers, Claimants
  <2>2. QED
    BY <2>1 DEF RW!TakeExclusive
<1>5. QED
  BY <1>1, <1>2, <1>3, <1>4 DEF EnterExclusive, ClaimWrite

LEMMA AddReaderRefines ==
  ASSUME IInv, NEW t \in Threads, AddReader(t), ~SharedBlocked,
         pc[t] \in {"idle"} \cup SharedGate1
  PROVE  RW!TakeShared(t)
<1>1. /\ Readers' = Readers \cup {t} /\ t \notin Readers
      /\ Writers' = Writers /\ Claimants' = {} /\ Claimants = {}
  BY MoveSets DEF AddReader, Return, SharedBlocked, IInv, StateWordExact, Labels,
     SharedGate1, ExclusiveGate2, Readers, Writers, Claimants
<1>2. Cardinality(Readers) < NReaders
  BY SharedMutexAssumption DEF SharedBlocked, IInv, TypeOK, StateWordExact
<1>3. Cardinality(Readers) = RW!Cardinality(Readers)
  BY DEF Cardinality, RW!Cardinality
<1>4. QED
  BY <1>1, <1>2, <1>3 DEF RW!TakeShared

LEMMA EnterSharedRefines ==
  ASSUME IInv, NEW t \in Threads, NEW call \in SharedGate1, EnterShared(t, call),
         pc[t] \in {"idle"} \cup SharedGate1
  PROVE  RW!TakeShared(t) \/ AbstractStutter
<1>1. CASE Wait(t, gate1, gate1', call)
  BY <1>1, QuietMove DEF Wait, IInv
<1>2. CASE ~SharedBlocked /\ AddReader(t)
  BY <1>2, AddReaderRefines
<1>3. QED
  BY <1>1, <1>2 DEF EnterShared

LEMMA StepRefines == IInv /\ [Next]_vars => [RW!RWNext]_(RW!rwVars)
<1> SUFFICES ASSUME IInv, [Next]_vars PROVE RW!RWNext \/ AbstractStutter
  BY DEF RW!rwVars, AbstractStutter
<1>1. CASE UNCHANGED pc
  BY <1>1, StaySets DEF AbstractStutter
<1>2. ASSUME NEW t \in Threads, Lock(t) \/ RetryLock(t)
      PROVE  RW!RWNext \/ AbstractStutter
  BY <1>2, EnterExclusiveRefines DEF Lock, RetryLock, RW!RWNext
<1>3. ASSUME NEW t \in Threads, RetryDrain(t) PROVE RW!RWNext \/ AbstractStutter
  <2>1. CASE Wait(t, gate2, gate2', pc[t])
    BY <1>1, <2>1 DEF Wait, Goto, IInv, TypeOK
  <2>2. CASE numReaders = 0 /\ Return(t, "writer")
    <3>1. t \in Claimants /\ t \notin Writers /\ Writers \subseteq Claimants
      BY <1>3 DEF RetryDrain, ExclusiveGate2, Writers, Claimants
    <3>2. Claimants = {t} /\ Writers = {}
      BY <3>1 DEF IInv, StateWordExact
    <3>3. Readers = {}
      BY <2>2, ReaderCount DEF IInv, StateWordExact
    <3>4. /\ Readers' = {} /\ Readers = {} /\ Writers' = {t} /\ Writers = {}
          /\ Claimants = {t} /\ Claimants' = {t}
      BY <1>3, <2>2, <3>2, <3>3, MoveSets DEF Return, IInv, Labels
    <3>5. RW!TakeExclusive(t)
      BY <3>4 DEF RW!TakeExclusive
    <3>6. QED
      BY <3>5 DEF RW!RWNext
  <2>3. QED
    BY <1>3, <2>1, <2>2 DEF RetryDrain
<1>4. ASSUME NEW t \in Threads, TimeoutLock(t) \/ TimeoutLockShared(t)
      PROVE  RW!RWNext \/ AbstractStutter
  BY <1>4, QuietMove DEF TimeoutLock, TimeoutLockShared, Return, IInv, ExclusiveGate1, SharedGate1
<1>5. ASSUME NEW t \in Threads, TimeoutDrain(t) PROVE RW!RWNext \/ AbstractStutter
  BY <1>5, WithdrawRefines DEF TimeoutDrain, Claimants, ExclusiveGate2, RW!RWNext
<1>6. ASSUME NEW t \in Threads, TryLock(t) PROVE RW!RWNext \/ AbstractStutter
  <2>a. /\ Goto(t, "writer") /\ pc[t] = "idle"
        /\ ~writeEntered /\ numReaders = 0 /\ TypeOK
    BY <1>6 DEF TryLock, Return, IInv
  <2>b. Readers = {}
    BY <2>a, ReaderCount DEF IInv, StateWordExact
  <2>c. Claimants = {} /\ Writers = {}
    BY <2>a DEF IInv, StateWordExact, Claimants, Writers
  <2>d. Readers' = Readers /\ Writers' = Writers \cup {t}
        /\ Claimants' = Claimants \cup {t}
    BY <2>a, MoveSets DEF Labels, ExclusiveGate2, Readers, Writers, Claimants
  <2>1. /\ Readers' = {} /\ Readers = {} /\ Writers' = {t} /\ Writers = {}
        /\ Claimants = {} /\ Claimants' = {t}
    BY <2>b, <2>c, <2>d
  <2>2. RW!TakeExclusive(t)
    BY <2>1 DEF RW!TakeExclusive
  <2>3. QED
    BY <2>2 DEF RW!RWNext
<1>7. ASSUME NEW t \in Threads, Unlock(t) PROVE RW!RWNext \/ AbstractStutter
  <2>1. /\ Readers' = Readers /\ Writers' = {} /\ Claimants = {t} /\ Claimants' = {}
    BY <1>7, MoveSets
    DEF Unlock, Return, IInv, TypeOK, StateWordExact, Labels, ExclusiveGate2,
        Readers, Writers, Claimants
  <2>2. RW!GiveUp(t)
    BY <2>1 DEF RW!GiveUp
  <2>3. QED
    BY <2>2 DEF RW!RWNext
<1>8. ASSUME NEW t \in Threads, LockShared(t) \/ RetryLockShared(t)
      PROVE  RW!RWNext \/ AbstractStutter
  BY <1>8, EnterSharedRefines DEF LockShared, RetryLockShared, RW!RWNext
<1>9. ASSUME NEW t \in Threads, TryLockShared(t) PROVE RW!RWNext \/ AbstractStutter
  BY <1>9, AddReaderRefines DEF TryLockShared, RW!RWNext
<1>10. ASSUME NEW t \in Threads, UnlockShared(t) PROVE RW!RWNext \/ AbstractStutter
  <2>1. /\ Readers' = Readers \ {t} /\ t \in Readers
        /\ Writers' = Writers /\ Claimants' = Claimants
    BY <1>10, MoveSets DEF UnlockShared, Return, IInv, Labels, ExclusiveGate2,
       Readers, Writers, Claimants
  <2>2. RW!ReleaseShared(t)
    BY <2>1 DEF RW!ReleaseShared
  <2>3. QED
    BY <2>2 DEF RW!RWNext
<1>11. ASSUME NEW t \in Threads, SpuriousWakeup(t) \/ DeadlinePasses(t) PROVE UNCHANGED pc
  BY <1>11 DEF SpuriousWakeup, DeadlinePasses, LeaveGate
<1>12. QED
  BY <1>1, <1>2, <1>3, <1>4, <1>5, <1>6, <1>7, <1>8, <1>9, <1>10, <1>11 DEF Next, vars

(* The two gates, their loops, timeouts and notifications, and the word    *)
(* that unlock() sets to 0, implement the abstract lock.                   *)
THEOREM Refinement == Spec => ImplementsRWLock
<1>1. Init => RW!RWInit
  BY DEF Init, RW!RWInit, Readers, Writers, Claimants, ExclusiveGate2
<1>2. QED
  BY <1>1, StepRefines, Invariance, PTL DEF Spec, ImplementsRWLock, RW!RWSpec

-----------------------------------------------------------------------------
(* Only a call that finds the write bit clear makes its thread a reader.   *)
LEMMA NewReader ==
  ASSUME IInv, [Next]_vars, writeEntered, writeEntered'
  PROVE  Readers' \subseteq Readers
<1> SUFFICES ASSUME NEW u \in Readers', u \notin Readers PROVE FALSE
  OBVIOUS
<1>1. /\ u \in Threads /\ pc'[u] = "reader" /\ pc[u] # "reader"
      /\ pc \in [Threads -> Labels]
  BY DEF Readers, IInv, TypeOK
<1>2. PICK t \in Threads, label \in Labels : label # "reader" /\ Goto(t, label)
  <2>1. pc' # pc
    BY <1>1
  <2>2. \E t \in Threads :
          \/ \E call \in ExclusiveGate1 : EnterExclusive(t, call)
          \/ \E call \in SharedGate1 : EnterShared(t, call)
          \/ RetryDrain(t) \/ TimeoutLock(t) \/ TimeoutDrain(t) \/ TryLock(t) \/ Unlock(t)
          \/ TimeoutLockShared(t) \/ UnlockShared(t)
    BY <2>1 DEF Next, vars, Lock, RetryLock, LockShared, RetryLockShared, TryLockShared,
       SharedBlocked, SpuriousWakeup, DeadlinePasses, LeaveGate
  <2>3. QED
    BY <2>2 DEF EnterExclusive, EnterShared, RetryDrain, TimeoutLock, TimeoutDrain, TryLock,
       Unlock, TimeoutLockShared, UnlockShared, Withdraw, Wait, Return, SharedBlocked,
       Labels, ExclusiveGate1, ExclusiveGate2, SharedGate1
<1>3. QED
  BY <1>1, <1>2 DEF Goto

(* While a writer holds its claim, waiting or inside, no thread becomes a  *)
(* reader: readers that keep arriving cannot keep it out.                  *)
THEOREM WritersArePreferred == Spec => WriterPreference
<1>1. IInv /\ [Next]_vars
        => [writeEntered /\ writeEntered' => Readers' \subseteq Readers]_vars
  BY NewReader
<1>2. QED
  BY <1>1, Invariance, PTL DEF Spec, WriterPreference

=============================================================================
