----------------------------- MODULE SharedMutex -----------------------------
(***************************************************************************)
(* __shared_mutex_base (src/src/shared_mutex.cpp) and the timed members    *)
(* that shared_timed_mutex adds to it (src/include/shared_mutex).          *)
(*                                                                         *)
(* __state_ is one unsigned word: the top bit __write_entered_ and the     *)
(* reader count below it, which saturates at __n_readers_.  Every access   *)
(* happens between a lock of __mut_ and either the end of the scope or a   *)
(* condition variable wait, so each such stretch is one action here; a     *)
(* waiting thread takes another one when it has left the gate's wait set   *)
(* and got __mut_ back.                                                    *)
(***************************************************************************)
EXTENDS Integers, FiniteSets

CONSTANTS
  Threads,    (* the threads that use the mutex                            *)
  NReaders    (* __n_readers_, the largest reader count the word can hold  *)

ASSUME SharedMutexAssumption ==
  /\ IsFiniteSet(Threads)
  /\ NReaders \in Nat \ {0}

VARIABLES
  writeEntered,   (* __state_ & __write_entered_                           *)
  numReaders,     (* __state_ & __n_readers_                               *)
  gate1, gate2,   (* the threads blocked in __gate1_ and in __gate2_       *)
  late,           (* the threads in a timed call whose deadline has passed *)
  pc              (* where each thread is                                  *)

vars == <<writeEntered, numReaders, gate1, gate2, late, pc>>

(***************************************************************************)
(* "lock" and "lockUntil" are in the loop on __gate1_ of an exclusive      *)
(* call, "drain" and "drainUntil" in its loop on __gate2_; "lockShared"    *)
(* and "lockSharedUntil" are in the loop of a shared call.                 *)
(***************************************************************************)
ExclusiveGate1 == {"lock", "lockUntil"}
ExclusiveGate2 == {"drain", "drainUntil"}
SharedGate1    == {"lockShared", "lockSharedUntil"}
TimedCalls     == {"lockUntil", "drainUntil", "lockSharedUntil"}
Labels == {"idle", "writer", "reader"}
            \cup ExclusiveGate1 \cup ExclusiveGate2 \cup SharedGate1

Readers    == {t \in Threads : pc[t] = "reader"}
Writers    == {t \in Threads : pc[t] = "writer"}
Claimants  == {t \in Threads : pc[t] \in ExclusiveGate2 \cup {"writer"}}

(* The loop that follows the one a thread is in, or starts with the call.  *)
DrainOf(call) == IF call = "lockUntil" THEN "drainUntil" ELSE "drain"

Goto(t, label) == pc' = [pc EXCEPT ![t] = label]

(* The call returns and its deadline, if it had one, is forgotten.         *)
Return(t, label) == Goto(t, label) /\ late' = late \ {t}

(* Blocks in a wait set; the caller of a timed call whose deadline has     *)
(* passed does not wait again but returns false.                           *)
Wait(t, gate, next, call) ==
  /\ t \notin late
  /\ next = gate \cup {t}
  /\ Goto(t, call)
  /\ UNCHANGED late

Awake(t) == t \notin gate1 \cup gate2

(* pthread_cond_signal: one waiter, if there is any, leaves the wait set.  *)
NotifyOne(gate, next) ==
  IF gate = {} THEN next = gate ELSE \E t \in gate : next = gate \ {t}

Init ==
  /\ writeEntered = FALSE
  /\ numReaders = 0
  /\ gate1 = {} /\ gate2 = {} /\ late = {}
  /\ pc = [t \in Threads |-> "idle"]
-----------------------------------------------------------------------------
(***************************************************************************)
(* Exclusive ownership.                                                    *)
(***************************************************************************)

(* Mutant: the claim is withdrawn and nobody told.                         *)
WithdrawSilently(t) ==
  /\ writeEntered' = FALSE
  /\ Return(t, "idle")
  /\ UNCHANGED <<numReaders, gate1, gate2>>

(* Mutant: the claim is withdrawn with __state_ = 0, as unlock() does.     *)
WithdrawResetsWord(t) ==
  /\ writeEntered' = FALSE /\ numReaders' = 0
  /\ gate1' = {}
  /\ Return(t, "idle")
  /\ UNCHANGED gate2

(* try_lock_until past its deadline with readers inside: the claim is      *)
(* withdrawn and everybody it kept out is woken.                           *)
Withdraw(t) ==
  /\ writeEntered' = FALSE
  /\ gate1' = {}
  /\ Return(t, "idle")
  /\ UNCHANGED <<numReaders, gate2>>

(* The first loop is left: the write bit is claimed, and the second loop   *)
(* begins if there are readers.  A wait whose deadline is already past     *)
(* returns at once, with __mut_ held all along.                            *)
ClaimWrite(t, call) ==
  \/ /\ numReaders > 0 /\ t \in late
     /\ Withdraw(t)
  \/ /\ numReaders > 0
     /\ writeEntered' = TRUE
     /\ Wait(t, gate2, gate2', DrainOf(call))
     /\ UNCHANGED <<numReaders, gate1>>
  \/ /\ numReaders = 0
     /\ writeEntered' = TRUE
     /\ Return(t, "writer")
     /\ UNCHANGED <<numReaders, gate1, gate2>>

EnterExclusive(t, call) ==
  \/ /\ writeEntered
     /\ Wait(t, gate1, gate1', call)
     /\ UNCHANGED <<writeEntered, numReaders, gate2>>
  \/ /\ ~writeEntered
     /\ ClaimWrite(t, call)

Lock(t) ==
  /\ pc[t] = "idle"
  /\ \E call \in ExclusiveGate1 : EnterExclusive(t, call)

RetryLock(t) ==
  /\ pc[t] \in ExclusiveGate1 /\ Awake(t)
  /\ EnterExclusive(t, pc[t])

(* Mutant: an if in the place of the second while.                         *)
RetryDrainNoLoop(t) ==
  /\ pc[t] \in ExclusiveGate2 /\ Awake(t)
  /\ Return(t, "writer")
  /\ UNCHANGED <<writeEntered, numReaders, gate1, gate2>>

(* The second loop: the writer that owns the bit waits for the readers.    *)
RetryDrain(t) ==
  /\ pc[t] \in ExclusiveGate2 /\ Awake(t)
  /\ \/ numReaders > 0 /\ Wait(t, gate2, gate2', pc[t])
     \/ numReaders = 0 /\ Return(t, "writer") /\ UNCHANGED gate2
  /\ UNCHANGED <<writeEntered, numReaders, gate1>>

(* try_lock_until: the wait on __gate1_ ended past the deadline.           *)
TimeoutLock(t) ==
  /\ pc[t] = "lockUntil" /\ Awake(t) /\ t \in late
  /\ writeEntered
  /\ Return(t, "idle")
  /\ UNCHANGED <<writeEntered, numReaders, gate1, gate2>>

(* try_lock_until: the wait on __gate2_ ended past the deadline.           *)
TimeoutDrain(t) ==
  /\ pc[t] = "drainUntil" /\ Awake(t) /\ t \in late
  /\ numReaders > 0
  /\ Withdraw(t)

(* A failed try_lock() or try_lock_shared() changes nothing.               *)
TryLock(t) ==
  /\ pc[t] = "idle"
  /\ ~writeEntered /\ numReaders = 0
  /\ writeEntered' = TRUE
  /\ Return(t, "writer")
  /\ UNCHANGED <<numReaders, gate1, gate2>>

(* Mutant: notify_one in the place of notify_all.                          *)
UnlockNotifiesOne(t) ==
  /\ pc[t] = "writer"
  /\ writeEntered' = FALSE /\ numReaders' = 0
  /\ NotifyOne(gate1, gate1')
  /\ Return(t, "idle")
  /\ UNCHANGED gate2

(* __state_ = 0: both fields are cleared, whatever the reader count was.   *)
Unlock(t) ==
  /\ pc[t] = "writer"
  /\ writeEntered' = FALSE /\ numReaders' = 0
  /\ gate1' = {}
  /\ Return(t, "idle")
  /\ UNCHANGED gate2
-----------------------------------------------------------------------------
(***************************************************************************)
(* Shared ownership.                                                       *)
(***************************************************************************)
SharedBlocked == writeEntered \/ numReaders = NReaders

AddReader(t) ==
  /\ numReaders' = numReaders + 1
  /\ Return(t, "reader")

EnterShared(t, call) ==
  /\ \/ SharedBlocked /\ Wait(t, gate1, gate1', call) /\ UNCHANGED numReaders
     \/ ~SharedBlocked /\ AddReader(t) /\ UNCHANGED gate1
  /\ UNCHANGED <<writeEntered, gate2>>

LockShared(t) ==
  /\ pc[t] = "idle"
  /\ \E call \in SharedGate1 : EnterShared(t, call)

RetryLockShared(t) ==
  /\ pc[t] \in SharedGate1 /\ Awake(t)
  /\ EnterShared(t, pc[t])

TimeoutLockShared(t) ==
  /\ pc[t] = "lockSharedUntil" /\ Awake(t) /\ t \in late
  /\ SharedBlocked
  /\ Return(t, "idle")
  /\ UNCHANGED <<writeEntered, numReaders, gate1, gate2>>

TryLockShared(t) ==
  /\ pc[t] = "idle"
  /\ ~SharedBlocked
  /\ AddReader(t)
  /\ UNCHANGED <<writeEntered, gate1, gate2>>

(* Mutant: the last reader does not wake the writer at the second gate.    *)
UnlockSharedNoHandover(t) ==
  /\ pc[t] = "reader"
  /\ numReaders' = numReaders - 1
  /\ IF ~writeEntered /\ numReaders' = NReaders - 1
       THEN NotifyOne(gate1, gate1') ELSE gate1' = gate1
  /\ Return(t, "idle")
  /\ UNCHANGED <<writeEntered, gate2>>

(* The last reader hands over to the writer; a reader that leaves a full   *)
(* lock lets one of those in that the limit kept out.                      *)
UnlockShared(t) ==
  /\ pc[t] = "reader"
  /\ numReaders' = numReaders - 1
  /\ IF writeEntered /\ numReaders' = 0
       THEN NotifyOne(gate2, gate2') ELSE gate2' = gate2
  /\ IF ~writeEntered /\ numReaders' = NReaders - 1
       THEN NotifyOne(gate1, gate1') ELSE gate1' = gate1
  /\ Return(t, "idle")
  /\ UNCHANGED writeEntered
-----------------------------------------------------------------------------
(***************************************************************************)
(* A condition variable wait also ends without a notification: it may, at  *)
(* any time, and it does when the deadline of a timed wait passes.         *)
(***************************************************************************)
LeaveGate(t) ==
  /\ gate1' = gate1 \ {t} /\ gate2' = gate2 \ {t}
  /\ UNCHANGED <<writeEntered, numReaders, pc>>

SpuriousWakeup(t) ==
  /\ t \in gate1 \cup gate2
  /\ LeaveGate(t)
  /\ UNCHANGED late

DeadlinePasses(t) ==
  /\ pc[t] \in TimedCalls /\ t \notin late
  /\ LeaveGate(t)
  /\ late' = late \cup {t}

Next == \E t \in Threads :
  \/ Lock(t) \/ RetryLock(t) \/ RetryDrain(t)
  \/ TimeoutLock(t) \/ TimeoutDrain(t) \/ TryLock(t) \/ Unlock(t)
  \/ LockShared(t) \/ RetryLockShared(t) \/ TimeoutLockShared(t)
  \/ TryLockShared(t) \/ UnlockShared(t)
  \/ SpuriousWakeup(t) \/ DeadlinePasses(t)

Spec == Init /\ [][Next]_vars

(***************************************************************************)
(* The scheduler runs a thread that can run, clocks advance, and a thread  *)
(* that owns the lock releases it.  Nothing is assumed of calls that have  *)
(* not begun, nor of spurious wakeups.                                     *)
(***************************************************************************)
Fairness == \A t \in Threads :
  /\ WF_vars(RetryLock(t) \/ TimeoutLock(t))
  /\ WF_vars(RetryDrain(t) \/ TimeoutDrain(t))
  /\ WF_vars(RetryLockShared(t) \/ TimeoutLockShared(t))
  /\ WF_vars(DeadlinePasses(t))
  /\ WF_vars(Unlock(t) \/ UnlockShared(t))

FairSpec == Spec /\ Fairness
-----------------------------------------------------------------------------
TypeOK ==
  /\ writeEntered \in BOOLEAN
  /\ numReaders \in 0..NReaders
  /\ gate1 \in SUBSET Threads
  /\ gate2 \in SUBSET Threads
  /\ late \in SUBSET Threads
  /\ pc \in [Threads -> Labels]

(* The word __state_ says who is inside, through every handover, timeout   *)
(* and reset of the word to 0: the count is the number of shared owners,   *)
(* the top bit is set exactly while one exclusive call is past its first   *)
(* loop, and that call owns the mutex only when no reader does.            *)
StateWordExact ==
  /\ numReaders = Cardinality(Readers)
  /\ writeEntered <=> Claimants # {}
  /\ \A t, u \in Claimants : t = u
  /\ Writers # {} => Readers = {}

(* No wakeup is lost at the second gate, nor at the first by an exclusive  *)
(* call: a thread stays blocked only while what it waits for has not       *)
(* happened, so that the thread that makes it happen still has to notify.  *)
(* Guards the notify calls of unlock, unlock_shared and try_lock_until.    *)
NoLostWakeup ==
  /\ gate2 # {} => numReaders > 0 /\ writeEntered
  /\ \A t \in gate1 : pc[t] \in ExclusiveGate1 => writeEntered

(* The same for the shared calls blocked at the first gate.  It needs room *)
(* for all threads but one in the reader count: see the README.            *)
NoLostReaderWakeup == gate1 # {} => SharedBlocked

(* A claim bars new readers until it ends: lock_shared, try_lock_shared    *)
(* and their timed forms never add a reader past a waiting writer.         *)
WriterPreference ==
  [][writeEntered /\ writeEntered' => Readers' \subseteq Readers]_vars

RW == INSTANCE RWLock WITH
        MaxShared <- NReaders,
        claimed   <- Claimants,
        exclusive <- Writers,
        shared    <- Readers

(* The gates, the loops and the word implement the abstract lock.          *)
ImplementsRWLock == RW!RWSpec

(* Nobody sleeps at the first gate for ever: what kept the thread out      *)
(* ends with a notification that reaches it (the claim withdrawn by a      *)
(* timed call included, test try_lock_until_deadlock_bug.pass.cpp).        *)
GateOpensAgain == \A t \in Threads : t \in gate1 ~> t \notin gate1
==============================================================================
