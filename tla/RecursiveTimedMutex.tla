-------------------------- MODULE RecursiveTimedMutex --------------------------
(***************************************************************************)
(* recursive_timed_mutex: src/src/mutex.cpp and src/include/mutex.         *)
(*                                                                         *)
(* A count and the id of the owner.  Each call is one critical section of  *)
(* __m_ and one action, except that unlock() releases __m_ before it       *)
(* notifies.                                                               *)
(***************************************************************************)
EXTENDS Naturals, FiniteSets

CONSTANTS
  Threads,
  Nobody,      (* the id 0, which no thread has                            *)
  MaxCount     (* numeric_limits<size_t>::max()                            *)

VARIABLES
  count, id,   (* __count_ and __id_                                       *)
  waiting,     (* the threads blocked in __cv_                             *)
  late,        (* the threads in try_lock_until whose deadline has passed  *)
  pc,          (* where each thread is                                     *)
  held         (* the locks each thread has to release: not in the code    *)

vars == <<count, id, waiting, late, pc, held>>

Calls  == {"lock", "lockUntil"}
Labels == {"idle", "notifying"} \cup Calls

Goto(t, label) == pc' = [pc EXCEPT ![t] = label]

Awake(t) == pc[t] \in Calls /\ t \notin waiting

(* The call returns with one more lock for its thread.                     *)
Own(t, n) ==
  /\ count' = n /\ id' = t
  /\ held' = [held EXCEPT ![t] = @ + 1]
  /\ late' = late \ {t}
  /\ Goto(t, "idle")

Init ==
  /\ count = 0 /\ id = Nobody
  /\ waiting = {} /\ late = {}
  /\ pc = [t \in Threads |-> "idle"]
  /\ held = [t \in Threads |-> 0]
-----------------------------------------------------------------------------
(* lock(), try_lock() and try_lock_until() by the owner.  At MaxCount they *)
(* throw or return false, and change nothing.                              *)
Relock(t) ==
  /\ pc[t] = "idle" /\ id = t
  /\ count # MaxCount
  /\ Own(t, count + 1)
  /\ UNCHANGED waiting

Enter(t, call) ==
  \/ /\ count # 0 /\ t \notin late
     /\ waiting' = waiting \cup {t}
     /\ Goto(t, call)
     /\ UNCHANGED <<count, id, late, held>>
  \/ /\ count = 0
     /\ Own(t, 1)
     /\ UNCHANGED waiting

BeginLock(t) ==
  /\ pc[t] = "idle" /\ id # t
  /\ \E call \in Calls : Enter(t, call)

Retry(t) ==
  /\ Awake(t)
  /\ Enter(t, pc[t])

Timeout(t) ==
  /\ Awake(t) /\ t \in late
  /\ count # 0
  /\ late' = late \ {t}
  /\ Goto(t, "idle")
  /\ UNCHANGED <<count, id, waiting, held>>

(* try_lock() of a mutex that nobody owns; by the owner it is Relock.      *)
TryLock(t) ==
  /\ pc[t] = "idle" /\ count = 0
  /\ Own(t, 1)
  /\ UNCHANGED waiting

(* Mutant: __id_ keeps the last owner, who then locks without a look at    *)
(* the others.                                                             *)
UnlockKeepsId(t) ==
  /\ pc[t] = "idle" /\ held[t] > 0
  /\ count' = count - 1
  /\ held' = [held EXCEPT ![t] = @ - 1]
  /\ Goto(t, IF count' = 0 THEN "notifying" ELSE "idle")
  /\ UNCHANGED <<id, waiting, late>>

(* Mutant: every unlock() releases the mutex.                              *)
UnlockAllAtOnce(t) ==
  /\ pc[t] = "idle" /\ held[t] > 0
  /\ count' = 0 /\ id' = Nobody
  /\ held' = [held EXCEPT ![t] = @ - 1]
  /\ Goto(t, "notifying")
  /\ UNCHANGED <<waiting, late>>

Unlock(t) ==
  /\ pc[t] = "idle" /\ held[t] > 0
  /\ count' = count - 1
  /\ held' = [held EXCEPT ![t] = @ - 1]
  /\ \/ count' = 0 /\ id' = Nobody /\ Goto(t, "notifying")
     \/ count' # 0 /\ UNCHANGED <<id, pc>>
  /\ UNCHANGED <<waiting, late>>

(* Mutant: the last unlock() notifies nobody.                              *)
NotifyNobody(t) ==
  /\ pc[t] = "notifying"
  /\ Goto(t, "idle")
  /\ UNCHANGED <<count, id, waiting, late, held>>

(* By now another thread may own the mutex.                                *)
Notify(t) ==
  /\ pc[t] = "notifying"
  /\ IF waiting = {} THEN UNCHANGED waiting
                     ELSE \E u \in waiting : waiting' = waiting \ {u}
  /\ Goto(t, "idle")
  /\ UNCHANGED <<count, id, late, held>>
-----------------------------------------------------------------------------
SpuriousWakeup(t) ==
  /\ t \in waiting
  /\ waiting' = waiting \ {t}
  /\ UNCHANGED <<count, id, late, pc, held>>

DeadlinePasses(t) ==
  /\ pc[t] = "lockUntil" /\ t \notin late
  /\ late' = late \cup {t}
  /\ waiting' = waiting \ {t}
  /\ UNCHANGED <<count, id, pc, held>>

Next == \E t \in Threads :
  \/ Relock(t) \/ BeginLock(t) \/ Retry(t) \/ Timeout(t) \/ TryLock(t)
  \/ Unlock(t) \/ Notify(t)
  \/ SpuriousWakeup(t) \/ DeadlinePasses(t)

Spec == Init /\ [][Next]_vars

(* The scheduler runs every thread that is awake in a call.                *)
FairSpec ==
  Spec /\ \A t \in Threads : WF_vars(Retry(t) \/ Timeout(t)) /\ WF_vars(Notify(t))
-----------------------------------------------------------------------------
TypeOK ==
  /\ count \in 0..MaxCount
  /\ id \in Threads \cup {Nobody}
  /\ pc \in [Threads -> Labels]
  /\ held \in [Threads -> 0..MaxCount]
  /\ waiting \subseteq {t \in Threads : pc[t] \in Calls}
  /\ late \subseteq {t \in Threads : pc[t] = "lockUntil"}

(* __id_ names the one thread with locks to release and __count_ says how  *)
(* many, so a thread that finds its own id there may skip the loop.        *)
OwnerExact ==
  /\ id = Nobody <=> count = 0
  /\ \A t \in Threads : held[t] = IF id = t THEN count ELSE 0

(* Between the release of __m_ in unlock() and its notification others may *)
(* lock, unlock and notify: still no thread sleeps without somebody who    *)
(* owns the mutex, is going to notify or is going to take it.              *)
NoLostWakeup ==
  waiting # {} => \/ count # 0
                  \/ \E t \in Threads : pc[t] = "notifying" \/ Awake(t)

(* The count, the id and the waiters agree.                                *)
Inv == TypeOK /\ OwnerExact /\ NoLostWakeup

L == INSTANCE Lock WITH
       MaxDepth <- MaxCount,
       depth <- held

(* The count and the id implement a recursive mutex.                       *)
ImplementsLock == L!LockSpec

(* Nobody sleeps while the mutex stays free.                               *)
FreeMutexIsTaken == (waiting # {} /\ count = 0) ~> (waiting = {} \/ count # 0)
==============================================================================
