------------------------------ MODULE TimedMutex ------------------------------
(***************************************************************************)
(* timed_mutex: src/src/mutex.cpp and src/include/mutex.                   *)
(*                                                                         *)
(* A bool, a mutex __m_ and a condition variable.  A call is one critical  *)
(* section of __m_, cut where it waits, and is one action here; unlock()   *)
(* is cut between its store and its notification as well, because the      *)
(* destructor is there to wait for the end of that section.                *)
(***************************************************************************)
EXTENDS Naturals, FiniteSets

CONSTANT Threads

VARIABLES
  locked,    (* __locked_                                                  *)
  mutex,     (* the thread, if any, that holds __m_ between two actions    *)
  waiting,   (* the threads blocked in __cv_                               *)
  late,      (* the threads in try_lock_until whose deadline has passed    *)
  alive,     (* the destructor has not returned                            *)
  pc         (* where each thread is                                       *)

vars == <<locked, mutex, waiting, late, alive, pc>>

Calls  == {"lock", "lockUntil"}
Labels == {"idle", "owner", "unlocking"} \cup Calls

Owners == {t \in Threads : pc[t] = "owner"}

Goto(t, label) == pc' = [pc EXCEPT ![t] = label]
Return(t, label) == Goto(t, label) /\ late' = late \ {t}

Awake(t) == pc[t] \in Calls /\ t \notin waiting

NotifyOne == IF waiting = {} THEN waiting' = {}
                             ELSE \E t \in waiting : waiting' = waiting \ {t}

Init ==
  /\ locked = FALSE
  /\ mutex = {} /\ waiting = {} /\ late = {}
  /\ alive = TRUE
  /\ pc = [t \in Threads |-> "idle"]
-----------------------------------------------------------------------------
(* The loop of lock() and try_lock_until(), from its test to its next one. *)
Enter(t, call) ==
  /\ mutex = {}
  /\ \/ /\ locked /\ t \notin late
        /\ waiting' = waiting \cup {t}
        /\ Goto(t, call)
        /\ UNCHANGED <<locked, late>>
     \/ /\ ~locked
        /\ locked' = TRUE
        /\ Return(t, "owner")
        /\ UNCHANGED waiting
  /\ UNCHANGED <<mutex, alive>>

BeginLock(t) ==
  /\ alive /\ pc[t] = "idle"
  /\ \E call \in Calls : Enter(t, call)

(* Mutant: an if in the place of the while.                                *)
RetryNoLoop(t) ==
  /\ Awake(t) /\ mutex = {}
  /\ locked' = TRUE
  /\ Return(t, "owner")
  /\ UNCHANGED <<mutex, waiting, alive>>

(* Mutant: a thread whose wait timed out gives up without a last look.     *)
RetryUnlessLate(t) ==
  /\ Awake(t)
  /\ IF t \in late
       THEN Return(t, "idle") /\ UNCHANGED <<locked, mutex, waiting, alive>>
       ELSE Enter(t, pc[t])

(* After a wait, late or not, a mutex that is free is taken.               *)
Retry(t) ==
  /\ Awake(t)
  /\ Enter(t, pc[t])

Timeout(t) ==
  /\ Awake(t) /\ t \in late
  /\ mutex = {} /\ locked
  /\ Return(t, "idle")
  /\ UNCHANGED <<locked, mutex, waiting, alive>>

(* try_lock() fails when another thread holds __m_, even if nobody owns    *)
(* the timed_mutex; a failure changes nothing.                             *)
TryLock(t) ==
  /\ alive /\ pc[t] = "idle"
  /\ mutex = {} /\ ~locked
  /\ locked' = TRUE
  /\ Return(t, "owner")
  /\ UNCHANGED <<mutex, waiting, alive>>

UnlockStore(t) ==
  /\ pc[t] = "owner" /\ mutex = {}
  /\ mutex' = {t}
  /\ locked' = FALSE
  /\ Goto(t, "unlocking")
  /\ UNCHANGED <<waiting, late, alive>>

(* Mutant: nobody is woken.                                                *)
UnlockSilently(t) ==
  /\ pc[t] = "unlocking"
  /\ mutex' = {}
  /\ Goto(t, "idle")
  /\ UNCHANGED <<locked, waiting, late, alive>>

UnlockNotify(t) ==
  /\ pc[t] = "unlocking"
  /\ NotifyOne
  /\ mutex' = {}
  /\ Goto(t, "idle")
  /\ UNCHANGED <<locked, late, alive>>

(* The user may destroy a mutex that nobody owns or is trying to own.      *)
Unowned == \A t \in Threads : pc[t] \in {"idle", "unlocking"}

(* Mutant: the destructor is empty.                                        *)
DestroyAtOnce ==
  /\ alive /\ Unowned
  /\ alive' = FALSE
  /\ UNCHANGED <<locked, mutex, waiting, late, pc>>

(* The destructor locks __m_ and so waits for an unlock() to end.          *)
Destroy ==
  /\ alive /\ Unowned
  /\ mutex = {}
  /\ alive' = FALSE
  /\ UNCHANGED <<locked, mutex, waiting, late, pc>>
-----------------------------------------------------------------------------
SpuriousWakeup(t) ==
  /\ t \in waiting
  /\ waiting' = waiting \ {t}
  /\ UNCHANGED <<locked, mutex, late, alive, pc>>

(* A timed wait may be notified and time out too: the thread finds itself  *)
(* late, whichever came first.                                             *)
DeadlinePasses(t) ==
  /\ pc[t] = "lockUntil" /\ t \notin late
  /\ late' = late \cup {t}
  /\ waiting' = waiting \ {t}
  /\ UNCHANGED <<locked, mutex, alive, pc>>

Next ==
  \/ \E t \in Threads :
       \/ BeginLock(t) \/ Retry(t) \/ Timeout(t) \/ TryLock(t)
       \/ UnlockStore(t) \/ UnlockNotify(t)
       \/ SpuriousWakeup(t) \/ DeadlinePasses(t)
  \/ Destroy

Spec == Init /\ [][Next]_vars

(* The scheduler runs every thread that is awake in a call.  Owners need   *)
(* not release, and nothing is assumed of deadlines.                       *)
FairSpec ==
  Spec /\ \A t \in Threads : /\ WF_vars(Retry(t) \/ Timeout(t))
                             /\ WF_vars(UnlockNotify(t))
-----------------------------------------------------------------------------
TypeOK ==
  /\ locked \in BOOLEAN /\ alive \in BOOLEAN
  /\ pc \in [Threads -> Labels]
  /\ mutex = {t \in Threads : pc[t] = "unlocking"}
  /\ waiting \subseteq {t \in Threads : pc[t] \in Calls}
  /\ late \subseteq {t \in Threads : pc[t] = "lockUntil"}

(* __locked_ stands for exactly one owner, however lock, try_lock and      *)
(* try_lock_until interleave.                                              *)
OneOwner ==
  /\ locked <=> Owners # {}
  /\ \A t, u \in Owners : t = u

(* While a thread sleeps, somebody is bound to give it another chance: an  *)
(* owner, an unlock() that has not notified yet, or a thread on its way to *)
(* take the mutex.  notify_one wakes one thread, which may be late: it has *)
(* to take the mutex or leave it to an owner.                              *)
NoLostWakeup ==
  waiting # {} => \/ locked
                  \/ \E t \in Threads : pc[t] = "unlocking" \/ Awake(t)

(* The bool and the waiters agree.                                         *)
Inv == TypeOK /\ OneOwner /\ NoLostWakeup

(* No call touches the mutex once it is destroyed.                         *)
NothingOutlivesDestruction == ~alive => \A t \in Threads : pc[t] = "idle"

L == INSTANCE Lock WITH
       MaxDepth <- 1,
       depth <- [t \in Threads |-> IF t \in Owners THEN 1 ELSE 0]

(* The bool and the condition variable implement a mutex.                  *)
ImplementsLock == L!LockSpec

(* Nobody sleeps while the mutex stays free: it is taken, by a waiter or   *)
(* by another thread.                                                      *)
FreeMutexIsTaken == (waiting # {} /\ ~locked) ~> (waiting = {} \/ locked)
==============================================================================
