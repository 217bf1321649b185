------------------------------ MODULE CondVarAny -------------------------------
(***************************************************************************)
(* condition_variable_any: src/include/condition_variable.                 *)
(*                                                                         *)
(* wait() gives up the user's lock under an internal mutex, which it keeps *)
(* until it sleeps and which it gives up again before it takes the user's  *)
(* lock back.  The waiters share the internal mutex with the object, which *)
(* may be destroyed when all of them were notified.                        *)
(*                                                                         *)
(* The program: waiters wait until a flag is set, by wait(lock, pred) or   *)
(* wait_until(lock, time, pred); setters set it under the user's lock and  *)
(* notify, with that lock or without it; then the object is destroyed.     *)
(***************************************************************************)
EXTENDS Naturals, FiniteSets

CONSTANTS
  Waiters, Setters,
  Nobody        (* the owner of a mutex that is free                       *)

Callers == Waiters \cup Setters

VARIABLES
  user,      (* the owner of the user's lock                               *)
  internal,  (* the owner of *__mut_                                       *)
  sleeping,  (* the threads blocked in __cv_                               *)
  late,      (* the waiters whose wait_until timed out                     *)
  shares,    (* who shares __mut_: waiters and, while it lives, the object *)
  flag,      (* what the predicate reads                                   *)
  place      (* where each thread is                                       *)

vars == <<user, internal, sleeping, late, shares, flag, place>>

Goto(t, label) == place' = [place EXCEPT ![t] = label]
Step(t, from, to) == place[t] = from /\ Goto(t, to)

Object == Nobody    (* the share of the condition_variable_any itself      *)
Alive == Object \in shares

Init ==
  /\ user = Nobody /\ internal = Nobody
  /\ sleeping = {} /\ late = {}
  /\ shares = {Object}
  /\ flag = FALSE
  /\ place = [t \in Callers |-> "start"]
-----------------------------------------------------------------------------
LockUser(t, from, to) ==
  /\ user = Nobody
  /\ Step(t, from, to)
  /\ user' = t
  /\ UNCHANGED <<internal, sleeping, late, shares, flag>>

UnlockUser(t, from, to) ==
  /\ Step(t, from, to)
  /\ user' = Nobody
  /\ UNCHANGED <<internal, sleeping, late, shares, flag>>

LockInternal(t, from, to) ==
  /\ internal = Nobody
  /\ Step(t, from, to)
  /\ internal' = t

UnlockInternal(t, from, to) ==
  /\ Step(t, from, to)
  /\ internal' = Nobody

(* The loop of wait(lock, pred): wait again while the predicate is false,  *)
(* but not after a timeout.                                                *)
Test(w) ==
  /\ IF flag \/ w \in late THEN Step(w, "test", "finish") ELSE Step(w, "test", "enter")
  /\ late' = late \ {w}
  /\ UNCHANGED <<user, internal, sleeping, shares, flag>>

(* Mutant: the waiter takes no share.                                      *)
EnterUnshared(w) ==
  /\ LockInternal(w, "enter", "entered")
  /\ UNCHANGED <<user, sleeping, late, shares, flag>>

(* A share of the internal mutex, then its lock.                           *)
Enter(w) ==
  /\ LockInternal(w, "enter", "entered")
  /\ shares' = shares \cup {w}
  /\ UNCHANGED <<user, sleeping, late, flag>>

Release(w) == UnlockUser(w, "entered", "released")

(* __cv_.wait(lk): the internal mutex is released as the thread blocks.    *)
Sleep(w) ==
  /\ UnlockInternal(w, "released", "asleep")
  /\ sleeping' = sleeping \cup {w}
  /\ UNCHANGED <<user, late, shares, flag>>

(* ... and locked again.                                                   *)
Wake(w) ==
  /\ w \notin sleeping
  /\ LockInternal(w, "asleep", "woken")
  /\ UNCHANGED <<user, sleeping, late, shares, flag>>

(* The destructors, in the reverse order of the declarations: the internal *)
(* mutex is unlocked, the user's lock locked, and the share given back.    *)
Leave(w) ==
  /\ UnlockInternal(w, "woken", "leaving")
  /\ UNCHANGED <<user, sleeping, late, shares, flag>>

Relock(w) == LockUser(w, "leaving", "relocked")

DropShare(w) ==
  /\ Step(w, "relocked", "test")
  /\ shares' = shares \ {w}
  /\ UNCHANGED <<user, internal, sleeping, late, flag>>

SpuriousWakeup(w) ==
  /\ w \in sleeping
  /\ sleeping' = sleeping \ {w}
  /\ UNCHANGED <<user, internal, late, shares, flag, place>>

(* wait_until: the thread finds itself late, notified or not.              *)
DeadlinePasses(w) ==
  /\ place[w] = "asleep" /\ w \notin late
  /\ sleeping' = sleeping \ {w}
  /\ late' = late \cup {w}
  /\ UNCHANGED <<user, internal, shares, flag, place>>

WaiterStep(w) ==
  \/ LockUser(w, "start", "test") \/ Test(w)
  \/ Enter(w) \/ Release(w) \/ Sleep(w) \/ Wake(w) \/ Leave(w) \/ Relock(w) \/ DropShare(w)
  \/ UnlockUser(w, "finish", "end")
-----------------------------------------------------------------------------
(* A setter notifies with the user's lock or after it has released it.     *)
SetFlag(s) ==
  /\ \/ Step(s, "locked", "notifyLocked")
     \/ Step(s, "locked", "unlockFirst")
  /\ flag' = TRUE
  /\ UNCHANGED <<user, internal, sleeping, late, shares>>

(* Mutant: notify_all() does not pass through the internal mutex.          *)
BarrierSkipped(s) ==
  /\ \/ Step(s, "notifyLocked", "signalLocked")
     \/ Step(s, "notify", "signal")
  /\ UNCHANGED <<user, internal, sleeping, late, shares, flag>>

(* notify_all(): the internal mutex is locked and unlocked, so that no     *)
(* waiter is between its test of the predicate and its sleep, ...           *)
Barrier(s) ==
  /\ internal = Nobody
  /\ \/ Step(s, "notifyLocked", "signalLocked")
     \/ Step(s, "notify", "signal")
  /\ UNCHANGED <<user, internal, sleeping, late, shares, flag>>

(* ... then __cv_.notify_all().                                            *)
Broadcast(s) ==
  /\ \/ Step(s, "signalLocked", "unlock")
     \/ Step(s, "signal", "end")
  /\ sleeping' = {}
  /\ UNCHANGED <<user, internal, late, shares, flag>>

SetterStep(s) ==
  \/ LockUser(s, "start", "locked") \/ SetFlag(s)
  \/ UnlockUser(s, "unlockFirst", "notify")
  \/ Barrier(s) \/ Broadcast(s)
  \/ UnlockUser(s, "unlock", "end")

(* The user may destroy the object when no notification is under way and   *)
(* every waiter that may still be in wait() has been notified.             *)
Destroy ==
  /\ Alive /\ flag
  /\ \A s \in Setters : place[s] = "end"
  /\ sleeping = {} /\ \A w \in Waiters : place[w] \notin {"enter", "entered", "released"}
  /\ shares' = shares \ {Object}
  /\ UNCHANGED <<user, internal, sleeping, late, flag, place>>

Ended == ~Alive /\ \A t \in Callers : place[t] = "end"
Terminated == Ended /\ UNCHANGED vars

Next ==
  \/ \E w \in Waiters : WaiterStep(w) \/ SpuriousWakeup(w) \/ DeadlinePasses(w)
  \/ \E s \in Setters : SetterStep(s)
  \/ Destroy
  \/ Terminated

Spec == Init /\ [][Next]_vars

(* The scheduler runs every thread that can run.                           *)
FairSpec ==
  /\ Spec
  /\ \A w \in Waiters : WF_vars(WaiterStep(w))
  /\ \A s \in Setters : WF_vars(SetterStep(s))
-----------------------------------------------------------------------------
(* The internal mutex lives while a thread owns or waits for it, although  *)
(* the object may be gone; and no thread sleeps in, or is about to use,    *)
(* the condition variable of an object that is gone.                       *)
OutlivesTheObject ==
  /\ internal # Nobody => internal \in shares
  /\ \A w \in Waiters : place[w] \in {"asleep", "woken", "leaving"} => w \in shares
  /\ ~Alive => /\ sleeping = {}
               /\ \A t \in Callers :
                    place[t] \notin {"enter", "entered", "released", "signal", "signalLocked"}

(* No notification is lost between the release of the user's lock and the  *)
(* sleep, and neither lock is waited for with the other in hand: once the  *)
(* flag is set and all have notified, every wait returns.                  *)
EveryWaitReturns ==
  (\A s \in Setters : place[s] = "end") ~> (\A w \in Waiters : place[w] = "end")
==============================================================================
