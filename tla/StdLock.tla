-------------------------------- MODULE StdLock --------------------------------
(***************************************************************************)
(* std::lock, std::try_lock and the destructor of scoped_lock, for any     *)
(* number of mutexes: src/include/mutex.                                   *)
(*                                                                         *)
(* A thread that locks has its mutexes in the order in which it tries them *)
(* now: it blocks for the first and only tries the others.  lock(l0, l1)   *)
(* and __lock_first write that order out as the cases of a loop; each case *)
(* is a rotation of the arguments.                                         *)
(***************************************************************************)
EXTENDS Naturals, Sequences, SequencesExt, FiniteSetsExt

CONSTANTS
  Threads,
  Mutexes,
  Nobody,      (* the owner of a free mutex                                *)
  Arguments    (* the lists of mutexes the calls are made with             *)

VARIABLES
  owner,   (* the owner of each mutex                                      *)
  order,   (* the mutexes of each thread's call, the one to block for first*)
  done,    (* how many of them it has                                      *)
  call     (* where each thread is                                         *)

vars == <<owner, order, done, call>>

Idle(t) == call[t] = "none"
Goto(t, place) == call' = [call EXCEPT ![t] = place]

Take(t, m) == owner' = [owner EXCEPT ![m] = t]
Free(m) == owner' = [owner EXCEPT ![m] = Nobody]

(* The places in its list of the mutexes that t owns.                      *)
Held(t) == {i \in DOMAIN order[t] : owner[order[t][i]] = t}

(* s from its n-th element on, and then the elements before.               *)
Rotated(s, n) == SubSeq(s, n, Len(s)) \o SubSeq(s, 1, n - 1)

Init ==
  /\ owner = [m \in Mutexes |-> Nobody]
  /\ order = [t \in Threads |-> <<>>]
  /\ done = [t \in Threads |-> 0]
  /\ call = [t \in Threads |-> "none"]
-----------------------------------------------------------------------------
Begin(t, list, place) ==
  /\ Idle(t)
  /\ order' = [order EXCEPT ![t] = list]
  /\ Goto(t, place)
  /\ UNCHANGED <<owner, done>>

(* lock(l0, l1, ...)                                                       *)
BeginLock(t, list) == Begin(t, list, "block")
(* try_lock(l0, l1, ...)                                                   *)
BeginTryLock(t, list) == Begin(t, list, "tryOnly")

(* unique_lock u(l): waits until the first mutex is free.                  *)
Block(t) ==
  /\ call[t] = "block"
  /\ owner[order[t][1]] = Nobody
  /\ Take(t, order[t][1])
  /\ done' = [done EXCEPT ![t] = 1]
  /\ Goto(t, "try")
  /\ UNCHANGED order

(* try_lock of the next mutex succeeds; with the last one the call returns.*)
TrySucceeds(t) ==
  /\ call[t] \in {"try", "tryOnly"}
  /\ LET next == order[t][done[t] + 1] IN
     /\ owner[next] = Nobody
     /\ Take(t, next)
  /\ done' = [done EXCEPT ![t] = @ + 1]
  /\ IF done'[t] = Len(order[t]) THEN Goto(t, "owner") ELSE UNCHANGED call
  /\ UNCHANGED order

(* Mutant: the loop blocks for the next mutex with those it has.           *)
TryFailsKeeps(t) ==
  /\ call[t] = "try"
  /\ owner[order[t][done[t] + 1]] # Nobody
  /\ order' = [order EXCEPT ![t] = Rotated(@, done[t] + 1)]
  /\ Goto(t, "block")
  /\ UNCHANGED <<owner, done>>

(* It fails: what has been locked is unlocked, and then the mutex that was *)
(* not free is the one to block for.                                       *)
TryFails(t) ==
  /\ call[t] \in {"try", "tryOnly"}
  /\ owner[order[t][done[t] + 1]] # Nobody
  /\ order' = [order EXCEPT ![t] = Rotated(@, done[t] + 1)]
  /\ Goto(t, IF call[t] = "try" THEN "undo" ELSE "undoOnly")
  /\ UNCHANGED <<owner, done>>

(* The destructors of the unique_locks: the last lock first, a step each.  *)
Undo(t) ==
  /\ call[t] \in {"undo", "undoOnly"}
  /\ done[t] > 0
  /\ Free(order[t][Max(Held(t))])
  /\ done' = [done EXCEPT ![t] = @ - 1]
  /\ UNCHANGED <<order, call>>

Retry(t) ==
  /\ call[t] = "undo" /\ done[t] = 0
  /\ Goto(t, "block")
  /\ UNCHANGED <<owner, order, done>>

GiveUp(t) ==
  /\ call[t] = "undoOnly" /\ done[t] = 0
  /\ order' = [order EXCEPT ![t] = <<>>]
  /\ Goto(t, "none")
  /\ UNCHANGED <<owner, done>>

(* ~scoped_lock: the mutexes are unlocked one after the other.             *)
Unlock(t) ==
  /\ call[t] = "owner"
  /\ Free(order[t][Min(Held(t))])
  /\ IF Cardinality(Held(t)) = 1
     THEN /\ Goto(t, "none")
          /\ done' = [done EXCEPT ![t] = 0]
          /\ order' = [order EXCEPT ![t] = <<>>]
     ELSE UNCHANGED <<order, done, call>>

Next == \E t \in Threads :
  \/ \E list \in Arguments : BeginLock(t, list) \/ BeginTryLock(t, list)
  \/ Block(t) \/ TrySucceeds(t) \/ TryFails(t) \/ Undo(t) \/ Retry(t) \/ GiveUp(t) \/ Unlock(t)

Spec == Init /\ [][Next]_vars
-----------------------------------------------------------------------------
(* A call owns the first done[t] mutexes of its list while it tries, every *)
(* one when it has returned with success, and nothing outside.             *)
OwnsWhatItCounted ==
  \A t \in Threads :
    /\ Cardinality(Held(t)) = Cardinality({m \in Mutexes : owner[m] = t})
    /\ call[t] \in {"try", "tryOnly"} => Held(t) = 1..done[t]
    /\ call[t] \in {"undo", "undoOnly"} => Cardinality(Held(t)) = done[t]
    /\ call[t] = "none" => Held(t) = {}

(* No thread waits for a mutex with another one in its hands, in whatever  *)
(* orders the threads name their mutexes: so there is never a circle of    *)
(* threads that wait for each other.                                       *)
HoldsNothingBlocked ==
  OwnsWhatItCounted /\ \A t \in Threads : call[t] = "block" => Held(t) = {}
==============================================================================
