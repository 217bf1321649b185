------------------------------- MODULE MCThreads -------------------------------
(***************************************************************************)
(* Five systems that have nothing in common but their checks: the threads  *)
(* use a timed_mutex, a recursive_timed_mutex, several mutexes at a time   *)
(* with std::lock, a condition_variable_any, or the database of debug      *)
(* mode.  sys says which; the variables of the others do not change.       *)
(***************************************************************************)
EXTENDS Naturals, Sequences, FiniteSets

CONSTANTS
  Threads, Nobody, MaxCount, Lockers, Mutexes, Arguments, Waiters, Setters,
  Containers, Iterators, Makers, HashValues, FailsAt, MaxNodes, Null, Unregistered

VARIABLES
  sys,
  locked, mutex, alive, waiting, late, pc,           \* TimedMutex
  count, id, held,                                   \* RecursiveTimedMutex, too
  owner, order, done, call,                          \* StdLock
  user, internal, sleeping, shares, flag, place,     \* CondVarAny, and late
  hash, size, bucket, next, csz, iters, itsC, live, stage, made, link,  \* DebugDb
  lost, losses

ASSUME ThreadsAssumption ==
  /\ Nobody \notin Threads \cup Lockers \cup Waiters \cup Setters
  /\ MaxCount \in Nat \ {0}
  /\ \A list \in Arguments :
       /\ list \in Seq(Mutexes) /\ Len(list) >= 2
       /\ \A i, j \in DOMAIN list : list[i] = list[j] => i = j
  /\ IsFiniteSet(Containers) /\ IsFiniteSet(Iterators)
  /\ HashValues \subseteq Nat /\ 0 \in HashValues /\ MaxNodes \in Nat
  /\ {Null, Unregistered} \cap (Containers \cup Iterators) = {}
  /\ Null # Unregistered

(* The mutexes of std::lock in different orders, two or three at a time.   *)
SomeArguments == {<<1, 2, 3>>, <<3, 2, 1>>, <<2, 3, 1>>, <<2, 1>>, <<3, 1>>}

TM == INSTANCE TimedMutex
RM == INSTANCE RecursiveTimedMutex
SL == INSTANCE StdLock WITH Threads <- Lockers
CV == INSTANCE CondVarAny
DB == INSTANCE DebugDb WITH pc <- stage, MaxCount <- MaxNodes

timed == <<locked, mutex, alive>>
both == <<waiting, pc>>
recursive == <<count, id, held>>
several == <<owner, order, done, call>>
condition == <<user, internal, sleeping, shares, flag, place>>
database == <<hash, size, bucket, next, csz, iters, itsC, live, stage, made, link,
              lost, losses>>
vars == <<sys, late, timed, both, recursive, several, condition, database>>

Init ==
  /\ sys \in {"timed", "recursive", "several", "condition", "database"}
  /\ TM!Init /\ RM!Init /\ SL!Init /\ CV!Init /\ DB!Init
  \* The containers are numbers, in the order of their hashes, since any other
  \* assignment of these hashes is one of those with other names.
  /\ \A c, d \in Containers : IF sys = "database" THEN c < d => hash[c] <= hash[d] ELSE hash[c] = 0

KeepTimed == UNCHANGED <<sys, recursive, several, condition, database>>
KeepRecursive == UNCHANGED <<sys, timed, several, condition, database>>
KeepCondition == UNCHANGED <<sys, timed, both, recursive, several, database>>

TimedNext == sys = "timed" /\ TM!Next /\ KeepTimed
RecursiveNext == sys = "recursive" /\ RM!Next /\ KeepRecursive
SeveralNext ==
  /\ sys = "several" /\ SL!Next
  /\ UNCHANGED <<sys, late, timed, both, recursive, condition, database>>
ConditionNext == sys = "condition" /\ CV!Next /\ KeepCondition
DatabaseNext ==
  /\ sys = "database" /\ DB!Next
  /\ UNCHANGED <<sys, late, timed, both, recursive, several, condition>>

(* The threads of a timed_mutex stop when it is destroyed.                 *)
Destroyed == sys = "timed" /\ ~alive /\ (\A t \in Threads : pc[t] = "idle") /\ UNCHANGED vars

Next == TimedNext \/ RecursiveNext \/ SeveralNext \/ ConditionNext \/ DatabaseNext \/ Destroyed

(* The fairness of each module, for the one that runs.                     *)
Fairness ==
  /\ \A t \in Threads :
       /\ WF_vars(sys = "timed" /\ (TM!Retry(t) \/ TM!Timeout(t)) /\ KeepTimed)
       /\ WF_vars(sys = "timed" /\ TM!UnlockNotify(t) /\ KeepTimed)
       /\ WF_vars(sys = "recursive" /\ (RM!Retry(t) \/ RM!Timeout(t)) /\ KeepRecursive)
       /\ WF_vars(sys = "recursive" /\ RM!Notify(t) /\ KeepRecursive)
  /\ \A w \in Waiters : WF_vars(sys = "condition" /\ CV!WaiterStep(w) /\ KeepCondition)
  /\ \A s \in Setters : WF_vars(sys = "condition" /\ CV!SetterStep(s) /\ KeepCondition)

Spec == Init /\ [][Next]_vars /\ Fairness
-----------------------------------------------------------------------------
(* Both timed mutexes: what __locked_, or __count_ and __id_, say of the   *)
(* owner is true, and no sleeping thread has lost its notification.        *)
Inv == (sys = "timed" => TM!Inv) /\ (sys = "recursive" => RM!Inv)

(* No call touches the timed_mutex once it is destroyed, nor waits in the  *)
(* internal mutex of a condition_variable_any without a share of it.       *)
NothingOutlivesDestruction ==
  (sys = "timed" => TM!NothingOutlivesDestruction) /\ CV!OutlivesTheObject

(* The database: its chains have no cycle, and none has a node of a        *)
(* container that is gone or of another hash; an iterator is on the list   *)
(* of its container and on no other; a container that exists is found, so  *)
(* that none of the "internal logic error"s of debug.cpp happens, unless   *)
(* a malloc that failed for its bucket has cut its node off: what is lost  *)
(* then is this chain, and __csz_ counts it for ever.                      *)
RegistrationExact == DB!Inv /\ DB!RegistrationExact /\ DB!InternalChecksHold

(* Both timed mutexes implement a mutex.                                   *)
ImplementsLock == TM!ImplementsLock /\ RM!ImplementsLock

(* The tables and lists of the database implement the ownership of         *)
(* iterators: what happens to a container happens to all of its iterators. *)
ImplementsRegistry == DB!ImplementsRegistry

(* Nobody sleeps while a timed mutex stays free.                           *)
Unowned == IF sys = "timed" THEN ~locked ELSE count = 0
FreeMutexIsTaken == (waiting # {} /\ Unowned) ~> (waiting = {} \/ ~Unowned)

(* std::lock: nobody waits for a mutex with another in its hands.          *)
HoldsNothingBlocked == SL!HoldsNothingBlocked

(* condition_variable_any: when the flag is set and all have notified,     *)
(* every wait returns.                                                     *)
EveryWaitReturns == sys = "condition" => CV!EveryWaitReturns
==============================================================================
