-------------------------------- MODULE CallOnce --------------------------------
(***************************************************************************)
(* call_once: src/include/mutex and __call_once in src/src/mutex.cpp.      *)
(*                                                                         *)
(* A flag is one word: 0, 1 while a thread runs the function, ~0 when it   *)
(* has returned.  All flags of a program share the mutex mut and the       *)
(* condition variable cv.  The function runs with mut released, and cv is  *)
(* broadcast after mut has been released, so both are steps of their own.  *)
(***************************************************************************)
EXTENDS Integers

CONSTANTS
  Threads,
  Flags,
  MaxThrows    (* bound: how often the functions of one flag throw         *)

ASSUME CallOnceAssumption == MaxThrows \in Nat

VARIABLES
  state,       (* __state_ of each once_flag                               *)
  waiting,     (* the threads blocked in cv                                *)
  pc, flag,    (* where each thread is, and the flag of its call           *)
  finished,    (* the flags whose function has returned: not in the code   *)
  throws       (* the exceptions so far: not in the code                   *)

vars == <<state, waiting, pc, flag, finished, throws>>

Fresh   == 0
Running == 1
Done    == -1   (* ~0 *)

(***************************************************************************)
(* "slow" is before or in the loop of __call_once; "func" is in the call   *)
(* of func; "ran" and "threw" are after it; "broadcast" and "rebroadcast"  *)
(* are before the call that wakes the waiters; "fast" is past the load.    *)
(***************************************************************************)
Executing == {"func", "ran", "threw"}
Labels    == {"idle", "fast", "slow", "broadcast", "rebroadcast"} \cup Executing

Runners(f)    == {t \in Threads : flag[t] = f /\ pc[t] \in Executing}
Broadcasters  == {t \in Threads : pc[t] \in {"broadcast", "rebroadcast"}}

Goto(t, label) == pc' = [pc EXCEPT ![t] = label]

Init ==
  /\ state = [f \in Flags |-> Fresh]
  /\ waiting = {}
  /\ pc = [t \in Threads |-> "idle"]
  /\ flag \in [Threads -> Flags]
  /\ finished = {}
  /\ throws = [f \in Flags |-> 0]
-----------------------------------------------------------------------------
(* Mutant: any flag that is not fresh takes the fast path.                 *)
CallIfFresh(t, f) ==
  /\ pc[t] = "idle"
  /\ Goto(t, IF state[f] = Fresh THEN "slow" ELSE "fast")
  /\ flag' = [flag EXCEPT ![t] = f]
  /\ UNCHANGED <<state, waiting, finished, throws>>

(* The acquire load of call_once().                                        *)
Call(t, f) ==
  /\ pc[t] = "idle"
  /\ Goto(t, IF state[f] # Done THEN "slow" ELSE "fast")
  /\ flag' = [flag EXCEPT ![t] = f]
  /\ UNCHANGED <<state, waiting, finished, throws>>

FastReturn(t) ==
  /\ pc[t] = "fast"
  /\ Goto(t, "idle")
  /\ UNCHANGED <<state, waiting, flag, finished, throws>>

(* Mutant: an if in the place of the while.                                *)
EnterNoLoop(t) ==
  /\ pc[t] = "slow" /\ t \notin waiting
  /\ \/ /\ state[flag[t]] = Fresh
        /\ state' = [state EXCEPT ![flag[t]] = Running]
        /\ Goto(t, "func")
     \/ /\ state[flag[t]] # Fresh
        /\ Goto(t, "idle")
        /\ UNCHANGED state
  /\ UNCHANGED <<waiting, flag, finished, throws>>

(* Mutant: the flag is not set to 1, so that the next call runs func too.  *)
EnterUnmarked(t) ==
  /\ pc[t] = "slow" /\ t \notin waiting
  /\ \/ /\ state[flag[t]] # Done
        /\ Goto(t, "func")
     \/ /\ state[flag[t]] = Done
        /\ Goto(t, "idle")
  /\ UNCHANGED <<state, waiting, flag, finished, throws>>

(* mut is locked: the thread waits, runs the function, or finds it done.   *)
Enter(t) ==
  /\ pc[t] = "slow" /\ t \notin waiting
  /\ \/ /\ state[flag[t]] = Running
        /\ waiting' = waiting \cup {t}
        /\ UNCHANGED <<state, pc>>
     \/ /\ state[flag[t]] = Fresh
        /\ state' = [state EXCEPT ![flag[t]] = Running]
        /\ Goto(t, "func")
        /\ UNCHANGED waiting
     \/ /\ state[flag[t]] = Done
        /\ Goto(t, "idle")
        /\ UNCHANGED <<state, waiting>>
  /\ UNCHANGED <<flag, finished, throws>>

FuncReturns(t) ==
  /\ pc[t] = "func"
  /\ finished' = finished \cup {flag[t]}
  /\ Goto(t, "ran")
  /\ UNCHANGED <<state, waiting, flag, throws>>

FuncThrows(t) ==
  /\ pc[t] = "func"
  /\ throws[flag[t]] < MaxThrows
  /\ throws' = [throws EXCEPT ![flag[t]] = @ + 1]
  /\ Goto(t, "threw")
  /\ UNCHANGED <<state, waiting, flag, finished>>

StoreDone(t) ==
  /\ pc[t] = "ran"
  /\ state' = [state EXCEPT ![flag[t]] = Done]
  /\ Goto(t, "broadcast")
  /\ UNCHANGED <<waiting, flag, finished, throws>>

(* Mutants: the catch clause gives the flag up for good, or leaves it.     *)
ResetToDone(t) ==
  /\ pc[t] = "threw"
  /\ state' = [state EXCEPT ![flag[t]] = Done]
  /\ Goto(t, "rebroadcast")
  /\ UNCHANGED <<waiting, flag, finished, throws>>

NoReset(t) ==
  /\ pc[t] = "threw"
  /\ Goto(t, "rebroadcast")
  /\ UNCHANGED <<state, waiting, flag, finished, throws>>

(* The catch clause makes the flag fresh again.                            *)
Reset(t) ==
  /\ pc[t] = "threw"
  /\ state' = [state EXCEPT ![flag[t]] = Fresh]
  /\ Goto(t, "rebroadcast")
  /\ UNCHANGED <<waiting, flag, finished, throws>>

(* Mutant: one waiter is woken, of any flag.                               *)
SignalOne(t) ==
  /\ t \in Broadcasters
  /\ IF waiting = {} THEN UNCHANGED waiting
                     ELSE \E u \in waiting : waiting' = waiting \ {u}
  /\ Goto(t, "idle")
  /\ UNCHANGED <<state, flag, finished, throws>>

(* The waiters of every flag wake and look at theirs; the call returns, or *)
(* throws on.                                                              *)
Broadcast(t) ==
  /\ t \in Broadcasters
  /\ waiting' = {}
  /\ Goto(t, "idle")
  /\ UNCHANGED <<state, flag, finished, throws>>

SpuriousWakeup(t) ==
  /\ t \in waiting
  /\ waiting' = waiting \ {t}
  /\ UNCHANGED <<state, pc, flag, finished, throws>>

Next == \E t \in Threads :
  \/ \E f \in Flags : Call(t, f)
  \/ FastReturn(t)
  \/ Enter(t) \/ FuncReturns(t) \/ FuncThrows(t) \/ StoreDone(t) \/ Reset(t)
  \/ Broadcast(t) \/ SpuriousWakeup(t)

Spec == Init /\ [][Next]_vars

(* Threads in a call run, and every function returns or throws.            *)
FairSpec ==
  Spec /\ \A t \in Threads :
    WF_vars(Enter(t) \/ FuncReturns(t) \/ StoreDone(t) \/ Reset(t) \/ Broadcast(t))
-----------------------------------------------------------------------------
TypeOK ==
  /\ state \in [Flags -> {Fresh, Running, Done}]
  /\ pc \in [Threads -> Labels]
  /\ flag \in [Threads -> Flags]
  /\ waiting \subseteq {t \in Threads : pc[t] = "slow"}
  /\ finished \in SUBSET Flags
  /\ throws \in [Flags -> 0..MaxThrows]

(* The word tells the truth of the function: 1 while one thread runs it    *)
(* and no other, ~0 only after it has returned, and 0 only if it is still  *)
(* to be run, also after an exception.                                     *)
FlagExact == \A f \in Flags :
  /\ state[f] = Running <=> Runners(f) # {}
  /\ \A t, u \in Runners(f) : t = u
  /\ state[f] = Done => f \in finished
  /\ state[f] = Fresh => f \notin finished

(* A thread blocked in the shared cv has a thread to wake it: one that     *)
(* runs the function of the same flag, or has run it and is about to       *)
(* broadcast.                                                              *)
NoLostWakeup == \A t \in waiting :
  \/ state[flag[t]] = Running
  \/ \E u \in Broadcasters : flag[u] = flag[t]

CallsAt(labels) ==
  {c \in Threads \X Flags : pc[c[1]] \in labels /\ flag[c[1]] = c[2]}

O == INSTANCE Once WITH
       calls  <- CallsAt(Labels \ {"idle"}),
       active <- CallsAt({"func"}),
       failed <- CallsAt({"threw", "rebroadcast"})

(* The word, the shared mutex and the shared condition variable implement  *)
(* call_once: no call returns early and the function runs once.            *)
ImplementsOnce == O!OnceSpec

(* Every call ends, whatever the other flags do with cv.                   *)
EveryCallEnds == \A t \in Threads : pc[t] = "slow" ~> pc[t] = "idle"
==============================================================================
