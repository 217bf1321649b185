---------------------------------- MODULE Lock ----------------------------------
(***************************************************************************)
(* What a mutex promises: one owner at a time, which may own it up to      *)
(* MaxDepth times over.                                                    *)
(***************************************************************************)
EXTENDS Naturals

CONSTANTS Threads, MaxDepth

VARIABLE depth   (* how many times each thread owns the mutex              *)

LockTypeOK == depth \in [Threads -> 0..MaxDepth]

LockInit == depth = [t \in Threads |-> 0]

Acquire(t) ==
  /\ \A u \in Threads \ {t} : depth[u] = 0
  /\ depth[t] < MaxDepth
  /\ depth' = [depth EXCEPT ![t] = @ + 1]

Release(t) ==
  /\ depth[t] > 0
  /\ depth' = [depth EXCEPT ![t] = @ - 1]

LockNext == \E t \in Threads : Acquire(t) \/ Release(t)

LockSpec == LockInit /\ [][LockNext]_depth
==============================================================================
