-------------------------------- MODULE RWLock --------------------------------
(***************************************************************************)
(* What a shared mutex promises its users: exclusive or shared ownership,  *)
(* and the preference for writers.  A thread that has claimed the lock for *)
(* writing keeps new readers out, and takes it once the readers that were  *)
(* inside have left.                                                       *)
(***************************************************************************)
EXTENDS Naturals, FiniteSets

CONSTANTS
  Threads,
  MaxShared   (* how many owners the lock can have in shared mode *)

VARIABLES
  claimed,    (* the thread, if any, whose claim keeps the others out     *)
  exclusive,  (* the thread, if any, that owns the lock exclusively       *)
  shared      (* the threads that own it in shared mode                   *)

rwVars == <<claimed, exclusive, shared>>

RWTypeOK ==
  /\ claimed \in SUBSET Threads /\ Cardinality(claimed) <= 1
  /\ exclusive \subseteq claimed
  /\ shared \in SUBSET Threads

RWInit == claimed = {} /\ exclusive = {} /\ shared = {}

Claim(t) ==
  /\ claimed = {}
  /\ claimed' = {t}
  /\ UNCHANGED <<exclusive, shared>>

(* An unclaimed lock without readers is claimed and taken in one step.     *)
TakeExclusive(t) ==
  /\ claimed \subseteq {t} /\ exclusive = {} /\ shared = {}
  /\ claimed' = {t} /\ exclusive' = {t}
  /\ UNCHANGED shared

(* Ends exclusive ownership, or withdraws a claim that did not get there.  *)
GiveUp(t) ==
  /\ claimed = {t}
  /\ claimed' = {} /\ exclusive' = {}
  /\ UNCHANGED shared

TakeShared(t) ==
  /\ claimed = {} /\ t \notin shared
  /\ Cardinality(shared) < MaxShared
  /\ shared' = shared \cup {t}
  /\ UNCHANGED <<claimed, exclusive>>

ReleaseShared(t) ==
  /\ t \in shared
  /\ shared' = shared \ {t}
  /\ UNCHANGED <<claimed, exclusive>>

RWNext == \E t \in Threads :
  Claim(t) \/ TakeExclusive(t) \/ GiveUp(t) \/ TakeShared(t) \/ ReleaseShared(t)

RWSpec == RWInit /\ [][RWNext]_rwVars
==============================================================================
