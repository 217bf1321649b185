---------------------------- MODULE SharedOwnership ----------------------------
(***************************************************************************)
(* What shared_ptr and weak_ptr promise: an object dies when its last      *)
(* owner goes, once, and the block that holds the counts is freed when     *)
(* the object is dead and nobody can ask about it any more, once.          *)
(***************************************************************************)
CONSTANT References   (* the shared_ptr and weak_ptr objects of the program *)

VARIABLES
  owners,     (* the references that own the object                        *)
  watchers,   (* the references that only know of it                       *)
  object,     (* "alive" or "dead"                                         *)
  block       (* "live" or "freed"                                         *)

soVars == <<owners, watchers, object, block>>

SOInit ==
  /\ \E r \in References : owners = {r}
  /\ watchers \in SUBSET References /\ watchers \cap owners = {}
  /\ object = "alive" /\ block = "live"

(* A new owner is made from one, or from a watcher while there is one.     *)
Own(r) ==
  /\ owners # {} /\ r \notin owners \cup watchers
  /\ owners' = owners \cup {r}
  /\ UNCHANGED <<watchers, object, block>>

Disown(r) ==
  /\ r \in owners
  /\ owners' = owners \ {r}
  /\ UNCHANGED <<watchers, object, block>>

Watch(r) ==
  /\ owners \cup watchers # {} /\ r \notin owners \cup watchers
  /\ watchers' = watchers \cup {r}
  /\ UNCHANGED <<owners, object, block>>

Unwatch(r) ==
  /\ r \in watchers
  /\ watchers' = watchers \ {r}
  /\ UNCHANGED <<owners, object, block>>

Destroy ==
  /\ owners = {} /\ object = "alive"
  /\ object' = "dead"
  /\ UNCHANGED <<owners, watchers, block>>

Free ==
  /\ owners = {} /\ watchers = {} /\ object = "dead" /\ block = "live"
  /\ block' = "freed"
  /\ UNCHANGED <<owners, watchers, object>>

SONext ==
  \/ \E r \in References : Own(r) \/ Disown(r) \/ Watch(r) \/ Unwatch(r)
  \/ Destroy \/ Free

SOSpec == SOInit /\ [][SONext]_soVars
==============================================================================
