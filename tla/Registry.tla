------------------------------- MODULE Registry --------------------------------
(***************************************************************************)
(* What debug mode promises (src/include/__debug): every iterator is known *)
(* to belong to one live container or to none.                             *)
(***************************************************************************)
CONSTANTS Containers, Iterators,
          Unowned,       (* the owner of an iterator of no container       *)
          Unregistered   (* the owner of an iterator that is not known     *)

VARIABLES live,   (* the containers that exist                             *)
          owner   (* the container of each iterator                        *)

rgvars == <<live, owner>>

RGInit ==
  /\ live = {}
  /\ owner = [i \in Iterators |-> Unregistered]

Make(c) ==
  /\ c \notin live
  /\ live' = live \cup {c}
  /\ UNCHANGED owner

Destroy(c) ==
  /\ c \in live
  /\ live' = live \ {c}
  /\ owner' = [i \in Iterators |-> IF owner[i] = c THEN Unowned ELSE owner[i]]

(* The iterators in S leave their container, for another one or for none.  *)
Invalidate(S) ==
  /\ \E o \in live \cup {Unowned} :
       owner' = [i \in Iterators |-> IF i \in S THEN o ELSE owner[i]]
  /\ \A i \in S : owner[i] \in live
  /\ UNCHANGED live

Exchange(c, d) ==
  /\ {c, d} \subseteq live
  /\ owner' = [i \in Iterators |-> CASE owner[i] = c -> d [] owner[i] = d -> c
                                   [] OTHER -> owner[i]]
  /\ UNCHANGED live

(* An iterator is made, assigned to or destroyed.                          *)
Assign(i) ==
  /\ \E o \in live \cup {Unowned, Unregistered} : owner' = [owner EXCEPT ![i] = o]
  /\ UNCHANGED live

RGNext ==
  \/ \E c \in Containers : Make(c) \/ Destroy(c)
  \/ \E S \in SUBSET Iterators : Invalidate(S)
  \/ \E c, d \in Containers : Exchange(c, d)
  \/ \E i \in Iterators : Assign(i)

RGSpec == RGInit /\ [][RGNext]_rgvars
==============================================================================
