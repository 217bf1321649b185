------------------------------ MODULE EqualGroups ------------------------------
(***************************************************************************)
(* What the unordered containers promise: of each key the elements, in an  *)
(* order that only an insertion or a removal of that key changes.  There   *)
(* are several containers, which can be assigned and exchanged.            *)
(***************************************************************************)
EXTENDS Naturals, Sequences, SequencesExt

CONSTANTS
  Keys, Tags,   (* an element is a pair of both                            *)
  Tables,       (* the containers                                          *)
  Lists         (* the lists of elements that are assigned                 *)

VARIABLES
  groups,   (* for each container and key the sequence of equal elements   *)
  unique    (* no two elements of a container are equal                    *)

Nothing == [k \in Keys |-> <<>>]

EGInit == groups = [t \in Tables |-> Nothing] /\ unique \in BOOLEAN

(* A new element goes behind the equal ones, or before one of them.        *)
Insert(t, k, tag) ==
  /\ unique => groups[t][k] = <<>>
  /\ groups' = [groups EXCEPT ![t][k] = Append(@, <<k, tag>>)]

InsertBefore(t, k, tag, i) ==
  /\ ~unique
  /\ groups' = [groups EXCEPT ![t][k] = InsertAt(@, i, <<k, tag>>)]

EraseOne(t, k, i) == groups' = [groups EXCEPT ![t][k] = RemoveAt(@, i)]

EraseAll(t, k) == groups' = [groups EXCEPT ![t][k] = <<>>]

Empty(t) == groups' = [groups EXCEPT ![t] = Nothing]

(* The elements of a list, or of each key its first.                       *)
Grouped(list) ==
  [k \in Keys |->
     LET equal == SelectSeq(list, LAMBDA e : e[1] = k)
     IN  IF unique /\ equal # <<>> THEN <<Head(equal)>> ELSE equal]

Assign(t, list) == groups' = [groups EXCEPT ![t] = Grouped(list)]

Copy(t, u) == groups' = [groups EXCEPT ![t] = groups[u]]
Move(t, u) == groups' = [groups EXCEPT ![t] = groups[u], ![u] = Nothing]
Exchange(t, u) == groups' = [groups EXCEPT ![t] = groups[u], ![u] = groups[t]]

EGNext ==
  /\ UNCHANGED unique
  /\ \E t \in Tables :
       \/ \E k \in Keys, tag \in Tags :
            Insert(t, k, tag) \/ \E i \in DOMAIN groups[t][k] : InsertBefore(t, k, tag, i)
       \/ \E k \in Keys : EraseAll(t, k) \/ \E i \in DOMAIN groups[t][k] : EraseOne(t, k, i)
       \/ Empty(t)
       \/ \E list \in Lists : Assign(t, list)
       \/ \E u \in Tables \ {t} : Exchange(t, u) \/ Move(t, u) \/ Copy(t, u)

EGSpec == EGInit /\ [][EGNext]_<<groups, unique>>
==============================================================================
