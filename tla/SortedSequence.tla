----------------------------- MODULE SortedSequence ----------------------------
(***************************************************************************)
(* What an associative container promises: a sequence of nodes in the      *)
(* order of their keys, in which an insertion goes where the standard says *)
(* and every other node stays where it is.                                 *)
(***************************************************************************)
EXTENDS Integers, SequencesExt

CONSTANTS Nodes, Keys

VARIABLES
  seq,      (* the pairs of a node and its key, in order                   *)
  unique    (* no two nodes have equal keys                                *)

(* The number of elements of s with a key less than k, and of those up to  *)
(* k.                                                                      *)
Lower(s, k) == Cardinality({i \in DOMAIN s : s[i][2] < k})
Upper(s, k) == Cardinality({i \in DOMAIN s : s[i][2] <= k})

(* s with e as close as it may be to the place before element j + 1.       *)
WithNear(s, e, j) ==
  LET lower == Lower(s, e[2])
      upper == Upper(s, e[2])
      p == IF j < lower THEN lower ELSE IF j > upper THEN upper ELSE j
  IN  InsertAt(s, p + 1, e)

SSInit == seq = <<>> /\ unique \in BOOLEAN

InsertNear(n, k, j) == seq' = WithNear(seq, <<n, k>>, j)
Insert(n, k) == InsertNear(n, k, Upper(seq, k))

(* Some element e is inserted.                                             *)
InsertOne(s, t) ==
  \E e \in ToSet(t) \cap (Nodes \X Keys), j \in 0..Len(s) :
    /\ unique => Lower(s, e[2]) = Upper(s, e[2])
    /\ t = WithNear(s, e, j)

EraseOne(s, t) == \E i \in DOMAIN s : t = RemoveAt(s, i)

SSNext ==
  LET s == seq
      t == seq'
  IN  /\ UNCHANGED unique
      /\ InsertOne(s, t) \/ EraseOne(s, t) \/ t = <<>>

SSSpec == SSInit /\ [][SSNext]_<<seq, unique>>
==============================================================================
