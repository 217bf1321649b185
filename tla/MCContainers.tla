----------------------------- MODULE MCContainers ------------------------------
(***************************************************************************)
(* The two ways of keeping the elements of an associative container, the   *)
(* red-black tree and the hash table, each through its own programs; the   *)
(* other one stays empty.                                                  *)
(***************************************************************************)
EXTENDS RBTree, TLC

CONSTANTS
  HashNodes,                   \* the nodes of hash tables
  Containers, c1, c2,          \* the hash tables
  HashKeys, HashTags, MaxDropped

VARIABLES hashProgram, tables, once, dropped, found

hashVars == <<hashProgram, tables, once, dropped, found>>

Program(u, p, a) == [unique |-> u, pool |-> p, assigns |-> a]

(* The nodes of a set go by the names of their keys.                       *)
OwnNode == [k \in Keys |-> {k}]
(* Any of four nodes for three keys, or of three nodes for two keys.       *)
AnyNode(keys, nodes) == [k \in Keys |-> IF k \in keys THEN nodes ELSE {}]

(* Every set of up to eight keys, through every order of insertions and    *)
(* removals; equal keys, with hints; copy assignments of any length to all *)
(* four containers.                                                        *)
AllPrograms ==
  {Program(TRUE, OwnNode, FALSE),
   Program(TRUE, AnyNode(1..3, 1..4), TRUE),
   Program(FALSE, AnyNode(1..3, 1..4), FALSE), Program(FALSE, AnyNode(1..2, 1..4), TRUE)}

(* An assignment from a list that has a key twice, to a set or map.        *)
SmallMap == {Program(TRUE, AnyNode(1..2, 1..3), TRUE)}

(* Three functions of three keys: as different as they can be, so that two *)
(* tables never agree on the order of their buckets.                       *)
Hash1 == <<0, 1, 5>>
Hash2 == <<3, 2, 7>>

(* Lists that are shorter and longer than a table, with a key twice.       *)
SomeLists == {<<>>, <<<<1, 1>>>>, <<<<1, 3>>, <<3, 1>>>>, <<<<3, 1>>, <<2, 1>>, <<3, 2>>>>}

HashProgram(nodes, ts, hashers, loads, counts, lists) ==
  [nodes |-> nodes, tables |-> ts, hashers |-> hashers,
   loads |-> loads, counts |-> counts, lists |-> lists]

NoTree == Program(TRUE, AnyNode({}, {}), FALSE)
NoTable == HashProgram(0, {}, {Hash1}, {}, {}, {})

TreePrograms == AllPrograms \cup {NoTree}

(* Four nodes through rehashes by hand and by a change of the load; two    *)
(* tables that change hands; assignments from lists.                       *)
HashPrograms ==
  {NoTable,
   HashProgram(4, {c1}, {Hash1}, {<<2, 1>>}, {0, 4}, {}),
   HashProgram(3, {c1, c2}, {Hash1, Hash2}, {}, {}, {}),
   HashProgram(4, {c1}, {Hash1}, {}, {}, SomeLists)}

H == INSTANCE HashTable WITH
       Nodes <- HashNodes, Keys <- HashKeys, Tags <- HashTags, Tables <- Containers,
       Programs <- HashPrograms, Lists <- SomeLists,
       program <- hashProgram, unique <- once

ContainersInit ==
  /\ Init /\ H!Init
  /\ program = NoTree <=> hashProgram # NoTable
  /\ hashProgram = NoTable => once

ContainersNext ==
  \/ Next /\ UNCHANGED hashVars
  \/ H!Next /\ UNCHANGED vars

ContainersSpec == ContainersInit /\ [][ContainersNext]_<<vars, hashVars>>

(* The addresses of the nodes make no difference.                          *)
AnyNames == Permutations(HashNodes)

(* The buckets and the list of every hash table belong together: see       *)
(* HashTable.                                                              *)
BucketsExact == H!BucketsExact

(* Equal keys are found together and in order: see HashTable.              *)
ImplementsEqualGroups == H!ImplementsEqualGroups
==============================================================================
