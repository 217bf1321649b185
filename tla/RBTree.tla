-------------------------------- MODULE RBTree ---------------------------------
(***************************************************************************)
(* The red-black tree of set, map, multiset and multimap                   *)
(* (src/include/__tree).                                                   *)
(*                                                                         *)
(* An operation up to its loop of rebalancing is one action, and so is     *)
(* every iteration of the loop.  The code has each case of the loops       *)
(* twice, for a left and a right child; here a side is a parameter.  What  *)
(* a copy assignment does with the nodes of the old tree (__detach) is     *)
(* modelled as well.                                                       *)
(***************************************************************************)
EXTENDS Integers, FiniteSets, SequencesExt

CONSTANTS
  Nodes, Keys,            (* both are sets of numbers                      *)
  End, Null,              (* __end_node() and the null pointer             *)
  Programs,               (* what may be done with the container: see below*)
  MaxLost                 (* a bound on the nodes that get lost            *)

ASSUME RBTreeAssumption ==
  /\ Nodes \subseteq Nat /\ IsFiniteSet(Nodes) /\ Keys \subseteq Int
  /\ {End, Null} \cap Nodes = {} /\ End # Null
  /\ Programs \subseteq [unique : BOOLEAN, pool : [Keys -> SUBSET Nodes], assigns : BOOLEAN]
  /\ MaxLost \in Nat

VARIABLES
  program,    (* unique: a set or map, else a multiset or multimap; pool: *)
              (* the nodes that may be allocated for each key; assigns:   *)
              (* there are copy assignments                               *)
  tree,       (* __left_ and __right_, __parent_, __is_black_ of the nodes *)
  key,        (* __value_                                                  *)
  begin,      (* __begin_node()                                            *)
  size,       (* size()                                                    *)
  allocated,  (* the nodes that are allocated                              *)
  pc,         (* the loop that runs                                        *)
  at,         (* __x of an insertion, __w of a removal                     *)
  root,       (* the local __root of the loop                              *)
  assigning,  (* a copy assignment goes on                                 *)
  cache,      (* ... and its __cache                                       *)
  lost        (* history: the nodes of the cache that it let go of         *)

vars == <<program, tree, key, begin, size, allocated, pc, at, root, assigning, cache, lost>>

unique == program.unique
Offered == {k \in Keys : program.pool[k] # {}}

Sides == {"left", "right"}
Other(s) == IF s = "left" THEN "right" ELSE "left"

(* What a node of freed memory holds does not matter.                      *)
AnyKey == CHOOSE k \in Keys : TRUE

Init ==
  /\ program \in Programs
  /\ tree = [child  |-> [s \in Sides |-> [n \in Nodes \cup {End} |-> Null]],
             parent |-> [n \in Nodes |-> Null],
             black  |-> [n \in Nodes |-> FALSE]]
  /\ key = [n \in Nodes |-> AnyKey]
  /\ begin = End /\ size = 0 /\ allocated = {}
  /\ pc = "idle" /\ at = Null /\ root = Null
  /\ assigning = FALSE /\ cache = Null /\ lost = {}
-----------------------------------------------------------------------------
(***************************************************************************)
(* The algorithms on nodes.  t is a tree.                                  *)
(***************************************************************************)
Root(t) == t.child["left"][End]

IsRed(t, n) == n # Null /\ ~t.black[n]

(* __tree_is_left_child.                                                   *)
Side(t, n) == IF t.child["left"][t.parent[n]] = n THEN "left" ELSE "right"

Sibling(t, n) == t.child[Other(Side(t, n))][t.parent[n]]

(* t with n, which may be null, as the child of p on side s.               *)
Attach(t, s, p, n) ==
  [child  |-> [t.child EXCEPT ![s][p] = n],
   parent |-> IF n = Null THEN t.parent ELSE [t.parent EXCEPT ![n] = p],
   black  |-> t.black]

Paint(t, n, black) == [t EXCEPT !.black[n] = black]

(* t and the keys when the nodes of S are freed.                           *)
FreeNodes(t, S) ==
  [child  |-> [s \in Sides |-> [n \in Nodes \cup {End} |->
                 IF n \in S THEN Null ELSE t.child[s][n]]],
   parent |-> [n \in Nodes |-> IF n \in S THEN Null ELSE t.parent[n]],
   black  |-> [n \in Nodes |-> n \notin S /\ t.black[n]]]

FreeKeys(S) == [n \in Nodes |-> IF n \in S THEN AnyKey ELSE key[n]]

(* __tree_left_rotate, __tree_right_rotate: x goes down on side s.         *)
Rotate(t, s, x) ==
  LET y  == t.child[Other(s)][x]
      t1 == Attach(t, Other(s), x, t.child[s][y])
      t2 == Attach(t1, Side(t, x), t.parent[x], y)
  IN  Attach(t2, s, y, x)

(* __tree_min and __tree_max: the last node on side s.                     *)
Extreme(t, s, x) ==
  LET go[n \in Nodes] == IF t.child[s][n] = Null THEN n ELSE go[t.child[s][n]]
  IN  go[x]

(* __tree_next_iter.                                                       *)
NextNode(t, x) ==
  LET climb[n \in Nodes] == IF t.parent[n] \notin Nodes \/ Side(t, n) = "left" THEN t.parent[n]
                            ELSE climb[t.parent[n]]
  IN  IF t.child["right"][x] # Null THEN Extreme(t, "left", t.child["right"][x]) ELSE climb[x]

(* __tree_prev_iter, of a node that is not the first, or of the end node.  *)
PrevNode(t, x) ==
  LET climb[n \in Nodes] == IF t.parent[n] \notin Nodes \/ Side(t, n) = "right" THEN t.parent[n]
                            ELSE climb[t.parent[n]]
  IN  IF t.child["left"][x] # Null THEN Extreme(t, "right", t.child["left"][x]) ELSE climb[x]

(* __tree_leaf.                                                            *)
Leaf(t, x) ==
  LET go[n \in Nodes] == IF t.child["left"][n] # Null THEN go[t.child["left"][n]]
                         ELSE IF t.child["right"][n] # Null THEN go[t.child["right"][n]]
                         ELSE n
  IN  go[x]

(* The nodes that destroy() meets from n, which may be null.               *)
Subtree(t, n) ==
  LET sub[m \in Nodes \cup {Null}] ==
        IF m = Null THEN {} ELSE {m} \cup sub[t.child["left"][m]] \cup sub[t.child["right"][m]]
  IN  sub[n]
-----------------------------------------------------------------------------
(***************************************************************************)
(* The searches.                                                           *)
(***************************************************************************)
(* __lower_bound (strict = FALSE) and __upper_bound (TRUE), from node n    *)
(* with result r.                                                          *)
Bound(strict, k, n, r) ==
  LET go[a \in (Nodes \cup {Null}) \X (Nodes \cup {End})] ==
        IF a[1] = Null THEN a[2]
        ELSE IF (strict /\ key[a[1]] > k) \/ (~strict /\ key[a[1]] >= k)
             THEN go[<<tree.child["left"][a[1]], a[1]>>]
             ELSE go[<<tree.child["right"][a[1]], a[2]>>]
  IN  go[<<n, r>>]

(* __equal_range_multi.                                                    *)
EqualRange(k) ==
  LET go[a \in (Nodes \cup {Null}) \X (Nodes \cup {End})] ==
        LET n == a[1] IN
        IF n = Null THEN <<a[2], a[2]>>
        ELSE IF k < key[n] THEN go[<<tree.child["left"][n], n>>]
        ELSE IF key[n] < k THEN go[<<tree.child["right"][n], a[2]>>]
        ELSE <<Bound(FALSE, k, tree.child["left"][n], n),
               Bound(TRUE, k, tree.child["right"][n], a[2])>>
  IN  go[<<Root(tree), End>>]

(* A place is a node and a side, a null leaf.                              *)
AtEnd == <<End, "left">>

(* The leaf that a descent reaches which goes left at the nodes of L.      *)
Descent(L) ==
  LET go[n \in Nodes] ==
        LET s == IF n \in L THEN "left" ELSE "right"
        IN  IF tree.child[s][n] = Null THEN <<n, s>> ELSE go[tree.child[s][n]]
  IN  IF Root(tree) = Null THEN AtEnd ELSE go[Root(tree)]

FindLeafLow(k) == Descent({n \in Nodes : ~(key[n] < k)})
FindLeafHigh(k) == Descent({n \in Nodes : k < key[n]})

(* __find_equal, where it does not find k.                                 *)
FindEqual(k) == FindLeafHigh(k)

(* The leaf between two neighbours in the order.                           *)
Between(p, n) == IF tree.child["left"][n] = Null THEN <<n, "left">> ELSE <<p, "right">>

(* __find_leaf.                                                            *)
FindLeaf(h, k) ==
  IF h = End \/ ~(key[h] < k)
  THEN IF h = begin THEN Between(Null, h)
       ELSE IF ~(k < key[PrevNode(tree, h)]) THEN Between(PrevNode(tree, h), h)
       ELSE FindLeafHigh(k)
  ELSE FindLeafLow(k)

(* __find_equal with a hint, where it does not find k.                     *)
FindEqualNear(h, k) ==
  IF h = End \/ k < key[h]
  THEN IF h = begin THEN Between(Null, h)
       ELSE IF key[PrevNode(tree, h)] < k THEN Between(PrevNode(tree, h), h)
       ELSE FindEqual(k)
  ELSE LET n == NextNode(tree, h)
       IN  IF n = End \/ k < key[n]
           THEN IF tree.child["right"][h] = Null THEN <<h, "right">> ELSE <<n, "left">>
           ELSE FindEqual(k)

Present(k) == \E n \in Subtree(tree, Root(tree)) : key[n] = k
-----------------------------------------------------------------------------
(***************************************************************************)
(* Insertion.                                                              *)
(***************************************************************************)
(* Mutant: __begin_node() stays.                                           *)
InsertNodeAtKeepsBegin(t, n, place) ==
  LET t1 == Attach(Attach(Attach(t, "left", n, Null), "right", n, Null), place[2], place[1], n)
  IN  /\ tree' = Paint(t1, n, n = Root(t1))
      /\ begin' = IF begin = End THEN n ELSE begin
      /\ size' = size + 1
      /\ pc' = "inserting" /\ at' = n /\ root' = Root(t1)

(* __insert_node_at, up to the loop of __tree_balance_after_insert.        *)
InsertNodeAt(t, n, place) ==
  LET t1 == Attach(Attach(Attach(t, "left", n, Null), "right", n, Null), place[2], place[1], n)
  IN  /\ tree' = Paint(t1, n, n = Root(t1))
      /\ begin' = IF t1.child["left"][begin] # Null THEN t1.child["left"][begin] ELSE begin
      /\ size' = size + 1
      /\ pc' = "inserting" /\ at' = n /\ root' = Root(t1)

(* Which free node an allocation returns makes no difference.              *)
Free(k) == program.pool[k] \ allocated
New(k)  == CHOOSE n \in Free(k) : \A m \in Free(k) : n <= m

Create(k, place) ==
  /\ pc = "idle" /\ ~assigning
  /\ Free(k) # {}
  /\ allocated' = allocated \cup {New(k)}
  /\ key' = [key EXCEPT ![New(k)] = k]
  /\ InsertNodeAt(tree, New(k), place)
  /\ UNCHANGED <<program, assigning, cache, lost>>

(* __emplace_unique and __emplace_hint_unique: a key that is there changes *)
(* nothing.  A hint is an element or the end.                              *)
Hints == Subtree(tree, Root(tree)) \cup {End}

InsertUnique(k) == unique /\ ~Present(k) /\ Create(k, FindEqual(k))
InsertUniqueNear(h, k) == unique /\ h \in Hints /\ ~Present(k) /\ Create(k, FindEqualNear(h, k))

(* Mutant: a new element goes before those with an equal key.              *)
InsertMultiLow(k) == ~unique /\ Create(k, FindLeafLow(k))

(* __emplace_multi and __emplace_hint_multi.                               *)
InsertMulti(k) == ~unique /\ Create(k, FindLeafHigh(k))
InsertMultiNear(h, k) == ~unique /\ h \in Hints /\ Create(k, FindLeaf(h, k))

(* The loop of __tree_balance_after_insert.                                *)
Parent      == tree.parent[at]
Grandparent == tree.parent[Parent]
Uncle       == Sibling(tree, Parent)
Violated    == at # root /\ IsRed(tree, Parent)

EndInsertion ==
  /\ pc = "inserting"
  /\ ~Violated
  /\ pc' = "idle" /\ at' = Null /\ root' = Null
  /\ UNCHANGED <<program, tree, key, begin, size, allocated, assigning, cache, lost>>

Recolour ==
  /\ pc = "inserting"
  /\ Violated /\ IsRed(tree, Uncle)
  /\ tree' = Paint(Paint(Paint(tree, Parent, TRUE), Grandparent, Grandparent = root), Uncle, TRUE)
  /\ at' = Grandparent
  /\ UNCHANGED <<program, key, begin, size, allocated, pc, root, assigning, cache, lost>>

(* Mutant: the node is not rotated outwards first.                         *)
RotateOnce ==
  /\ pc = "inserting"
  /\ Violated /\ ~IsRed(tree, Uncle)
  /\ LET s  == Side(tree, Parent)
         t1 == Paint(Paint(tree, Parent, TRUE), Grandparent, FALSE)
     IN  tree' = Rotate(t1, Other(s), Grandparent)
  /\ pc' = "idle" /\ at' = Null /\ root' = Null
  /\ UNCHANGED <<program, key, begin, size, allocated, assigning, cache, lost>>

RotateAndEnd ==
  /\ pc = "inserting"
  /\ Violated /\ ~IsRed(tree, Uncle)
  /\ LET s     == Side(tree, Parent)
         inner == Side(tree, at) # s
         t1    == IF inner THEN Rotate(tree, s, Parent) ELSE tree
         p     == IF inner THEN at ELSE Parent
         t2    == Paint(Paint(t1, p, TRUE), Grandparent, FALSE)
     IN  tree' = Rotate(t2, Other(s), Grandparent)
  /\ pc' = "idle" /\ at' = Null /\ root' = Null
  /\ UNCHANGED <<program, key, begin, size, allocated, assigning, cache, lost>>
-----------------------------------------------------------------------------
(***************************************************************************)
(* Removal.                                                                *)
(***************************************************************************)
(* __tree_remove up to its loop: z, or the node after z in its place, is   *)
(* unlinked, and rebalancing begins with the sibling of the hole.          *)
Unlink(z) ==
  LET y  == IF \E s \in Sides : tree.child[s][z] = Null THEN z ELSE NextNode(tree, z)
      x  == IF tree.child["left"][y] # Null THEN tree.child["left"][y] ELSE tree.child["right"][y]
      t1 == Attach(tree, Side(tree, y), tree.parent[y], x)
      w  == IF y = Root(tree) THEN Null ELSE t1.child[Other(Side(tree, y))][tree.parent[y]]
      t2 == Attach(t1, Side(t1, z), t1.parent[z], y)
      t3 == Attach(Attach(t2, "left", y, t2.child["left"][z]), "right", y, t2.child["right"][z])
      t4 == IF y = z THEN t1 ELSE Paint(t3, y, tree.black[z])
      doubly == tree.black[y] /\ Root(t4) # Null
  IN  /\ tree' = FreeNodes(IF doubly /\ x # Null THEN Paint(t4, x, TRUE) ELSE t4, {z})
      /\ IF doubly /\ x = Null
         THEN pc' = "removing" /\ at' = w /\ root' = Root(t4)
         ELSE pc' = "idle" /\ at' = Null /\ root' = Null

(* erase(iterator).                                                        *)
Erase(z) ==
  /\ pc = "idle" /\ ~assigning
  /\ z \in Subtree(tree, Root(tree))
  /\ begin' = IF begin = z THEN NextNode(tree, z) ELSE begin
  /\ size' = size - 1
  /\ Unlink(z)
  /\ allocated' = allocated \ {z} /\ key' = FreeKeys({z})
  /\ UNCHANGED <<program, assigning, cache, lost>>

(* Mutant: the node after the first is not looked for on its right.        *)
RemoveNodeToParent(z) ==
  /\ pc = "idle" /\ ~assigning
  /\ z \in Subtree(tree, Root(tree))
  /\ begin' = IF begin = z THEN tree.parent[z] ELSE begin
  /\ size' = size - 1
  /\ Unlink(z)
  /\ allocated' = allocated \ {z} /\ key' = FreeKeys({z})
  /\ UNCHANGED <<program, assigning, cache, lost>>

(* remove(iterator): the first node has at most one node on its right.     *)
RemoveNode(z) ==
  /\ pc = "idle" /\ ~assigning
  /\ z \in Subtree(tree, Root(tree))
  /\ begin' = IF begin # z THEN begin
              ELSE IF tree.child["right"][z] # Null THEN tree.child["right"][z] ELSE tree.parent[z]
  /\ size' = size - 1
  /\ Unlink(z)
  /\ allocated' = allocated \ {z} /\ key' = FreeKeys({z})
  /\ UNCHANGED <<program, assigning, cache, lost>>

(* The loop of __tree_remove.  The hole is on side Hole of the parent.     *)
Hole == Other(Side(tree, at))

(* Mutant: the local root is not reset.                                    *)
LiftRedSiblingKeepsRoot ==
  /\ pc = "removing" /\ IsRed(tree, at)
  /\ LET t == Rotate(Paint(Paint(tree, at, TRUE), Parent, FALSE), Hole, Parent)
     IN  /\ tree' = t
         /\ at' = t.child[Other(Hole)][t.child[Hole][at]]
  /\ UNCHANGED <<program, key, begin, size, allocated, pc, root, assigning, cache, lost>>

LiftRedSibling ==
  /\ pc = "removing" /\ IsRed(tree, at)
  /\ LET t == Rotate(Paint(Paint(tree, at, TRUE), Parent, FALSE), Hole, Parent)
     IN  /\ tree' = t
         /\ root' = IF root = t.child[Hole][at] THEN at ELSE root
         /\ at' = t.child[Other(Hole)][t.child[Hole][at]]
  /\ UNCHANGED <<program, key, begin, size, allocated, pc, assigning, cache, lost>>

HasRedChild == \E s \in Sides : IsRed(tree, tree.child[s][at])

PassBlackUp ==
  /\ pc = "removing" /\ ~IsRed(tree, at) /\ ~HasRedChild
  /\ LET t == Paint(tree, at, FALSE)
     IN  IF Parent = root \/ IsRed(tree, Parent)
         THEN /\ tree' = Paint(t, Parent, TRUE)
              /\ pc' = "idle" /\ at' = Null /\ root' = Null
         ELSE /\ tree' = t /\ at' = Sibling(t, Parent) /\ UNCHANGED <<pc, root>>
  /\ UNCHANGED <<program, key, begin, size, allocated, assigning, cache, lost>>

LiftSibling ==
  /\ pc = "removing" /\ ~IsRed(tree, at) /\ HasRedChild
  /\ LET far  == Other(Hole)
         near == tree.child[Hole][at]
         t1   == IF IsRed(tree, tree.child[far][at]) THEN tree
                 ELSE Rotate(Paint(Paint(tree, near, TRUE), at, FALSE), far, at)
         w    == IF IsRed(tree, tree.child[far][at]) THEN at ELSE near
         t2   == Paint(Paint(Paint(t1, w, tree.black[Parent]), Parent, TRUE), t1.child[far][w], TRUE)
     IN  tree' = Rotate(t2, Hole, Parent)
  /\ pc' = "idle" /\ at' = Null /\ root' = Null
  /\ UNCHANGED <<program, key, begin, size, allocated, assigning, cache, lost>>

(* clear().                                                                *)
Clear ==
  /\ pc = "idle" /\ ~assigning
  /\ LET S == Subtree(tree, Root(tree))
     IN  /\ allocated' = allocated \ S /\ key' = FreeKeys(S)
         /\ tree' = FreeNodes(Attach(tree, "left", End, Null), S)
  /\ begin' = End /\ size' = 0
  /\ UNCHANGED <<program, pc, at, root, assigning, cache, lost>>
-----------------------------------------------------------------------------
(***************************************************************************)
(* Copy assignment, which puts the new values into the nodes of the old    *)
(* tree: __assign_unique and __assign_multi.                               *)
(***************************************************************************)
(* __detach(): the tree is empty, its nodes are in the cache.              *)
BeginAssign ==
  /\ program.assigns /\ pc = "idle" /\ ~assigning
  /\ size # 0
  /\ assigning' = TRUE
  /\ cache' = IF tree.child["right"][begin] # Null THEN tree.child["right"][begin] ELSE begin
  /\ tree' = [Attach(tree, "left", End, Null) EXCEPT !.parent[Root(tree)] = Null]
  /\ begin' = End /\ size' = 0
  /\ UNCHANGED <<program, key, allocated, pc, at, root, lost>>

(* Mutant: the leaf next to the node is left out.                          *)
DetachedUp ==
  LET p == tree.parent[cache]
  IN  IF p = Null THEN [tree |-> tree, next |-> Null]
      ELSE [tree |-> Attach(tree, Side(tree, cache), p, Null), next |-> p]

(* __detach(__cache): the cache without its node, and the node after it.   *)
Detached ==
  LET p == tree.parent[cache]
      s == Side(tree, cache)
      o == tree.child[Other(s)][p]
  IN  IF p = Null THEN [tree |-> tree, next |-> Null]
      ELSE [tree |-> Attach(tree, s, p, Null),
            next |-> IF o = Null THEN p ELSE Leaf(tree, o)]

(* A value is assigned to the node of the cache, and the node inserted;    *)
(* but a set does not take it if the key is there.                         *)
AssignNext(k) ==
  /\ assigning /\ pc = "idle" /\ cache # Null
  /\ key' = [key EXCEPT ![cache] = k]
  /\ cache' = Detached.next
  /\ \/ /\ unique /\ Present(k)
        /\ tree' = Detached.tree
        /\ Cardinality(lost) < MaxLost /\ lost' = lost \cup {cache}
        /\ UNCHANGED <<begin, size, pc, at, root>>
     \/ /\ ~(unique /\ Present(k))
        /\ InsertNodeAt(Detached.tree, cache, FindLeafHigh(k))
        /\ UNCHANGED lost
  /\ UNCHANGED <<program, allocated, assigning>>

(* The nodes that destroy() meets after the climb from the node of the     *)
(* cache.                                                                  *)
CacheNodes(t) ==
  LET top[n \in Nodes] == IF t.parent[n] \notin Nodes THEN n ELSE top[t.parent[n]]
  IN  IF cache = Null THEN {} ELSE Subtree(t, top[cache])

(* A comparison throws when the node has been detached already.            *)
ThrowInAssign(k) ==
  /\ assigning /\ pc = "idle" /\ cache # Null /\ size # 0
  /\ Cardinality(lost) < MaxLost
  /\ LET S == CacheNodes(Detached.tree)
     IN  /\ allocated' = allocated \ S
         /\ key' = [FreeKeys(S) EXCEPT ![cache] = IF cache \in S THEN AnyKey ELSE k]
         /\ tree' = FreeNodes(Detached.tree, S)
         /\ lost' = lost \cup ({cache} \ S)
  /\ assigning' = FALSE /\ cache' = Null
  /\ UNCHANGED <<program, begin, size, pc, at, root>>

(* There are no more values, or the assignment of a value throws: the rest *)
(* of the cache is destroyed.                                              *)
EndAssign ==
  /\ assigning /\ pc = "idle"
  /\ LET S == CacheNodes(tree)
     IN  /\ allocated' = allocated \ S /\ key' = FreeKeys(S)
         /\ tree' = FreeNodes(tree, S)
  /\ assigning' = FALSE /\ cache' = Null
  /\ UNCHANGED <<program, begin, size, pc, at, root, lost>>
-----------------------------------------------------------------------------
Rebalance ==
  \/ EndInsertion \/ Recolour \/ RotateAndEnd
  \/ LiftRedSibling \/ PassBlackUp \/ LiftSibling

Next ==
  \/ \E k \in Offered : InsertUnique(k) \/ InsertMulti(k)
  \/ \E k \in Offered, h \in Nodes \cup {End} : InsertUniqueNear(h, k) \/ InsertMultiNear(h, k)
  \/ \E z \in Nodes : Erase(z) \/ RemoveNode(z)
  \/ Clear
  \/ BeginAssign \/ EndAssign
  \/ \E k \in Offered : AssignNext(k) \/ ThrowInAssign(k)
  \/ Rebalance

Spec == Init /\ [][Next]_vars
-----------------------------------------------------------------------------
Linked == Subtree(tree, Root(tree))

TypeOK ==
  /\ tree \in [child  : [Sides -> [Nodes \cup {End} -> Nodes \cup {Null}]],
               parent : [Nodes -> Nodes \cup {End, Null}],
               black  : [Nodes -> BOOLEAN]]
  /\ key \in [Nodes -> Keys]
  /\ begin \in Nodes \cup {End} /\ size = Cardinality(Linked)
  /\ allocated \subseteq Nodes /\ lost \subseteq Nodes /\ program \in Programs
  /\ pc \in {"idle", "inserting", "removing"}
  /\ at \in Nodes \cup {Null} /\ root \in Nodes \cup {Null}
  /\ assigning \in BOOLEAN /\ cache \in Nodes \cup {Null}

(* Children point back at their parents, the local root of a loop is the   *)
(* root of the tree, and the first node is the least.                      *)
LinksExact ==
  /\ \A p \in Linked \cup {End}, s \in Sides :
       tree.child[s][p] # Null => tree.parent[tree.child[s][p]] = p
  /\ pc # "idle" => root = Root(tree)
  /\ begin = IF Root(tree) = Null THEN End ELSE Extreme(tree, "left", Root(tree))

(* The black node that the hole of a removal, below p on side s, lacks.    *)
Lacking(p, s) == IF pc = "removing" /\ tree.child[Other(s)][p] = at THEN 1 ELSE 0

(* The number of black nodes on the way from n down to the left-most leaf, *)
(* with the lacking one.                                                   *)
BlackHeight(n) ==
  LET h[m \in Nodes \cup {Null}] ==
        IF m = Null THEN 1
        ELSE h[tree.child["left"][m]] + Lacking(m, "left") + IF tree.black[m] THEN 1 ELSE 0
  IN  h[n]

(* __tree_invariant after every call, and what is left of it in a loop:    *)
(* only the node at hand is red below red, only the hole lacks a black.    *)
RedBlack ==
  /\ Root(tree) # Null => tree.black[Root(tree)]
  /\ \A n \in Linked :
       /\ IsRed(tree, n) /\ IsRed(tree, tree.parent[n]) => pc = "inserting" /\ n = at
       /\ BlackHeight(tree.child["left"][n]) + Lacking(n, "left")
            = BlackHeight(tree.child["right"][n]) + Lacking(n, "right")

(* The nodes, with their keys, as iterators from begin() on see them.      *)
Elements ==
  LET walk[n \in Linked \cup {End}] ==
        IF n = End THEN <<>> ELSE <<<<n, key[n]>>>> \o walk[NextNode(tree, n)]
  IN  walk[begin]

(* lower_bound, upper_bound and equal_range descend to the element that a  *)
(* walk through the elements finds.                                        *)
SearchExact ==
  LET s == Elements
      FirstWhere(Test(_)) ==
        LET i == SelectInSeq(s, LAMBDA e : Test(e[2])) IN IF i = 0 THEN End ELSE s[i][1]
  IN  \A k \in Offered :
        LET lower == FirstWhere(LAMBDA x : x >= k)
            upper == FirstWhere(LAMBDA x : x > k)
        IN  /\ Bound(FALSE, k, Root(tree), End) = lower
            /\ Bound(TRUE, k, Root(tree), End) = upper
            /\ EqualRange(k) = <<lower, upper>>

(* Every allocated node is in the tree, in the cache of an assignment or   *)
(* among those that an assignment let go of, and in one of them only; none *)
(* that is freed is in any.                                                *)
NodesAccounted ==
  LET C == CacheNodes(tree)
  IN  /\ allocated = Linked \cup C \cup lost
      /\ Linked \cap C = {} /\ (Linked \cup C) \cap lost = {}

(* An assignment keeps or frees every node of the old tree.                *)
NothingLost == lost = {}

SS == INSTANCE SortedSequence WITH seq <- Elements

(* Pointers and colours implement a sorted sequence: rebalancing changes   *)
(* nothing that an iterator or a search sees.                              *)
ImplementsSortedSequence == SS!SSSpec

(* An element goes behind those with an equal key, or as close as it may   *)
(* to the hint.                                                            *)
InsertedWhereAsked ==
  [][~unique => \A k \in Offered :
       /\ InsertMulti(k) => SS!Insert(New(k), k)
       /\ \A i \in 0..Len(Elements) :
            InsertMultiNear(IF i = Len(Elements) THEN End ELSE Elements[i + 1][1], k)
              => SS!InsertNear(New(k), k, i)]_vars
==============================================================================
