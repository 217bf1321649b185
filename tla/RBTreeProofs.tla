------------------------------ MODULE RBTreeProofs ------------------------------
(***************************************************************************)
(* The red-black tree for any number of nodes and keys and any series of   *)
(* calls: the links of the tree and of the cache of an assignment are      *)
(* sound, no node gets lost but those that an assignment lets go of, and   *)
(* the tree is red-black.                                                  *)
(***************************************************************************)
EXTENDS RBTree, TLAPS, FiniteSetTheorems, WellFoundedInduction

Places == Nodes \cup {End}

-----------------------------------------------------------------------------
(***************************************************************************)
(* Induction on a rank, and functions that are defined by recursion on it. *)
(***************************************************************************)
(* A set of numbers has a least one.                                       *)
LEMMA LeastNumber ==
  ASSUME NEW S, S \subseteq Nat, S # {}
  PROVE  \E n \in S : \A m \in S : n <= m
<1>1. PICK n \in S : \A m \in S : ~ (<<m, n>> \in OpToRel(<, Nat))
  BY NatLessThanWellFounded, WFMin
<1>2. \A m \in S : ~ (m < n)
  BY <1>1, Zenon DEF OpToRel
<1>3. QED
  BY <1>2

(* What passes on to an element from those of a lower rank holds of all.   *)
LEMMA RankInduction ==
  ASSUME NEW S, NEW r \in [S -> Nat], NEW B,
         \A n \in S : (\A m \in S : r[m] < r[n] => m \in B) => n \in B
  PROVE  \A n \in S : n \in B
<1> DEFINE Bad == {n \in S : n \notin B}
<1> SUFFICES ASSUME Bad # {} PROVE FALSE
  OBVIOUS
<1> DEFINE Ranks == {r[n] : n \in Bad}
<1>0. Ranks \subseteq Nat /\ Ranks # {}
  OBVIOUS
<1>1. PICK k \in Ranks : \A l \in Ranks : k <= l
  BY <1>0, LeastNumber
<1>2. PICK n \in Bad : k = r[n]
  BY <1>1
<1>3. ASSUME NEW m \in S, r[m] < r[n] PROVE m \in B
  <2>1. r[m] \in Nat /\ r[n] \in Nat
    BY <1>2
  <2>2. ASSUME m \in Bad PROVE FALSE
    <3>1. r[m] \in Ranks
      BY <2>2
    <3>2. k <= r[m]
      BY <1>1, <3>1
    <3>3. QED
      BY <1>2, <1>3, <2>1, <3>2
  <2>3. QED
    BY <2>2
<1>4. QED
  BY <1>2, <1>3

(* step[<<n, f>>] is the value at n of a function that is f where the rank *)
(* is lower.                                                               *)
Recursive(S, V, M, r, step) ==
  /\ V # {} /\ M \in Nat /\ r \in [S -> 0..M] /\ step \in [S \X [S -> V] -> V]
  /\ \A n \in S, f, g \in [S -> V] :
       (\A m \in S : r[m] < r[n] => f[m] = g[m]) => step[<<n, f>>] = step[<<n, g>>]

Solves(S, V, step, f) == f \in [S -> V] /\ \A n \in S : f[n] = step[<<n, f>>]

(* A recursion along a bounded rank has a solution.                        *)
LEMMA Recursion ==
  ASSUME NEW S, NEW V, NEW M, NEW r, NEW step, Recursive(S, V, M, r, step)
  PROVE  \E f : Solves(S, V, step, f)
<1>0. /\ V # {} /\ M \in Nat /\ r \in [S -> 0..M] /\ step \in [S \X [S -> V] -> V]
      /\ \A n \in S, f, g \in [S -> V] :
           (\A m \in S : r[m] < r[n] => f[m] = g[m]) => step[<<n, f>>] = step[<<n, g>>]
  BY DEF Recursive
<1> USE <1>0
<1> DEFINE Good(k) == \E f \in [S -> V] : \A n \in S : r[n] < k => f[n] = step[<<n, f>>]
           Bad == {k \in Nat : ~Good(k)}
<1>1. Good(0)
  <2>1. PICK v \in V : TRUE
    OBVIOUS
  <2>2. [n \in S |-> v] \in [S -> V] /\ \A n \in S : ~(r[n] < 0)
    OBVIOUS
  <2>3. QED
    BY <2>2
<1>2. ASSUME NEW k \in Nat, Good(k) PROVE Good(k + 1)
  <2>1. PICK f \in [S -> V] : \A n \in S : r[n] < k => f[n] = step[<<n, f>>]
    BY <1>2
  <2> DEFINE g == [n \in S |-> step[<<n, f>>]]
  <2>2. g \in [S -> V]
    OBVIOUS
  <2>3. \A n \in S : r[n] < k => g[n] = f[n]
    BY <2>1
  <2>4. ASSUME NEW n \in S, r[n] < k + 1 PROVE g[n] = step[<<n, g>>]
    <3>1. \A m \in S : r[m] < r[n] => r[m] < k
      BY <2>4
    <3>2. \A m \in S : r[m] < r[n] => f[m] = g[m]
      BY <2>3, <3>1
    <3>3. step[<<n, f>>] = step[<<n, g>>]
      BY <2>2, <3>2
    <3>4. QED
      BY <3>3
  <2>5. QED
    BY <2>2, <2>4
<1>3. Bad = {}
  <2> SUFFICES ASSUME Bad # {} PROVE FALSE
    OBVIOUS
  <2>1. PICK k \in Bad : \A l \in Bad : k <= l
    BY LeastNumber
  <2> HIDE DEF Good
  <2>2. k # 0 /\ k - 1 \in Nat /\ k - 1 \notin Bad
    BY <1>1, <2>1
  <2>3. QED
    BY <1>2, <2>1, <2>2
<1>4. Good(M + 1)
  <2> HIDE DEF Good
  <2>1. QED
    BY <1>3, M + 1 \in Nat
<1>5. PICK f \in [S -> V] : \A n \in S : f[n] = step[<<n, f>>]
  BY <1>4
<1>6. Solves(S, V, step, f)
  BY <1>5 DEF Solves
<1>7. QED
  BY <1>6

-----------------------------------------------------------------------------
(***************************************************************************)
(* Trees, and what the elementary changes of their links do.               *)
(***************************************************************************)
Trees == [child  : [Sides -> [Places -> Nodes \cup {Null}]],
          parent : [Nodes -> Nodes \cup {End, Null}],
          black  : [Nodes -> BOOLEAN]]

(* There are two sides, one the other of the other.                        *)
LEMMA TwoSides ==
  ASSUME NEW s \in Sides
  PROVE  /\ Other(s) \in Sides /\ Other(s) # s /\ Other(Other(s)) = s
         /\ \A q \in Sides : q = s \/ q = Other(s)
         /\ "left" \in Sides /\ "right" \in Sides
         /\ Other("left") = "right" /\ Other("right") = "left"
BY DEF Sides, Other

(* The types of the fields of a tree.                                      *)
LEMMA TreeFields ==
  ASSUME NEW t \in Trees
  PROVE  /\ \A s \in Sides, p \in Places : t.child[s][p] \in Nodes \cup {Null}
         /\ \A n \in Nodes : t.parent[n] \in Nodes \cup {End, Null} /\ t.black[n] \in BOOLEAN
         /\ t.child \in [Sides -> [Places -> Nodes \cup {Null}]]
         /\ t.parent \in [Nodes -> Nodes \cup {End, Null}]
         /\ t.black \in [Nodes -> BOOLEAN]
BY DEF Trees

(* t2 is t with n, a node or null, as the child of p on side s.            *)
Attached(t, s, p, n, t2) ==
  /\ t2 \in Trees
  /\ \A q \in Sides, m \in Places : t2.child[q][m] = IF q = s /\ m = p THEN n ELSE t.child[q][m]
  /\ \A m \in Nodes : t2.parent[m] = IF m = n THEN p ELSE t.parent[m]
  /\ \A m \in Nodes : t2.black[m] <=> t.black[m]

(* What linking a child changes.                                           *)
LEMMA AttachIs ==
  ASSUME NEW t \in Trees, NEW s \in Sides, NEW p \in Places, NEW n \in Nodes \cup {Null}
  PROVE  Attached(t, s, p, n, Attach(t, s, p, n))
<1> DEFINE c == [t.child EXCEPT ![s][p] = n]
           u == IF n = Null THEN t.parent ELSE [t.parent EXCEPT ![n] = p]
<1>1. Attach(t, s, p, n) = [child |-> c, parent |-> u, black |-> t.black]
  BY DEF Attach
<1>2. c \in [Sides -> [Places -> Nodes \cup {Null}]]
  BY TreeFields
<1>3. \A q \in Sides, m \in Places : c[q][m] = IF q = s /\ m = p THEN n ELSE t.child[q][m]
  BY TreeFields
<1>4. /\ u \in [Nodes -> Nodes \cup {End, Null}]
      /\ \A m \in Nodes : u[m] = IF m = n THEN p ELSE t.parent[m]
  BY TreeFields, RBTreeAssumption DEF Places
<1>5. t.black \in [Nodes -> BOOLEAN]
  BY TreeFields
<1> HIDE DEF c, u
<1>6. QED
  BY <1>1, <1>2, <1>3, <1>4, <1>5 DEF Trees, Attached

(* t2 is t with n painted black, or red.                                   *)
Painted(t, n, b, t2) ==
  /\ t2 \in Trees /\ t2.child = t.child /\ t2.parent = t.parent
  /\ t2.black[n] <=> b
  /\ \A m \in Nodes : m # n => (t2.black[m] <=> t.black[m])

(* What painting a node changes.                                           *)
LEMMA PaintIs ==
  ASSUME NEW t \in Trees, NEW n \in Nodes, NEW b \in BOOLEAN
  PROVE  Painted(t, n, b, Paint(t, n, b))
BY DEF Paint, Trees, Painted

(* t2 is t when the nodes of S are freed.                                  *)
Freed(t, S, t2) ==
  /\ t2 \in Trees
  /\ \A s \in Sides, p \in Places : t2.child[s][p] = IF p \in S THEN Null ELSE t.child[s][p]
  /\ \A n \in Nodes : t2.parent[n] = IF n \in S THEN Null ELSE t.parent[n]
  /\ \A n \in Nodes : t2.black[n] <=> n \notin S /\ t.black[n]

(* What freeing nodes changes.                                             *)
LEMMA FreeNodesIs ==
  ASSUME NEW t \in Trees, NEW S
  PROVE  Freed(t, S, FreeNodes(t, S))
<1> DEFINE c == [s \in Sides |-> [n \in Places |-> IF n \in S THEN Null ELSE t.child[s][n]]]
           u == [n \in Nodes |-> IF n \in S THEN Null ELSE t.parent[n]]
           b == [n \in Nodes |-> n \notin S /\ t.black[n]]
<1>1. FreeNodes(t, S) = [child |-> c, parent |-> u, black |-> b]
  BY DEF FreeNodes, Places
<1>2. c \in [Sides -> [Places -> Nodes \cup {Null}]]
  BY TreeFields
<1>3. u \in [Nodes -> Nodes \cup {End, Null}]
  BY TreeFields
<1>4. b \in [Nodes -> BOOLEAN]
  OBVIOUS
<1>5. \A s \in Sides, p \in Places : c[s][p] = IF p \in S THEN Null ELSE t.child[s][p]
  OBVIOUS
<1>6. \A n \in Nodes : /\ u[n] = IF n \in S THEN Null ELSE t.parent[n]
                       /\ b[n] = (n \notin S /\ t.black[n])
  OBVIOUS
<1> HIDE DEF c, u, b
<1>7. QED
  BY <1>1, <1>2, <1>3, <1>4, <1>5, <1>6 DEF Trees, Freed

(* The links of t2 are those of t when x goes down on side s and y, its    *)
(* child on side o, up to side d of p.                                     *)
Turned(t, s, x, o, y, d, p, t2) ==
  /\ t2 \in Trees
  /\ \A q \in Sides, m \in Places : t2.child[q][m] =
       IF q = s /\ m = y THEN x
       ELSE IF q = d /\ m = p THEN y
       ELSE IF q = o /\ m = x THEN t.child[s][y]
       ELSE t.child[q][m]
  /\ \A m \in Nodes : t2.parent[m] =
       IF m = x THEN y ELSE IF m = y THEN p
       ELSE IF m = t.child[s][y] THEN x ELSE t.parent[m]

Rotated(t, s, x, o, y, d, p, t2) ==
  Turned(t, s, x, o, y, d, p, t2) /\ \A m \in Nodes : t2.black[m] <=> t.black[m]

(* What __tree_left_rotate and __tree_right_rotate change.                 *)
LEMMA RotateIs ==
  ASSUME NEW t \in Trees, NEW s \in Sides, NEW x \in Nodes,
         NEW o, NEW y \in Nodes, NEW d, NEW p \in Places,
         o = Other(s), y = t.child[o][x], d = Side(t, x), p = t.parent[x]
  PROVE  Rotated(t, s, x, o, y, d, p, Rotate(t, s, x))
<1> DEFINE z == t.child[s][y]
           t1 == Attach(t, o, x, z)
           t2 == Attach(t1, d, p, y)
           t3 == Attach(t2, s, y, x)
<1>1. Rotate(t, s, x) = t3
  BY DEF Rotate
<1>2. /\ x \in Places /\ y \in Places /\ x \in Nodes \cup {Null} /\ y \in Nodes \cup {Null}
      /\ o \in Sides /\ d \in Sides
  BY TwoSides DEF Places, Side, Sides
<1>3. z \in Nodes \cup {Null}
  BY <1>2, TreeFields
<1> HIDE DEF z
<1>4. Attached(t, o, x, z, t1)
  BY <1>2, <1>3, AttachIs
<1> HIDE DEF t1
<1>5. t1 \in Trees
  BY <1>4 DEF Attached
<1>6. Attached(t1, d, p, y, t2)
  BY <1>2, <1>5, AttachIs
<1> HIDE DEF t2
<1>7. t2 \in Trees
  BY <1>6 DEF Attached
<1>8. Attached(t2, s, y, x, t3)
  BY <1>2, <1>7, AttachIs
<1> HIDE DEF t3
<1>9. Rotated(t, s, x, o, y, d, p, t3)
  BY <1>4, <1>6, <1>8 DEF Attached, Rotated, Turned, z
<1>10. QED
  BY <1>1, <1>9

-----------------------------------------------------------------------------
(***************************************************************************)
(* The shape of the links.  T is the tree below the end node, C the cache  *)
(* of an assignment.                                                       *)
(***************************************************************************)
(* Links down and up agree.                                                *)
LinksAgree(t) ==
  \A p \in Places, s \in Sides :
    t.child[s][p] # Null => t.parent[t.child[s][p]] = p /\ t.child[s][p] # t.child[Other(s)][p]

(* No link down leaves the tree or the cache, and nothing else has one.    *)
LinksWithin(t, T, C) ==
  /\ t.child["right"][End] = Null
  /\ \A p \in Places, s \in Sides :
       t.child[s][p] # Null =>
         \/ p \in T \cup {End} /\ t.child[s][p] \in T
         \/ p \in C /\ t.child[s][p] \in C

(* n is a child of its parent.                                             *)
IsChild(t, n) == \E s \in Sides : t.child[s][t.parent[n]] = n

(* Only the top of the cache has no parent.                                *)
LinksUp(t, T, C) ==
  /\ \A n \in T : t.parent[n] \in T \cup {End} /\ IsChild(t, n)
  /\ \A n \in C : t.parent[n] # Null => t.parent[n] \in C /\ IsChild(t, n)
  /\ \A m, n \in C : t.parent[m] = Null /\ t.parent[n] = Null => m = n

Forest(t, T, C) ==
  /\ T \subseteq Nodes /\ C \subseteq Nodes /\ T \cap C = {}
  /\ LinksAgree(t) /\ LinksWithin(t, T, C) /\ LinksUp(t, T, C)

(* e grows downwards, from parents to children.                            *)
Ranked(t, e) == \A n \in Nodes : t.parent[n] \in Nodes => e[t.parent[n]] < e[n]

Ranks == UNION {[Nodes -> 0..M] : M \in Nat}

(* The left spine of the tree, with the end node, ends with the first node. *)
Spine(t, T, sp, first) ==
  /\ sp \subseteq T \cup {End} /\ End \in sp /\ first \in sp
  /\ \A p \in sp : /\ t.child["left"][p] # Null => t.child["left"][p] \in sp
                   /\ t.child["left"][p] = Null <=> p = first
  /\ \A p \in sp \ {End} : t.parent[p] \in sp /\ t.child["left"][t.parent[p]] = p

Shape(t, T, C, first) ==
  \E e \in Ranks, sp \in SUBSET Places :
    Forest(t, T, C) /\ Ranked(t, e) /\ Spine(t, T, sp, first)

(* A rank is bounded.                                                      *)
LEMMA RanksAre ==
  ASSUME NEW e \in Ranks
  PROVE  \E M \in Nat : e \in [Nodes -> 0..M]
BY DEF Ranks

(* Any bound will do.                                                      *)
LEMMA RanksFrom ==
  ASSUME NEW M \in Nat, NEW e \in [Nodes -> 0..M]
  PROVE  e \in Ranks
BY DEF Ranks

(* What a node of the tree, or of the cache, has around it.                *)
LEMMA Above ==
  ASSUME NEW t \in Trees, NEW T, NEW C, NEW e \in Ranks, Forest(t, T, C), Ranked(t, e),
         NEW n \in T \cup C
  PROVE  /\ n \in Nodes /\ n \in Places /\ n # Null /\ n # End /\ t.parent[n] # n
         /\ t.parent[n] \in Nodes => t.parent[t.parent[n]] # n
         /\ n \in T => t.parent[n] \in T \cup {End}
         /\ n \in C /\ t.parent[n] # Null => t.parent[n] \in C
         /\ t.parent[n] # Null =>
              /\ t.parent[n] \in Places
              /\ Side(t, n) \in Sides /\ t.child[Side(t, n)][t.parent[n]] = n
              /\ t.child[Other(Side(t, n))][t.parent[n]] # n
              /\ (t.parent[n] = End => Side(t, n) = "left")
<1>1. PICK M \in Nat : e \in [Nodes -> 0..M]
  BY RanksAre
<1>2. n \in Nodes /\ n # Null /\ n # End /\ n \in Places
  BY RBTreeAssumption DEF Forest, Places
<1>3. t.parent[n] \in Nodes => e[t.parent[n]] < e[n]
  BY <1>2 DEF Ranked
<1>4. t.parent[n] # n
  BY <1>1, <1>2, <1>3
<1>5. ASSUME t.parent[n] \in Nodes PROVE t.parent[t.parent[n]] # n
  BY <1>1, <1>2, <1>3, <1>5 DEF Ranked
<1>6. /\ n \in T => t.parent[n] \in T \cup {End}
      /\ n \in C /\ t.parent[n] # Null => t.parent[n] \in C
  BY DEF Forest, LinksUp
<1>7. ASSUME t.parent[n] # Null
      PROVE  /\ t.parent[n] \in Places
             /\ Side(t, n) \in Sides /\ t.child[Side(t, n)][t.parent[n]] = n
             /\ t.child[Other(Side(t, n))][t.parent[n]] # n
             /\ (t.parent[n] = End => Side(t, n) = "left")
  <2>1. t.parent[n] \in Places
    BY <1>6, <1>7 DEF Places, Forest
  <2>2. IsChild(t, n)
    BY <1>7 DEF Forest, LinksUp
  <2>3. Side(t, n) \in Sides /\ t.child[Side(t, n)][t.parent[n]] = n
    BY <2>2 DEF Side, Sides, IsChild
  <2>4. t.child[Other(Side(t, n))][t.parent[n]] # n
    BY <1>2, <2>1, <2>3 DEF Forest, LinksAgree
  <2>5. t.parent[n] = End => Side(t, n) = "left"
    BY <1>2, <2>3 DEF Forest, LinksWithin, Side
  <2>6. QED
    BY <2>1, <2>3, <2>4, <2>5
<1>8. QED
  BY <1>2, <1>4, <1>5, <1>6, <1>7

(* What a child of a node has around it.                                   *)
LEMMA Below ==
  ASSUME NEW t \in Trees, NEW T, NEW C, NEW e \in Ranks, Forest(t, T, C), Ranked(t, e),
         NEW n \in T \cup C, NEW s \in Sides, NEW m, m = t.child[s][n], m # Null
  PROVE  /\ m \in Nodes /\ m # n /\ m # End /\ m \in Places /\ t.parent[m] = n
         /\ m # t.parent[n]
         /\ n \in T => m \in T
         /\ n \in C => m \in C
<1>1. n \in Places /\ n # End
  BY Above
<1>2. m \in Nodes /\ t.parent[m] = n
  BY <1>1, TreeFields DEF Forest, LinksAgree
<1>3. /\ n \in T => m \in T
      /\ n \in C => m \in C
  BY <1>1 DEF Forest, LinksWithin
<1>4. m \in T \cup C
  BY <1>3
<1>5. /\ t.parent[m] # m /\ m # End
      /\ t.parent[m] \in Nodes => t.parent[t.parent[m]] # m
  BY <1>4, Above
<1>6. n \in Nodes
  BY Above
<1>7. QED
  BY <1>2, <1>3, <1>5, <1>6 DEF Places

(* A rotation in the tree keeps its shape.                                 *)
LEMMA RotateForest ==
  ASSUME NEW t \in Trees, NEW T, NEW C, NEW e \in Ranks, Forest(t, T, C), Ranked(t, e),
         NEW s \in Sides, NEW x \in T, NEW o, NEW y, NEW d, NEW p, NEW t2,
         o = Other(s), y = t.child[o][x], d = Side(t, x), p = t.parent[x], y # Null,
         Rotated(t, s, x, o, y, d, p, t2)
  PROVE  Forest(t2, T, C)
<1> DEFINE z == t.child[s][y]
<1>1. o \in Sides /\ o # s /\ (\A q \in Sides : q = s \/ q = o) /\ Other(s) = o /\ Other(o) = s
  BY TwoSides
<1>2. /\ x \in T \cup C /\ x \in Nodes /\ x \in Places /\ x # End /\ x # Null
      /\ p # x /\ p \in T \cup {End}
  BY Above
<1>3. p # Null /\ p \in Places
  BY <1>2, RBTreeAssumption DEF Forest, Places
<1>4. d \in Sides /\ t.child[d][p] = x /\ t.child[Other(d)][p] # x /\ (p = End => d = "left")
  BY <1>2, <1>3, Above
<1>5. y \in Nodes /\ y \in Places /\ y \in T /\ y # x /\ t.parent[y] = x /\ y # p /\ y # End
  BY <1>1, <1>2, Below
<1>6. y \in T \cup C
  BY <1>5
<1>7. z # Null => z \in Nodes /\ z \in T /\ z # y /\ t.parent[z] = y /\ z # x
  BY <1>5, <1>6, Below
<1> HIDE DEF z
<1>8. \A q \in Sides, m \in Places : t2.child[q][m] =
        IF q = s /\ m = y THEN x
        ELSE IF q = d /\ m = p THEN y
        ELSE IF q = o /\ m = x THEN z
        ELSE t.child[q][m]
  BY DEF Rotated, Turned, z
<1>9. \A m \in Nodes : t2.parent[m] =
        IF m = x THEN y ELSE IF m = y THEN p ELSE IF m = z THEN x ELSE t.parent[m]
  BY DEF Rotated, Turned, z
<1>10. T \subseteq Nodes /\ C \subseteq Nodes /\ T \cap C = {}
  BY DEF Forest
<1>11. LinksAgree(t2)
  <2> SUFFICES ASSUME NEW m \in Places, NEW q \in Sides, t2.child[q][m] # Null
               PROVE  t2.parent[t2.child[q][m]] = m /\ t2.child[q][m] # t2.child[Other(q)][m]
    BY DEF LinksAgree
  <2>1. Other(q) \in Sides /\ Other(q) # q
    BY TwoSides
  <2> DEFINE k == t.child[q][m]
             l == t.child[Other(q)][m]
  <2>2. /\ k # Null => k \in Nodes /\ t.parent[k] = m /\ k # l
        /\ l # Null => l \in Nodes /\ t.parent[l] = m
    BY <2>1, TreeFields DEF Forest, LinksAgree
  <2>3. CASE q = s /\ m = y
    <3>1. t2.child[q][m] = x /\ t2.child[Other(q)][m] = l /\ t2.parent[x] = m
      BY <1>1, <1>2, <1>5, <1>8, <1>9, <2>1, <2>3
    <3>2. QED
      BY <1>2, <1>5, <2>2, <2>3, <3>1
  <2>4. CASE q = d /\ m = p
    <3>1. t2.child[q][m] = y /\ t2.child[Other(q)][m] = l /\ t2.parent[y] = m
      BY <1>1, <1>2, <1>3, <1>5, <1>8, <1>9, <2>1, <2>4
    <3>2. QED
      BY <1>2, <1>5, <2>2, <2>4, <3>1
  <2>5. CASE q = o /\ m = x
    <3>1. t2.child[q][m] = z /\ t2.child[Other(q)][m] = l /\ (z # Null => t2.parent[z] = m)
      BY <1>1, <1>2, <1>5, <1>7, <1>8, <1>9, <2>1, <2>5
    <3>2. QED
      BY <1>2, <1>5, <1>7, <2>2, <2>5, <3>1
  <2>6. CASE ~(q = s /\ m = y) /\ ~(q = d /\ m = p) /\ ~(q = o /\ m = x)
    <3>1. t2.child[q][m] = k
      BY <1>8, <2>6
    <3>2. k # x
      BY <1>1, <1>2, <1>3, <1>4, <2>1, <2>2, <2>6, TwoSides
    <3>3. k # y
      BY <1>1, <1>5, <2>1, <2>2, <2>6, <3>1
    <3>4. k # z
      BY <1>1, <1>7, <2>1, <2>2, <2>6, <3>1 DEF z
    <3>5. t2.parent[k] = m
      BY <1>9, <2>2, <3>1, <3>2, <3>3, <3>4
    <3>6. t2.child[Other(q)][m] \in {l, x, y, z}
      BY <1>8, <2>1
    <3>7. QED
      BY <2>2, <3>1, <3>2, <3>3, <3>4, <3>5, <3>6
  <2>7. QED
    BY <2>3, <2>4, <2>5, <2>6
<1>12. LinksWithin(t2, T, C)
  <2>1. t2.child["right"][End] = Null
    BY <1>2, <1>4, <1>5, <1>8 DEF Forest, LinksWithin, Places, Sides
  <2>2. ASSUME NEW m \in Places, NEW q \in Sides, t2.child[q][m] # Null
        PROVE  (m \in T \cup {End} /\ t2.child[q][m] \in T) \/ (m \in C /\ t2.child[q][m] \in C)
    <3>1. CASE t2.child[q][m] = t.child[q][m]
      BY <2>2, <3>1 DEF Forest, LinksWithin
    <3>2. CASE t2.child[q][m] # t.child[q][m]
      BY <1>2, <1>5, <1>7, <1>8, <2>2, <3>2
    <3>3. QED
      BY <3>1, <3>2
  <2>3. QED
    BY <2>1, <2>2 DEF LinksWithin
<1>13. LinksUp(t2, T, C)
  <2>1. ASSUME NEW n \in T PROVE t2.parent[n] \in T \cup {End} /\ IsChild(t2, n)
    <3>1. CASE n = x
      <4>1. t2.parent[n] = y /\ t2.child[s][y] = n
        BY <1>2, <1>5, <1>8, <1>9, <3>1
      <4>2. QED
        BY <1>5, <4>1 DEF IsChild
    <3>2. CASE n = y
      <4>1. t2.parent[n] = p /\ t2.child[d][p] = n
        BY <1>2, <1>3, <1>4, <1>5, <1>8, <1>9, <3>2
      <4>2. QED
        BY <1>2, <1>4, <4>1 DEF IsChild
    <3>3. CASE n = z
      <4>1. n # Null /\ t2.parent[n] = x /\ t2.child[o][x] = n
        BY <1>1, <1>2, <1>5, <1>7, <1>8, <1>9, <1>10, <3>3, RBTreeAssumption
      <4>2. QED
        BY <1>1, <1>2, <4>1 DEF IsChild
    <3>4. CASE n \notin {x, y, z}
      <4>1. t2.parent[n] = t.parent[n] /\ t.parent[n] \in T \cup {End} /\ t.parent[n] \in Places
        BY <1>9, <1>10, <3>4 DEF Forest, LinksUp, Places
      <4>2. PICK q \in Sides : t.child[q][t.parent[n]] = n
        BY DEF Forest, LinksUp, IsChild
      <4>3. t2.child[q][t.parent[n]] = n
        BY <1>1, <1>4, <1>8, <3>4, <4>1, <4>2 DEF z
      <4>4. QED
        BY <4>1, <4>3 DEF IsChild
    <3>5. QED
      BY <3>1, <3>2, <3>3, <3>4
  <2>2. \A n \in C : t2.parent[n] = t.parent[n]
    BY <1>2, <1>5, <1>7, <1>9, <1>10, RBTreeAssumption
  <2>3. ASSUME NEW n \in C, t.parent[n] # Null PROVE t2.parent[n] \in C /\ IsChild(t2, n)
    <3>1. t.parent[n] \in C /\ t.parent[n] \in Places
      BY <1>10, <2>3 DEF Forest, LinksUp, Places
    <3>2. t.parent[n] \notin {x, y, p}
      BY <1>2, <1>5, <1>10, <3>1, RBTreeAssumption
    <3>3. PICK q \in Sides : t.child[q][t.parent[n]] = n
      BY <2>3 DEF Forest, LinksUp, IsChild
    <3>4. t2.child[q][t.parent[n]] = n
      BY <1>8, <3>1, <3>2, <3>3
    <3>5. QED
      BY <2>2, <3>1, <3>4 DEF IsChild
  <2>4. \A m, n \in C : t2.parent[m] = Null /\ t2.parent[n] = Null => m = n
    BY <2>2 DEF Forest, LinksUp
  <2>5. QED
    BY <2>1, <2>2, <2>3, <2>4 DEF LinksUp
<1>14. QED
  BY <1>10, <1>11, <1>12, <1>13 DEF Forest

(* A rotation makes no cycle: there is a rank for the turned links.        *)
LEMMA RotateRanked ==
  ASSUME NEW t \in Trees, NEW T, NEW C, NEW e \in Ranks, Forest(t, T, C), Ranked(t, e),
         NEW s \in Sides, NEW x \in T, NEW o, NEW y, NEW d, NEW p, NEW t2,
         o = Other(s), y = t.child[o][x], d = Side(t, x), p = t.parent[x], y # Null,
         Rotated(t, s, x, o, y, d, p, t2)
  PROVE  \E e2 \in Ranks : Ranked(t2, e2)
<1> DEFINE z == t.child[s][y]
           e2 == [n \in Nodes |-> IF n = x THEN 2 * e[x] + 1 ELSE IF n = y THEN 2 * e[x] ELSE 2 * e[n]]
<1>1. PICK M \in Nat : e \in [Nodes -> 0..M]
  BY RanksAre
<1>2. x \in T \cup C /\ x \in Nodes /\ o \in Sides
  BY Above, TwoSides
<1>3. y \in Nodes /\ y # x /\ t.parent[y] = x /\ y \in T \cup C
  BY <1>2, Below
<1>4. z # Null => z \in Nodes /\ t.parent[z] = y
  BY <1>3, Below
<1>5. 2 * M + 1 \in Nat /\ e2 \in [Nodes -> 0..(2 * M + 1)]
  BY <1>1, <1>2
<1>6. e2 \in Ranks
  BY <1>5, RanksFrom
<1>7. ASSUME NEW n \in Nodes, t2.parent[n] \in Nodes PROVE e2[t2.parent[n]] < e2[n]
  <2>1. \A m \in Nodes : e[m] \in Nat
    BY <1>1
  <2>2. \A m \in Nodes : t.parent[m] \in Nodes => e[t.parent[m]] < e[m]
    BY DEF Ranked
  <2>3. e[x] < e[y]
    BY <1>2, <1>3, <2>2
  <2>4. t2.parent[n] = IF n = x THEN y ELSE IF n = y THEN p ELSE IF n = z THEN x ELSE t.parent[n]
    BY DEF Rotated, Turned
  <2>5. CASE n = x
    BY <1>2, <1>3, <2>1, <2>4, <2>5
  <2>6. CASE n = y
    <3>1. t2.parent[n] = p /\ e[p] < e[x]
      BY <1>2, <1>3, <1>7, <2>2, <2>4, <2>6
    <3>2. p # x /\ p # y
      BY <1>2, <1>3, <2>1, <2>3, <3>1
    <3>3. QED
      BY <1>2, <1>3, <1>7, <2>1, <2>6, <3>1, <3>2
  <2>7. CASE n = z /\ n \notin {x, y}
    <3>1. t2.parent[n] = x /\ e[y] < e[n]
      BY <1>3, <1>4, <2>2, <2>4, <2>7, RBTreeAssumption
    <3>2. QED
      BY <1>2, <1>3, <2>1, <2>3, <2>7, <3>1
  <2>8. CASE n \notin {x, y, z}
    <3>1. t2.parent[n] = t.parent[n] /\ e[t.parent[n]] < e[n]
      BY <1>7, <2>2, <2>4, <2>8
    <3>2. QED
      BY <1>2, <1>3, <1>7, <2>1, <2>3, <2>8, <3>1
  <2>9. QED
    BY <2>5, <2>6, <2>7, <2>8
<1>8. QED
  BY <1>6, <1>7 DEF Ranked

(* A rotation leaves the first node at the end of the left spine.          *)
LEMMA RotateSpine ==
  ASSUME NEW t \in Trees, NEW T, NEW C, NEW e \in Ranks, Forest(t, T, C), Ranked(t, e),
         NEW s \in Sides, NEW x \in T, NEW o, NEW y, NEW d, NEW p, NEW t2,
         o = Other(s), y = t.child[o][x], d = Side(t, x), p = t.parent[x], y # Null,
         Rotated(t, s, x, o, y, d, p, t2),
         NEW first, NEW sp \in SUBSET Places, Spine(t, T, sp, first)
  PROVE  \E sp2 \in SUBSET Places : Spine(t2, T, sp2, first)
<1> DEFINE z == t.child[s][y]
           sp2 == IF x \notin sp THEN sp ELSE IF s = "left" THEN sp \cup {y} ELSE sp \ {x}
<1>1. o \in Sides /\ o # s /\ (s = "left" \/ o = "left") /\ "left" \in Sides
  BY TwoSides DEF Sides
<1>2. /\ x \in T \cup C /\ x \in Nodes /\ x \in Places /\ x # End /\ x # Null
      /\ p # x /\ p \in T \cup {End} /\ T \subseteq Nodes
  BY Above DEF Forest
<1>3. p # Null /\ p \in Places
  BY <1>2, RBTreeAssumption DEF Places
<1>4. d \in Sides /\ t.child[d][p] = x /\ t.child[Other(d)][p] # x
  BY <1>2, <1>3, Above
<1>5. y \in Nodes /\ y \in Places /\ y \in T /\ y # x /\ t.parent[y] = x /\ y # p /\ y # End
  BY <1>1, <1>2, Below
<1>6. y \in T \cup C
  BY <1>5
<1>7. z # Null => z \in Nodes /\ z \in T /\ z # y /\ t.parent[z] = y /\ z # x
  BY <1>5, <1>6, Below
<1> HIDE DEF z
<1>8. \A m \in Places : t2.child["left"][m] =
        IF "left" = s /\ m = y THEN x
        ELSE IF "left" = d /\ m = p THEN y
        ELSE IF "left" = o /\ m = x THEN z
        ELSE t.child["left"][m]
  BY <1>1 DEF Rotated, Turned, z
<1>9. \A m \in Nodes : t2.parent[m] =
        IF m = x THEN y ELSE IF m = y THEN p ELSE IF m = z THEN x ELSE t.parent[m]
  BY DEF Rotated, Turned, z
<1>10. x \in sp => p \in sp /\ d = "left"
  BY <1>1, <1>2, <1>4 DEF Spine, Side
<1>11. p \in sp /\ d = "left" => x \in sp
  BY <1>2, <1>4 DEF Spine
<1>12. y \in sp <=> x \in sp /\ o = "left"
  <2>1. y \in sp => t.child["left"][x] = y
    BY <1>5 DEF Spine
  <2>2. y \in sp => x \in sp
    BY <1>5 DEF Spine
  <2>3. t.child["left"][x] = y => o = "left"
    BY <1>1, <1>2, <1>5, TwoSides DEF Forest, LinksAgree, Other
  <2>4. x \in sp /\ o = "left" => y \in sp
    BY <1>5, RBTreeAssumption DEF Spine
  <2>5. QED
    BY <2>1, <2>2, <2>3, <2>4
<1>13. z # Null => (z \in sp <=> y \in sp /\ s = "left")
  <2> SUFFICES ASSUME z # Null PROVE z \in sp <=> y \in sp /\ s = "left"
    OBVIOUS
  <2>1. z \in sp => t.child["left"][y] = z /\ y \in sp
    BY <1>2, <1>7, RBTreeAssumption DEF Spine
  <2>2. t.child["left"][y] = z => s = "left"
    BY <1>1, <1>5, TwoSides DEF Forest, LinksAgree, Other, z
  <2>3. y \in sp /\ s = "left" => z \in sp
    BY DEF Spine, z
  <2>4. QED
    BY <2>1, <2>2, <2>3
<1>14. sp2 \in SUBSET Places /\ sp2 \subseteq T \cup {End} /\ End \in sp2
  BY <1>2, <1>5 DEF Spine
<1>15. first \in sp2
  BY <1>1, <1>5, RBTreeAssumption DEF Spine
<1>16. ASSUME NEW m \in sp2
       PROVE  /\ t2.child["left"][m] # Null => t2.child["left"][m] \in sp2
              /\ t2.child["left"][m] = Null <=> m = first
  <2>1. CASE x \notin sp
    <3>1. m \in sp /\ m \in Places /\ m # y /\ m # x /\ ~("left" = d /\ m = p)
      BY <1>1, <1>11, <1>12, <2>1, <1>14
    <3>2. t2.child["left"][m] = t.child["left"][m]
      BY <1>8, <3>1
    <3>3. QED
      BY <2>1, <3>1, <3>2 DEF Spine
  <2>2. CASE x \in sp /\ s = "left"
    <3>1. p \in sp /\ d = "left" /\ o # "left" /\ sp2 = sp \cup {y} /\ first \in sp
      BY <1>1, <1>10, <2>2 DEF Spine
    <3>2. y \notin sp
      BY <1>12, <3>1
    <3>3. m \in Places
      BY <1>14
    <3>4. CASE m = y
      BY <1>2, <1>5, <1>8, <2>2, <3>1, <3>2, <3>4, RBTreeAssumption
    <3>5. CASE m = p
      BY <1>2, <1>3, <1>4, <1>5, <1>8, <2>2, <3>1, <3>5 DEF Spine
    <3>6. CASE m \notin {y, p}
      <4>1. m \in sp /\ t2.child["left"][m] = t.child["left"][m]
        BY <1>1, <1>8, <3>1, <3>3, <3>6
      <4>2. QED
        BY <3>1, <4>1 DEF Spine
    <3>7. QED
      BY <3>4, <3>5, <3>6
  <2>3. CASE x \in sp /\ s # "left"
    <3>1. p \in sp /\ d = "left" /\ o = "left" /\ sp2 = sp \ {x} /\ y \in sp
      BY <1>1, <1>10, <1>12, <2>3
    <3>2. m \in Places /\ m # x /\ m \in sp
      BY <1>14, <3>1
    <3>3. CASE m = p
      <4>1. t2.child["left"][m] = y /\ y # Null
        BY <1>5, <1>8, <2>3, <3>1, <3>2, <3>3
      <4>2. m # first
        BY <1>2, <1>4, <3>1, <3>3 DEF Spine
      <4>3. QED
        BY <1>5, <3>1, <4>1, <4>2
    <3>4. CASE m # p
      <4>1. t2.child["left"][m] = t.child["left"][m]
        BY <1>8, <2>3, <3>2, <3>4
      <4>2. t.child["left"][m] # x
        BY <1>2, <3>2, <3>4 DEF Forest, LinksAgree, Sides
      <4>3. QED
        BY <3>1, <3>2, <4>1, <4>2 DEF Spine
    <3>5. QED
      BY <3>3, <3>4
  <2>4. QED
    BY <2>1, <2>2, <2>3
<1>17. ASSUME NEW m \in sp2 \ {End}
       PROVE  t2.parent[m] \in sp2 /\ t2.child["left"][t2.parent[m]] = m
  <2>1. m \in Nodes /\ m # Null
    BY <1>2, <1>14, RBTreeAssumption
  <2>2. CASE x \notin sp
    <3>1. m \in sp /\ m # x /\ m # y /\ m # z
      BY <1>12, <1>13, <2>1, <2>2
    <3>2. t2.parent[m] = t.parent[m] /\ t.parent[m] \in sp /\ t.child["left"][t.parent[m]] = m
      BY <1>9, <2>1, <3>1 DEF Spine
    <3>3. t.parent[m] \in Places /\ t.parent[m] # x /\ t.parent[m] # y /\ ~("left" = d /\ t.parent[m] = p)
      BY <1>1, <1>11, <1>12, <1>14, <2>2, <3>2
    <3>4. t2.child["left"][t.parent[m]] = m
      BY <1>8, <3>2, <3>3
    <3>5. QED
      BY <2>2, <3>2, <3>4
  <2>3. CASE x \in sp /\ s = "left"
    <3>1. p \in sp /\ d = "left" /\ o # "left" /\ sp2 = sp \cup {y}
      BY <1>1, <1>10, <2>3
    <3>2. y \notin sp
      BY <1>12, <3>1
    <3>3. CASE m = x
      BY <1>2, <1>5, <1>8, <1>9, <2>3, <3>1, <3>3
    <3>4. CASE m = y
      BY <1>2, <1>3, <1>5, <1>8, <1>9, <2>3, <3>1, <3>4
    <3>5. CASE m \notin {x, y}
      <4>1. m \in sp /\ m # z
        BY <1>13, <2>1, <3>1, <3>2, <3>5
      <4>2. t2.parent[m] = t.parent[m] /\ t.parent[m] \in sp /\ t.child["left"][t.parent[m]] = m
        BY <1>9, <2>1, <3>5, <4>1 DEF Spine
      <4>3. t.parent[m] # p /\ t.parent[m] # y /\ t.parent[m] \in Places
        BY <1>4, <1>14, <3>1, <3>2, <3>5, <4>2
      <4>4. QED
        BY <1>1, <1>8, <3>1, <4>2, <4>3
    <3>6. QED
      BY <3>3, <3>4, <3>5
  <2>4. CASE x \in sp /\ s # "left"
    <3>1. p \in sp /\ d = "left" /\ o = "left" /\ sp2 = sp \ {x} /\ y \in sp
      BY <1>1, <1>10, <1>12, <2>4
    <3>2. m # x /\ m \in sp
      BY <3>1
    <3>3. CASE m = y
      BY <1>2, <1>3, <1>5, <1>8, <1>9, <2>4, <3>1, <3>3
    <3>4. CASE m # y
      <4>1. m # z
        BY <1>13, <2>1, <2>4, <3>1, <3>2
      <4>2. t2.parent[m] = t.parent[m] /\ t.parent[m] \in sp /\ t.child["left"][t.parent[m]] = m
        BY <1>9, <2>1, <3>2, <3>4, <4>1 DEF Spine
      <4>3. t.parent[m] # x /\ t.parent[m] # p /\ t.parent[m] \in Places
        BY <1>4, <1>5, <1>12, <1>14, <3>1, <3>2, <3>4, <4>2, TwoSides DEF Spine
      <4>4. QED
        BY <1>1, <1>8, <2>4, <3>1, <4>2, <4>3
    <3>5. QED
      BY <3>3, <3>4
  <2>5. QED
    BY <2>2, <2>3, <2>4
<1>18. QED
  BY <1>14, <1>15, <1>16, <1>17 DEF Spine

(* A rotation keeps the shape of the links.                                *)
LEMMA RotateShape ==
  ASSUME NEW t \in Trees, NEW T, NEW C, NEW first, Shape(t, T, C, first),
         NEW s \in Sides, NEW x \in T, t.child[Other(s)][x] # Null
  PROVE  /\ Rotate(t, s, x) \in Trees /\ Shape(Rotate(t, s, x), T, C, first)
         /\ Rotated(t, s, x, Other(s), t.child[Other(s)][x], Side(t, x), t.parent[x], Rotate(t, s, x))
<1> DEFINE o == Other(s)
           y == t.child[o][x]
           d == Side(t, x)
           p == t.parent[x]
           t2 == Rotate(t, s, x)
<1>1. PICK e \in Ranks, sp \in SUBSET Places : Forest(t, T, C) /\ Ranked(t, e) /\ Spine(t, T, sp, first)
  BY DEF Shape
<1>2. x \in T \cup C /\ o \in Sides
  BY TwoSides
<1>3. x \in Nodes /\ p \in T \cup {End}
  BY <1>1, <1>2, Above
<1>4. y \in Nodes /\ p \in Places
  BY <1>1, <1>2, <1>3, Below DEF Forest, Places
<1>5. Rotated(t, s, x, o, y, d, p, t2)
  BY <1>3, <1>4, RotateIs
<1> HIDE DEF o, y, d, p, t2
<1>6. Forest(t2, T, C)
  BY <1>1, <1>5, RotateForest DEF o, y, d, p
<1>7. PICK e2 \in Ranks : Ranked(t2, e2)
  BY <1>1, <1>5, RotateRanked DEF o, y, d, p
<1>8. PICK sp2 \in SUBSET Places : Spine(t2, T, sp2, first)
  BY <1>1, <1>5, RotateSpine DEF o, y, d, p
<1>9. Shape(t2, T, C, first) /\ t2 \in Trees
  BY <1>5, <1>6, <1>7, <1>8 DEF Shape, Rotated, Turned
<1>10. QED
  BY <1>5, <1>9 DEF o, y, d, p, t2

(* Colours have nothing to do with it.                                     *)
LEMMA PaintShape ==
  ASSUME NEW t \in Trees, NEW T, NEW C, NEW first, Shape(t, T, C, first),
         NEW n \in Nodes, NEW b \in BOOLEAN
  PROVE  /\ Paint(t, n, b) \in Trees /\ Shape(Paint(t, n, b), T, C, first)
         /\ Painted(t, n, b, Paint(t, n, b))
<1> DEFINE t2 == Paint(t, n, b)
<1>1. Painted(t, n, b, t2)
  BY PaintIs
<1> HIDE DEF t2
<1>2. t2 \in Trees /\ t2.child = t.child /\ t2.parent = t.parent
  BY <1>1 DEF Painted
<1>3. PICK e \in Ranks, sp \in SUBSET Places : Forest(t, T, C) /\ Ranked(t, e) /\ Spine(t, T, sp, first)
  BY DEF Shape
<1>4. LinksAgree(t2) /\ LinksWithin(t2, T, C)
  BY <1>2, <1>3 DEF Forest, LinksAgree, LinksWithin
<1>5. LinksUp(t2, T, C)
  BY <1>2, <1>3, Zenon DEF Forest, LinksUp, IsChild
<1>6. Forest(t2, T, C)
  BY <1>3, <1>4, <1>5 DEF Forest
<1>7. Ranked(t2, e)
  BY <1>2, <1>3 DEF Ranked
<1>8. Spine(t2, T, sp, first)
  BY <1>2, <1>3, Zenon DEF Spine
<1>9. Shape(t2, T, C, first)
  BY <1>6, <1>7, <1>8 DEF Shape
<1>10. QED
  BY <1>1, <1>2, <1>9 DEF t2

-----------------------------------------------------------------------------
(***************************************************************************)
(* The colours.                                                            *)
(***************************************************************************)
(* The height of a node, given that of a child.                            *)
Climbs(upper, lower, lacks, black) ==
  /\ lacks /\ black => upper = lower + 2
  /\ (lacks <=> ~black) => upper = lower + 1
  /\ ~lacks /\ ~black => upper = lower

(* b is the number of black nodes down from a node, with the leaf, and the *)
(* hole on side gs of gp lacks one.                                        *)
Heights(t, T, gp, gs, b) ==
  /\ b[Null] = 1
  /\ \A n \in T, s \in Sides :
       Climbs(b[n], b[t.child[s][n]], n = gp /\ s = gs, t.black[n])

Counts == [Nodes \cup {Null} -> Nat \ {0}]

(* No red node but the tip has a red parent.                               *)
Reds(t, T, tip) ==
  /\ Root(t) # Null => t.black[Root(t)]
  /\ \A n \in T, s \in Sides :
       ~t.black[n] /\ t.child[s][n] # Null /\ t.child[s][n] # tip => t.black[t.child[s][n]]

Balanced(t, T, gp, gs, tip) ==
  Reds(t, T, tip) /\ \E b \in Counts : Heights(t, T, gp, gs, b)

(* A node that is not the root hangs below another one, on a side.         *)
LEMMA Inner ==
  ASSUME NEW t \in Trees, NEW T, NEW C, NEW first, Shape(t, T, C, first),
         NEW x \in T, NEW p, p = t.parent[x], NEW d, d = Side(t, x), NEW o, o = Other(d),
         x # Root(t)
  PROVE  /\ x \in Nodes /\ p \in T /\ p \in Nodes /\ p # x /\ t.parent[p] # x
         /\ d \in Sides /\ o \in Sides /\ d # o /\ d = Other(o) /\ (\A q \in Sides : q = d \/ q = o)
         /\ t.child[d][p] = x /\ t.child[o][p] # x
<1>1. PICK e \in Ranks, sp \in SUBSET Places : Forest(t, T, C) /\ Ranked(t, e) /\ Spine(t, T, sp, first)
  BY DEF Shape
<1>2. x \in T \cup C
  OBVIOUS
<1>3. /\ x \in Nodes /\ p \in T \cup {End} /\ p # x /\ (p \in Nodes => t.parent[p] # x)
      /\ d \in Sides /\ t.child[d][p] = x /\ t.child[o][p] # x /\ (p = End => d = "left")
  <2>1. x \in Nodes /\ p \in T \cup {End} /\ p # x /\ (p \in Nodes => t.parent[p] # x)
    BY <1>1, <1>2, Above
  <2>2. p # Null
    BY <1>1, <2>1, RBTreeAssumption DEF Forest
  <2>3. QED
    BY <1>1, <1>2, <2>1, <2>2, Above
<1>4. p # End
  BY <1>3 DEF Root
<1>5. p \in T /\ p \in Nodes
  BY <1>1, <1>3, <1>4 DEF Forest
<1>6. QED
  BY <1>3, <1>5, TwoSides

(* A child has another parent than its parent's sibling or child.          *)
LEMMA Child ==
  ASSUME NEW t \in Trees, NEW T, NEW C, NEW first, Shape(t, T, C, first),
         NEW n \in T, NEW s \in Sides, NEW m, m = t.child[s][n], m # Null
  PROVE  /\ m \in T /\ m \in Nodes /\ t.parent[m] = n /\ m # n /\ m # t.parent[n] /\ m # Root(t)
         /\ m # t.child[Other(s)][n] /\ n \in Nodes /\ Side(t, m) = s
<1>1. PICK e \in Ranks, sp \in SUBSET Places : Forest(t, T, C) /\ Ranked(t, e) /\ Spine(t, T, sp, first)
  BY DEF Shape
<1>2. n \in T \cup C
  OBVIOUS
<1>3. m \in T /\ m \in Nodes /\ t.parent[m] = n /\ m # n /\ m # t.parent[n] /\ n \in Nodes /\ n # End
  BY <1>1, <1>2, Below, Above
<1>4. n \in Places /\ End \in Places
  BY <1>3 DEF Places
<1>5. m # t.child[Other(s)][n]
  BY <1>1, <1>4 DEF Forest, LinksAgree
<1>6. m # Root(t)
  BY <1>1, <1>3, <1>4, TwoSides DEF Forest, LinksAgree, Root
<1>7. Side(t, m) = s
  BY <1>3, <1>5, TwoSides DEF Side, Sides, Other
<1>8. QED
  BY <1>3, <1>5, <1>6, <1>7

(* The root is the node below the end node.                                *)
LEMMA RootIs ==
  ASSUME NEW t \in Trees, NEW T, NEW C, NEW first, Shape(t, T, C, first)
  PROVE  /\ T \subseteq Nodes /\ C \subseteq Nodes /\ Null \notin T /\ End \notin T
         /\ Root(t) # Null => Root(t) \in T /\ t.parent[Root(t)] = End
         /\ \A x \in T : t.parent[x] = End => x = Root(t)
<1>1. PICK e \in Ranks, sp \in SUBSET Places : Forest(t, T, C) /\ Ranked(t, e) /\ Spine(t, T, sp, first)
  BY DEF Shape
<1>2. T \subseteq Nodes /\ C \subseteq Nodes /\ Null \notin T /\ End \notin T /\ End \notin C
  BY <1>1, RBTreeAssumption DEF Forest
<1>3. End \in Places /\ "left" \in Sides
  BY DEF Places, Sides
<1>4. ASSUME NEW r, r = t.child["left"][End], r # Null PROVE r \in T /\ t.parent[r] = End
  <2>1. r \in T
    BY <1>1, <1>2, <1>3, <1>4 DEF Forest, LinksWithin
  <2>2. t.parent[r] = End
    BY <1>1, <1>3, <1>4 DEF Forest, LinksAgree
  <2>3. QED
    BY <2>1, <2>2
<1>5. ASSUME NEW x \in T, t.parent[x] = End PROVE x = Root(t)
  <2>1. x \in T \cup C /\ End # Null
    BY RBTreeAssumption
  <2>2. t.child[Side(t, x)][End] = x /\ Side(t, x) = "left"
    BY <1>1, <1>5, <2>1, Above
  <2>3. QED
    BY <2>2 DEF Root
<1>6. QED
  BY <1>2, <1>4, <1>5 DEF Root

(* Nothing below the nodes of the cache changes.                           *)
CacheKept(t, C, t2) == \A m \in C, s \in Sides : t2.child[s][m] = t.child[s][m]

(* Two changes that leave the cache alone leave it alone together.         *)
LEMMA CacheKeptTwice ==
  ASSUME NEW C, NEW t, NEW t1, NEW t2, CacheKept(t, C, t1), CacheKept(t1, C, t2)
  PROVE  CacheKept(t, C, t2)
BY DEF CacheKept

(* A rotation in the tree leaves the cache alone.                          *)
LEMMA TurnedKeepsCache ==
  ASSUME NEW t \in Trees, NEW T, NEW C, NEW first, Shape(t, T, C, first),
         NEW s, NEW o, NEW d, NEW x \in T, NEW y \in T, NEW p \in T \cup {End},
         NEW t2, Turned(t, s, x, o, y, d, p, t2)
  PROVE  CacheKept(t, C, t2)
<1>1. C \subseteq Nodes /\ T \cap C = {} /\ End \notin Nodes
  BY RBTreeAssumption DEF Shape, Forest
<1>2. \A m \in C : m \in Places /\ m # x /\ m # y /\ m # p
  BY <1>1 DEF Places
<1>3. QED
  BY <1>2 DEF CacheKept, Turned

(* The loop of an insertion, with a red uncle.                             *)
RedUncle(t, x, p, g, u, t2) ==
  /\ p = t.parent[x] /\ g = t.parent[p] /\ u = Sibling(t, p)
  /\ x # Root(t) /\ IsRed(t, p) /\ IsRed(t, u)
  /\ t2 = Paint(Paint(Paint(t, p, TRUE), g, g = Root(t)), u, TRUE)

(* Recolouring moves the red node with a red parent up to the grandparent. *)
LEMMA RecolourBalanced ==
  ASSUME NEW t \in Trees, NEW T, NEW C, NEW first, Shape(t, T, C, first),
         NEW x \in T, NEW p, NEW g, NEW u, Balanced(t, T, Null, "left", x),
         NEW t2, RedUncle(t, x, p, g, u, t2)
  PROVE  /\ t2 \in Trees /\ Shape(t2, T, C, first) /\ Balanced(t2, T, Null, "left", g)
         /\ g \in T /\ Root(t2) = Root(t) /\ (t2.black[g] <=> g = Root(t))
<1> SUFFICES ASSUME p = t.parent[x], g = t.parent[p], u = Sibling(t, p),
                    x # Root(t), IsRed(t, p), IsRed(t, u),
                    t2 = Paint(Paint(Paint(t, p, TRUE), g, g = Root(t)), u, TRUE)
             PROVE  /\ t2 \in Trees /\ Shape(t2, T, C, first) /\ Balanced(t2, T, Null, "left", g)
                    /\ g \in T /\ Root(t2) = Root(t) /\ (t2.black[g] <=> g = Root(t))
  BY DEF RedUncle
<1> DEFINE d == Side(t, p)
           o == Other(d)
           r == Root(t)
           t3 == Paint(t, p, TRUE)
           t4 == Paint(t3, g, g = r)
<1>1. p \in T /\ p \in Nodes /\ x # p
  BY Inner
<1>2. p # r
  BY <1>1 DEF Balanced, Reds, IsRed
<1>3. /\ g \in T /\ g \in Nodes /\ g # p /\ d \in Sides /\ o \in Sides /\ d # o /\ d = Other(o)
      /\ (\A q \in Sides : q = d \/ q = o) /\ t.child[d][g] = p /\ t.child[o][g] = u
  <2> HIDE DEF d, o
  <2>1. d = Side(t, p) /\ o = Other(d) /\ p # Root(t)
    BY <1>2 DEF d, o
  <2>2. /\ g \in T /\ g \in Nodes /\ g # p /\ d \in Sides /\ o \in Sides /\ d # o /\ d = Other(o)
        /\ (\A q \in Sides : q = d \/ q = o) /\ t.child[d][g] = p
    BY <1>1, <2>1, Inner
  <2>3. t.child[o][g] = u
    BY ZenonT(30) DEF Sibling, d, o
  <2>4. QED
    BY <2>2, <2>3
<1>4. u # Null /\ u \in T /\ u \in Nodes /\ u # g /\ u # p /\ u # r /\ t.parent[u] = g
  BY <1>3, Child DEF IsRed
<1> HIDE DEF r
<1>5. t3 \in Trees /\ Shape(t3, T, C, first) /\ Painted(t, p, TRUE, t3)
  BY <1>1, PaintShape
<1> HIDE DEF t3
<1>6. t4 \in Trees /\ Shape(t4, T, C, first) /\ Painted(t3, g, g = r, t4)
  BY <1>3, <1>5, PaintShape
<1> HIDE DEF t4
<1>7. t2 \in Trees /\ Shape(t2, T, C, first) /\ Painted(t4, u, TRUE, t2)
  BY <1>4, <1>6, PaintShape DEF t4, t3, r
<1>8. t2.child = t.child
  BY <1>5, <1>6, <1>7 DEF Painted
<1>9. /\ t2.black[p] /\ t2.black[u] /\ (t2.black[g] <=> g = r)
      /\ \A m \in Nodes : m \notin {p, g, u} => (t2.black[m] <=> t.black[m])
  <2>1. t2.black[p] /\ t2.black[u] /\ (t2.black[g] <=> g = r)
    BY <1>1, <1>3, <1>4, <1>5, <1>6, <1>7, ZenonT(30) DEF Painted
  <2>2. \A m \in Nodes : m \notin {p, g, u} => (t2.black[m] <=> t.black[m])
    BY <1>5, <1>6, <1>7 DEF Painted
  <2>3. QED
    BY <2>1, <2>2
<1>10. T \subseteq Nodes
  BY DEF Shape, Forest
<1>11. t.black[g]
  BY <1>1, <1>3, RBTreeAssumption DEF Balanced, Reds, IsRed
<1>12. PICK b \in Counts : Heights(t, T, Null, "left", b)
  BY DEF Balanced
<1> DEFINE b2 == [n \in Nodes \cup {Null} |-> IF n = p \/ n = u \/ (n = g /\ g = r) THEN b[n] + 1 ELSE b[n]]
<1>13. b2 \in Counts
  BY <1>12 DEF Counts
<1>14. Heights(t2, T, Null, "left", b2)
  <2>1. b2[Null] = 1
    BY <1>1, <1>3, <1>4, <1>12, RBTreeAssumption DEF Heights
  <2>2. ASSUME NEW n \in T, NEW s \in Sides
        PROVE  Climbs(b2[n], b2[t2.child[s][n]], n = Null /\ s = "left", t2.black[n])
    <3> DEFINE k == t.child[s][n]
    <3>1. n \in Nodes /\ n # Null /\ k \in Nodes \cup {Null} /\ t2.child[s][n] = k
      BY <1>8, <1>10, TreeFields, RBTreeAssumption DEF Places
    <3>2. Climbs(b[n], b[k], FALSE, t.black[n])
      BY <1>12, <3>1 DEF Heights
    <3>3. k # Null => k \in T /\ t.parent[k] = n /\ k # n /\ k # t.parent[n] /\ k # r
      BY Child DEF r
    <3>4. n = g => k \in {p, u}
      BY <1>3
    <3> HIDE DEF k
    <3>5. k \in {p, u} => n = g
      BY <1>1, <1>3, <1>4, <3>3, RBTreeAssumption
    <3>6. k = g => g # r
      BY <1>3, <3>3, RBTreeAssumption
    <3>7. /\ b[n] \in Nat /\ b[k] \in Nat
          /\ b2[n] = IF n = p \/ n = u \/ (n = g /\ g = r) THEN b[n] + 1 ELSE b[n]
          /\ b2[k] = IF k = p \/ k = u \/ (k = g /\ g = r) THEN b[k] + 1 ELSE b[k]
      BY <1>12, <3>1 DEF Counts
    <3> HIDE DEF b2
    <3>8. Climbs(b2[n], b2[k], FALSE, t2.black[n])
      <4>1. CASE n = g
        <5>1. b[n] = b[k] + 1 /\ b2[k] = b[k] + 1
          BY <1>3, <1>4, <1>11, <3>2, <3>4, <3>7, <4>1 DEF Climbs
        <5>2. CASE g = r
          BY <1>3, <1>4, <1>9, <3>7, <4>1, <5>1, <5>2 DEF Climbs
        <5>3. CASE g # r
          BY <1>3, <1>4, <1>9, <3>7, <4>1, <5>1, <5>3 DEF Climbs
        <5>4. QED
          BY <5>2, <5>3
      <4>2. CASE n \in {p, u}
        <5>1. ~t.black[n] /\ t2.black[n] /\ n # g
          BY <1>3, <1>4, <1>9, <4>2 DEF IsRed
        <5>2. k \notin {p, u} /\ (k = g => g # r)
          BY <3>5, <3>6, <5>1
        <5>3. b2[n] = b[n] + 1 /\ b2[k] = b[k]
          BY <3>7, <4>2, <5>2
        <5>4. QED
          BY <3>2, <3>7, <5>1, <5>3 DEF Climbs
      <4>3. CASE n \notin {p, g, u}
        BY <1>9, <3>1, <3>2, <3>5, <3>6, <3>7, <4>3 DEF Climbs
      <4>4. QED
        BY <4>1, <4>2, <4>3
    <3>9. QED
      BY <3>1, <3>8, ZenonT(30) DEF Climbs
  <2>3. QED
    BY <2>1, <2>2, ZenonT(30) DEF Heights
<1>15. Reds(t2, T, g)
  <2>1. Root(t2) = r /\ (r # Null => t2.black[r])
    <3>1. Root(t2) = r /\ (r # Null => t.black[r] /\ r \in Nodes)
      BY <1>8, TreeFields DEF Balanced, Reds, Root, r, Places, Sides
    <3>2. QED
      BY <1>2, <1>4, <1>9, <3>1
  <2>2. ASSUME NEW n \in T, NEW s \in Sides, ~t2.black[n], t2.child[s][n] # Null, t2.child[s][n] # g
        PROVE  t2.black[t2.child[s][n]]
    <3> DEFINE k == t.child[s][n]
    <3>1. k # Null /\ t2.child[s][n] = k /\ k # g
      BY <1>8, <2>2
    <3>2. n \in Nodes /\ k \in Nodes /\ t.parent[k] = n
      BY <3>1, Child
    <3>3. n \notin {p, u}
      BY <1>9, <2>2
    <3>4. CASE k \in {p, u}
      BY <1>9, <3>1, <3>4
    <3>5. CASE k \notin {p, u}
      <4>1. k # x
        BY <3>2, <3>3
      <4>2. n # g => ~t.black[n]
        BY <1>9, <2>2, <3>1, <3>2, <3>3
      <4>3. n = g => k \in {p, u}
        BY <1>3
      <4>4. t.black[k]
        BY <1>8, <2>2, <3>1, <3>5, <4>1, <4>2, <4>3 DEF Balanced, Reds
      <4>5. QED
        BY <1>9, <3>1, <3>2, <3>5, <4>4
    <3>7. QED
      BY <3>1, <3>4, <3>5, ZenonT(30)
  <2>3. QED
    BY <2>1, <2>2, ZenonT(30) DEF Reds
<1>16. QED
  BY <1>3, <1>7, <1>8, <1>9, <1>13, <1>14, <1>15, ZenonT(30) DEF Balanced, Root, r

(* What is around x and y, before and after the links are turned.          *)
Turn(t, T, s, x, o, y, d, p, z, w, c, t2) ==
  /\ o \in Sides /\ o # s /\ (\A q \in Sides : q = s \/ q = o)
  /\ y \in T /\ y \in Nodes /\ t.parent[y] = x /\ y # x /\ y # p /\ y # Root(t) /\ x \in Nodes
  /\ z # Null => z \in Nodes /\ t.parent[z] = y /\ z # y /\ z # x
  /\ w # Null => w \in Nodes /\ t.parent[w] = y /\ w # y /\ w # x
  /\ c # Null => c \in Nodes /\ t.parent[c] = x /\ c # x /\ c # y
  /\ x # Null /\ y # Null /\ p # x /\ d \in Sides /\ t.child[d][p] = x
  /\ t2.child[s][y] = x /\ t2.child[d][p] = y /\ t2.child[o][x] = z
  /\ t2.child[o][y] = w /\ t2.child[s][x] = c
  /\ \A n \in T : n \in Nodes /\ n # Null
  /\ \A n \in T \ {x, y}, q \in Sides : ~(n = p /\ q = d) =>
       /\ t2.child[q][n] = t.child[q][n]
       /\ t.child[q][n] # Null => t.child[q][n] \in Nodes \ {x, y} /\ t.parent[t.child[q][n]] = n
  /\ Root(t2) = IF x = Root(t) THEN y ELSE Root(t)

(* The links around a rotation, one by one.                                *)
LEMMA TurnIs ==
  ASSUME NEW t \in Trees, NEW T, NEW C, NEW first, Shape(t, T, C, first),
         NEW s \in Sides, NEW x \in T, NEW o, o = Other(s), NEW y, y = t.child[o][x], y # Null,
         NEW d, d = Side(t, x), NEW p, p = t.parent[x], NEW t2, Turned(t, s, x, o, y, d, p, t2)
  PROVE  Turn(t, T, s, x, o, y, d, p, t.child[s][y], t.child[o][y], t.child[s][x], t2)
<1> DEFINE z == t.child[s][y]
           w == t.child[o][y]
           c == t.child[s][x]
<1>1. o \in Sides /\ o # s /\ (\A q \in Sides : q = s \/ q = o) /\ Other(s) = o /\ Other(o) = s
  BY TwoSides
<1>2. y \in T /\ y \in Nodes /\ t.parent[y] = x /\ y # x /\ y # p /\ y # Root(t) /\ x \in Nodes
  BY <1>1, Child
<1>3. z # Null => z \in Nodes /\ t.parent[z] = y /\ z # y /\ z # x
  BY <1>2, Child
<1>4. w # Null => w \in Nodes /\ t.parent[w] = y /\ w # y /\ w # x
  BY <1>1, <1>2, Child
<1>5. c # Null => c \in Nodes /\ t.parent[c] = x /\ c # x /\ c # y
  BY <1>1, Child
<1>6. /\ x \in Places /\ y \in Places /\ x # End /\ x # Null /\ y # End /\ y # Null
      /\ p # x /\ p # Null /\ d \in Sides /\ t.child[d][p] = x /\ (p = End => d = "left")
      /\ p \in Places /\ t.child[Other(d)][p] # x
  <2>1. PICK e \in Ranks, sp \in SUBSET Places : Forest(t, T, C) /\ Ranked(t, e) /\ Spine(t, T, sp, first)
    BY DEF Shape
  <2>2. x \in T \cup C /\ y \in T \cup C
    BY <1>2
  <2>3. p # Null
    <3>1. p \in T \cup {End} /\ T \subseteq Nodes
      BY <2>1, <2>2, Above DEF Forest
    <3>2. QED
      BY <3>1, RBTreeAssumption
  <2>4. QED
    BY <2>1, <2>2, <2>3, Above
<1> HIDE DEF z, w, c
<1>7. /\ \A q \in Sides, m \in Places : m \notin {x, y, p} => t2.child[q][m] = t.child[q][m]
      /\ t2.child[s][y] = x /\ t2.child[d][p] = y /\ t2.child[o][x] = z
      /\ t2.child[o][y] = w /\ t2.child[s][x] = c /\ t2.child[Other(d)][p] = t.child[Other(d)][p]
  BY <1>1, <1>2, <1>6, TwoSides DEF Turned, z, w, c
<1>8. \A n \in T : n \in Nodes /\ n \in Places /\ n # Null
  BY RBTreeAssumption DEF Shape, Forest, Places
<1>9. ASSUME NEW n \in T, n \notin {x, y}, NEW q \in Sides, ~(n = p /\ q = d)
       PROVE  /\ t2.child[q][n] = t.child[q][n]
              /\ t.child[q][n] # Null => /\ t.child[q][n] \in Nodes \ {x, y}
                                        /\ t.parent[t.child[q][n]] = n
  <2>1. n \in Places
    BY <1>8
  <2>2. t2.child[q][n] = t.child[q][n]
    BY <1>9, <2>1 DEF Turned
  <2>3. t.child[q][n] # Null => t.child[q][n] \in Nodes /\ t.parent[t.child[q][n]] = n
    BY Child
  <2>4. t.child[q][n] # x
    BY <1>6, <1>9, <2>3, TwoSides
  <2>5. t.child[q][n] # y
    BY <1>2, <1>6, <1>9, <2>3
  <2>6. QED
    BY <2>2, <2>3, <2>4, <2>5
<1>10. Root(t2) = IF x = Root(t) THEN y ELSE Root(t)
  <2>1. End \in Places /\ "left" \in Sides
    BY DEF Places, Sides
  <2>2. Root(t2) = IF d = "left" /\ p = End THEN y ELSE Root(t)
    BY <1>6, <2>1 DEF Turned, Root
  <2>3. x = Root(t) => p = End
    BY <1>6, RootIs
  <2>4. p = End => x = Root(t)
    BY <1>6 DEF Root
  <2>5. QED
    BY <1>6, <2>2, <2>3, <2>4
<1>11. \A n \in T \ {x, y}, q \in Sides : ~(n = p /\ q = d) =>
         /\ t2.child[q][n] = t.child[q][n]
         /\ t.child[q][n] # Null => t.child[q][n] \in Nodes \ {x, y} /\ t.parent[t.child[q][n]] = n
  BY <1>9
<1>12. Turn(t, T, s, x, o, y, d, p, z, w, c, t2)
  BY <1>1, <1>2, <1>3, <1>4, <1>5, <1>6, <1>7, <1>8, <1>10, <1>11 DEF Turn
<1>13. QED
  BY <1>12 DEF z, w, c

(* t1 is t with the colours of x and y exchanged, where y is red.          *)
Exchanged(t, x, y, t1) ==
  /\ t1 \in Trees /\ t1.child = t.child /\ t1.parent = t.parent
  /\ ~t1.black[x] /\ (t1.black[y] <=> t.black[x])
  /\ \A m \in Nodes \ {x, y} : t1.black[m] <=> t.black[m]

(* n is null or black.                                                     *)
NotRed(t, n) == n # Null => t.black[n]

(* y, a red child of x, may go up to its place with its colour, as in t1:  *)
(* no red node but the tip comes below a red one.                          *)
Liftable(t, T, s, x, y, gp, gs, tip, t1) ==
  /\ y = t.child[Other(s)][x] /\ y # Null /\ ~t.black[y]
  /\ gp # y /\ (gp = x => gs = s)
  /\ tip = Null \/ (tip \in T /\ t.parent[tip] \in {x, y})
  /\ NotRed(t, t.child[s][x]) /\ NotRed(t, t.child[s][y])
  /\ t.black[x] \/ NotRed(t, t.child[Other(s)][y])
  /\ Exchanged(t, x, y, t1)

(* t2 is t when y has gone up.                                             *)
Lifted(t, T, C, first, s, x, y, gp, gs, t2) ==
  /\ t2 \in Trees /\ Shape(t2, T, C, first)
  /\ Balanced(t2, T, gp, gs, IF t.black[x] THEN Null ELSE x)
  /\ Turned(t, s, x, Other(s), y, Side(t, x), t.parent[x], t2)
  /\ ~t2.black[x] /\ (t2.black[y] <=> t.black[x])
  /\ \A m \in Nodes \ {x, y} : t2.black[m] <=> t.black[m]
  /\ Root(t2) = IF x = Root(t) THEN y ELSE Root(t)

(* A red node goes up and leaves its colour to its parent, which goes      *)
(* down: the heights stay.                                                 *)
LEMMA LiftRed ==
  ASSUME NEW t \in Trees, NEW T, NEW C, NEW first, Shape(t, T, C, first),
         NEW s \in Sides, NEW x \in T, NEW y,
         NEW gp, NEW gs, NEW tip, Balanced(t, T, gp, gs, tip),
         NEW t1, Shape(t1, T, C, first), Liftable(t, T, s, x, y, gp, gs, tip, t1)
  PROVE  Lifted(t, T, C, first, s, x, y, gp, gs, Rotate(t1, s, x))
<1> SUFFICES ASSUME NEW o, o = Other(s), NEW t2, t2 = Rotate(t1, s, x),
                    NEW tip2, tip2 = IF t.black[x] THEN Null ELSE x
             PROVE  /\ t2 \in Trees /\ Shape(t2, T, C, first) /\ Balanced(t2, T, gp, gs, tip2)
                    /\ Turned(t, s, x, o, y, Side(t, x), t.parent[x], t2)
                    /\ ~t2.black[x] /\ (t2.black[y] <=> t.black[x])
                    /\ \A m \in Nodes \ {x, y} : t2.black[m] <=> t.black[m]
                    /\ Root(t2) = IF x = Root(t) THEN y ELSE Root(t)
  BY Zenon DEF Lifted
<1>0. /\ y = t.child[o][x] /\ y # Null /\ ~t.black[y]
      /\ gp # y /\ (gp = x => gs = s)
      /\ tip = Null \/ (tip \in T /\ t.parent[tip] \in {x, y})
      /\ NotRed(t, t.child[s][x]) /\ NotRed(t, t.child[s][y])
      /\ t.black[x] \/ NotRed(t, t.child[o][y])
      /\ Exchanged(t, x, y, t1)
  BY DEF Liftable
<1> USE <1>0
<1> DEFINE d == Side(t, x)
           p == t.parent[x]
           z == t.child[s][y]
           w == t.child[o][y]
           c == t.child[s][x]
<1>1. t1 \in Trees /\ t1.child = t.child /\ t1.parent = t.parent /\ Side(t1, x) = d
  BY DEF Exchanged, Side
<1>2. /\ t2 \in Trees /\ Shape(t2, T, C, first)
      /\ Rotated(t1, s, x, o, y, d, p, t2)
  BY <1>1, RotateShape
<1>3. Turned(t, s, x, o, y, d, p, t2)
  BY <1>1, <1>2 DEF Rotated, Turned
<1>4. Turn(t, T, s, x, o, y, d, p, z, w, c, t2)
  BY <1>3, TurnIs
<1>5. /\ ~t2.black[x] /\ (t2.black[y] <=> t.black[x])
      /\ \A m \in Nodes \ {x, y} : t2.black[m] <=> t.black[m]
  BY <1>2, <1>4 DEF Rotated, Exchanged, Turn
<1> HIDE DEF d, p, z, w, c
<1>6. Reds(t2, T, tip2)
  <2>1. Root(t2) # Null => t2.black[Root(t2)]
    <3>1. Root(t) # Null => t.black[Root(t)] /\ Root(t) \in Nodes
      BY TreeFields DEF Balanced, Reds, Root, Places, Sides
    <3>2. CASE x = Root(t)
      BY <1>4, <1>5, <3>1, <3>2 DEF Turn
    <3>3. CASE x # Root(t)
      BY <1>4, <1>5, <3>1, <3>3 DEF Turn
    <3>4. QED
      BY <3>2, <3>3
  <2>2. ASSUME NEW n \in T, NEW q \in Sides,
               ~t2.black[n], t2.child[q][n] # Null, t2.child[q][n] # tip2
        PROVE  t2.black[t2.child[q][n]]
    <3>1. CASE n = y
      <4>1. ~t.black[x] /\ tip2 = x
        BY <1>5, <2>2, <3>1
      <4>2. t2.child[q][n] = w
        BY <1>4, <2>2, <3>1, <4>1 DEF Turn
      <4>3. QED
        BY <1>4, <1>5, <2>2, <4>1, <4>2 DEF NotRed, w, Turn
    <3>2. CASE n = x /\ q = s
      BY <1>4, <1>5, <2>2, <3>2 DEF NotRed, c, Turn
    <3>3. CASE n = x /\ q = o
      BY <1>4, <1>5, <2>2, <3>3 DEF NotRed, z, Turn
    <3>4. CASE n = p /\ q = d /\ n \notin {x, y}
      <4>1. t2.child[q][n] = y /\ ~t.black[n] /\ t.child[q][n] = x
        BY <1>4, <1>5, <2>2, <3>4 DEF Turn
      <4>2. x # tip
        BY <1>4 DEF p, Turn
      <4>3. t.black[x]
        BY <1>4, <4>1, <4>2 DEF Balanced, Reds, Turn
      <4>4. QED
        BY <1>5, <4>1, <4>3
    <3>5. CASE n \notin {x, y} /\ ~(n = p /\ q = d)
      <4>1. /\ t2.child[q][n] = t.child[q][n] /\ t.child[q][n] \in Nodes \ {x, y}
            /\ t.parent[t.child[q][n]] = n
        BY <1>4, <2>2, <3>5 DEF Turn
      <4>2. ~t.black[n] /\ t.child[q][n] # tip /\ t.child[q][n] # Null
        BY <1>4, <1>5, <2>2, <3>5, <4>1 DEF Turn
      <4>3. t.black[t.child[q][n]]
        BY <4>2 DEF Balanced, Reds
      <4>4. QED
        BY <1>5, <4>1, <4>3
    <3>6. QED
      BY <1>4, <3>1, <3>2, <3>3, <3>4, <3>5 DEF Turn
  <2>3. QED
    BY <2>1, <2>2 DEF Reds
<1>7. PICK b \in Counts : Heights(t, T, gp, gs, b)
  BY DEF Balanced
<1> DEFINE b2 == [n \in Nodes \cup {Null} |-> IF n = x THEN b[y] ELSE IF n = y THEN b[x] ELSE b[n]]
<1>8. b2 \in Counts
  BY <1>4, <1>7 DEF Counts, Turn
<1>9. /\ b2[x] = b[y] /\ b2[y] = b[x]
       /\ \A n \in Nodes \cup {Null} : b[n] \in Nat /\ (n \notin {x, y} => b2[n] = b[n])
  BY <1>4, <1>7 DEF Counts, Turn
<1> HIDE DEF b2
<1>10. Heights(t2, T, gp, gs, b2)
  <2>1. b2[Null] = 1
    BY <1>4, <1>7, <1>9 DEF Heights, Turn
  <2>2. Climbs(b[x], b[y], FALSE, t.black[x])
    BY <1>4, <1>7 DEF Heights, Climbs, Turn
  <2>3. Climbs(b[x], b[c], x = gp /\ s = gs, t.black[x])
    BY <1>7 DEF Heights, c
  <2>4. Climbs(b[y], b[z], FALSE, FALSE) /\ Climbs(b[y], b[w], FALSE, FALSE)
    BY <1>4, <1>7 DEF Heights, Climbs, z, w, Turn
  <2>5. ASSUME NEW n \in T, NEW q \in Sides
        PROVE  Climbs(b2[n], b2[t2.child[q][n]], n = gp /\ q = gs, t2.black[n])
    <3>1. CASE n = y /\ q = s
      BY <1>4, <1>5, <1>9, <2>2, <3>1 DEF Climbs, Turn
    <3>2. CASE n = y /\ q = o
      <4>1. b2[w] = b[w] /\ b[w] \in Nat
        BY <1>4, <1>9 DEF Turn
      <4>2. Climbs(b[x], b[w], FALSE, t.black[x])
        BY <1>4, <1>9, <2>2, <2>4, <4>1 DEF Climbs, Turn
      <4>3. QED
        BY <1>4, <1>5, <1>9, <3>2, <4>1, <4>2 DEF Climbs, Turn
    <3>3. CASE n = x /\ q = s
      <4>1. b2[c] = b[c] /\ b[c] \in Nat
        BY <1>4, <1>9 DEF Turn
      <4>2. Climbs(b[y], b[c], x = gp /\ s = gs, FALSE)
        BY <1>4, <1>9, <2>2, <2>3, <4>1 DEF Climbs, Turn
      <4>3. QED
        BY <1>4, <1>5, <1>9, <3>3, <4>1, <4>2 DEF Climbs, Turn
    <3>4. CASE n = x /\ q = o
      <4>1. b2[z] = b[z] /\ b[z] \in Nat
        BY <1>4, <1>9 DEF Turn
      <4>2. QED
        BY <1>4, <1>5, <1>9, <2>4, <3>4, <4>1 DEF Climbs, Turn
    <3>5. CASE n = p /\ q = d /\ n \notin {x, y}
      <4>1. t2.child[q][n] = y /\ t.child[q][n] = x /\ (t2.black[n] <=> t.black[n]) /\ b2[n] = b[n]
        BY <1>4, <1>5, <1>9, <3>5 DEF Turn
      <4>2. Climbs(b[n], b[x], n = gp /\ q = gs, t.black[n])
        BY <1>7, <4>1 DEF Heights
      <4>3. QED
        BY <1>9, <4>1, <4>2 DEF Climbs
    <3>6. CASE n \notin {x, y} /\ ~(n = p /\ q = d)
      <4> DEFINE k == t.child[q][n]
      <4>1. t2.child[q][n] = k /\ (k # Null => k \in Nodes \ {x, y})
        BY <1>4, <3>6 DEF Turn
      <4>2. Climbs(b[n], b[k], n = gp /\ q = gs, t.black[n])
        BY <1>7 DEF Heights
      <4> HIDE DEF k
      <4>3. b2[n] = b[n] /\ b2[k] = b[k] /\ (t2.black[n] <=> t.black[n])
        BY <1>4, <1>5, <1>9, <3>6, <4>1 DEF Turn
      <4>4. QED
        BY <4>1, <4>2, <4>3 DEF Climbs
    <3>7. QED
      BY <1>4, <3>1, <3>2, <3>3, <3>4, <3>5, <3>6 DEF Turn
  <2>6. QED
    BY <2>1, <2>5 DEF Heights
<1>11. QED
  BY <1>2, <1>3, <1>4, <1>5, <1>6, <1>8, <1>10 DEF Balanced, d, p, Turn

(* The loop of an insertion, with a black uncle.                           *)
BlackUncle(t, x, p, g, s, t1, p1, t2, t3) ==
  /\ p = t.parent[x] /\ g = t.parent[p] /\ s = Side(t, p)
  /\ x # Root(t) /\ ~t.black[x] /\ IsRed(t, p) /\ ~IsRed(t, Sibling(t, p))
  /\ IF Side(t, x) # s THEN t1 = Rotate(t, s, p) /\ p1 = x ELSE t1 = t /\ p1 = p
  /\ t2 = Paint(Paint(t1, p1, TRUE), g, FALSE) /\ t3 = Rotate(t2, Other(s), g)

(* One or two rotations end an insertion: the tree is balanced.            *)
LEMMA RotateAndEndBalanced ==
  ASSUME NEW t \in Trees, NEW T, NEW C, NEW first, Shape(t, T, C, first),
         NEW x \in T, Balanced(t, T, Null, "left", x),
         NEW p, NEW g, NEW s, NEW t1, NEW p1, NEW t2, NEW t3, BlackUncle(t, x, p, g, s, t1, p1, t2, t3)
  PROVE  /\ t3 \in Trees /\ Shape(t3, T, C, first) /\ Balanced(t3, T, Null, "left", Null)
         /\ CacheKept(t, C, t3)
<1> DEFINE inner == Side(t, x) # s
<1> SUFFICES ASSUME p = t.parent[x], g = t.parent[p], s = Side(t, p),
                    x # Root(t), ~t.black[x], IsRed(t, p), ~IsRed(t, Sibling(t, p)),
                    inner => t1 = Rotate(t, s, p) /\ p1 = x, ~inner => t1 = t /\ p1 = p,
                    t2 = Paint(Paint(t1, p1, TRUE), g, FALSE), t3 = Rotate(t2, Other(s), g)
             PROVE  /\ t3 \in Trees /\ Shape(t3, T, C, first) /\ Balanced(t3, T, Null, "left", Null)
                    /\ CacheKept(t, C, t3)
  BY DEF BlackUncle
<1> DEFINE o == Other(s)
           d == Side(t, x)
           x1 == IF inner THEN p ELSE x
<1>1. /\ p \in T /\ p \in Nodes /\ x # p /\ x \in Nodes /\ d \in Sides /\ t.child[d][p] = x
      /\ t.child[Other(d)][p] # x /\ g # x
  BY Inner
<1>2. p # Root(t)
  BY <1>1 DEF Balanced, Reds, IsRed
<1>3. /\ g \in T /\ g \in Nodes /\ g # p /\ s \in Sides /\ o \in Sides /\ s # o /\ s = Other(o)
      /\ (\A q \in Sides : q = s \/ q = o) /\ t.child[s][g] = p /\ t.child[o][g] = Sibling(t, p)
  BY <1>1, <1>2, Inner DEF Sibling
<1>4. x # Null /\ p # Null /\ g # Null
  BY <1>1, <1>3, RBTreeAssumption
<1>5. t.black[g]
  BY <1>1, <1>3, <1>4 DEF Balanced, Reds, IsRed
<1>6. NotRed(t, t.child[Other(d)][p])
  BY <1>1, <1>4, TwoSides DEF Balanced, Reds, IsRed, NotRed
<1>7. \A q \in Sides : NotRed(t, t.child[q][x])
  BY <1>4, Child DEF Balanced, Reds, NotRed
<1>8. NotRed(t, t.child[o][g])
  BY <1>3 DEF NotRed, IsRed
(* What is left to do after the first rotation, if there is one.           *)
<1>9. /\ t1 \in Trees /\ Shape(t1, T, C, first) /\ Balanced(t1, T, Null, "left", x1)
      /\ t1.child[s][g] = p1 /\ t1.child[o][g] = t.child[o][g] /\ t1.parent[x1] = p1
      /\ p1 \in T /\ p1 # g /\ p1 \in Nodes /\ x1 \in T /\ ~t1.black[p1] /\ t1.black[g]
      /\ NotRed(t1, t1.child[o][g]) /\ NotRed(t1, t1.child[o][p1])
      /\ CacheKept(t, C, t1)
  <2>1. CASE inner
    <3>1. d = o /\ Other(s) = d /\ t1 = Rotate(t, s, p) /\ p1 = x /\ x1 = p
      BY <1>1, <1>3, <2>1
    <3>2. Exchanged(t, p, x, t) /\ ~t.black[p]
      BY <1>1, <1>4 DEF Exchanged, IsRed
    <3>3. Liftable(t, T, s, p, x, Null, "left", x, t)
      BY <1>1, <1>3, <1>4, <1>6, <1>7, <3>1, <3>2 DEF Liftable
    <3>4. Lifted(t, T, C, first, s, p, x, Null, "left", t1)
      BY <1>1, <1>3, <3>1, <3>3, LiftRed
    <3>5. /\ t1 \in Trees /\ Shape(t1, T, C, first) /\ Balanced(t1, T, Null, "left", p)
          /\ Turned(t, s, p, o, x, s, g, t1) /\ ~t1.black[x]
          /\ \A m \in Nodes \ {p, x} : t1.black[m] <=> t.black[m]
      BY <1>1, <1>3, <3>1, <3>2, <3>4 DEF Lifted
    <3>6. /\ \A q \in Sides, m \in Places : t1.child[q][m] =
               IF q = s /\ m = x THEN p
               ELSE IF q = s /\ m = g THEN x
               ELSE IF q = o /\ m = p THEN t.child[s][x]
               ELSE t.child[q][m]
          /\ t1.parent[p] = x
      BY <1>1, <3>5 DEF Turned
    <3>7. g \in Places /\ x \in Places /\ p \in Places
      BY <1>1, <1>3 DEF Places
    <3>8. /\ t1.child[s][g] = x /\ t1.child[o][g] = t.child[o][g]
          /\ t1.child[o][x] = t.child[o][x]
      BY <1>1, <1>3, <3>6, <3>7
    <3>9. ASSUME NEW m, NotRed(t, m), m # x, m # p, m \in Nodes \cup {Null} PROVE NotRed(t1, m)
      BY <3>5, <3>9 DEF NotRed
    <3>10. NotRed(t1, t1.child[o][g])
      <4>1. t.child[o][g] \in Nodes \cup {Null} /\ t.child[o][g] # p
        BY <1>3, <3>7, TreeFields, Inner, <1>1, <1>2
      <4>2. t.child[o][g] # x
        BY <1>1, <1>3, <1>4, Child
      <4>3. QED
        BY <1>8, <3>8, <3>9, <4>1, <4>2
    <3>11. NotRed(t1, t1.child[o][x])
      <4>1. t.child[o][x] \in Nodes \cup {Null} /\ NotRed(t, t.child[o][x])
        BY <1>3, <1>7, <3>7, TreeFields
      <4>2. t.child[o][x] # x /\ t.child[o][x] # p
        BY <1>3, <1>4, Child
      <4>3. QED
        BY <3>8, <3>9, <4>1, <4>2
    <3>12. t1.black[g]
      BY <1>1, <1>3, <1>5, <3>5
    <3>13. CacheKept(t, C, t1)
      <4>1. x \in T /\ p \in T /\ g \in T \cup {End}
        BY <1>1, <1>3
      <4>2. QED
        BY <3>5, <4>1, TurnedKeepsCache
    <3>14. QED
      BY <1>1, <3>1, <3>5, <3>6, <3>8, <3>10, <3>11, <3>12, <3>13, ZenonT(30)
  <2>2. CASE ~inner
    <3>1. CacheKept(t, C, t1)
      BY <2>2 DEF CacheKept
    <3>2. QED
      BY <1>1, <1>3, <1>4, <1>5, <1>6, <1>8, <2>2, <3>1 DEF IsRed
  <2>3. QED
    BY <2>1, <2>2
<1> HIDE DEF x1
<1> DEFINE t4 == Paint(t1, p1, TRUE)
<1>10. t4 \in Trees /\ Shape(t4, T, C, first) /\ Painted(t1, p1, TRUE, t4)
  BY <1>9, PaintShape
<1> HIDE DEF t4
<1>11. t2 \in Trees /\ Shape(t2, T, C, first) /\ Painted(t4, g, FALSE, t2)
  BY <1>3, <1>10, PaintShape DEF t4
<1>12. Exchanged(t1, g, p1, t2)
  BY <1>3, <1>9, <1>10, <1>11 DEF Exchanged, Painted
<1>13. g # Null /\ p1 # Null
  BY <1>4, <1>9, RBTreeAssumption
<1>14. Liftable(t1, T, o, g, p1, Null, "left", x1, t2)
  BY <1>3, <1>9, <1>12, <1>13 DEF Liftable
<1>15. Lifted(t1, T, C, first, o, g, p1, Null, "left", t3)
  BY <1>3, <1>9, <1>11, <1>14, LiftRed
<1>16. CacheKept(t1, C, t3)
  <2>1. t1.parent[g] \in T \cup {End}
    BY <1>3, <1>9 DEF Shape, Forest, LinksUp
  <2>2. Turned(t1, o, g, Other(o), p1, Side(t1, g), t1.parent[g], t3)
    BY <1>15 DEF Lifted
  <2>3. QED
    BY <1>3, <1>9, <2>1, <2>2, TurnedKeepsCache
<1>17. CacheKept(t, C, t3)
  BY <1>9, <1>16, CacheKeptTwice
<1>18. QED
  BY <1>9, <1>15, <1>17, ZenonT(30) DEF Lifted

(***************************************************************************)
(* The loop of a removal.  The hole is on side h of p, and x is the node   *)
(* on its other side.                                                      *)
(***************************************************************************)
Removing(t, T, C, first, x, p, h) ==
  /\ t \in Trees /\ Shape(t, T, C, first) /\ Balanced(t, T, p, h, Null)
  /\ x \in T /\ p = t.parent[x] /\ p \in T /\ h = Other(Side(t, x))
  /\ NotRed(t, t.child[h][p])

(* What is around the hole.                                                *)
LEMMA AroundHole ==
  ASSUME NEW t, NEW T, NEW C, NEW first, NEW x, NEW p, NEW h, Removing(t, T, C, first, x, p, h)
  PROVE  /\ h \in Sides /\ Other(h) \in Sides /\ h # Other(h) /\ (\A q \in Sides : q = h \/ q = Other(h))
         /\ Other(Other(h)) = h /\ Side(t, x) = Other(h) /\ t.child[Other(h)][p] = x
         /\ x \in Nodes /\ p \in Nodes /\ x # Null /\ p # Null /\ p # End /\ x # p /\ x # Root(t)
<1>1. t \in Trees /\ Shape(t, T, C, first) /\ x \in T /\ p \in T /\ p = t.parent[x] /\ h = Other(Side(t, x))
  BY DEF Removing
<1>2. x # Root(t) /\ p # End /\ x # Null /\ p # Null
  BY <1>1, RootIs, RBTreeAssumption
<1>3. /\ x \in Nodes /\ p \in Nodes /\ x # p /\ Side(t, x) \in Sides
      /\ t.child[Side(t, x)][p] = x
  BY <1>1, <1>2, Inner
<1>4. QED
  BY <1>1, <1>2, <1>3, TwoSides

(* There is a node beside the hole.                                        *)
LEMMA SiblingOfHole ==
  ASSUME NEW t \in Trees, NEW T, NEW C, NEW first, Shape(t, T, C, first),
         NEW p \in T, NEW h \in Sides, NEW tip, Balanced(t, T, p, h, tip)
  PROVE  t.child[Other(h)][p] # Null
<1> DEFINE x == t.child[Other(h)][p]
           c == t.child[h][p]
<1>1. PICK b \in Counts : Heights(t, T, p, h, b)
  BY DEF Balanced
<1>2. Other(h) \in Sides /\ h # Other(h) /\ p \in Places
  BY TwoSides, RootIs DEF Places
<1>3. Climbs(b[p], b[x], FALSE, t.black[p]) /\ Climbs(b[p], b[c], TRUE, t.black[p])
  BY <1>1, <1>2 DEF Heights, Climbs
<1>4. x \in Nodes \cup {Null} /\ c \in Nodes \cup {Null} /\ p \in Nodes
  BY <1>2, TreeFields, RootIs
<1> HIDE DEF x, c
<1>5. b[x] \in Nat /\ b[c] \in Nat \ {0} /\ b[p] \in Nat
  BY <1>1, <1>4 DEF Counts
<1>6. b[x] = b[c] + 1
  BY <1>3, <1>5 DEF Climbs
<1>7. x # Null
  BY <1>1, <1>5, <1>6 DEF Heights
<1>8. QED
  BY <1>7 DEF x

(* The loop goes on with the node beside the hole.                         *)
LEMMA RemovingIs ==
  ASSUME NEW t \in Trees, NEW T, NEW C, NEW first, Shape(t, T, C, first),
         NEW p \in T, NEW h \in Sides, Balanced(t, T, p, h, Null), NotRed(t, t.child[h][p])
  PROVE  Removing(t, T, C, first, t.child[Other(h)][p], p, h)
<1> DEFINE x == t.child[Other(h)][p]
<1>1. x # Null
  BY SiblingOfHole
<1>2. Other(h) \in Sides /\ Other(Other(h)) = h
  BY TwoSides
<1>3. x \in T /\ t.parent[x] = p /\ Side(t, x) = Other(h)
  BY <1>1, <1>2, Child
<1>4. QED
  BY <1>2, <1>3 DEF Removing

(* The node beside the hole is red.                                        *)
RedSibling(t, x, p, h, t2) ==
  ~t.black[x] /\ t2 = Rotate(Paint(Paint(t, x, TRUE), p, FALSE), h, p)

(* When the red node has been lifted, the hole has a black node beside it. *)
LEMMA LiftRedSiblingBalanced ==
  ASSUME NEW t, NEW T, NEW C, NEW first, NEW x, NEW p, NEW h, Removing(t, T, C, first, x, p, h),
         NEW t2, RedSibling(t, x, p, h, t2)
  PROVE  /\ t2.child[h][x] = p /\ Root(t2) = (IF p = Root(t) THEN x ELSE Root(t))
         /\ Removing(t2, T, C, first, t2.child[Other(h)][p], p, h)
<1> SUFFICES ASSUME ~t.black[x], t2 = Rotate(Paint(Paint(t, x, TRUE), p, FALSE), h, p)
  PROVE  /\ t2.child[h][x] = p /\ Root(t2) = (IF p = Root(t) THEN x ELSE Root(t))
         /\ Removing(t2, T, C, first, t2.child[Other(h)][p], p, h)
  BY DEF RedSibling
<1> DEFINE t3 == Paint(t, x, TRUE)
           t4 == Paint(t3, p, FALSE)
           o == Other(h)
<1>1. /\ t \in Trees /\ Shape(t, T, C, first) /\ Balanced(t, T, p, h, Null)
      /\ x \in T /\ p = t.parent[x] /\ p \in T /\ NotRed(t, t.child[h][p])
  BY DEF Removing
<1>2. /\ h \in Sides /\ o \in Sides /\ h # o /\ Other(o) = h /\ Side(t, x) = o /\ t.child[o][p] = x
      /\ x \in Nodes /\ p \in Nodes /\ x # Null /\ p # Null /\ x # p
  BY AroundHole
<1>3. t.black[p]
  BY <1>1, <1>2 DEF Balanced, Reds
<1>4. NotRed(t, t.child[h][x])
  BY <1>1, <1>2 DEF Balanced, Reds, NotRed
<1>5. t3 \in Trees /\ Shape(t3, T, C, first) /\ Painted(t, x, TRUE, t3)
  BY <1>1, <1>2, PaintShape
<1> HIDE DEF t3
<1>6. t4 \in Trees /\ Shape(t4, T, C, first) /\ Painted(t3, p, FALSE, t4)
  BY <1>2, <1>5, PaintShape
<1>7. t2 = Rotate(t4, h, p)
  BY DEF t3
<1> HIDE DEF t4
<1>8. Exchanged(t, p, x, t4)
  BY <1>2, <1>3, <1>5, <1>6 DEF Exchanged, Painted
<1>9. Liftable(t, T, h, p, x, p, h, Null, t4)
  BY <1>1, <1>2, <1>3, <1>4, <1>8 DEF Liftable
<1>10. Lifted(t, T, C, first, h, p, x, p, h, t2)
  BY <1>1, <1>2, <1>6, <1>7, <1>9, LiftRed
<1>11. /\ t2 \in Trees /\ Shape(t2, T, C, first) /\ Balanced(t2, T, p, h, Null)
       /\ Turned(t, h, p, o, x, Side(t, p), t.parent[p], t2)
       /\ \A m \in Nodes \ {p, x} : t2.black[m] <=> t.black[m]
       /\ Root(t2) = IF p = Root(t) THEN x ELSE Root(t)
  BY <1>3, <1>10 DEF Lifted
<1>12. Turn(t, T, h, p, o, x, Side(t, p), t.parent[p], t.child[h][x], t.child[o][x], t.child[h][p], t2)
  BY <1>1, <1>2, <1>11, TurnIs
<1>13. t2.child[h][x] = p /\ t2.child[h][p] = t.child[h][p] /\ NotRed(t2, t.child[h][p])
  BY <1>1, <1>11, <1>12 DEF Turn, NotRed
<1> HIDE DEF o
<1>14. Removing(t2, T, C, first, t2.child[Other(h)][p], p, h)
  BY <1>1, <1>2, <1>11, <1>13, RemovingIs
<1>15. QED
  BY <1>11, <1>13, <1>14

(* Neither the node beside the hole nor a child of it is red.              *)
NothingRed(t, x, t1) ==
  t.black[x] /\ (\A s \in Sides : NotRed(t, t.child[s][x])) /\ t1 = Paint(t, x, FALSE)

(* The parent of the hole takes the black, or the hole goes up.            *)
PassedUp(t, T, C, first, p, t1) ==
  /\ p = Root(t) \/ ~t.black[p] =>
       /\ Paint(t1, p, TRUE) \in Trees /\ Shape(Paint(t1, p, TRUE), T, C, first)
       /\ Balanced(Paint(t1, p, TRUE), T, Null, "left", Null)
  /\ ~(p = Root(t) \/ ~t.black[p]) =>
       /\ Removing(t1, T, C, first, Sibling(t1, p), t.parent[p], Side(t, p))
       /\ Root(t1) = Root(t)

(* The node beside the hole turns red, and the hole is filled or goes up.  *)
LEMMA PassBlackUpBalanced ==
  ASSUME NEW t, NEW T, NEW C, NEW first, NEW x, NEW p, NEW h, Removing(t, T, C, first, x, p, h),
         NEW t1, NothingRed(t, x, t1)
  PROVE  PassedUp(t, T, C, first, p, t1)
<1> SUFFICES ASSUME t.black[x], \A s \in Sides : NotRed(t, t.child[s][x]), t1 = Paint(t, x, FALSE)
  PROVE  /\ p = Root(t) \/ ~t.black[p] =>
              /\ Paint(t1, p, TRUE) \in Trees /\ Shape(Paint(t1, p, TRUE), T, C, first)
              /\ Balanced(Paint(t1, p, TRUE), T, Null, "left", Null)
         /\ ~(p = Root(t) \/ ~t.black[p]) =>
              /\ Removing(t1, T, C, first, Sibling(t1, p), t.parent[p], Side(t, p))
              /\ Root(t1) = Root(t)
  BY DEF NothingRed, PassedUp
<1> DEFINE o == Other(h)
           c == t.child[h][p]
           t2 == Paint(t1, p, TRUE)
<1>1. /\ t \in Trees /\ Shape(t, T, C, first) /\ Balanced(t, T, p, h, Null)
      /\ x \in T /\ p = t.parent[x] /\ p \in T /\ NotRed(t, c)
  BY DEF Removing
<1>2. /\ h \in Sides /\ o \in Sides /\ h # o /\ (\A q \in Sides : q = h \/ q = o) /\ t.child[o][p] = x
      /\ x \in Nodes /\ p \in Nodes /\ x # Null /\ p # Null /\ x # p /\ x # Root(t)
  BY AroundHole
<1>3. t1 \in Trees /\ Shape(t1, T, C, first) /\ Painted(t, x, FALSE, t1)
  BY <1>1, <1>2, PaintShape
<1>4. t2 \in Trees /\ Shape(t2, T, C, first) /\ Painted(t1, p, TRUE, t2)
  BY <1>2, <1>3, PaintShape
<1> HIDE DEF t2
<1>5. /\ t1.child = t.child /\ t1.parent = t.parent /\ ~t1.black[x]
      /\ \A m \in Nodes : m # x => (t1.black[m] <=> t.black[m])
  BY <1>3 DEF Painted
<1>6. /\ t2.child = t.child /\ t2.black[p] /\ ~t2.black[x]
      /\ \A m \in Nodes : m \notin {x, p} => (t2.black[m] <=> t.black[m])
  BY <1>2, <1>4, <1>5 DEF Painted
<1>7. PICK b \in Counts : Heights(t, T, p, h, b)
  BY <1>1 DEF Balanced
<1>8. c \in Nodes \cup {Null} /\ c # x /\ c # p
  <2>1. c \in Nodes \cup {Null}
    BY <1>1, <1>2, TreeFields DEF Places
  <2>2. c # Null => c # p /\ c # x
    BY <1>1, <1>2, Child
  <2>3. QED
    BY <1>2, <2>1, <2>2
<1> HIDE DEF c
<1>9. /\ Climbs(b[p], b[c], TRUE, t.black[p]) /\ Climbs(b[p], b[x], FALSE, t.black[p])
      /\ b[c] \in Nat \ {0} /\ b[x] \in Nat /\ b[p] \in Nat
  <2>1. Climbs(b[p], b[c], TRUE, t.black[p]) /\ Climbs(b[p], b[x], FALSE, t.black[p])
    BY <1>1, <1>2, <1>7 DEF Heights, Climbs, c
  <2>2. QED
    BY <1>2, <1>7, <1>8, <2>1 DEF Counts
<1>10. b[x] = b[c] + 1
  BY <1>9 DEF Climbs
<1>11. \A n \in T : n \in Nodes /\ n # Null
  BY <1>1, RootIs
(* The children of x, and those of other nodes.                            *)
<1>12. ASSUME NEW n \in T, NEW q \in Sides, t.child[q][n] = x PROVE n = p /\ q = o
  BY <1>1, <1>2, <1>12, Child
<1>13. ASSUME NEW n \in T, NEW q \in Sides, t.child[q][n] = p PROVE n # p /\ n # x /\ p # Root(t)
  BY <1>1, <1>2, <1>13, Child
<1>14. ASSUME p = Root(t) \/ ~t.black[p] PROVE Balanced(t2, T, Null, "left", Null)
  <2>1. Reds(t2, T, Null)
    <3>1. Root(t2) # Null => t2.black[Root(t2)]
      <4>1. Root(t2) = Root(t) /\ (Root(t) # Null => t.black[Root(t)] /\ Root(t) \in Nodes)
        BY <1>1, <1>6, RootIs DEF Balanced, Reds, Root
      <4>2. QED
        BY <1>2, <1>6, <4>1
    <3>2. ASSUME NEW n \in T, NEW q \in Sides, ~t2.black[n], t2.child[q][n] # Null
          PROVE  t2.black[t2.child[q][n]]
      <4> DEFINE k == t.child[q][n]
      <4>1. k # Null /\ k \in Nodes /\ t2.child[q][n] = k
        BY <1>1, <1>6, <3>2, Child
      <4>2. CASE n = x
        <5>1. t.black[k] /\ k # x /\ k # p
          BY <1>1, <4>1, <4>2, Child DEF NotRed
        <5>2. QED
          BY <1>6, <4>1, <5>1
      <4>3. CASE n # x
        <5>1. n # p /\ ~t.black[n]
          BY <1>6, <1>11, <3>2, <4>3
        <5>2. t.black[k] /\ k # x
          BY <1>1, <1>12, <4>1, <5>1 DEF Balanced, Reds
        <5>3. QED
          BY <1>6, <4>1, <5>2
      <4>4. QED
        BY <4>2, <4>3
    <3>3. QED
      BY <3>1, <3>2 DEF Reds
  <2> DEFINE b2 == [n \in Nodes \cup {Null} |->
                      IF n = x THEN b[c] ELSE IF n = p THEN b[c] + 1 ELSE b[n]]
  <2>2. b2 \in Counts
    BY <1>7, <1>9 DEF Counts
  <2>3. /\ b2[x] = b[c] /\ b2[p] = b[c] + 1 /\ b2[Null] = 1 /\ b2[c] = b[c]
        /\ \A n \in Nodes \cup {Null} : n \notin {x, p} => b2[n] = b[n]
    BY <1>2, <1>7, <1>8 DEF Heights
  <2>4. \A n \in Nodes \cup {Null} : b[n] \in Nat
    BY <1>7 DEF Counts
  <2> HIDE DEF b2
  <2>5. Heights(t2, T, Null, "left", b2)
    <3> SUFFICES ASSUME NEW n \in T, NEW q \in Sides
                 PROVE  Climbs(b2[n], b2[t2.child[q][n]], FALSE, t2.black[n])
      BY <1>11, <2>3 DEF Heights
    <3> DEFINE k == t.child[q][n]
    <3>1. t2.child[q][n] = k /\ k \in Nodes \cup {Null} /\ n \in Nodes
      BY <1>1, <1>6, <1>11, TreeFields DEF Places
    <3>2. k = x => n = p /\ q = o
      BY <1>12
    <3>3. k = p => n # p /\ n # x /\ p # Root(t)
      BY <1>13
    <3>4. Climbs(b[n], b[k], n = p /\ q = h, t.black[n])
      BY <1>7 DEF Heights
    <3>5. n = p /\ q = h => k = c
      BY DEF c
    <3>6. n = p /\ q = o => k = x
      BY <1>2
    <3> HIDE DEF k
    <3>7. CASE n = x
      <4>1. k # x /\ k # p /\ b2[k] = b[k] /\ n # p
        BY <1>2, <2>3, <3>1, <3>2, <3>3, <3>7
      <4>2. b[x] = b[k] + 1
        BY <3>4, <3>7, <4>1 DEF Climbs
      <4>3. b2[k] = b2[n]
        BY <1>9, <1>10, <2>3, <2>4, <3>1, <3>7, <4>1, <4>2
      <4>4. QED
        BY <1>6, <2>4, <3>1, <3>7, <4>1, <4>3 DEF Climbs
    <3>8. CASE n = p /\ q = h
      BY <1>6, <1>9, <2>3, <3>1, <3>5, <3>8 DEF Climbs
    <3>9. CASE n = p /\ q = o
      BY <1>6, <1>9, <2>3, <3>1, <3>6, <3>9 DEF Climbs
    <3>10. CASE n \notin {x, p} /\ k # p
      BY <1>6, <2>3, <3>1, <3>2, <3>4, <3>10 DEF Climbs
    <3>11. CASE n \notin {x, p} /\ k = p
      <4>1. ~t.black[p]
        BY <1>14, <3>3, <3>11
      <4>2. b[p] = b[c] + 1
        BY <1>9, <4>1 DEF Climbs
      <4>3. QED
        BY <1>6, <2>3, <3>1, <3>4, <3>11, <4>2 DEF Climbs
    <3>12. QED
      BY <1>2, <3>7, <3>8, <3>9, <3>10, <3>11
  <2>6. QED
    BY <2>1, <2>2, <2>5 DEF Balanced
<1>15. ASSUME p # Root(t), t.black[p]
       PROVE  /\ Removing(t1, T, C, first, Sibling(t1, p), t.parent[p], Side(t, p))
              /\ Root(t1) = Root(t)
  <2> DEFINE g == t.parent[p]
             d == Side(t, p)
             y == t1.child[Other(d)][g]
  <2>1. /\ g \in T /\ g \in Nodes /\ g # p /\ t.parent[g] # p /\ d \in Sides /\ Other(d) \in Sides
        /\ d # Other(d) /\ d = Other(Other(d)) /\ t.child[d][g] = p /\ t.child[Other(d)][g] # p
    BY <1>1, <1>15, Inner
  <2>2. g = t1.parent[p] /\ d = Side(t1, p) /\ Root(t1) = Root(t) /\ y = Sibling(t1, p)
    BY <1>5 DEF Side, Root, Sibling
  <2>3. g # x /\ g # Null
    <3>1. t.parent[p] # x
      BY <1>1, <1>2, Inner
    <3>2. QED
      BY <1>11, <2>1, <3>1
  <2> HIDE DEF g, d
  <2>4. Balanced(t1, T, g, d, Null)
    <3>1. Reds(t1, T, Null)
      <4>1. Root(t1) # Null => t1.black[Root(t1)]
        <5>1. Root(t) # Null => t.black[Root(t)] /\ Root(t) \in Nodes
          BY <1>1, RootIs DEF Balanced, Reds
        <5>2. QED
          BY <1>2, <1>5, <2>2, <5>1
      <4>2. ASSUME NEW n \in T, NEW q \in Sides, ~t1.black[n], t1.child[q][n] # Null
            PROVE  t1.black[t1.child[q][n]]
        <5> DEFINE k == t.child[q][n]
        <5>1. k # Null /\ k \in Nodes /\ t1.child[q][n] = k
          <6>1. k # Null /\ t1.child[q][n] = k
            BY <1>5, <4>2
          <6>2. k \in Nodes
            BY <1>1, <6>1, Child
          <6>3. QED
            BY <6>1, <6>2
        <5>2. CASE n = x
          <6>1. t.black[k] /\ k # x
            BY <1>1, <5>1, <5>2, Child DEF NotRed
          <6>2. QED
            BY <1>5, <5>1, <6>1
        <5>3. CASE n # x
          <6>1. n # p /\ ~t.black[n]
            BY <1>2, <1>5, <1>11, <1>15, <4>2, <5>3
          <6>2. t.black[k] /\ k # x
            BY <1>1, <1>12, <5>1, <6>1 DEF Balanced, Reds
          <6>3. QED
            BY <1>5, <5>1, <6>2
        <5>4. QED
          BY <5>2, <5>3
      <4>3. QED
        BY <4>1, <4>2 DEF Reds
    <3> DEFINE b2 == [n \in Nodes \cup {Null} |->
                        IF n = x THEN b[c] ELSE IF n = p THEN b[c] + 1 ELSE b[n]]
    <3>2. b2 \in Counts
      BY <1>7, <1>9 DEF Counts
    <3>3. /\ b2[x] = b[c] /\ b2[p] = b[c] + 1 /\ b2[Null] = 1 /\ b2[c] = b[c]
          /\ \A n \in Nodes \cup {Null} : n \notin {x, p} => b2[n] = b[n]
      BY <1>2, <1>7, <1>8 DEF Heights
    <3>4. \A n \in Nodes \cup {Null} : b[n] \in Nat
      BY <1>7 DEF Counts
    <3>5. b[p] = b[c] + 2
      BY <1>9, <1>15 DEF Climbs
    <3> HIDE DEF b2
    <3>6. Heights(t1, T, g, d, b2)
      <4> SUFFICES ASSUME NEW n \in T, NEW q \in Sides
                   PROVE  Climbs(b2[n], b2[t1.child[q][n]], n = g /\ q = d, t1.black[n])
        BY <3>3 DEF Heights
      <4> DEFINE k == t.child[q][n]
      <4>1. t1.child[q][n] = k /\ k \in Nodes \cup {Null} /\ n \in Nodes
        BY <1>1, <1>5, <1>11, TreeFields DEF Places
      <4>2. k = x => n = p /\ q = o
        BY <1>12
      <4>3. k = p => n # p /\ n # x
        BY <1>13
      <4>4. Climbs(b[n], b[k], n = p /\ q = h, t.black[n])
        BY <1>7 DEF Heights
      <4>5. n = p /\ q = h => k = c
        BY DEF c
      <4>6. n = p /\ q = o => k = x
        BY <1>2
      <4>7. n = g /\ q = d <=> k = p
        <5>1. k = p => t.parent[k] = n /\ Side(t, k) = q
          BY <1>1, <1>2, Child
        <5>2. QED
          BY <2>1, <5>1 DEF g, d
      <4> HIDE DEF k
      <4>8. CASE n = x
        <5>1. k # x /\ k # p /\ b2[k] = b[k] /\ n # p
          BY <1>2, <3>3, <4>1, <4>2, <4>3, <4>8
        <5>2. b[x] = b[k] + 1
          BY <1>1, <4>4, <4>8, <5>1 DEF Climbs
        <5>3. b2[k] = b2[n]
          BY <1>9, <1>10, <3>3, <3>4, <4>1, <4>8, <5>1, <5>2
        <5>4. QED
          BY <1>5, <3>4, <4>1, <4>7, <4>8, <5>1, <5>3 DEF Climbs
      <4>9. CASE n = p /\ q = h
        <5>1. t1.black[n] /\ k # p
          BY <1>2, <1>5, <1>8, <1>15, <4>5, <4>9
        <5>2. QED
          BY <1>9, <3>3, <4>1, <4>5, <4>7, <4>9, <5>1 DEF Climbs
      <4>10. CASE n = p /\ q = o
        <5>1. t1.black[n] /\ k # p
          BY <1>2, <1>5, <1>15, <4>6, <4>10
        <5>2. QED
          BY <1>9, <3>3, <4>1, <4>6, <4>7, <4>10, <5>1 DEF Climbs
      <4>11. CASE n \notin {x, p} /\ k # p
        <5>1. b2[n] = b[n] /\ b2[k] = b[k] /\ (t1.black[n] <=> t.black[n])
          BY <1>5, <3>3, <4>1, <4>2, <4>11
        <5>2. QED
          BY <4>1, <4>4, <4>7, <4>11, <5>1 DEF Climbs
      <4>12. CASE n \notin {x, p} /\ k = p
        <5>1. b2[n] = b[n] /\ b2[k] = b[c] + 1 /\ b[k] = b[c] + 2 /\ (t1.black[n] <=> t.black[n])
          BY <1>5, <3>3, <3>5, <4>1, <4>12
        <5>2. n = g /\ q = d /\ n # p
          BY <4>7, <4>12
        <5>3. Climbs(b[n], b[k], FALSE, t.black[n])
          BY <4>4, <5>2 DEF Climbs
        <5>4. b[n] \in Nat /\ b[c] \in Nat
          BY <1>9, <3>4, <4>1
        <5>5. Climbs(b2[n], b2[k], TRUE, t1.black[n])
          <6>1. CASE t.black[n]
            <7>1. b[n] = b[k] + 1
              BY <5>3, <6>1 DEF Climbs
            <7>2. b2[n] = b2[k] + 2
              BY <5>1, <5>4, <7>1
            <7>3. t1.black[n]
              BY <5>1, <6>1
            <7>4. QED
              BY <7>2, <7>3 DEF Climbs
          <6>2. CASE ~t.black[n]
            <7>1. b[n] = b[k]
              BY <5>3, <6>2 DEF Climbs
            <7>2. b2[n] = b2[k] + 1
              BY <5>1, <5>4, <7>1
            <7>3. ~t1.black[n]
              BY <5>1, <6>2
            <7>4. QED
              BY <7>2, <7>3 DEF Climbs
          <6>3. QED
            BY <6>1, <6>2
        <5>6. QED
          BY <4>1, <5>2, <5>5 DEF Climbs
      <4>13. QED
        BY <1>2, <4>8, <4>9, <4>10, <4>11, <4>12
    <3>7. QED
      BY <3>1, <3>2, <3>6 DEF Balanced
  <2>5. NotRed(t1, t1.child[d][g])
    BY <1>2, <1>5, <1>15, <2>1 DEF NotRed
  <2>6. Removing(t1, T, C, first, t1.child[Other(d)][g], g, d)
    BY <1>3, <2>1, <2>4, <2>5, RemovingIs
  <2>7. QED
    BY <2>2, <2>6 DEF g, d
<1>16. QED
  BY <1>4, <1>14, <1>15 DEF t2

(* t2 is t when w has got the colour of p, and p and r are black.          *)
Blackened(t, p, w, r, t2) ==
  /\ t2 \in Trees /\ t2.child = t.child /\ t2.parent = t.parent
  /\ (t2.black[w] <=> t.black[p]) /\ t2.black[p] /\ t2.black[r]
  /\ \A m \in Nodes \ {p, w, r} : t2.black[m] <=> t.black[m]

(* A black node beside the hole, with a red child on the far side, goes up *)
(* and fills the hole.                                                     *)
LEMMA LiftBlack ==
  ASSUME NEW t \in Trees, NEW T, NEW C, NEW first, Shape(t, T, C, first),
         NEW p \in T, NEW h \in Sides, Balanced(t, T, p, h, Null), NotRed(t, t.child[h][p]),
         NEW o, o = Other(h), NEW w, w = t.child[o][p], w # Null, t.black[w],
         NEW r, r = t.child[o][w], r # Null, ~t.black[r],
         NEW t2, Shape(t2, T, C, first), Blackened(t, p, w, r, t2)
  PROVE  /\ Rotate(t2, h, p) \in Trees /\ Shape(Rotate(t2, h, p), T, C, first)
         /\ Balanced(Rotate(t2, h, p), T, Null, "left", Null)
<1> DEFINE t3 == Rotate(t2, h, p)
           d == Side(t, p)
           g == t.parent[p]
           z == t.child[h][w]
           c == t.child[h][p]
<1>1. t2 \in Trees /\ t2.child = t.child /\ t2.parent = t.parent /\ Side(t2, p) = d
  BY DEF Blackened, Side
<1>2. t3 \in Trees /\ Shape(t3, T, C, first) /\ Rotated(t2, h, p, o, w, d, g, t3)
  BY <1>1, RotateShape
<1> HIDE DEF t3
<1>3. Turned(t, h, p, o, w, d, g, t3)
  BY <1>1, <1>2 DEF Rotated, Turned
<1>4. Turn(t, T, h, p, o, w, d, g, z, r, c, t3)
  BY <1>3, TurnIs
<1>5. /\ (t3.black[w] <=> t.black[p]) /\ t3.black[p] /\ t3.black[r]
      /\ \A m \in Nodes \ {p, w, r} : t3.black[m] <=> t.black[m]
  BY <1>2, <1>4 DEF Rotated, Blackened, Turn
<1>6. o \in Sides /\ Other(o) = h
  BY TwoSides
<1>7. r # z /\ r # c /\ w # c /\ r # p /\ r \in T
  <2>1. w \in T /\ w # c
    BY <1>6, Child
  <2>2. r # z /\ r \in T
    BY <1>6, <2>1, Child
  <2>3. QED
    BY <1>4, <2>1, <2>2 DEF Turn
<1> HIDE DEF d, g, z, c
<1>8. \A n \in T \ {p, w}, q \in Sides : ~(n = g /\ q = d) => t.child[q][n] \notin {p, w, r}
  BY <1>4, <1>7 DEF Turn
<1>9. Reds(t3, T, Null)
  <2>1. Root(t3) # Null => t3.black[Root(t3)]
    <3>1. Root(t) # Null => t.black[Root(t)] /\ Root(t) \in Nodes
      BY RootIs DEF Balanced, Reds
    <3>2. CASE p = Root(t)
      BY <1>4, <1>5, <3>1, <3>2 DEF Turn
    <3>3. CASE p # Root(t)
      BY <1>4, <1>5, <3>1, <3>3 DEF Turn
    <3>4. QED
      BY <3>2, <3>3
  <2>2. ASSUME NEW n \in T, NEW q \in Sides, ~t3.black[n], t3.child[q][n] # Null
        PROVE  t3.black[t3.child[q][n]]
    <3>1. CASE n = w
      <4>1. t3.child[q][n] = p \/ t3.child[q][n] = r
        BY <1>4, <3>1 DEF Turn
      <4>2. QED
        BY <1>5, <4>1
    <3>2. CASE n = g /\ q = d /\ n \notin {p, w}
      <4>1. t3.child[q][n] = w /\ ~t.black[n] /\ t.child[q][n] = p /\ p # Null
        BY <1>4, <1>5, <2>2, <3>2 DEF Turn
      <4>2. t.black[p]
        BY <4>1 DEF Balanced, Reds
      <4>3. QED
        BY <1>5, <4>1, <4>2
    <3>3. CASE n \notin {p, w} /\ ~(n = g /\ q = d)
      <4>1. t3.child[q][n] = t.child[q][n] /\ t.child[q][n] \in Nodes
        BY <1>4, <2>2, <3>3 DEF Turn
      <4>2. ~t.black[n]
        BY <1>4, <1>5, <2>2, <3>3 DEF Turn
      <4>3. t.black[t.child[q][n]]
        BY <2>2, <4>1, <4>2 DEF Balanced, Reds
      <4>4. t.child[q][n] \notin {p, w, r}
        BY <1>8, <3>3
      <4>5. QED
        BY <1>5, <4>1, <4>3, <4>4
    <3>4. n # p
      BY <1>5, <2>2
    <3>5. QED
      BY <1>4, <3>1, <3>2, <3>3, <3>4 DEF Turn
  <2>3. QED
    BY <2>1, <2>2 DEF Reds
<1>10. PICK b \in Counts : Heights(t, T, p, h, b)
  BY DEF Balanced
<1> DEFINE b3 == [n \in Nodes \cup {Null} |->
                    IF n = p THEN b[w] ELSE IF n = w THEN b[p] ELSE IF n = r THEN b[r] + 1 ELSE b[n]]
<1>11. p \in Nodes /\ w \in Nodes /\ r \in Nodes /\ p # w /\ p # r /\ w # r /\ Null \notin {p, w, r}
  BY <1>4, <1>7, RootIs DEF Turn
<1>12. \A n \in Nodes \cup {Null} : b[n] \in Nat \ {0} /\ b[n] \in Nat
  BY <1>10 DEF Counts
<1>13. b3 \in Counts
  BY <1>11, <1>12 DEF Counts
<1>14. /\ b3[p] = b[w] /\ b3[w] = b[p] /\ b3[r] = b[r] + 1 /\ b3[Null] = 1
       /\ \A n \in Nodes \cup {Null} : n \notin {p, w, r} => b3[n] = b[n]
  BY <1>10, <1>11 DEF Heights
<1> HIDE DEF b3
<1>15. z \in Nodes \cup {Null} /\ c \in Nodes \cup {Null} /\ z \notin {p, w, r} /\ c \notin {p, w, r}
  BY <1>4, <1>7, <1>11 DEF Turn
<1>16. b[w] = b[c] + 1 /\ b[w] = b[z] + 1 /\ b[w] = b[r] + 1
  <2>1. Climbs(b[p], b[c], TRUE, t.black[p]) /\ Climbs(b[p], b[w], FALSE, t.black[p])
    BY <1>6, <1>10, TwoSides DEF Heights, Climbs, c
  <2>2. w \in T /\ w # p
    BY <1>4 DEF Turn
  <2>3. Climbs(b[w], b[z], FALSE, TRUE) /\ Climbs(b[w], b[r], FALSE, TRUE)
    BY <1>6, <1>10, <2>2 DEF Heights, Climbs, z
  <2>4. /\ b[p] \in Nat /\ b[c] \in Nat /\ b[w] \in Nat
    BY <1>11, <1>12, <1>15
  <2>5. b[w] = b[c] + 1
    BY <2>1, <2>4 DEF Climbs
  <2>6. QED
    BY <2>3, <2>5 DEF Climbs
<1>17. Climbs(b[p], b[w], FALSE, t.black[p])
  BY <1>6, <1>10, TwoSides DEF Heights, Climbs
<1>18. Heights(t3, T, Null, "left", b3)
  <2> SUFFICES ASSUME NEW n \in T, NEW q \in Sides
               PROVE  Climbs(b3[n], b3[t3.child[q][n]], FALSE, t3.black[n])
    BY <1>14, RootIs DEF Heights
  <2>1. CASE n = p
    <3>1. t3.child[q][n] \in {c, z}
      BY <1>4, <2>1 DEF Turn
    <3>2. b3[n] = b3[t3.child[q][n]] + 1
      BY <1>14, <1>15, <1>16, <2>1, <3>1
    <3>3. QED
      BY <1>5, <2>1, <3>2 DEF Climbs
  <2>2. CASE n = w
    <3>1. t3.child[q][n] \in {p, r}
      BY <1>4, <2>2 DEF Turn
    <3>2. b3[t3.child[q][n]] = b[w] /\ b3[n] = b[p]
      BY <1>14, <1>16, <2>2, <3>1
    <3>3. QED
      BY <1>5, <1>17, <2>2, <3>2 DEF Climbs
  <2>3. CASE n = r
    <3> DEFINE k == t.child[q][n]
    <3>1. t3.child[q][n] = k /\ k \in Nodes \cup {Null} /\ k \notin {p, w, r}
      <4>1. n \notin {p, w} /\ n # g
        <5>1. PICK e \in Ranks, sp \in SUBSET Places :
                Forest(t, T, C) /\ Ranked(t, e) /\ Spine(t, T, sp, first)
          BY DEF Shape
        <5>2. PICK M \in Nat : e \in [Nodes -> 0..M]
          BY RanksAre
        <5>3. t.parent[r] = w /\ t.parent[w] = p
          BY <1>4, <1>7 DEF Turn
        <5>4. e[w] < e[r] /\ e[p] < e[w] /\ (g \in Nodes => e[g] < e[p])
          BY <1>11, <5>1, <5>3 DEF Ranked, g
        <5>5. r # g
          BY <1>11, <5>2, <5>4
        <5>6. QED
          BY <1>11, <2>3, <5>5
      <4>2. t3.child[q][n] = k /\ (k # Null => k \in Nodes \ {p, w})
        BY <1>4, <4>1 DEF Turn
      <4>3. k # r
        BY <1>8, <4>1
      <4>4. QED
        BY <1>11, <4>2, <4>3
    <3>2. Climbs(b[r], b[k], FALSE, FALSE)
      BY <1>7, <1>10, <2>3 DEF Heights, Climbs
    <3> HIDE DEF k
    <3>3. b3[n] = b3[k] + 1
      BY <1>11, <1>12, <1>14, <2>3, <3>1, <3>2 DEF Climbs
    <3>4. QED
      BY <1>5, <2>3, <3>1, <3>3 DEF Climbs
  <2>4. CASE n = g /\ q = d /\ n \notin {p, w, r}
    <3>1. t3.child[q][n] = w /\ t.child[q][n] = p /\ (t3.black[n] <=> t.black[n]) /\ b3[n] = b[n]
      BY <1>4, <1>5, <1>14, <2>4 DEF Turn
    <3>2. Climbs(b[n], b[p], FALSE, t.black[n])
      BY <1>10, <2>4, <3>1 DEF Heights, Climbs
    <3>3. QED
      BY <1>14, <3>1, <3>2 DEF Climbs
  <2>5. CASE n \notin {p, w, r} /\ ~(n = g /\ q = d)
    <3> DEFINE k == t.child[q][n]
    <3>1. t3.child[q][n] = k /\ (k # Null => k \in Nodes \ {p, w})
      BY <1>4, <2>5 DEF Turn
    <3>2. Climbs(b[n], b[k], FALSE, t.black[n]) /\ k \notin {p, w, r}
      BY <1>8, <1>10, <2>5 DEF Heights, Climbs
    <3> HIDE DEF k
    <3>3. b3[n] = b[n] /\ b3[k] = b[k] /\ (t3.black[n] <=> t.black[n])
      BY <1>4, <1>5, <1>14, <2>5, <3>1, <3>2 DEF Turn
    <3>4. QED
      BY <3>1, <3>2, <3>3 DEF Climbs
  <2>6. QED
    BY <2>1, <2>2, <2>3, <2>4, <2>5
<1>19. QED
  BY <1>2, <1>9, <1>13, <1>18 DEF Balanced, t3

(* What the three changes of colour of the last rotation do.               *)
LEMMA BlackenIs ==
  ASSUME NEW t \in Trees, NEW T, NEW C, NEW first, Shape(t, T, C, first),
         NEW p \in Nodes, NEW w \in Nodes, NEW r \in Nodes, p # w, w # r, p # r,
         NEW b \in BOOLEAN, b <=> t.black[p]
  PROVE  /\ Shape(Paint(Paint(Paint(t, w, b), p, TRUE), r, TRUE), T, C, first)
         /\ Blackened(t, p, w, r, Paint(Paint(Paint(t, w, b), p, TRUE), r, TRUE))
<1> DEFINE t1 == Paint(t, w, b)
           t2 == Paint(t1, p, TRUE)
           t3 == Paint(t2, r, TRUE)
<1>1. t1 \in Trees /\ Shape(t1, T, C, first) /\ Painted(t, w, b, t1)
  BY PaintShape
<1> HIDE DEF t1
<1>2. t2 \in Trees /\ Shape(t2, T, C, first) /\ Painted(t1, p, TRUE, t2)
  BY <1>1, PaintShape
<1> HIDE DEF t2
<1>3. t3 \in Trees /\ Shape(t3, T, C, first) /\ Painted(t2, r, TRUE, t3)
  BY <1>2, PaintShape
<1> HIDE DEF t3
<1>4. Blackened(t, p, w, r, t3)
  BY <1>1, <1>2, <1>3 DEF Painted, Blackened
<1>5. QED
  BY <1>3, <1>4 DEF t1, t2, t3

(* The node beside the hole is black and has a red child.                  *)
RedBeside(t, x, p, h, near, t1, w, r, t2) ==
  /\ t.black[x] /\ near = t.child[h][x] /\ (~NotRed(t, near) \/ ~NotRed(t, t.child[Other(h)][x]))
  /\ IF NotRed(t, t.child[Other(h)][x])
     THEN t1 = Rotate(Paint(Paint(t, near, TRUE), x, FALSE), Other(h), x) /\ w = near
     ELSE t1 = t /\ w = x
  /\ r = t1.child[Other(h)][w]
  /\ t2 = Paint(Paint(Paint(t1, w, t.black[p]), p, TRUE), r, TRUE)

(* One or two rotations end a removal: the tree is balanced.               *)
LEMMA LiftSiblingBalanced ==
  ASSUME NEW t, NEW T, NEW C, NEW first, NEW x, NEW p, NEW h, Removing(t, T, C, first, x, p, h),
         NEW near, NEW t1, NEW w, NEW r, NEW t2, RedBeside(t, x, p, h, near, t1, w, r, t2)
  PROVE  /\ Rotate(t2, h, p) \in Trees /\ Shape(Rotate(t2, h, p), T, C, first)
         /\ Balanced(Rotate(t2, h, p), T, Null, "left", Null)
<1> SUFFICES ASSUME
         t.black[x], near = t.child[h][x], ~NotRed(t, near) \/ ~NotRed(t, t.child[Other(h)][x]),
         NotRed(t, t.child[Other(h)][x]) =>
            t1 = Rotate(Paint(Paint(t, near, TRUE), x, FALSE), Other(h), x) /\ w = near,
         ~NotRed(t, t.child[Other(h)][x]) => t1 = t /\ w = x,
         r = t1.child[Other(h)][w], t2 = Paint(Paint(Paint(t1, w, t.black[p]), p, TRUE), r, TRUE)
  PROVE  /\ Rotate(t2, h, p) \in Trees /\ Shape(Rotate(t2, h, p), T, C, first)
         /\ Balanced(Rotate(t2, h, p), T, Null, "left", Null)
  BY DEF RedBeside
<1> DEFINE b == t.black[p]
<1>0. b \in BOOLEAN /\ (b <=> t.black[p])
  <2>1. t \in Trees /\ p \in Nodes
    BY AroundHole DEF Removing
  <2>2. QED
    BY <2>1, TreeFields
<1> HIDE DEF b
<1> DEFINE o == Other(h)
           far == t.child[o][x]
           c == t.child[h][p]
<1>1. /\ t \in Trees /\ Shape(t, T, C, first) /\ Balanced(t, T, p, h, Null)
      /\ x \in T /\ p = t.parent[x] /\ p \in T /\ NotRed(t, c)
  BY DEF Removing
<1>2. /\ h \in Sides /\ o \in Sides /\ h # o /\ Other(o) = h /\ Side(t, x) = o /\ t.child[o][p] = x
      /\ x \in Nodes /\ p \in Nodes /\ x # Null /\ p # Null /\ x # p
  BY AroundHole
<1> HIDE DEF far, c
(* The red child is on the far side, if it was not.                        *)
<1>3. /\ t1 \in Trees /\ Shape(t1, T, C, first) /\ Balanced(t1, T, p, h, Null)
      /\ NotRed(t1, t1.child[h][p]) /\ w = t1.child[o][p] /\ t1.black[w]
      /\ r # Null /\ ~t1.black[r] /\ w # p /\ r # p /\ r # w /\ w \in T /\ r \in T
      /\ t1.black[p] <=> t.black[p]
  <2>1. CASE ~NotRed(t, far)
    <3>1. t1 = t /\ w = x /\ r = far /\ ~t.black[far] /\ far # Null
      BY <2>1 DEF far, NotRed
    <3>2. far \in T /\ far # x /\ far # p
      BY <1>1, <1>2, <3>1, Child DEF far
    <3>3. QED
      BY <1>1, <1>2, <3>1, <3>2 DEF c
  <2>2. CASE NotRed(t, far)
    <3> DEFINE u2 == Paint(t, near, TRUE)
               t3 == Paint(u2, x, FALSE)
    <3>1. t1 = Rotate(t3, o, x) /\ w = near
      BY <2>2 DEF far
    <3>2. near # Null /\ ~t.black[near]
      BY <2>2 DEF far, NotRed
    <3>3. near \in T /\ near \in Nodes /\ near # x /\ near # p /\ t.parent[near] = x
      BY <1>1, <1>2, <3>2, Child
    <3>4. u2 \in Trees /\ Shape(u2, T, C, first) /\ Painted(t, near, TRUE, u2)
      BY <1>1, <3>3, PaintShape
    <3> HIDE DEF u2
    <3>5. t3 \in Trees /\ Shape(t3, T, C, first) /\ Painted(u2, x, FALSE, t3)
      BY <1>2, <3>4, PaintShape
    <3> HIDE DEF t3
    <3>6. Exchanged(t, x, near, t3)
      BY <1>2, <3>2, <3>3, <3>4, <3>5 DEF Exchanged, Painted
    <3>7. NotRed(t, t.child[o][near])
      BY <1>1, <1>2, <3>2, <3>3 DEF Balanced, Reds, NotRed
    <3>8. Liftable(t, T, o, x, near, p, h, Null, t3)
      BY <1>2, <2>2, <3>2, <3>3, <3>6, <3>7 DEF Liftable, far
    <3>9. Lifted(t, T, C, first, o, x, near, p, h, t1)
      BY <1>1, <1>2, <3>1, <3>5, <3>8, LiftRed
    <3>10. /\ t1 \in Trees /\ Shape(t1, T, C, first) /\ Balanced(t1, T, p, h, Null)
           /\ Turned(t, o, x, h, near, o, p, t1)
           /\ ~t1.black[x] /\ t1.black[near]
           /\ \A m \in Nodes \ {x, near} : t1.black[m] <=> t.black[m]
      BY <1>1, <1>2, <3>9 DEF Lifted
    <3>11. /\ near \in Places /\ p \in Places
           /\ t1.child[o][near] = x /\ t1.child[o][p] = near /\ t1.child[h][p] = c
      BY <1>2, <3>3, <3>10 DEF Turned, Places, c
    <3>12. c \in Nodes \cup {Null} /\ (c # Null => c # x /\ c # near)
      <4>1. c \in Nodes \cup {Null}
        BY <1>1, <1>2, <3>11, TreeFields DEF c
      <4>2. c # Null => c # x /\ t.parent[c] = p
        BY <1>1, <1>2, Child DEF c
      <4>3. QED
        BY <1>2, <3>3, <4>1, <4>2
    <3>13. NotRed(t1, c)
      BY <1>1, <3>10, <3>12 DEF NotRed
    <3>14. r = x /\ w = near /\ (t1.black[p] <=> t.black[p])
      BY <1>2, <3>1, <3>3, <3>10, <3>11
    <3>15. QED
      BY <1>1, <1>2, <3>3, <3>10, <3>11, <3>13, <3>14
  <2>3. QED
    BY <2>1, <2>2
<1>4. w \in Nodes /\ r \in Nodes /\ r = t1.child[o][w]
  BY <1>1, <1>3, RootIs, ZenonT(30)
<1> DEFINE t4 == Paint(Paint(Paint(t1, w, b), p, TRUE), r, TRUE)
<1>5. b <=> t1.black[p]
  BY <1>0, <1>3
<1>6. Shape(t4, T, C, first) /\ Blackened(t1, p, w, r, t4)
  BY <1>0, <1>2, <1>3, <1>4, <1>5, BlackenIs
<1>9. t4 = t2
  BY DEF b
<1> HIDE DEF t4
<1>7. /\ Rotate(t4, h, p) \in Trees /\ Shape(Rotate(t4, h, p), T, C, first)
      /\ Balanced(Rotate(t4, h, p), T, Null, "left", Null)
  <2>1. o = Other(h) /\ t1.black[w] /\ ~t1.black[r] /\ w # Null /\ r # Null
    BY <1>1, <1>3, RootIs, ZenonT(30)
  <2> HIDE DEF o
  <2>2. /\ t1 \in Trees /\ Shape(t1, T, C, first) /\ p \in T /\ h \in Sides
        /\ Balanced(t1, T, p, h, Null) /\ NotRed(t1, t1.child[h][p])
        /\ w = t1.child[o][p] /\ r = t1.child[o][w]
    BY <1>1, <1>2, <1>3, <1>4, Zenon
  <2>3. QED
    BY <1>6, <2>1, <2>2, LiftBlack
<1>8. QED
  BY <1>7, <1>9

-----------------------------------------------------------------------------
(***************************************************************************)
(* Walks from node to node.  A function f of this kind is the value at the *)
(* first node of D on the way.                                             *)
(***************************************************************************)
Walks(S, D, val, next, f) == f = [n \in S |-> IF n \in D THEN val[n] ELSE f[next[n]]]

(* A walk along which a rank decreases has a value.                        *)
LEMMA WalkExists ==
  ASSUME NEW S, NEW D, NEW V, V # {}, NEW val \in [S -> V], NEW next \in [S -> S],
         NEW M \in Nat, NEW r \in [S -> 0..M], \A n \in S : n \notin D => r[next[n]] < r[n]
  PROVE  \E f : Walks(S, D, val, next, f)
<1> DEFINE step == [a \in S \X [S -> V] |-> IF a[1] \in D THEN val[a[1]] ELSE a[2][next[a[1]]]]
<1>1. step \in [S \X [S -> V] -> V]
  OBVIOUS
<1>2. \A n \in S, f \in [S -> V] : step[<<n, f>>] = IF n \in D THEN val[n] ELSE f[next[n]]
  OBVIOUS
<1> HIDE DEF step
<1>3. ASSUME NEW n \in S, NEW f \in [S -> V], NEW g \in [S -> V], \A m \in S : r[m] < r[n] => f[m] = g[m]
      PROVE  step[<<n, f>>] = step[<<n, g>>]
  BY <1>2, <1>3
<1>4. Recursive(S, V, M, r, step)
  BY <1>1, <1>3 DEF Recursive
<1>5. PICK f : Solves(S, V, step, f)
  BY <1>4, Recursion
<1>6. Walks(S, D, val, next, f)
  BY <1>2, <1>5 DEF Walks, Solves
<1>7. QED
  BY <1>6

(* It is in Q if the way stays in B and ends with a value in Q.            *)
Arrives(S, D, val, next, r, B, Q) ==
  /\ r \in [S -> Nat] /\ \A n \in S : n \notin D => r[next[n]] < r[n]
  /\ B \subseteq S
  /\ \A n \in B : IF n \in D THEN val[n] \in Q ELSE next[n] \in B

(* The value of a walk is one that ends it.                                *)
LEMMA WalkEnds ==
  ASSUME NEW S, NEW D, NEW val, NEW next, NEW f, Walks(S, D, val, next, f),
         NEW r, NEW B, NEW Q, Arrives(S, D, val, next, r, B, Q), NEW x \in B
  PROVE  f[x] \in Q
<1>0. /\ r \in [S -> Nat] /\ \A n \in S : n \notin D => r[next[n]] < r[n]
      /\ B \subseteq S
      /\ \A n \in B : IF n \in D THEN val[n] \in Q ELSE next[n] \in B
  BY DEF Arrives
<1> USE <1>0
<1> DEFINE G == {n \in S : n \in B => f[n] \in Q}
<1>1. ASSUME NEW n \in S, \A m \in S : r[m] < r[n] => m \in G PROVE n \in G
  <2>1. f[n] = IF n \in D THEN val[n] ELSE f[next[n]]
    BY DEF Walks
  <2>2. QED
    BY <1>1, <2>1
<1> HIDE DEF G
<1>2. \A n \in S : n \in G
  BY <1>1, RankInduction
<1>3. QED
  BY <1>2 DEF G

(* Downwards, the rank that is left decreases.                             *)
LEMMA Downwards ==
  ASSUME NEW t \in Trees, NEW T, NEW C, NEW e \in Ranks, Forest(t, T, C), Ranked(t, e)
  PROVE  \E M \in Nat : \E r \in [Nodes -> 0..M] :
           \A n \in Nodes, s \in Sides : t.child[s][n] # Null =>
             t.child[s][n] \in Nodes /\ r[t.child[s][n]] < r[n]
<1>1. PICK M \in Nat : e \in [Nodes -> 0..M]
  BY RanksAre
<1> DEFINE r == [n \in Nodes |-> M - e[n]]
<1>2. r \in [Nodes -> 0..M]
  BY <1>1
<1>3. ASSUME NEW n \in Nodes, NEW s \in Sides, t.child[s][n] # Null
      PROVE  t.child[s][n] \in Nodes /\ r[t.child[s][n]] < r[n]
  <2> DEFINE k == t.child[s][n]
  <2>1. n \in Places
    BY DEF Places
  <2>2. k \in Nodes /\ t.parent[k] = n
    BY <1>3, <2>1, TreeFields DEF Forest, LinksAgree
  <2> HIDE DEF k
  <2>3. e[n] < e[k]
    BY <2>2 DEF Ranked
  <2>4. r[k] < r[n]
    BY <1>1, <2>2, <2>3
  <2>5. QED
    BY <2>2, <2>4 DEF k
<1>4. QED
  BY <1>2, <1>3

(* __tree_min and __tree_max stay in a set that is closed downwards.       *)
LEMMA ExtremeIs ==
  ASSUME NEW t \in Trees, NEW T, NEW C, NEW e \in Ranks, Forest(t, T, C), Ranked(t, e),
         NEW s \in Sides, NEW B \in SUBSET Nodes, NEW x \in B,
         \A n \in B : t.child[s][n] # Null => t.child[s][n] \in B
  PROVE  Extreme(t, s, x) \in B /\ t.child[s][Extreme(t, s, x)] = Null
<1> DEFINE Is(g) == g = [n \in Nodes |-> IF t.child[s][n] = Null THEN n ELSE g[t.child[s][n]]]
           go == CHOOSE g : Is(g)
           D == {n \in Nodes : t.child[s][n] = Null}
           val == [n \in Nodes |-> n]
           next == [n \in Nodes |-> IF n \in D THEN n ELSE t.child[s][n]]
<1>1. PICK M \in Nat : \E r \in [Nodes -> 0..M] :
        \A n \in Nodes, q \in Sides : t.child[q][n] # Null =>
             t.child[q][n] \in Nodes /\ r[t.child[q][n]] < r[n]
  BY Downwards
<1>2. PICK r \in [Nodes -> 0..M] :
        \A n \in Nodes, q \in Sides : t.child[q][n] # Null =>
             t.child[q][n] \in Nodes /\ r[t.child[q][n]] < r[n]
  BY <1>1
<1>3. next \in [Nodes -> Nodes] /\ \A n \in Nodes : n \notin D => r[next[n]] < r[n]
  BY <1>2
<1>4. val \in [Nodes -> Nodes] /\ Nodes # {}
  OBVIOUS
<1>5. \A g : Is(g) <=> Walks(Nodes, D, val, next, g)
  BY DEF Walks
<1>6. r \in [Nodes -> Nat]
  OBVIOUS
<1>7. \A n \in B : IF n \in D THEN val[n] \in B \cap D ELSE next[n] \in B
  OBVIOUS
<1>8. Extreme(t, s, x) = go[x]
  BY DEF Extreme
<1> HIDE DEF Is, D, val, next
<1>9. PICK g : Walks(Nodes, D, val, next, g)
  BY <1>3, <1>4, WalkExists
<1>10. Is(go)
  BY <1>5, <1>9
<1> HIDE DEF go
<1>11. Walks(Nodes, D, val, next, go)
  BY <1>5, <1>10
<1>12. Arrives(Nodes, D, val, next, r, B, B \cap D)
  BY <1>3, <1>6, <1>7 DEF Arrives
<1>13. go[x] \in B \cap D
  BY <1>11, <1>12, WalkEnds
<1>14. QED
  BY <1>8, <1>13 DEF D

(* __tree_leaf likewise.                                                   *)
LEMMA LeafIs ==
  ASSUME NEW t \in Trees, NEW T, NEW C, NEW e \in Ranks, Forest(t, T, C), Ranked(t, e),
         NEW B \in SUBSET Nodes, NEW x \in B,
         \A n \in B, s \in Sides : t.child[s][n] # Null => t.child[s][n] \in B
  PROVE  Leaf(t, x) \in B /\ \A s \in Sides : t.child[s][Leaf(t, x)] = Null
<1> DEFINE Is(g) == g = [n \in Nodes |-> IF t.child["left"][n] # Null THEN g[t.child["left"][n]]
                                         ELSE IF t.child["right"][n] # Null THEN g[t.child["right"][n]]
                                         ELSE n]
           go == CHOOSE g : Is(g)
           D == {n \in Nodes : \A s \in Sides : t.child[s][n] = Null}
           val == [n \in Nodes |-> n]
           next == [n \in Nodes |-> IF n \in D THEN n
                                    ELSE IF t.child["left"][n] # Null THEN t.child["left"][n]
                                    ELSE t.child["right"][n]]
<1>1. PICK M \in Nat : \E r \in [Nodes -> 0..M] :
        \A n \in Nodes, q \in Sides : t.child[q][n] # Null =>
             t.child[q][n] \in Nodes /\ r[t.child[q][n]] < r[n]
  BY Downwards
<1>2. PICK r \in [Nodes -> 0..M] :
        \A n \in Nodes, q \in Sides : t.child[q][n] # Null =>
             t.child[q][n] \in Nodes /\ r[t.child[q][n]] < r[n]
  BY <1>1
<1>3. "left" \in Sides /\ "right" \in Sides
      /\ \A n \in Nodes : n \in D <=> t.child["left"][n] = Null /\ t.child["right"][n] = Null
  BY DEF Sides
<1>4. next \in [Nodes -> Nodes] /\ \A n \in Nodes : n \notin D => r[next[n]] < r[n]
  <2> HIDE DEF D
  <2>1. QED
    BY <1>2, <1>3
<1>5. val \in [Nodes -> Nodes] /\ Nodes # {}
  OBVIOUS
<1>6. \A g : Is(g) <=> Walks(Nodes, D, val, next, g)
  <2> SUFFICES ASSUME NEW g PROVE Is(g) <=> Walks(Nodes, D, val, next, g)
    OBVIOUS
  <2> HIDE DEF D
  <2>1. \A n \in Nodes : (IF t.child["left"][n] # Null THEN g[t.child["left"][n]]
                          ELSE IF t.child["right"][n] # Null THEN g[t.child["right"][n]]
                          ELSE n)
                       = (IF n \in D THEN val[n] ELSE g[next[n]])
    BY <1>3
  <2>2. QED
    BY <2>1 DEF Walks
<1>7. r \in [Nodes -> Nat]
  OBVIOUS
<1>8. \A n \in B : IF n \in D THEN val[n] \in B \cap D ELSE next[n] \in B
  <2> HIDE DEF D
  <2>1. QED
    BY <1>3
<1>9. Leaf(t, x) = go[x]
  BY DEF Leaf
<1> HIDE DEF Is, D, val, next
<1>10. PICK g : Walks(Nodes, D, val, next, g)
  BY <1>4, <1>5, WalkExists
<1>11. Is(go)
  BY <1>6, <1>10
<1> HIDE DEF go
<1>12. Walks(Nodes, D, val, next, go)
  BY <1>6, <1>11
<1>13. go[x] \in B \cap D
  <2>1. Arrives(Nodes, D, val, next, r, B, B \cap D)
    BY <1>4, <1>7, <1>8 DEF Arrives
  <2>2. QED
    BY <1>12, <2>1, WalkEnds
<1>14. QED
  BY <1>9, <1>13 DEF D

(* __tree_next_iter.                                                       *)
LEMMA NextNodeIs ==
  ASSUME NEW t \in Trees, NEW e \in Ranks, Ranked(t, e), NEW x \in Nodes
  PROVE  NextNode(t, x) = IF t.child["right"][x] # Null THEN Extreme(t, "left", t.child["right"][x])
                          ELSE IF Side(t, x) = "left" THEN t.parent[x]
                          ELSE NextNode(t, x)
<1> DEFINE Is(g) == g = [n \in Nodes |-> IF t.parent[n] \notin Nodes \/ Side(t, n) = "left"
                                         THEN t.parent[n] ELSE g[t.parent[n]]]
           climb == CHOOSE g : Is(g)
           D == {n \in Nodes : t.parent[n] \notin Nodes \/ Side(t, n) = "left"}
           val == [n \in Nodes |-> t.parent[n]]
           next == [n \in Nodes |-> IF n \in D THEN n ELSE t.parent[n]]
<1>1. PICK M \in Nat : e \in [Nodes -> 0..M]
  BY RanksAre
<1>2. next \in [Nodes -> Nodes] /\ \A n \in Nodes : n \notin D => e[next[n]] < e[n]
  BY DEF Ranked
<1>3. val \in [Nodes -> Nodes \cup {End, Null}] /\ Nodes \cup {End, Null} # {}
  BY TreeFields
<1>4. \A g : Is(g) <=> Walks(Nodes, D, val, next, g)
  <2> SUFFICES ASSUME NEW g PROVE Is(g) <=> Walks(Nodes, D, val, next, g)
    OBVIOUS
  <2>1. \A n \in Nodes : (IF t.parent[n] \notin Nodes \/ Side(t, n) = "left"
                          THEN t.parent[n] ELSE g[t.parent[n]])
                       = (IF n \in D THEN val[n] ELSE g[next[n]])
    OBVIOUS
  <2>2. QED
    BY <2>1 DEF Walks
<1>5. NextNode(t, x) = IF t.child["right"][x] # Null THEN Extreme(t, "left", t.child["right"][x])
                       ELSE climb[x]
  BY DEF NextNode
<1> HIDE DEF D, val, next
<1>6. PICK g : Walks(Nodes, D, val, next, g)
  BY <1>1, <1>2, <1>3, WalkExists
<1>7. Is(g)
  BY <1>4, <1>6
<1>8. Is(climb)
  <2> HIDE DEF Is
  <2>1. QED
    BY <1>7
<1>9. Side(t, x) = "left" => climb[x] = t.parent[x]
  <2> HIDE DEF climb
  <2>1. QED
    BY <1>8
<1> HIDE DEF climb
<1>10. QED
  BY <1>5, <1>9

(* The climb to the top of the cache.                                      *)
LEMMA TopIs ==
  ASSUME NEW t \in Trees, NEW e \in Ranks, Ranked(t, e),
         NEW B \in SUBSET Nodes, cache \in B, cache # Null,
         \A n \in B : t.parent[n] \in Nodes => t.parent[n] \in B
  PROVE  \E k \in B : t.parent[k] \notin Nodes /\ CacheNodes(t) = Subtree(t, k)
<1> DEFINE Is(g) == g = [n \in Nodes |-> IF t.parent[n] \notin Nodes THEN n ELSE g[t.parent[n]]]
           top == CHOOSE g : Is(g)
           D == {n \in Nodes : t.parent[n] \notin Nodes}
           val == [n \in Nodes |-> n]
           next == [n \in Nodes |-> IF n \in D THEN n ELSE t.parent[n]]
<1>1. PICK M \in Nat : e \in [Nodes -> 0..M]
  BY RanksAre
<1>2. next \in [Nodes -> Nodes] /\ (\A n \in Nodes : n \notin D => e[next[n]] < e[n]) /\ e \in [Nodes -> Nat]
  BY <1>1 DEF Ranked
<1>3. val \in [Nodes -> Nodes] /\ Nodes # {}
  OBVIOUS
<1>4. \A g : Is(g) <=> Walks(Nodes, D, val, next, g)
  <2> SUFFICES ASSUME NEW g PROVE Is(g) <=> Walks(Nodes, D, val, next, g)
    OBVIOUS
  <2>1. \A n \in Nodes : (IF t.parent[n] \notin Nodes THEN n ELSE g[t.parent[n]])
                       = (IF n \in D THEN val[n] ELSE g[next[n]])
    OBVIOUS
  <2>2. QED
    BY <2>1 DEF Walks
<1>5. CacheNodes(t) = Subtree(t, top[cache])
  BY DEF CacheNodes
<1>6. \A n \in B : IF n \in D THEN val[n] \in B \cap D ELSE next[n] \in B
  OBVIOUS
<1> HIDE DEF Is, D, val, next
<1>7. PICK g : Walks(Nodes, D, val, next, g)
  BY <1>1, <1>2, <1>3, WalkExists
<1>8. Is(top)
  BY <1>4, <1>7
<1> HIDE DEF top
<1>9. Walks(Nodes, D, val, next, top)
  BY <1>4, <1>8
<1>10. top[cache] \in B \cap D
  <2>1. Arrives(Nodes, D, val, next, e, B, B \cap D)
    BY <1>2, <1>6 DEF Arrives
  <2>2. QED
    BY <1>9, <2>1, WalkEnds
<1>11. QED
  BY <1>5, <1>10 DEF D

(* A descent ends at a null leaf.                                          *)
EmptyPlace(t, T, place) ==
  \E p \in T \cup {End}, s \in Sides : 
    /\ place = <<p, s>> /\ t.child[s][p] = Null
    /\ p = End => s = "left"

(* __find_leaf_low and __find_leaf_high end at a null leaf of the tree.    *)
LEMMA DescentIs ==
  ASSUME tree \in Trees, NEW T, NEW C, NEW first, Shape(tree, T, C, first), NEW L
  PROVE  EmptyPlace(tree, T, Descent(L))
<1> DEFINE Where(n) == IF n \in L THEN "left" ELSE "right"
           Is(g) == g = [n \in Nodes |-> LET s == IF n \in L THEN "left" ELSE "right"
                                         IN  IF tree.child[s][n] = Null THEN <<n, s>> ELSE g[tree.child[s][n]]]
           go == CHOOSE g : Is(g)
           D == {n \in Nodes : tree.child[Where(n)][n] = Null}
           val == [n \in Nodes |-> <<n, Where(n)>>]
           next == [n \in Nodes |-> IF n \in D THEN n ELSE tree.child[Where(n)][n]]
           x == Root(tree)
           Q == {a \in T \X Sides : tree.child[a[2]][a[1]] = Null}
<1>1. PICK e \in Ranks, sp \in SUBSET Places :
        Forest(tree, T, C) /\ Ranked(tree, e) /\ Spine(tree, T, sp, first)
  BY DEF Shape
<1>2. PICK M \in Nat : \E r \in [Nodes -> 0..M] :
        \A n \in Nodes, q \in Sides : tree.child[q][n] # Null =>
             tree.child[q][n] \in Nodes /\ r[tree.child[q][n]] < r[n]
  BY <1>1, Downwards
<1>3. PICK r \in [Nodes -> 0..M] :
        \A n \in Nodes, q \in Sides : tree.child[q][n] # Null =>
             tree.child[q][n] \in Nodes /\ r[tree.child[q][n]] < r[n]
  BY <1>2
<1>4. "left" \in Sides /\ "right" \in Sides /\ \A n : Where(n) \in Sides
  BY DEF Sides
<1>5. T \subseteq Nodes /\ T \in SUBSET Nodes /\ \A n \in T, q \in Sides : tree.child[q][n] # Null => tree.child[q][n] \in T
  BY RootIs, Child
<1>6. x # Null => x \in T /\ x \in Nodes
  BY RootIs
<1>7. x # Null => Descent(L) = go[x]
  BY DEF Descent
<1>8. \A g : Is(g) <=> Walks(Nodes, D, val, next, g)
  <2> SUFFICES ASSUME NEW g PROVE Is(g) <=> Walks(Nodes, D, val, next, g)
    OBVIOUS
  <2>1. Is(g) <=> g = [n \in Nodes |-> IF tree.child[Where(n)][n] = Null THEN <<n, Where(n)>>
                                       ELSE g[tree.child[Where(n)][n]]]
    OBVIOUS
  <2> HIDE DEF Is, Where
  <2>2. \A n \in Nodes : (IF tree.child[Where(n)][n] = Null THEN <<n, Where(n)>>
                          ELSE g[tree.child[Where(n)][n]])
                       = (IF n \in D THEN val[n] ELSE g[next[n]])
    OBVIOUS
  <2>3. QED
    BY <2>1, <2>2 DEF Walks
<1> HIDE DEF Where, Is, go, x
<1>9. next \in [Nodes -> Nodes] /\ \A n \in Nodes : n \notin D => r[next[n]] < r[n]
  BY <1>3, <1>4
<1>10. val \in [Nodes -> Nodes \X Sides] /\ (x # Null => Nodes \X Sides # {})
  <2>1. \A n \in Nodes : <<n, Where(n)>> \in Nodes \X Sides
    BY <1>4
  <2>2. x # Null => <<x, "left">> \in Nodes \X Sides
    BY <1>4, <1>6
  <2>3. QED
    BY <2>1, <2>2
<1>11. r \in [Nodes -> Nat]
  OBVIOUS
<1>12. \A n \in T : IF n \in D THEN val[n] \in Q ELSE next[n] \in T
  BY <1>4, <1>5
<1> HIDE DEF D, val, next, Q
<1>13. CASE x # Null
  <2>1. PICK g : Walks(Nodes, D, val, next, g)
    BY <1>9, <1>10, <1>13, WalkExists
  <2>2. Is(go)
    BY <1>8, <2>1 DEF go
  <2>3. Walks(Nodes, D, val, next, go)
    BY <1>8, <2>2
  <2>4. go[x] \in Q
    <3>1. Arrives(Nodes, D, val, next, r, T, Q)
      BY <1>5, <1>9, <1>11, <1>12 DEF Arrives
    <3>2. QED
      BY <1>6, <1>13, <2>3, <3>1, WalkEnds
  <2>5. PICK p \in T, s \in Sides : go[x] = <<p, s>> /\ tree.child[s][p] = Null
    BY <2>4 DEF Q
  <2>6. p # End
    BY RootIs
  <2>7. QED
    BY <1>7, <1>13, <2>5, <2>6 DEF EmptyPlace
<1>14. CASE x = Null
  BY <1>4, <1>14 DEF Descent, AtEnd, EmptyPlace, Root, x
<1>15. QED
  BY <1>13, <1>14

-----------------------------------------------------------------------------
(***************************************************************************)
(* What destroy() meets.                                                   *)
(***************************************************************************)
LEMMA SubtreeStep ==
  ASSUME NEW t \in Trees, NEW T, NEW C, NEW e \in Ranks, Forest(t, T, C), Ranked(t, e)
  PROVE  /\ Subtree(t, Null) = {}
         /\ \A n \in Nodes : Subtree(t, n) = {n} \cup Subtree(t, t.child["left"][n])
                                                \cup Subtree(t, t.child["right"][n])
<1> DEFINE S == Nodes \cup {Null}
           V == SUBSET Nodes
           Is(g) == g = [m \in S |-> IF m = Null THEN {} ELSE {m} \cup g[t.child["left"][m]] \cup g[t.child["right"][m]]]
           sub == CHOOSE g : Is(g)
           step == [a \in S \X [S -> V] |-> IF a[1] = Null THEN {}
                      ELSE {a[1]} \cup a[2][t.child["left"][a[1]]] \cup a[2][t.child["right"][a[1]]]]
<1>1. PICK M \in Nat : \E r \in [Nodes -> 0..M] :
        \A n \in Nodes, q \in Sides : t.child[q][n] # Null =>
             t.child[q][n] \in Nodes /\ r[t.child[q][n]] < r[n]
  BY Downwards
<1>2. PICK r \in [Nodes -> 0..M] :
        \A n \in Nodes, q \in Sides : t.child[q][n] # Null =>
             t.child[q][n] \in Nodes /\ r[t.child[q][n]] < r[n]
  BY <1>1
<1> DEFINE rr == [m \in S |-> IF m = Null THEN 0 ELSE r[m] + 1]
<1>3. \A n \in Nodes, q \in Sides : t.child[q][n] \in S /\ rr[t.child[q][n]] < rr[n] /\ n # Null
  <2> SUFFICES ASSUME NEW n \in Nodes, NEW q \in Sides
               PROVE  t.child[q][n] \in S /\ rr[t.child[q][n]] < rr[n] /\ n # Null
    OBVIOUS
  <2>1. n # Null /\ rr[n] = r[n] + 1 /\ rr[Null] = 0 /\ r[n] \in 0..M
    BY <1>2, RBTreeAssumption
  <2>2. CASE t.child[q][n] = Null
    BY <2>1, <2>2
  <2>3. CASE t.child[q][n] # Null
    <3>1. t.child[q][n] \in Nodes /\ r[t.child[q][n]] < r[n]
      BY <1>2, <2>3
    <3>2. rr[t.child[q][n]] = r[t.child[q][n]] + 1 /\ r[t.child[q][n]] \in 0..M
      BY <1>2, <2>3, <3>1
    <3>3. QED
      BY <2>1, <3>1, <3>2
  <2>4. QED
    BY <2>2, <2>3
<1>4. rr \in [S -> 0..(M + 1)] /\ M + 1 \in Nat
  BY <1>2
<1>5. "left" \in Sides /\ "right" \in Sides
  BY DEF Sides
<1> HIDE DEF rr
<1>6. step \in [S \X [S -> V] -> V]
  BY <1>3, <1>5
<1>7. \A n \in S, f \in [S -> V] : step[<<n, f>>] = IF n = Null THEN {}
           ELSE {n} \cup f[t.child["left"][n]] \cup f[t.child["right"][n]]
  OBVIOUS
<1> HIDE DEF step
<1>8. ASSUME NEW n \in S, NEW f \in [S -> V], NEW g \in [S -> V], \A m \in S : rr[m] < rr[n] => f[m] = g[m]
      PROVE  step[<<n, f>>] = step[<<n, g>>]
  <2>1. CASE n = Null
    BY <1>7, <2>1
  <2>2. CASE n # Null
    <3>1. ASSUME NEW q \in Sides PROVE f[t.child[q][n]] = g[t.child[q][n]]
      <4>1. t.child[q][n] \in S /\ rr[t.child[q][n]] < rr[n]
        BY <1>3, <2>2
      <4>2. QED
        BY <1>8, <4>1
    <3>2. f[t.child["left"][n]] = g[t.child["left"][n]] /\ f[t.child["right"][n]] = g[t.child["right"][n]]
      BY <1>5, <3>1
    <3>3. QED
      BY <1>7, <2>2, <3>2
  <2>3. QED
    BY <2>1, <2>2
<1>9. V # {}
  OBVIOUS
<1>10. Recursive(S, V, M + 1, rr, step)
  BY <1>4, <1>6, <1>8, <1>9 DEF Recursive
<1>11. PICK f : Solves(S, V, step, f)
  BY <1>10, Recursion
<1>12. Is(f)
  BY <1>7, <1>11 DEF Solves
<1>13. Is(sub)
  <2> HIDE DEF Is
  <2>1. QED
    BY <1>12
<1>14. \A n : Subtree(t, n) = sub[n]
  BY DEF Subtree
<1> HIDE DEF sub
<1>15. sub = [m \in S |-> IF m = Null THEN {} ELSE {m} \cup sub[t.child["left"][m]] \cup sub[t.child["right"][m]]]
  BY <1>13
<1>16. \A m \in S : sub[m] = IF m = Null THEN {} ELSE {m} \cup sub[t.child["left"][m]] \cup sub[t.child["right"][m]]
  BY <1>15, ZenonT(30)
<1>17. sub[Null] = {} /\ \A n \in Nodes : sub[n] = {n} \cup sub[t.child["left"][n]] \cup sub[t.child["right"][n]]
  <2>1. sub[Null] = {}
    BY <1>16
  <2>2. ASSUME NEW n \in Nodes
        PROVE  sub[n] = {n} \cup sub[t.child["left"][n]] \cup sub[t.child["right"][n]]
    <3>1. n \in S /\ n # Null
      BY <1>3, <1>5
    <3>2. QED
      BY <1>16, <3>1
  <2>3. QED
    BY <2>1, <2>2
<1>18. QED
  BY <1>14, <1>17

(* From the top of a set that is closed downwards and upwards, up to the   *)
(* top, it is the set.                                                     *)
LEMMA SubtreeIs ==
  ASSUME NEW t \in Trees, NEW T, NEW C, NEW e \in Ranks, Forest(t, T, C), Ranked(t, e),
         NEW G \in SUBSET Nodes, NEW g \in G,
         \A n \in G, s \in Sides : t.child[s][n] # Null => t.child[s][n] \in G,
         \A n \in G \ {g} : t.parent[n] \in G /\ IsChild(t, n)
  PROVE  Subtree(t, g) = G
<1>1. PICK M \in Nat : \E r \in [Nodes -> 0..M] :
        \A n \in Nodes, q \in Sides : t.child[q][n] # Null =>
             t.child[q][n] \in Nodes /\ r[t.child[q][n]] < r[n]
  BY Downwards
<1>2. PICK r \in [Nodes -> 0..M] :
        \A n \in Nodes, q \in Sides : t.child[q][n] # Null =>
             t.child[q][n] \in Nodes /\ r[t.child[q][n]] < r[n]
  BY <1>1
<1>3. PICK K \in Nat : e \in [Nodes -> 0..K]
  BY RanksAre
<1>4. /\ Subtree(t, Null) = {}
      /\ \A n \in Nodes : Subtree(t, n) = {n} \cup Subtree(t, t.child["left"][n])
                                             \cup Subtree(t, t.child["right"][n])
  BY SubtreeStep
<1>5. r \in [Nodes -> Nat] /\ e \in [Nodes -> Nat]
  BY <1>3
<1>6. "left" \in Sides /\ "right" \in Sides /\ \A q \in Sides : q = "left" \/ q = "right"
  BY DEF Sides
<1> DEFINE In == {n \in Nodes : n \in G => Subtree(t, n) \subseteq G}
<1>7. ASSUME NEW n \in Nodes, \A m \in Nodes : r[m] < r[n] => m \in In PROVE n \in In
  <2> SUFFICES ASSUME n \in G PROVE Subtree(t, n) \subseteq G
    OBVIOUS
  <2>1. ASSUME NEW q \in Sides PROVE Subtree(t, t.child[q][n]) \subseteq G
    <3>1. CASE t.child[q][n] = Null
      BY <1>4, <3>1
    <3>2. CASE t.child[q][n] # Null
      BY <1>2, <1>7, <3>2
    <3>3. QED
      BY <3>1, <3>2
  <2>2. Subtree(t, t.child["left"][n]) \subseteq G /\ Subtree(t, t.child["right"][n]) \subseteq G
    BY <1>6, <2>1
  <2>3. QED
    BY <1>4, <2>2
<1> HIDE DEF In
<1>8. \A n \in Nodes : n \in In
  BY <1>5, <1>7, RankInduction
<1>9. Subtree(t, g) \subseteq G
  BY <1>8 DEF In
<1> DEFINE Closed(n) == \A m \in Nodes, q \in Sides :
             m \in Subtree(t, n) /\ t.child[q][m] # Null => t.child[q][m] \in Subtree(t, n)
           Down == {n \in Nodes : Closed(n)}
<1>10. ASSUME NEW n \in Nodes, \A m \in Nodes : r[m] < r[n] => m \in Down PROVE n \in Down
  <2> SUFFICES ASSUME NEW m \in Nodes, NEW q \in Sides, m \in Subtree(t, n), t.child[q][m] # Null
               PROVE  t.child[q][m] \in Subtree(t, n)
    OBVIOUS
  <2>1. CASE m = n
    <3>1. t.child[q][m] \in Nodes
      BY <1>2
    <3>2. t.child[q][m] \in Subtree(t, t.child[q][m])
      BY <1>4, <3>1
    <3>3. t.child[q][m] \in Subtree(t, t.child["left"][n]) \cup Subtree(t, t.child["right"][n])
      BY <1>6, <2>1, <3>2
    <3>4. QED
      BY <1>4, <3>3
  <2>2. ASSUME NEW o \in Sides, m \in Subtree(t, t.child[o][n])
        PROVE  t.child[q][m] \in Subtree(t, t.child[o][n])
    <3>1. t.child[o][n] # Null
      BY <1>4, <2>2
    <3>2. t.child[o][n] \in Down
      BY <1>2, <1>10, <3>1
    <3>3. QED
      BY <2>2, <3>2
  <2> HIDE DEF Down
  <2>3. QED
    BY <1>4, <1>6, <2>1, <2>2
<1>11. Closed(g)
  <2> HIDE DEF Down
  <2>1. \A n \in Nodes : n \in Down
    BY <1>5, <1>10, RankInduction
  <2>2. QED
    BY <2>1 DEF Down
<1> DEFINE Met == {n \in Nodes : n \in G => n \in Subtree(t, g)}
<1>12. ASSUME NEW n \in Nodes, \A m \in Nodes : e[m] < e[n] => m \in Met PROVE n \in Met
  <2> SUFFICES ASSUME n \in G PROVE n \in Subtree(t, g)
    OBVIOUS
  <2>1. CASE n = g
    BY <1>4, <2>1
  <2>2. CASE n # g
    <3>1. PICK q \in Sides : t.child[q][t.parent[n]] = n
      BY <2>2 DEF IsChild
    <3>2. t.parent[n] \in G /\ t.parent[n] \in Nodes
      BY <2>2
    <3>3. t.parent[n] \in Subtree(t, g)
      BY <1>12, <3>2 DEF Ranked
    <3>4. n # Null
      BY RBTreeAssumption
    <3>5. QED
      BY <1>11, <3>1, <3>2, <3>3, <3>4
  <2>3. QED
    BY <2>1, <2>2
<1> HIDE DEF Met
<1>13. \A n \in Nodes : n \in Met
  BY <1>5, <1>12, RankInduction
<1>14. G \subseteq Subtree(t, g)
  BY <1>13 DEF Met
<1>15. QED
  BY <1>9, <1>14

(* The nodes that hang below the end node.                                 *)
LEMMA LinkedIs ==
  ASSUME NEW t \in Trees, NEW T, NEW C, NEW first, Shape(t, T, C, first)
  PROVE  Subtree(t, Root(t)) = T /\ (Root(t) = Null <=> T = {})
<1>1. PICK e \in Ranks, sp \in SUBSET Places : Forest(t, T, C) /\ Ranked(t, e) /\ Spine(t, T, sp, first)
  BY DEF Shape
<1>2. T \in SUBSET Nodes /\ (Root(t) # Null => Root(t) \in T)
  BY RootIs
<1>3. \A n \in T, s \in Sides : t.child[s][n] # Null => t.child[s][n] \in T
  BY Child
<1>4. \A n \in T : n # Root(t) => t.parent[n] \in T /\ IsChild(t, n)
  <2> SUFFICES ASSUME NEW n \in T, n # Root(t) PROVE t.parent[n] \in T /\ IsChild(t, n)
    OBVIOUS
  <2>1. t.parent[n] # End
    BY RootIs
  <2>2. QED
    BY <1>1, <2>1 DEF Forest, LinksUp
<1>5. CASE Root(t) # Null
  BY <1>1, <1>2, <1>3, <1>4, <1>5, SubtreeIs
<1>6. CASE Root(t) = Null
  <2>1. Subtree(t, Null) = {}
    BY <1>1, SubtreeStep
  <2> SUFFICES ASSUME T # {} PROVE FALSE
    BY <1>6, <2>1
  <2>2. PICK M \in Nat : e \in [Nodes -> 0..M]
    BY RanksAre
  <2> DEFINE rk == {e[n] : n \in T}
  <2>3. rk \subseteq Nat /\ rk # {}
    BY <1>2, <2>2
  <2>4. PICK k \in rk : \A l \in rk : k <= l
    BY <2>3, LeastNumber
  <2>5. PICK n \in T : k = e[n]
    BY <2>4
  <2>6. t.parent[n] \in T
    BY <1>2, <1>4, <1>6, <2>5, RootIs
  <2>7. e[t.parent[n]] < e[n] /\ e[t.parent[n]] \in Nat /\ e[n] \in Nat
    BY <1>1, <1>2, <2>2, <2>6 DEF Ranked
  <2>8. QED
    BY <2>4, <2>5, <2>6, <2>7
<1>7. QED
  BY <1>2, <1>5, <1>6

(* The nodes of the cache, from any node below its top.                    *)
LEMMA CacheNodesIs ==
  ASSUME NEW t \in Trees, NEW T, NEW C, NEW first, Shape(t, T, C, first), cache \in Nodes,
         cache \in C \/ t.parent[cache] \in C
  PROVE  CacheNodes(t) = C
<1>1. PICK e \in Ranks, sp \in SUBSET Places : Forest(t, T, C) /\ Ranked(t, e) /\ Spine(t, T, sp, first)
  BY DEF Shape
<1>2. T \subseteq Nodes /\ C \subseteq Nodes /\ cache # Null /\ Null \notin C
  BY RootIs, RBTreeAssumption
<1> DEFINE B == C \cup {cache}
<1>3. \A n \in C : t.parent[n] # Null => t.parent[n] \in C /\ IsChild(t, n)
  BY <1>1 DEF Forest, LinksUp
<1>4. B \in SUBSET Nodes /\ cache \in B /\ \A n \in B : t.parent[n] \in Nodes => t.parent[n] \in B
  BY <1>2, <1>3, RBTreeAssumption
<1> HIDE DEF B
<1>5. PICK k \in B : t.parent[k] \notin Nodes /\ CacheNodes(t) = Subtree(t, k)
  BY <1>1, <1>2, <1>4, TopIs
<1>6. k \in C /\ t.parent[k] = Null
  <2>1. k \in C
    BY <1>2, <1>5 DEF B
  <2>2. QED
    BY <1>2, <1>3, <1>5, <2>1
<1>7. \A n \in C \ {k} : t.parent[n] \in C /\ IsChild(t, n)
  BY <1>1, <1>6 DEF Forest, LinksUp
<1>8. \A n \in C, s \in Sides : t.child[s][n] # Null => t.child[s][n] \in C
  BY <1>1, Below
<1>9. Subtree(t, k) = C
  BY <1>1, <1>2, <1>6, <1>7, <1>8, SubtreeIs
<1>10. QED
  BY <1>5, <1>9

-----------------------------------------------------------------------------
(***************************************************************************)
(* The places for a new node, by a hint.                                   *)
(***************************************************************************)
LEMMA BetweenIs ==
  ASSUME tree \in Trees, NEW T, NEW C, Shape(tree, T, C, begin), NEW h \in T \cup {End}
  PROVE  /\ h = begin => EmptyPlace(tree, T, Between(Null, h))
         /\ EmptyPlace(tree, T, Between(PrevNode(tree, h), h))
<1>1. PICK e \in Ranks, sp \in SUBSET Places :
        Forest(tree, T, C) /\ Ranked(tree, e) /\ Spine(tree, T, sp, begin)
  BY DEF Shape
<1>2. "left" \in Sides /\ "right" \in Sides
  BY DEF Sides
<1>3. tree.child["left"][h] = Null => EmptyPlace(tree, T, <<h, "left">>)
  BY <1>2 DEF EmptyPlace
<1>4. h = begin => tree.child["left"][h] = Null
  BY <1>1 DEF Spine
<1>5. ASSUME tree.child["left"][h] # Null
      PROVE  EmptyPlace(tree, T, <<PrevNode(tree, h), "right">>)
  <2> DEFINE c == tree.child["left"][h]
             p == Extreme(tree, "right", c)
  <2>1. PrevNode(tree, h) = p
    BY <1>5 DEF PrevNode
  <2>2. c \in T
    <3>1. CASE h = End
      BY <1>5, <3>1, RootIs DEF Root
    <3>2. CASE h # End
      BY <1>2, <1>5, <3>2, Child
    <3>3. QED
      BY <3>1, <3>2
  <2>3. T \in SUBSET Nodes /\ End \notin T
    BY RootIs
  <2>4. \A n \in T : tree.child["right"][n] # Null => tree.child["right"][n] \in T
    BY <1>2, Child
  <2> HIDE DEF c
  <2>5. p \in T /\ tree.child["right"][p] = Null
    BY <1>1, <1>2, <2>2, <2>3, <2>4, ExtremeIs
  <2> HIDE DEF p
  <2>6. p # End
    BY <2>3, <2>5
  <2>7. QED
    BY <1>2, <2>1, <2>5, <2>6 DEF EmptyPlace
<1>6. QED
  BY <1>3, <1>4, <1>5 DEF Between

(* The place behind a node is a null leaf, on its right or on the left of  *)
(* the node after it.                                                      *)
LEMMA BehindIs ==
  ASSUME tree \in Trees, NEW T, NEW C, NEW first, Shape(tree, T, C, first), NEW h \in T
  PROVE  EmptyPlace(tree, T, IF tree.child["right"][h] = Null THEN <<h, "right">>
                             ELSE <<NextNode(tree, h), "left">>)
<1>1. PICK e \in Ranks, sp \in SUBSET Places :
        Forest(tree, T, C) /\ Ranked(tree, e) /\ Spine(tree, T, sp, first)
  BY DEF Shape
<1>2. "left" \in Sides /\ "right" \in Sides
  BY DEF Sides
<1>3. h # End
  BY RootIs
<1>4. tree.child["right"][h] = Null => EmptyPlace(tree, T, <<h, "right">>)
  BY <1>2, <1>3 DEF EmptyPlace
<1>5. ASSUME tree.child["right"][h] # Null
      PROVE  EmptyPlace(tree, T, <<NextNode(tree, h), "left">>)
  <2> DEFINE c == tree.child["right"][h]
             p == Extreme(tree, "left", c)
  <2>1. NextNode(tree, h) = p
    BY <1>5 DEF NextNode
  <2>2. c \in T
    BY <1>2, <1>5, Child
  <2>3. T \in SUBSET Nodes
    BY RootIs
  <2>4. \A n \in T : tree.child["left"][n] # Null => tree.child["left"][n] \in T
    BY <1>2, Child
  <2> HIDE DEF c
  <2>5. p \in T /\ tree.child["left"][p] = Null
    BY <1>1, <1>2, <2>2, <2>3, <2>4, ExtremeIs
  <2> HIDE DEF p
  <2>6. QED
    BY <1>2, <2>1, <2>5 DEF EmptyPlace
<1>6. QED
  BY <1>4, <1>5

(* Every search for a place, with a hint or without, ends at a null leaf.  *)
LEMMA PlacesAreEmpty ==
  ASSUME tree \in Trees, NEW T, NEW C, Shape(tree, T, C, begin), NEW h \in T \cup {End}, NEW k
  PROVE  /\ EmptyPlace(tree, T, FindLeafHigh(k)) /\ EmptyPlace(tree, T, FindLeafLow(k))
         /\ EmptyPlace(tree, T, FindEqual(k))
         /\ EmptyPlace(tree, T, FindLeaf(h, k)) /\ EmptyPlace(tree, T, FindEqualNear(h, k))
<1>1. EmptyPlace(tree, T, FindLeafHigh(k)) /\ EmptyPlace(tree, T, FindLeafLow(k))
  BY DescentIs DEF FindLeafHigh, FindLeafLow
<1>2. EmptyPlace(tree, T, FindEqual(k))
  BY <1>1 DEF FindEqual
<1>3. /\ h = begin => EmptyPlace(tree, T, Between(Null, h))
      /\ EmptyPlace(tree, T, Between(PrevNode(tree, h), h))
  BY BetweenIs
<1>4. EmptyPlace(tree, T, FindLeaf(h, k))
  BY <1>1, <1>3 DEF FindLeaf
<1>5. EmptyPlace(tree, T, FindEqualNear(h, k))
  <2>1. CASE h = End \/ k < key[h]
    BY <1>2, <1>3, <2>1 DEF FindEqualNear
  <2>2. CASE ~(h = End \/ k < key[h])
    <3>1. EmptyPlace(tree, T, IF tree.child["right"][h] = Null THEN <<h, "right">>
                              ELSE <<NextNode(tree, h), "left">>)
      BY <2>2, BehindIs
    <3>2. QED
      BY <1>2, <2>2, <3>1 DEF FindEqualNear
  <2>3. QED
    BY <2>1, <2>2
<1>6. QED
  BY <1>1, <1>2, <1>4, <1>5

-----------------------------------------------------------------------------
(***************************************************************************)
(* A new node at a null leaf.                                              *)
(***************************************************************************)
Hung(t, n, p, s, t2) ==
  /\ t2 \in Trees
  /\ \A q \in Sides, m \in Places : t2.child[q][m] =
       IF m = n THEN Null ELSE IF q = s /\ m = p THEN n ELSE t.child[q][m]
  /\ \A m \in Nodes : t2.parent[m] = IF m = n THEN p ELSE t.parent[m]
  /\ \A m \in Nodes : t2.black[m] <=> IF m = n THEN p = End ELSE t.black[m]

(* The place is a null leaf.                                               *)
Open(t, T, p, s) ==
  p \in T \cup {End} /\ s \in Sides /\ t.child[s][p] = Null /\ (p = End => s = "left")

Planted(t, n, p, s, t1, t2) ==
  /\ t1 = Attach(Attach(Attach(t, "left", n, Null), "right", n, Null), s, p, n)
  /\ t2 = Paint(t1, n, n = Root(t1))

(* What __insert_node_at does to the links.                                *)
LEMMA HungIs ==
  ASSUME NEW t \in Trees, NEW T, NEW C, NEW first, Shape(t, T, C, first),
         NEW n \in Nodes, n \notin T, NEW p, NEW s, Open(t, T, p, s),
         NEW t1, NEW t2, Planted(t, n, p, s, t1, t2)
  PROVE  /\ Hung(t, n, p, s, t2) /\ t2.child = t1.child /\ Root(t2) = Root(t1)
         /\ (n = Root(t1) <=> p = End)
<1> SUFFICES ASSUME p \in T \cup {End}, s \in Sides, p = End => s = "left",
                    t1 = Attach(Attach(Attach(t, "left", n, Null), "right", n, Null), s, p, n),
                    t2 = Paint(t1, n, n = Root(t1))
             PROVE  /\ Hung(t, n, p, s, t2) /\ t2.child = t1.child /\ Root(t2) = Root(t1)
                    /\ (n = Root(t1) <=> p = End)
  BY DEF Open, Planted
<1> DEFINE ta == Attach(t, "left", n, Null)
           t3 == Attach(ta, "right", n, Null)
<1>1. "left" \in Sides /\ "right" \in Sides /\ \A q \in Sides : q = "left" \/ q = "right"
  BY DEF Sides
<1>2. /\ n \in Places /\ p \in Places /\ p # n /\ n # End /\ n # Null /\ End \in Places
      /\ Null \in Nodes \cup {Null} /\ n \in Nodes \cup {Null}
  BY RootIs, RBTreeAssumption DEF Places
<1>3. Attached(t, "left", n, Null, ta)
  BY <1>1, <1>2, AttachIs
<1> HIDE DEF ta
<1>4. Attached(ta, "right", n, Null, t3)
  BY <1>1, <1>2, <1>3, AttachIs DEF Attached
<1>5. t3 \in Trees /\ t1 = Attach(t3, s, p, n)
  BY <1>4 DEF Attached, ta
<1> HIDE DEF t3
<1>6. Attached(t3, s, p, n, t1)
  BY <1>2, <1>5, AttachIs
<1>7. t1 \in Trees
  BY <1>6 DEF Attached
<1>8. Painted(t1, n, n = Root(t1), t2)
  BY <1>7, PaintIs
<1>9. \A q \in Sides, m \in Places : t1.child[q][m] =
        IF m = n THEN Null ELSE IF q = s /\ m = p THEN n ELSE t.child[q][m]
  BY <1>1, <1>2, <1>3, <1>4, <1>6 DEF Attached
<1>10. \A m \in Nodes : t1.parent[m] = IF m = n THEN p ELSE t.parent[m]
  BY <1>2, <1>3, <1>4, <1>6, RBTreeAssumption DEF Attached
<1>11. \A m \in Nodes : t1.black[m] <=> t.black[m]
  BY <1>3, <1>4, <1>6 DEF Attached
<1>12. Root(t1) = IF p = End THEN n ELSE Root(t)
  BY <1>1, <1>2, <1>9 DEF Root
<1>13. n = Root(t1) <=> p = End
  BY <1>2, <1>12, RootIs
<1>14. Hung(t, n, p, s, t2)
  <2>1. t2 \in Trees /\ t2.child = t1.child /\ t2.parent = t1.parent
    BY <1>8 DEF Painted
  <2>2. \A m \in Nodes : t2.black[m] <=> IF m = n THEN p = End ELSE t.black[m]
    BY <1>8, <1>11, <1>13 DEF Painted
  <2>3. QED
    BY <1>9, <1>10, <2>1, <2>2 DEF Hung
<1>15. t2.child = t1.child /\ Root(t2) = Root(t1)
  BY <1>8 DEF Painted, Root
<1>16. QED
  BY <1>12, <1>13, <1>14, <1>15

(* A node that is hung at a null leaf keeps the forest a forest.           *)
LEMMA HangForest ==
  ASSUME NEW t \in Trees, NEW T, NEW C, Forest(t, T, C),
         NEW n \in Nodes, n \notin T \cup C, NEW p \in T \cup {End}, NEW s \in Sides,
         t.child[s][p] = Null, p = End => s = "left", NEW t2, Hung(t, n, p, s, t2)
  PROVE  Forest(t2, T \cup {n}, C)
<1>1. /\ n # Null /\ n # End /\ p # n /\ p \in Places /\ n \in Places /\ End \in Places
      /\ T \subseteq Nodes /\ C \subseteq Nodes /\ T \cap C = {} /\ p \notin C /\ p # Null
  BY RBTreeAssumption DEF Forest, Places
<1>2. \A q \in Sides, m \in Places : t2.child[q][m] =
        IF m = n THEN Null ELSE IF q = s /\ m = p THEN n ELSE t.child[q][m]
  BY DEF Hung
<1>3. \A m \in Nodes : t2.parent[m] = IF m = n THEN p ELSE t.parent[m]
  BY DEF Hung
<1>4. Other(s) \in Sides /\ Other(s) # s /\ \A q \in Sides : q = s \/ q = Other(s)
  BY TwoSides
<1>5. ASSUME NEW m \in Places, NEW q \in Sides
      PROVE  /\ t.child[q][m] # n
             /\ t.child[q][m] # Null => t.child[q][m] \in Nodes
  BY <1>1 DEF Forest, LinksWithin
<1>6. LinksAgree(t2)
  <2> SUFFICES ASSUME NEW m \in Places, NEW q \in Sides, t2.child[q][m] # Null
               PROVE  t2.parent[t2.child[q][m]] = m /\ t2.child[q][m] # t2.child[Other(q)][m]
    BY DEF LinksAgree
  <2>1. Other(q) \in Sides /\ Other(q) # q
    BY TwoSides
  <2>2. m # n
    BY <1>2, <2>1
  <2>3. CASE q = s /\ m = p
    <3>1. t2.child[q][m] = n /\ t2.child[Other(q)][m] = t.child[Other(q)][m]
      BY <1>2, <2>1, <2>2, <2>3
    <3>2. QED
      BY <1>3, <1>5, <2>1, <2>3, <3>1
  <2>4. CASE ~(q = s /\ m = p)
    <3>1. t2.child[q][m] = t.child[q][m]
      BY <1>2, <2>2, <2>4
    <3>2. t2.child[Other(q)][m] \in {n, t.child[Other(q)][m]}
      BY <1>2, <2>1, <2>2
    <3>3. t.child[q][m] # Null /\ t.child[q][m] \in Nodes /\ t.child[q][m] # n
      BY <1>5, <2>4, <3>1
    <3>4. t.parent[t.child[q][m]] = m /\ t.child[q][m] # t.child[Other(q)][m]
      BY <3>3 DEF Forest, LinksAgree
    <3>5. QED
      BY <1>3, <3>1, <3>2, <3>3, <3>4
  <2>5. QED
    BY <2>3, <2>4
<1>7. LinksWithin(t2, T \cup {n}, C)
  <2>1. t2.child["right"][End] = Null
    <3>1. "right" \in Sides /\ "right" # "left"
      BY DEF Sides
    <3>2. QED
      BY <1>1, <1>2, <3>1 DEF Forest, LinksWithin
  <2>2. ASSUME NEW m \in Places, NEW q \in Sides, t2.child[q][m] # Null
        PROVE  \/ m \in T \cup {n} \cup {End} /\ t2.child[q][m] \in T \cup {n}
               \/ m \in C /\ t2.child[q][m] \in C
    <3>1. CASE q = s /\ m = p
      BY <1>1, <1>2, <3>1
    <3>2. CASE ~(q = s /\ m = p)
      <4>1. t2.child[q][m] = t.child[q][m]
        BY <1>2, <2>2, <3>2
      <4>2. QED
        BY <2>2, <4>1 DEF Forest, LinksWithin
    <3>3. QED
      BY <3>1, <3>2
  <2>3. QED
    BY <2>1, <2>2 DEF LinksWithin
<1>8. ASSUME NEW m \in T \cup C, t.parent[m] # n, t.parent[m] \in Places, IsChild(t, m)
      PROVE  IsChild(t2, m)
  <2>1. PICK q \in Sides : t.child[q][t.parent[m]] = m
    BY <1>8 DEF IsChild
  <2>2. m \in Nodes /\ m # n /\ m # Null
    BY <1>1, <1>8, RBTreeAssumption
  <2>3. ~(q = s /\ t.parent[m] = p)
    BY <2>1, <2>2
  <2>4. t2.child[q][t.parent[m]] = m /\ t2.parent[m] = t.parent[m]
    BY <1>2, <1>3, <1>8, <2>1, <2>2, <2>3
  <2>5. QED
    BY <2>4 DEF IsChild
<1>9. LinksUp(t2, T \cup {n}, C)
  <2>1. IsChild(t2, n) /\ t2.parent[n] = p
    BY <1>1, <1>2, <1>3 DEF IsChild
  <2>2. ASSUME NEW m \in T PROVE t2.parent[m] \in T \cup {End} /\ IsChild(t2, m)
    <3>1. t.parent[m] \in T \cup {End} /\ IsChild(t, m)
      BY DEF Forest, LinksUp
    <3>2. t.parent[m] # n /\ t.parent[m] \in Places
      BY <1>1, <3>1 DEF Places
    <3>3. t2.parent[m] = t.parent[m]
      BY <1>1, <1>3
    <3>4. QED
      BY <1>8, <3>1, <3>2, <3>3
  <2>3. \A m \in C : t2.parent[m] = t.parent[m]
    BY <1>1, <1>3
  <2>4. ASSUME NEW m \in C, t2.parent[m] # Null PROVE t2.parent[m] \in C /\ IsChild(t2, m)
    <3>1. t.parent[m] \in C /\ IsChild(t, m)
      BY <2>3, <2>4 DEF Forest, LinksUp
    <3>2. t.parent[m] # n /\ t.parent[m] \in Places
      BY <1>1, <3>1 DEF Places
    <3>3. QED
      BY <1>8, <2>3, <3>1, <3>2
  <2>5. \A m, o \in C : t2.parent[m] = Null /\ t2.parent[o] = Null => m = o
    BY <2>3 DEF Forest, LinksUp
  <2>6. QED
    BY <2>1, <2>2, <2>4, <2>5 DEF LinksUp
<1>10. QED
  BY <1>1, <1>6, <1>7, <1>9 DEF Forest

(* It makes no cycle.                                                      *)
LEMMA HangRanked ==
  ASSUME NEW t \in Trees, NEW T, NEW C, NEW e \in Ranks, Forest(t, T, C), Ranked(t, e),
         NEW n \in Nodes, n \notin T \cup C, NEW p \in T \cup {End}, NEW s \in Sides,
         NEW t2, Hung(t, n, p, s, t2)
  PROVE  \E e2 \in Ranks : Ranked(t2, e2)
<1>1. PICK M \in Nat : e \in [Nodes -> 0..M]
  BY RanksAre
<1>2. /\ n # Null /\ n # End /\ p # n
      /\ T \subseteq Nodes /\ C \subseteq Nodes /\ (p \in Nodes => p \in T)
  BY RBTreeAssumption DEF Forest
<1> DEFINE d == IF p = End THEN 0 ELSE e[p] + 1
           e2 == [m \in Nodes |-> IF m \in T \cup C THEN e[m] ELSE e[m] + d]
<1>3. d \in Nat /\ d <= M + 1
  BY <1>1, <1>2
<1>4. p \in Nodes => e[p] < d
  BY <1>1, RBTreeAssumption
<1> HIDE DEF d
<1>5. e2 \in [Nodes -> 0..(M + M + 1)]
  BY <1>1, <1>3
<1>6. e2 \in Ranks
  BY <1>5, M + M + 1 \in Nat, RanksFrom
<1>7. ASSUME NEW m \in Nodes, t2.parent[m] \in Nodes PROVE e2[t2.parent[m]] < e2[m]
  <2> DEFINE k == t2.parent[m]
  <2>1. /\ k \in Nodes /\ e[k] \in Nat /\ e[m] \in Nat
        /\ e2[m] = IF m \in T \cup C THEN e[m] ELSE e[m] + d
        /\ e2[k] = IF k \in T \cup C THEN e[k] ELSE e[k] + d
    BY <1>1, <1>7
  <2>2. k = IF m = n THEN p ELSE t.parent[m]
    BY DEF Hung
  <2> HIDE DEF k, e2
  <2>3. m = n => e2[k] < e2[m]
    BY <1>2, <1>3, <1>4, <2>1, <2>2
  <2>4. ASSUME m # n PROVE e2[k] < e2[m]
    <3>1. k = t.parent[m] /\ e[k] < e[m]
      BY <2>1, <2>2, <2>4 DEF Ranked
    <3>2. m \in T \cup C => k \in T \cup C
      BY <2>1, <3>1, RBTreeAssumption DEF Forest, LinksUp
    <3>3. QED
      BY <1>3, <2>1, <3>1, <3>2
  <2>5. QED
    BY <2>3, <2>4 DEF k
<1>8. QED
  BY <1>6, <1>7 DEF Ranked

(* The first node is the new one, if that is to the left of the first.     *)
LEMMA HangSpine ==
  ASSUME NEW t \in Trees, NEW T, NEW C, Forest(t, T, C),
         NEW sp \in SUBSET Places, NEW first, Spine(t, T, sp, first),
         NEW n \in Nodes, n \notin T \cup C, NEW p \in T \cup {End}, NEW s \in Sides,
         t.child[s][p] = Null, NEW t2, Hung(t, n, p, s, t2)
  PROVE  \E sp2 \in SUBSET Places :
           Spine(t2, T \cup {n}, sp2, IF t2.child["left"][first] # Null THEN t2.child["left"][first] ELSE first)
<1> DEFINE first2 == IF t2.child["left"][first] # Null THEN t2.child["left"][first] ELSE first
           sp2 == IF s = "left" /\ p = first THEN sp \cup {n} ELSE sp
<1>1. /\ n # Null /\ n # End /\ p # n /\ n \in Places /\ "left" \in Sides
      /\ T \subseteq Nodes /\ n \notin sp /\ first \in sp /\ first # n /\ \A m \in sp : m \in Places
  BY RBTreeAssumption DEF Forest, Places, Spine, Sides
<1>2. \A m \in Places : t2.child["left"][m] =
        IF m = n THEN Null ELSE IF s = "left" /\ m = p THEN n ELSE t.child["left"][m]
  BY <1>1 DEF Hung
<1>3. \A m \in Nodes : t2.parent[m] = IF m = n THEN p ELSE t.parent[m]
  BY DEF Hung
<1>4. t.child["left"][first] = Null
  BY DEF Spine
<1>5. first2 = IF s = "left" /\ p = first THEN n ELSE first
  BY <1>1, <1>2, <1>4
<1> HIDE DEF first2
<1>6. sp2 \in SUBSET Places /\ sp2 \subseteq T \cup {n} \cup {End} /\ End \in sp2 /\ first2 \in sp2
  BY <1>1, <1>5 DEF Spine
<1>7. ASSUME NEW m \in sp2
      PROVE  /\ t2.child["left"][m] # Null => t2.child["left"][m] \in sp2
             /\ t2.child["left"][m] = Null <=> m = first2
  <2>1. CASE s = "left" /\ p = first
    <3>1. m = n => t2.child["left"][m] = Null /\ m = first2
      BY <1>1, <1>2, <1>5, <2>1
    <3>2. m = p => t2.child["left"][m] = n /\ n \in sp2 /\ m # first2
      BY <1>1, <1>2, <1>5, <2>1
    <3>3. m \notin {n, p} => m \in sp /\ m # first /\ m # first2 /\ t2.child["left"][m] = t.child["left"][m]
      BY <1>1, <1>2, <1>5, <2>1
    <3>4. QED
      BY <1>1, <2>1, <3>1, <3>2, <3>3 DEF Spine
  <2>2. CASE ~(s = "left" /\ p = first)
    <3>1. m \in sp /\ m \in Places /\ m # n /\ first2 = first /\ sp2 = sp
      BY <1>1, <1>5, <2>2
    <3>2. ~(s = "left" /\ m = p)
      BY <2>2, <3>1 DEF Spine
    <3>3. t2.child["left"][m] = t.child["left"][m]
      BY <1>2, <3>1, <3>2
    <3>4. QED
      BY <3>1, <3>3 DEF Spine
  <2>3. QED
    BY <2>1, <2>2
<1>8. ASSUME NEW m \in sp2 \ {End}
      PROVE  t2.parent[m] \in sp2 /\ t2.child["left"][t2.parent[m]] = m
  <2>1. CASE m = n
    <3>1. s = "left" /\ p = first /\ p \in Places /\ p \in sp2
      BY <1>1, <2>1
    <3>2. t2.parent[m] = p
      BY <1>3, <2>1
    <3>3. QED
      BY <1>1, <1>2, <2>1, <3>1, <3>2
  <2>2. CASE m # n
    <3>1. m \in sp \ {End} /\ m \in Nodes /\ m # Null /\ t2.parent[m] = t.parent[m]
      BY <1>1, <1>3, <2>2, RBTreeAssumption DEF Places
    <3>2. t.parent[m] \in sp /\ t.child["left"][t.parent[m]] = m /\ t.parent[m] \in Places
      BY <1>1, <3>1 DEF Spine
    <3>3. t.parent[m] # n /\ ~(s = "left" /\ t.parent[m] = p)
      BY <1>1, <3>1, <3>2
    <3>4. t2.child["left"][t.parent[m]] = m /\ t.parent[m] \in sp2
      BY <1>2, <3>2, <3>3
    <3>5. QED
      BY <3>1, <3>4
  <2>3. QED
    BY <2>1, <2>2
<1>9. Spine(t2, T \cup {n}, sp2, first2)
  BY <1>6, <1>7, <1>8 DEF Spine
<1>10. QED
  BY <1>6, <1>9 DEF first2

(* The first node afterwards.                                              *)
FirstHung(t2, first) == IF t2.child["left"][first] # Null THEN t2.child["left"][first] ELSE first

(* All in all, the shape of the links is kept.                             *)
LEMMA HangShape ==
  ASSUME NEW t \in Trees, NEW T, NEW C, NEW first, Shape(t, T, C, first),
         NEW n \in Nodes, n \notin T \cup C, NEW p, NEW s, Open(t, T, p, s), NEW t2, Hung(t, n, p, s, t2)
  PROVE  Shape(t2, T \cup {n}, C, FirstHung(t2, first))
<1> SUFFICES ASSUME p \in T \cup {End}, s \in Sides, t.child[s][p] = Null, p = End => s = "left"
             PROVE  Shape(t2, T \cup {n}, C, FirstHung(t2, first))
  BY DEF Open
<1> DEFINE first2 == IF t2.child["left"][first] # Null THEN t2.child["left"][first] ELSE first
<1>1. PICK e \in Ranks, sp \in SUBSET Places : Forest(t, T, C) /\ Ranked(t, e) /\ Spine(t, T, sp, first)
  BY DEF Shape
<1>2. Forest(t2, T \cup {n}, C)
  BY <1>1, HangForest
<1>3. PICK e2 \in Ranks : Ranked(t2, e2)
  BY <1>1, HangRanked
<1>4. PICK sp2 \in SUBSET Places : Spine(t2, T \cup {n}, sp2, first2)
  BY <1>1, HangSpine
<1> HIDE DEF first2
<1>5. Shape(t2, T \cup {n}, C, first2)
  BY <1>2, <1>3, <1>4 DEF Shape
<1>6. QED
  BY <1>5 DEF first2, FirstHung

(* Nothing but the colour of the new node and its parent is unbalanced.    *)
LEMMA HangBalanced ==
  ASSUME NEW t \in Trees, NEW T, NEW C, NEW first, Shape(t, T, C, first),
         Balanced(t, T, Null, "left", Null),
         NEW n \in Nodes, n \notin T \cup C, NEW p, NEW s, Open(t, T, p, s), NEW t2, Hung(t, n, p, s, t2)
  PROVE  Balanced(t2, T \cup {n}, Null, "left", n)
<1> SUFFICES ASSUME p \in T \cup {End}, s \in Sides, t.child[s][p] = Null, p = End => s = "left"
             PROVE  Balanced(t2, T \cup {n}, Null, "left", n)
  BY DEF Open
<1>1. PICK b \in Counts : Heights(t, T, Null, "left", b)
  BY DEF Balanced
<1>2. /\ n # Null /\ n # End /\ p # n /\ n \in Places /\ End \in Places /\ "left" \in Sides
      /\ T \subseteq Nodes /\ (Root(t) # Null => Root(t) \in T) /\ Null \notin T /\ End \notin T
      /\ \A m \in T : m \in Places /\ m # n
  BY RBTreeAssumption, RootIs DEF Places, Sides
<1>3. \A q \in Sides, m \in Places : t2.child[q][m] =
        IF m = n THEN Null ELSE IF q = s /\ m = p THEN n ELSE t.child[q][m]
  BY DEF Hung
<1>4. \A m \in Nodes : t2.black[m] <=> IF m = n THEN p = End ELSE t.black[m]
  BY DEF Hung
<1>5. Root(t2) = IF p = End THEN n ELSE Root(t)
  BY <1>2, <1>3 DEF Root
<1>6. ASSUME NEW m \in T, NEW q \in Sides
      PROVE  t.child[q][m] # n /\ t.child[q][m] \in T \cup {Null}
  BY <1>2, Child
<1>7. Reds(t2, T \cup {n}, n)
  <2>1. Root(t2) # Null => t2.black[Root(t2)]
    BY <1>2, <1>4, <1>5 DEF Balanced, Reds
  <2>2. ASSUME NEW m \in T \cup {n}, NEW q \in Sides,
               ~t2.black[m], t2.child[q][m] # Null, t2.child[q][m] # n
        PROVE  t2.black[t2.child[q][m]]
    <3>1. m \in T /\ m \in Nodes
      BY <1>2, <1>3, <2>2
    <3>2. t2.child[q][m] = t.child[q][m] /\ ~t.black[m]
      BY <1>2, <1>3, <1>4, <2>2, <3>1
    <3>3. t.child[q][m] \in T /\ t.black[t.child[q][m]]
      BY <1>6, <2>2, <3>1, <3>2 DEF Balanced, Reds
    <3>4. QED
      BY <1>2, <1>4, <3>2, <3>3
  <2>3. QED
    BY <2>1, <2>2 DEF Reds
<1> DEFINE b2 == [m \in Nodes \cup {Null} |-> IF m = n THEN IF p = End THEN 2 ELSE 1 ELSE b[m]]
<1>8. b2 \in Counts /\ b2[n] = (IF p = End THEN 2 ELSE 1) /\ \A m \in (Nodes \cup {Null}) \ {n} : b2[m] = b[m]
  BY <1>1 DEF Counts
<1> HIDE DEF b2
<1>9. b[Null] = 1 /\ b2[Null] = 1
  BY <1>1, <1>2, <1>8 DEF Heights
<1>10. Heights(t2, T \cup {n}, Null, "left", b2)
  <2>1. ASSUME NEW m \in T \cup {n}, NEW q \in Sides
        PROVE  Climbs(b2[m], b2[t2.child[q][m]], m = Null /\ q = "left", t2.black[m])
    <3>1. m # Null
      BY <1>2
    <3>2. CASE m = n
      <4>1. t2.child[q][m] = Null /\ (t2.black[m] <=> p = End)
        BY <1>2, <1>3, <1>4, <3>2
      <4>2. CASE p = End
        BY <1>8, <1>9, <3>1, <3>2, <4>1, <4>2 DEF Climbs
      <4>3. CASE p # End
        BY <1>8, <1>9, <3>1, <3>2, <4>1, <4>3 DEF Climbs
      <4>4. QED
        BY <4>2, <4>3
    <3>3. CASE m # n
      <4>1. m \in T /\ m \in Nodes /\ m # End /\ (t2.black[m] <=> t.black[m]) /\ b2[m] = b[m]
        BY <1>2, <1>4, <1>8, <3>3
      <4>2. Climbs(b[m], b[t.child[q][m]], m = Null /\ q = "left", t.black[m])
        BY <1>1, <4>1 DEF Heights
      <4>3. b2[t2.child[q][m]] = b[t.child[q][m]]
        <5>1. CASE q = s /\ m = p
          BY <1>2, <1>3, <1>8, <1>9, <3>3, <4>1, <5>1
        <5>2. CASE ~(q = s /\ m = p)
          BY <1>2, <1>3, <1>6, <1>8, <3>3, <4>1, <5>2
        <5>3. QED
          BY <5>1, <5>2
      <4>4. QED
        BY <4>1, <4>2, <4>3 DEF Climbs
    <3>4. QED
      BY <3>2, <3>3
  <2>2. QED
    BY <1>9, <2>1 DEF Heights
<1>11. QED
  BY <1>7, <1>8, <1>10 DEF Balanced

-----------------------------------------------------------------------------
(***************************************************************************)
(* A node with at most one child leaves the tree.                          *)
(***************************************************************************)
(* A child without a sibling is a red leaf.                                *)
LEMMA LoneChild ==
  ASSUME NEW t \in Trees, NEW T, NEW C, NEW first, Shape(t, T, C, first),
         Balanced(t, T, Null, "left", Null),
         NEW y \in T, NEW s \in Sides, t.child[s][y] = Null,
         NEW x, x = t.child[Other(s)][y], x # Null
  PROVE  /\ t.black[y] /\ ~t.black[x] /\ x \in T /\ x # y /\ t.parent[x] = y
         /\ \A q \in Sides : t.child[q][x] = Null
<1>1. PICK b \in Counts : Heights(t, T, Null, "left", b)
  BY DEF Balanced
<1>2. Other(s) \in Sides
  BY TwoSides
<1>3. x \in T /\ t.parent[x] = y /\ x # y /\ x \in Nodes /\ y \in Nodes /\ x # Null /\ y # Null
  BY <1>2, Child, RootIs
<1>4. ASSUME NEW n \in T, NEW q \in Sides
      PROVE  /\ b[n] \in Nat /\ b[n] >= 1 /\ b[t.child[q][n]] \in Nat /\ b[t.child[q][n]] >= 1
             /\ b[n] = IF t.black[n] THEN b[t.child[q][n]] + 1 ELSE b[t.child[q][n]]
  <2>1. n \in Nodes /\ n # Null /\ t.child[q][n] \in Nodes \cup {Null}
    BY RootIs, TreeFields DEF Places
  <2>2. Climbs(b[n], b[t.child[q][n]], FALSE, t.black[n])
    BY <1>1, <2>1 DEF Heights
  <2>3. QED
    BY <1>1, <2>1, <2>2 DEF Counts, Climbs
<1>5. b[Null] = 1
  BY <1>1 DEF Heights
<1>6. b[x] = 1
  <2>1. b[y] = IF t.black[y] THEN b[Null] + 1 ELSE b[Null]
    BY <1>4
  <2>2. b[y] = IF t.black[y] THEN b[x] + 1 ELSE b[x]
    BY <1>2, <1>4
  <2>3. b[x] \in Nat
    BY <1>3, <1>4
  <2>4. QED
    BY <1>5, <2>1, <2>2, <2>3
<1>7. ~t.black[x]
  BY <1>2, <1>3, <1>4, <1>6
<1>8. t.black[y]
  BY <1>2, <1>7 DEF Balanced, Reds
<1>9. ASSUME NEW q \in Sides, t.child[q][x] # Null PROVE FALSE
  <2> DEFINE k == t.child[q][x]
  <2>1. k \in T
    BY <1>3, <1>9, Child
  <2>2. t.black[k]
    BY <1>3, <1>7, <1>9 DEF Balanced, Reds
  <2>3. b[k] = 1
    BY <1>3, <1>4, <1>6, <1>7
  <2> HIDE DEF k
  <2>4. QED
    BY <1>2, <1>4, <2>1, <2>2, <2>3
<1>10. QED
  BY <1>3, <1>7, <1>8, <1>9

(* The links of u are those of t with x in the place of y.                 *)
Spliced(t, y, x, d, p, u) ==
  /\ u \in Trees
  /\ \A q \in Sides, m \in Places : u.child[q][m] =
       IF m = y THEN Null ELSE IF q = d /\ m = p THEN x ELSE t.child[q][m]
  /\ \A m \in Nodes : u.parent[m] = IF m = y THEN Null ELSE IF m = x THEN p ELSE t.parent[m]

(* What is around y and x.                                                 *)
Spot(t, T, C, s, y, x, d, p) ==
  /\ y \in T /\ s \in Sides /\ t.child[s][y] = Null /\ x = t.child[Other(s)][y]
  /\ d = Side(t, y) /\ p = t.parent[y]

(* What is around a node that is to be unlinked.                           *)
LEMMA SpotIs ==
  ASSUME NEW t \in Trees, NEW T, NEW C, NEW first, Shape(t, T, C, first),
         NEW s, NEW y, NEW x, NEW d, NEW p, Spot(t, T, C, s, y, x, d, p)
  PROVE  /\ y \in Nodes /\ y \in Places /\ y # Null /\ y # End /\ p # y /\ p \in Places /\ p # Null
         /\ p \in T \cup {End} /\ (p = End => d = "left" /\ y = Root(t))
         /\ d \in Sides /\ t.child[d][p] = y /\ t.child[Other(d)][p] # y
         /\ (x # Null => x \in T /\ x \in Nodes /\ x # y /\ x # p /\ t.parent[x] = y)
         /\ \A q \in Sides : t.child[q][y] \in {x, Null}
<1>1. PICK e \in Ranks, sp \in SUBSET Places : Forest(t, T, C) /\ Ranked(t, e) /\ Spine(t, T, sp, first)
  BY DEF Shape
<1>2. y \in T /\ y \in T \cup C /\ s \in Sides /\ d = Side(t, y) /\ p = t.parent[y]
  BY DEF Spot
<1>3. y \in Nodes /\ y \in Places /\ y # Null /\ y # End /\ p # y /\ p \in T \cup {End}
  BY <1>1, <1>2, Above
<1>4. p # Null /\ p \in Places
  BY <1>3, RootIs, RBTreeAssumption DEF Places
<1>5. d \in Sides /\ t.child[d][p] = y /\ t.child[Other(d)][p] # y /\ (p = End => d = "left")
  BY <1>1, <1>2, <1>4, Above
<1>6. p = End => y = Root(t)
  BY <1>2, RootIs
<1>7. Other(s) \in Sides /\ \A q \in Sides : q = s \/ q = Other(s)
  BY <1>2, TwoSides
<1>8. x # Null => x \in T /\ x \in Nodes /\ x # y /\ x # p /\ t.parent[x] = y
  BY <1>2, <1>7, Child DEF Spot
<1>9. \A q \in Sides : t.child[q][y] \in {x, Null}
  BY <1>7 DEF Spot
<1>10. QED
  BY <1>3, <1>4, <1>5, <1>6, <1>8, <1>9

(* A node with at most one child is unlinked: the rest is a forest.        *)
LEMMA SpliceForest ==
  ASSUME NEW t \in Trees, NEW T, NEW C, NEW first, Shape(t, T, C, first),
         NEW s, NEW y, NEW x, NEW d, NEW p, Spot(t, T, C, s, y, x, d, p),
         NEW u, Spliced(t, y, x, d, p, u), Forest(t, T, C)
  PROVE  Forest(u, T \ {y}, C)
<1>1. /\ y \in Nodes /\ y \in Places /\ y # Null /\ y # End /\ p # y /\ p \in Places /\ p # Null
      /\ p \in T \cup {End} /\ (p = End => d = "left" /\ y = Root(t))
      /\ d \in Sides /\ t.child[d][p] = y /\ t.child[Other(d)][p] # y
      /\ (x # Null => x \in T /\ x \in Nodes /\ x # y /\ x # p /\ t.parent[x] = y)
      /\ \A q \in Sides : t.child[q][y] \in {x, Null}
  BY SpotIs
<1>2. \A q \in Sides, m \in Places : u.child[q][m] =
        IF m = y THEN Null ELSE IF q = d /\ m = p THEN x ELSE t.child[q][m]
  BY DEF Spliced
<1>3. \A m \in Nodes : u.parent[m] = IF m = y THEN Null ELSE IF m = x THEN p ELSE t.parent[m]
  BY DEF Spliced
<1>4. T \subseteq Nodes /\ C \subseteq Nodes /\ T \cap C = {} /\ Null \notin T /\ End \notin T /\ End \notin C /\ y \in T
  BY RBTreeAssumption DEF Forest, Spot
<1>5. ASSUME NEW m \in Places, NEW q \in Sides, t.child[q][m] # Null
      PROVE  /\ t.parent[t.child[q][m]] = m /\ t.child[q][m] # t.child[Other(q)][m] /\ t.child[q][m] \in Nodes
             /\ \/ m \in T \cup {End} /\ t.child[q][m] \in T
                \/ m \in C /\ t.child[q][m] \in C
             /\ (t.child[q][m] = y => q = d /\ m = p)
             /\ (t.child[q][m] = x => m = y)
  <2>1. t.parent[t.child[q][m]] = m /\ t.child[q][m] # t.child[Other(q)][m]
    BY <1>5 DEF Forest, LinksAgree
  <2>2. \/ m \in T \cup {End} /\ t.child[q][m] \in T
        \/ m \in C /\ t.child[q][m] \in C
    BY <1>5 DEF Forest, LinksWithin
  <2>3. t.child[q][m] = y => q = d /\ m = p
    <3>1. t.child[q][m] = y => m = p
      BY <2>1 DEF Spot
    <3>2. t.child[q][m] = y => q = d
      BY <1>1, <2>1, <3>1, TwoSides
    <3>3. QED
      BY <3>1, <3>2
  <2>4. t.child[q][m] = x => m = y
    BY <1>1, <1>5, <2>1
  <2>5. QED
    BY <1>4, <2>1, <2>2, <2>3, <2>4
<1>6. LinksAgree(u)
  <2> SUFFICES ASSUME NEW m \in Places, NEW q \in Sides, u.child[q][m] # Null
               PROVE  u.parent[u.child[q][m]] = m /\ u.child[q][m] # u.child[Other(q)][m]
    BY DEF LinksAgree
  <2>1. Other(q) \in Sides /\ Other(q) # q
    BY TwoSides
  <2>2. m # y
    BY <1>2, <2>1
  <2>3. CASE q = d /\ m = p
    <3>1. u.child[q][m] = x /\ x # Null /\ u.child[Other(q)][m] = t.child[Other(q)][m]
      BY <1>2, <2>1, <2>2, <2>3
    <3>2. x # t.child[Other(q)][m]
      BY <1>5, <2>1, <2>2, <3>1
    <3>3. QED
      BY <1>1, <1>3, <2>3, <3>1, <3>2
  <2>4. CASE ~(q = d /\ m = p)
    <3>1. u.child[q][m] = t.child[q][m]
      BY <1>2, <2>2, <2>4
    <3>2. u.child[Other(q)][m] \in {x, t.child[Other(q)][m]}
      BY <1>2, <2>1, <2>2
    <3>3. t.child[q][m] # y /\ t.child[q][m] # x /\ t.child[q][m] \in Nodes
      BY <1>5, <2>2, <2>4, <3>1
    <3>4. t.parent[t.child[q][m]] = m /\ t.child[q][m] # t.child[Other(q)][m]
      BY <1>5, <3>1
    <3>5. QED
      BY <1>3, <3>1, <3>2, <3>3, <3>4
  <2>5. QED
    BY <2>3, <2>4
<1>7. LinksWithin(u, T \ {y}, C)
  <2>1. u.child["right"][End] = Null
    <3>1. "right" \in Sides /\ "right" # "left" /\ End \in Places
      BY DEF Sides, Places
    <3>2. t.child["right"][End] = Null
      BY DEF Forest, LinksWithin
    <3>3. QED
      BY <1>1, <1>2, <3>1, <3>2
  <2>2. ASSUME NEW m \in Places, NEW q \in Sides, u.child[q][m] # Null
        PROVE  \/ m \in (T \ {y}) \cup {End} /\ u.child[q][m] \in T \ {y}
               \/ m \in C /\ u.child[q][m] \in C
    <3>1. m # y
      BY <1>2, <2>2
    <3>2. CASE q = d /\ m = p
      BY <1>1, <1>2, <2>2, <3>1, <3>2
    <3>3. CASE ~(q = d /\ m = p)
      <4>1. u.child[q][m] = t.child[q][m]
        BY <1>2, <3>1, <3>3
      <4>2. QED
        BY <1>5, <2>2, <3>1, <3>3, <4>1
    <3>4. QED
      BY <3>2, <3>3
  <2>3. QED
    BY <2>1, <2>2 DEF LinksWithin
<1>8. ASSUME NEW m \in T \cup C, m # y, m # x, t.parent[m] \in Places, IsChild(t, m)
      PROVE  IsChild(u, m) /\ t.parent[m] # y /\ u.parent[m] = t.parent[m]
  <2>1. PICK q \in Sides : t.child[q][t.parent[m]] = m
    BY <1>8 DEF IsChild
  <2>2. m \in Nodes /\ m # Null
    BY <1>4, <1>8, RBTreeAssumption
  <2>3. ~(q = d /\ t.parent[m] = p) /\ t.parent[m] # y
    BY <1>1, <1>8, <2>1, <2>2
  <2>4. u.child[q][t.parent[m]] = m /\ u.parent[m] = t.parent[m]
    BY <1>2, <1>3, <1>8, <2>1, <2>2, <2>3
  <2>5. QED
    BY <2>3, <2>4 DEF IsChild
<1>9. LinksUp(u, T \ {y}, C)
  <2>1. ASSUME NEW m \in T \ {y} PROVE u.parent[m] \in (T \ {y}) \cup {End} /\ IsChild(u, m)
    <3>1. t.parent[m] \in T \cup {End} /\ IsChild(t, m)
      BY DEF Forest, LinksUp
    <3>2. t.parent[m] \in Places /\ m \in Nodes
      BY <1>4, <3>1 DEF Places
    <3>3. CASE m = x
      <4>1. u.parent[m] = p /\ u.child[d][p] = x
        BY <1>1, <1>2, <1>3, <3>2, <3>3
      <4>2. QED
        BY <1>1, <3>3, <4>1 DEF IsChild
    <3>4. CASE m # x
      BY <1>8, <3>1, <3>2, <3>4
    <3>5. QED
      BY <3>3, <3>4
  <2>2. \A m \in C : u.parent[m] = t.parent[m] /\ m # y /\ m # x
    BY <1>1, <1>3, <1>4, RBTreeAssumption
  <2>3. ASSUME NEW m \in C, u.parent[m] # Null PROVE u.parent[m] \in C /\ IsChild(u, m)
    <3>1. t.parent[m] \in C /\ IsChild(t, m)
      BY <2>2, <2>3 DEF Forest, LinksUp
    <3>2. t.parent[m] \in Places
      BY <1>4, <3>1 DEF Places
    <3>3. QED
      BY <1>8, <2>2, <3>1, <3>2
  <2>4. \A m, o \in C : u.parent[m] = Null /\ u.parent[o] = Null => m = o
    BY <2>2 DEF Forest, LinksUp
  <2>5. QED
    BY <2>1, <2>3, <2>4 DEF LinksUp
<1>10. QED
  BY <1>4, <1>6, <1>7, <1>9 DEF Forest

(* Unlinking makes no cycle.                                               *)
LEMMA SpliceRanked ==
  ASSUME NEW t \in Trees, NEW T, NEW C, NEW first, Shape(t, T, C, first),
         NEW s, NEW y, NEW x, NEW d, NEW p, Spot(t, T, C, s, y, x, d, p),
         NEW u, Spliced(t, y, x, d, p, u), NEW e \in Ranks, Ranked(t, e)
  PROVE  Ranked(u, e)
<1>1. PICK M \in Nat : e \in [Nodes -> 0..M]
  BY RanksAre
<1>2. /\ y \in Nodes /\ (x # Null => x \in Nodes /\ t.parent[x] = y) /\ p = t.parent[y]
  BY SpotIs DEF Spot
<1>3. \A m \in Nodes : u.parent[m] = IF m = y THEN Null ELSE IF m = x THEN p ELSE t.parent[m]
  BY DEF Spliced
<1>4. ASSUME NEW m \in Nodes, u.parent[m] \in Nodes PROVE e[u.parent[m]] < e[m]
  <2>1. m # y /\ m # Null
    BY <1>3, <1>4, RBTreeAssumption
  <2>2. CASE m = x
    <3>1. u.parent[m] = p /\ p \in Nodes /\ e[p] < e[y] /\ e[y] < e[x]
      BY <1>2, <1>3, <1>4, <2>1, <2>2 DEF Ranked
    <3>2. e[p] \in Nat /\ e[y] \in Nat /\ e[x] \in Nat
      BY <1>1, <1>2, <2>2, <3>1
    <3>3. QED
      BY <2>2, <3>1, <3>2
  <2>3. CASE m # x
    BY <1>3, <1>4, <2>1, <2>3 DEF Ranked
  <2>4. QED
    BY <2>2, <2>3
<1>5. QED
  BY <1>4 DEF Ranked

(* Nothing hangs on the left of a node, if there is one.                   *)
Leftmost(t, x) == x # Null => t.child["left"][x] = Null

(* The first node of what is left.                                         *)
LEMMA SpliceSpine ==
  ASSUME NEW t \in Trees, NEW T, NEW C, NEW first, Shape(t, T, C, first),
         NEW s, NEW y, NEW x, NEW d, NEW p, Spot(t, T, C, s, y, x, d, p),
         NEW u, Spliced(t, y, x, d, p, u),
         NEW sp, Spine(t, T, sp, first),
         Leftmost(t, x),
         NEW first2, first2 = IF first # y THEN first ELSE IF x # Null THEN x ELSE p
  PROVE  \E sp2 \in SUBSET Places : Spine(u, T \ {y}, sp2, first2)
<1>1. /\ y \in Nodes /\ y \in Places /\ y # Null /\ y # End /\ p # y /\ p \in Places /\ p # Null
      /\ p \in T \cup {End} /\ (p = End => d = "left" /\ y = Root(t))
      /\ d \in Sides /\ t.child[d][p] = y /\ t.child[Other(d)][p] # y
      /\ (x # Null => x \in T /\ x \in Nodes /\ x # y /\ x # p /\ t.parent[x] = y)
      /\ \A q \in Sides : t.child[q][y] \in {x, Null}
  BY SpotIs
<1>2. "left" \in Sides /\ T \subseteq Nodes /\ Null \notin T /\ End \notin T /\ Null \notin Places
  BY RootIs, RBTreeAssumption DEF Sides, Places
<1> USE DEF Leftmost
<1>0. \A m \in sp : m \in Places
  BY <1>2 DEF Spine, Places
<1>3. \A m \in Places : u.child["left"][m] =
        IF m = y THEN Null ELSE IF "left" = d /\ m = p THEN x ELSE t.child["left"][m]
  BY <1>2 DEF Spliced
<1>4. \A m \in Nodes : u.parent[m] = IF m = y THEN Null ELSE IF m = x THEN p ELSE t.parent[m]
  BY DEF Spliced
<1>5. p = t.parent[y]
  BY DEF Spot
<1>6. y \in sp <=> d = "left" /\ p \in sp
  <2>1. y \in sp => p \in sp /\ t.child["left"][p] = y
    BY <1>1, <1>5 DEF Spine
  <2>2. t.child["left"][p] = y => d = "left"
    BY <1>1, <1>2, TwoSides
  <2>3. d = "left" /\ p \in sp => y \in sp
    BY <1>1 DEF Spine
  <2>4. QED
    BY <2>1, <2>2, <2>3
<1>7. x # Null => (x \in sp <=> y \in sp /\ first # y)
  <2> SUFFICES ASSUME x # Null PROVE x \in sp <=> y \in sp /\ first # y
    OBVIOUS
  <2>1. x \in sp => y \in sp /\ t.child["left"][y] = x
    BY <1>1, <1>2 DEF Spine
  <2>2. y \in sp /\ t.child["left"][y] # Null => y # first
    BY DEF Spine
  <2>3. y \in sp /\ first # y => t.child["left"][y] # Null /\ t.child["left"][y] \in sp
    BY DEF Spine
  <2>4. t.child["left"][y] \in {x, Null}
    BY <1>1, <1>2
  <2>5. QED
    BY <2>1, <2>2, <2>3, <2>4
<1>8. y \in sp /\ x = Null => first = y
  <2>1. t.child["left"][y] \in {x, Null}
    BY <1>1, <1>2
  <2>2. QED
    BY <2>1 DEF Spine
<1>9. first = y => y \in sp
  BY DEF Spine
<1> DEFINE sp2 == IF y \in sp /\ x # Null THEN (sp \ {y}) \cup {x} ELSE sp \ {y}
<1>10. sp2 \in SUBSET Places /\ sp2 \subseteq (T \ {y}) \cup {End} /\ End \in sp2 /\ first2 \in sp2
  <2>1. x # Null => x \in Places
    BY <1>1 DEF Places
  <2>2. sp \subseteq T \cup {End} /\ End \in sp /\ first \in sp
    BY DEF Spine
  <2>3. QED
    BY <1>0, <1>1, <1>6, <1>9, <2>1, <2>2
<1>11. ASSUME NEW m \in sp2
       PROVE  /\ u.child["left"][m] # Null => u.child["left"][m] \in sp2
              /\ u.child["left"][m] = Null <=> m = first2
  <2>1. m # y /\ m \in Places
    BY <1>1, <1>10
  <2>2. CASE y \in sp /\ m = p
    <3>1. u.child["left"][m] = x /\ p \in sp
      BY <1>3, <1>6, <2>1, <2>2
    <3>2. p # first
      BY <1>1, <1>6, <2>2 DEF Spine
    <3>3. CASE x = Null
      BY <1>8, <2>2, <3>1, <3>3
    <3>4. CASE x # Null
      BY <1>1, <2>2, <3>1, <3>2, <3>4
    <3>5. QED
      BY <3>3, <3>4
  <2>3. CASE y \in sp /\ m # p
    <3>1. u.child["left"][m] = t.child["left"][m]
      BY <1>3, <2>1, <2>3
    <3>2. CASE m = x
      <4>1. x \in sp => first = x
        BY <2>1, <3>2, <1>2 DEF Spine
      <4>2. QED
        BY <1>2, <1>7, <2>1, <2>3, <3>1, <3>2, <4>1
    <3>3. CASE m # x
      <4>1. m \in sp
        BY <3>3
      <4>2. t.child["left"][m] # y
        <5>1. t.child["left"][m] = y => m = p
          BY <1>1, <1>2, <1>5, <2>1 DEF Shape, Forest, LinksAgree
        <5>2. QED
          BY <2>3, <5>1
      <4>3. m = first <=> m = first2
        <5>1. CASE first # y
          BY <5>1
        <5>2. CASE first = y
          BY <2>1, <2>3, <3>3, <5>2
        <5>3. QED
          BY <5>1, <5>2
      <4>4. t.child["left"][m] \in sp \ {y} => t.child["left"][m] \in sp2
        OBVIOUS
      <4>5. QED
        BY <3>1, <4>1, <4>2, <4>3, <4>4 DEF Spine
    <3>4. QED
      BY <3>2, <3>3
  <2>4. CASE y \notin sp
    <3>1. sp2 = sp /\ m \in sp /\ first2 = first
      BY <1>9, <2>4
    <3>2. u.child["left"][m] = t.child["left"][m]
      BY <1>3, <1>6, <2>1, <2>4, <3>1
    <3>3. QED
      BY <3>1, <3>2 DEF Spine
  <2>5. QED
    BY <2>2, <2>3, <2>4
<1>12. ASSUME NEW m \in sp2 \ {End}
       PROVE  u.parent[m] \in sp2 /\ u.child["left"][u.parent[m]] = m
  <2>1. m \in Nodes /\ m # Null /\ m # y
    BY <1>1, <1>2, <1>10
  <2>2. CASE m = x
    <3>1. y \in sp
      BY <1>7, <2>1, <2>2
    <3>2. u.parent[m] = p /\ u.child["left"][p] = x /\ p \in sp
      BY <1>1, <1>3, <1>4, <1>6, <2>1, <2>2, <3>1
    <3>3. QED
      BY <1>1, <2>2, <3>2
  <2>3. CASE m # x
    <3>1. m \in sp \ {End} /\ u.parent[m] = t.parent[m]
      BY <1>4, <2>1, <2>3
    <3>2. t.parent[m] \in sp /\ t.child["left"][t.parent[m]] = m /\ t.parent[m] \in Places
      BY <1>0, <3>1 DEF Spine
    <3>3. t.parent[m] # y
      BY <1>1, <1>2, <2>1, <2>3, <3>2
    <3>4. ~("left" = d /\ t.parent[m] = p)
      BY <1>1, <2>1, <3>2
    <3>5. u.child["left"][t.parent[m]] = m /\ t.parent[m] \in sp2
      BY <1>3, <3>2, <3>3, <3>4
    <3>6. QED
      BY <3>1, <3>5
  <2>4. QED
    BY <2>2, <2>3
<1>13. Spine(u, T \ {y}, sp2, first2)
  BY <1>10, <1>11, <1>12 DEF Spine
<1> HIDE DEF sp2
<1>14. QED
  BY <1>10, <1>13

(* The first node afterwards.                                              *)
FirstAfter(first, y, x, p) == IF first # y THEN first ELSE IF x # Null THEN x ELSE p

(* All in all, unlinking keeps the shape of the links.                     *)
LEMMA SpliceShape ==
  ASSUME NEW t \in Trees, NEW T, NEW C, NEW first, Shape(t, T, C, first),
         NEW s, NEW y, NEW x, NEW d, NEW p, Spot(t, T, C, s, y, x, d, p),
         NEW u, Spliced(t, y, x, d, p, u), Leftmost(t, x)
  PROVE  Shape(u, T \ {y}, C, FirstAfter(first, y, x, p))
<1> DEFINE first2 == FirstAfter(first, y, x, p)
<1>0. first2 = IF first # y THEN first ELSE IF x # Null THEN x ELSE p
  BY DEF FirstAfter
<1> HIDE DEF first2
<1>1. PICK e \in Ranks, sp \in SUBSET Places : Forest(t, T, C) /\ Ranked(t, e) /\ Spine(t, T, sp, first)
  BY DEF Shape
<1>2. Forest(u, T \ {y}, C)
  BY <1>1, SpliceForest
<1>3. Ranked(u, e)
  BY <1>1, SpliceRanked
<1>4. PICK sp2 \in SUBSET Places : Spine(u, T \ {y}, sp2, first2)
  BY <1>0, <1>1, SpliceSpine
<1>5. Shape(u, T \ {y}, C, first2)
  BY <1>2, <1>3, <1>4 DEF Shape
<1>6. QED
  BY <1>5 DEF first2

(* A red child takes the place of its parent as a black node.              *)
SplicedColours(t, y, x, u) ==
  /\ \A m \in Nodes : m # y /\ m # x => (u.black[m] <=> t.black[m])
  /\ x # Null => u.black[x]

(* The hole that is left, if there is one.                                 *)
LeavesHole(t, y, x, p) == t.black[y] /\ x = Null /\ p # End

(* When a black node is unlinked its child is red, or there is a hole.     *)
LEMMA SpliceBalanced ==
  ASSUME NEW t \in Trees, NEW T, NEW C, NEW first, Shape(t, T, C, first),
         Balanced(t, T, Null, "left", Null),
         NEW s, NEW y, NEW x, NEW d, NEW p, Spot(t, T, C, s, y, x, d, p),
         NEW u, Spliced(t, y, x, d, p, u), SplicedColours(t, y, x, u), NEW gp, NEW gs,
         LeavesHole(t, y, x, p) => gp = p /\ gs = d,
         ~LeavesHole(t, y, x, p) => gp = Null /\ gs = "left"
  PROVE  Balanced(u, T \ {y}, gp, gs, Null)
<1>1. /\ y \in Nodes /\ y \in Places /\ y # Null /\ y # End /\ p # y /\ p \in Places /\ p # Null
      /\ p \in T \cup {End} /\ (p = End => d = "left" /\ y = Root(t))
      /\ d \in Sides /\ t.child[d][p] = y /\ t.child[Other(d)][p] # y
      /\ (x # Null => x \in T /\ x \in Nodes /\ x # y /\ x # p /\ t.parent[x] = y)
      /\ \A q \in Sides : t.child[q][y] \in {x, Null}
  BY SpotIs
<1>2. x # Null => t.black[y] /\ ~t.black[x] /\ \A q \in Sides : t.child[q][x] = Null
  BY LoneChild DEF Spot
<1>3. \A q \in Sides, m \in Places : u.child[q][m] =
        IF m = y THEN Null ELSE IF q = d /\ m = p THEN x ELSE t.child[q][m]
  BY DEF Spliced
<1>4. /\ T \subseteq Nodes /\ Null \notin T /\ End \notin T /\ y \in T /\ s \in Sides /\ "left" \in Sides /\ End \in Places
      /\ \A m \in T : m \in Places
  BY RootIs DEF Spot, Sides, Places
<1>5. PICK b \in Counts : Heights(t, T, Null, "left", b)
  BY DEF Balanced
<1>6. b[Null] = 1 /\ b[y] \in Nat /\ (x # Null => b[x] = 1) /\ b[y] = IF t.black[y] THEN 2 ELSE 1
  <2>1. Climbs(b[y], b[t.child[s][y]], FALSE, t.black[y]) /\ t.child[s][y] = Null
    BY <1>1, <1>4, <1>5 DEF Heights, Spot
  <2>2. b[Null] = 1
    BY <1>5 DEF Heights
  <2>3. x # Null => Climbs(b[x], b[t.child["left"][x]], FALSE, t.black[x]) /\ t.child["left"][x] = Null
    BY <1>1, <1>2, <1>4, <1>5 DEF Heights
  <2>4. b[y] \in Nat /\ (x # Null => b[x] \in Nat)
    BY <1>1, <1>5 DEF Counts
  <2>5. x # Null => b[x] = 1
    BY <1>2, <2>2, <2>3, <2>4 DEF Climbs
  <2>6. QED
    BY <2>1, <2>2, <2>4, <2>5 DEF Climbs
<1>7. \A m \in T, q \in Sides : t.child[q][m] # Null => t.child[q][m] \in T /\ t.parent[t.child[q][m]] = m
  BY Child
<1>8. ASSUME NEW m \in T, m # y, NEW q \in Sides, ~(q = d /\ m = p)
      PROVE  u.child[q][m] = t.child[q][m] /\ t.child[q][m] # y /\ (x # Null => t.child[q][m] # x)
  <2>1. u.child[q][m] = t.child[q][m]
    BY <1>3, <1>4, <1>8
  <2>2. t.child[q][m] = y => m = p
    BY <1>1, <1>7 DEF Spot
  <2>3. q = d \/ q = Other(d)
    BY <1>1, TwoSides
  <2>4. x # Null => t.child[q][m] # x
    BY <1>1, <1>7, <1>8
  <2>5. QED
    BY <1>1, <1>8, <2>1, <2>2, <2>3, <2>4
<1>9. \A m \in T : m # y /\ (x = Null \/ m # x) => (u.black[m] <=> t.black[m])
  BY <1>4 DEF SplicedColours
<1>10. x # Null => u.black[x]
  BY DEF SplicedColours
<1> DEFINE b2 == [m \in Nodes \cup {Null} |-> IF m = x /\ x # Null THEN 2 ELSE b[m]]
<1>11. b2 \in Counts /\ b2[Null] = 1 /\ (x # Null => b2[x] = 2) /\ \A m \in Nodes \cup {Null} : (x = Null \/ m # x) => b2[m] = b[m]
  BY <1>1, <1>5, <1>6, RBTreeAssumption DEF Counts
<1> HIDE DEF b2
<1>12. Heights(u, T \ {y}, gp, gs, b2)
  <2>1. ASSUME NEW m \in T \ {y}, NEW q \in Sides
        PROVE  Climbs(b2[m], b2[u.child[q][m]], m = gp /\ q = gs, u.black[m])
    <3> DEFINE k == t.child[q][m]
    <3>1. m # Null /\ k \in Nodes \cup {Null}
      BY <1>4, <1>7
    <3>2. Climbs(b[m], b[k], FALSE, t.black[m])
      BY <1>5, <3>1 DEF Heights
    <3>3. CASE q = d /\ m = p
      <4>1. u.child[q][m] = x /\ k = y /\ (x = Null \/ m # x)
        BY <1>1, <1>3, <1>4, <3>3
      <4>2. b2[m] = b[m] /\ (u.black[m] <=> t.black[m]) /\ b[m] \in Nat
        BY <1>4, <1>5, <1>9, <1>11, <4>1 DEF Counts
      <4>3. Climbs(b[m], b[y], FALSE, t.black[m])
        BY <3>2, <4>1
      <4>4. p # End
        BY <1>4, <3>3
      <4>5. CASE x # Null
        <5>1. b2[u.child[q][m]] = 2 /\ b[y] = 2 /\ gp = Null
          BY <1>2, <1>6, <1>11, <4>1, <4>5 DEF LeavesHole
        <5>2. QED
          BY <3>1, <4>2, <4>3, <5>1 DEF Climbs
      <4>6. CASE x = Null /\ t.black[y]
        <5>1. b2[u.child[q][m]] = 1 /\ b[y] = 2 /\ gp = p /\ gs = d
          BY <1>6, <1>11, <4>1, <4>4, <4>6 DEF LeavesHole
        <5>2. QED
          BY <3>3, <4>2, <4>3, <5>1 DEF Climbs
      <4>7. CASE x = Null /\ ~t.black[y]
        <5>1. b2[u.child[q][m]] = 1 /\ b[y] = 1 /\ gp = Null
          BY <1>6, <1>11, <4>1, <4>7 DEF LeavesHole
        <5>2. QED
          BY <3>1, <4>2, <4>3, <5>1 DEF Climbs
      <4>8. QED
        BY <4>5, <4>6, <4>7
    <3>4. CASE ~(q = d /\ m = p)
      <4>1. u.child[q][m] = k /\ k # y /\ (x # Null => k # x)
        BY <1>8, <3>4
      <4>2. ~(m = gp /\ q = gs)
        BY <3>1, <3>4
      <4>3. CASE m = x
        <5>1. k = Null /\ x # Null
          BY <1>2, <3>1, <4>3
        <5>2. b2[m] = 2 /\ b2[k] = 1 /\ u.black[m]
          BY <1>10, <1>11, <4>3, <5>1
        <5>3. QED
          BY <4>1, <4>2, <5>2 DEF Climbs
      <4>4. CASE m # x
        <5>1. b2[m] = b[m] /\ b2[k] = b[k] /\ (u.black[m] <=> t.black[m])
          BY <1>4, <1>9, <1>11, <3>1, <4>1, <4>4
        <5>2. QED
          BY <3>2, <4>1, <4>2, <5>1 DEF Climbs
      <4>5. QED
        BY <4>3, <4>4
    <3>5. QED
      BY <3>3, <3>4
  <2>2. QED
    BY <1>11, <2>1 DEF Heights
<1>13. Reds(u, T \ {y}, Null)
  <2>1. Root(u) # Null => u.black[Root(u)]
    <3>1. Root(u) = IF p = End THEN x ELSE Root(t)
      BY <1>1, <1>3, <1>4 DEF Root
    <3>2. p # End => Root(t) # y /\ (x # Null => Root(t) # x)
      <4>1. x # Null => Root(t) # x
        BY <1>1, <1>4, RootIs
      <4>2. p # End => Root(t) # y
        BY <1>1, <1>4, RootIs DEF Spot
      <4>3. QED
        BY <4>1, <4>2
    <3>3. Root(t) # Null => Root(t) \in T /\ t.black[Root(t)]
      BY RootIs DEF Balanced, Reds
    <3>4. CASE p = End
      BY <1>10, <3>1, <3>4
    <3>5. CASE p # End
      BY <1>9, <3>1, <3>2, <3>3, <3>5
    <3>6. QED
      BY <3>4, <3>5
  <2>2. ASSUME NEW m \in T \ {y}, NEW q \in Sides, ~u.black[m], u.child[q][m] # Null
        PROVE  u.black[u.child[q][m]]
    <3>1. m # Null /\ (x = Null \/ m # x)
      BY <1>4, <1>10, <2>2
    <3>2. ~t.black[m]
      BY <1>9, <2>2, <3>1
    <3>3. CASE q = d /\ m = p
      <4>1. u.child[q][m] = x
        BY <1>1, <1>3, <1>4, <3>3
      <4>2. QED
        BY <1>10, <2>2, <4>1
    <3>4. CASE ~(q = d /\ m = p)
      <4>1. u.child[q][m] = t.child[q][m] /\ t.child[q][m] # y /\ (x # Null => t.child[q][m] # x)
        BY <1>8, <3>4
      <4>2. t.child[q][m] \in T /\ t.black[t.child[q][m]]
        BY <1>7, <2>2, <3>2, <4>1 DEF Balanced, Reds
      <4>3. QED
        BY <1>9, <4>1, <4>2
    <3>5. QED
      BY <3>3, <3>4
  <2>3. QED
    BY <2>1, <2>2 DEF Reds
<1>14. QED
  BY <1>11, <1>12, <1>13 DEF Balanced

-----------------------------------------------------------------------------
(***************************************************************************)
(* A node y from outside takes the place of z, and its colour.             *)
(***************************************************************************)
Replaced(u, z, y, d, q, v) ==
  /\ v \in Trees
  /\ \A s \in Sides, m \in Places : v.child[s][m] =
       IF m = z THEN Null ELSE IF m = y THEN u.child[s][z]
       ELSE IF s = d /\ m = q THEN y ELSE u.child[s][m]
  /\ \A m \in Nodes : v.parent[m] =
       IF m = z THEN Null ELSE IF m = y THEN q
       ELSE IF \E s \in Sides : u.child[s][z] = m THEN y ELSE u.parent[m]
  /\ v.black[y] <=> u.black[z]
  /\ \A m \in Nodes : m # y /\ m # z => (v.black[m] <=> u.black[m])

Seat(u, T, C, z, y, d, q) ==
  /\ z \in T /\ y \in Nodes /\ y \notin T \cup C /\ d = Side(u, z) /\ q = u.parent[z]

(* What is around z, and other nodes.                                      *)
LEMMA SeatIs ==
  ASSUME NEW u \in Trees, NEW T, NEW C, NEW first, Shape(u, T, C, first),
         NEW z, NEW y, NEW d, NEW q, Seat(u, T, C, z, y, d, q)
  PROVE  /\ z \in Nodes /\ z \in Places /\ z # Null /\ z # End /\ y \in Places /\ y # Null /\ y # End /\ y # z
         /\ q \in T \cup {End} /\ q \in Places /\ q # z /\ q # y /\ q # Null /\ q \notin C
         /\ d \in Sides /\ u.child[d][q] = z /\ u.child[Other(d)][q] # z /\ (q = End => d = "left")
         /\ (q = End <=> z = Root(u))
         /\ \A m \in Places, s \in Sides : u.child[s][m] # Null =>
              /\ u.child[s][m] # y /\ u.child[s][m] \in Nodes /\ u.parent[u.child[s][m]] = m
              /\ u.child[s][m] # u.child[Other(s)][m]
              /\ (u.child[s][m] = z => s = d /\ m = q)
              /\ (m = z => u.child[s][m] # z)
              /\ \/ m \in T \cup {End} /\ u.child[s][m] \in T
                 \/ m \in C /\ u.child[s][m] \in C
<1>1. PICK e \in Ranks, sp \in SUBSET Places : Forest(u, T, C) /\ Ranked(u, e) /\ Spine(u, T, sp, first)
  BY DEF Shape
<1>2. z \in T /\ z \in T \cup C /\ y \in Nodes /\ y \notin T \cup C /\ d = Side(u, z) /\ q = u.parent[z]
  BY DEF Seat
<1>3. /\ T \subseteq Nodes /\ C \subseteq Nodes /\ End \notin T \cup C /\ T \cap C = {}
      /\ End # Null /\ Null \notin Nodes /\ End \notin Nodes
  BY <1>1, RBTreeAssumption DEF Forest
<1>4. z \in Nodes /\ z \in Places /\ z # Null /\ z # End /\ y \in Places /\ y # Null /\ y # End /\ y # z
  BY <1>2, <1>3 DEF Places
<1>5. q \in T \cup {End} /\ q # z
  BY <1>1, <1>2, Above
<1>6. q \in Places /\ q # y /\ q # Null /\ q \notin C
  BY <1>2, <1>3, <1>5 DEF Places
<1>7. d \in Sides /\ u.child[d][q] = z /\ u.child[Other(d)][q] # z /\ (q = End => d = "left")
  BY <1>1, <1>2, <1>6, Above
<1>8. q = End <=> z = Root(u)
  BY <1>2, <1>4, RootIs
<1>9. ASSUME NEW m \in Places, NEW s \in Sides, u.child[s][m] # Null
      PROVE  /\ u.child[s][m] # y /\ u.child[s][m] \in Nodes /\ u.parent[u.child[s][m]] = m
             /\ u.child[s][m] # u.child[Other(s)][m]
             /\ (u.child[s][m] = z => s = d /\ m = q)
             /\ (m = z => u.child[s][m] # z)
             /\ \/ m \in T \cup {End} /\ u.child[s][m] \in T
                \/ m \in C /\ u.child[s][m] \in C
  <2>1. u.parent[u.child[s][m]] = m /\ u.child[s][m] # u.child[Other(s)][m]
    BY <1>1, <1>9 DEF Forest, LinksAgree
  <2>2. \/ m \in T \cup {End} /\ u.child[s][m] \in T
        \/ m \in C /\ u.child[s][m] \in C
    BY <1>1, <1>9 DEF Forest, LinksWithin
  <2>3. u.child[s][m] # y /\ u.child[s][m] \in Nodes
    BY <1>2, <1>3, <2>2
  <2>4. u.child[s][m] = z => m = q
    BY <1>2, <2>1
  <2>5. u.child[s][m] = z => s = d
    BY <1>7, <2>4, TwoSides
  <2>6. QED
    BY <1>5, <2>1, <2>2, <2>3, <2>4, <2>5
<1>10. QED
  BY <1>4, <1>5, <1>6, <1>7, <1>8, <1>9

(* A node takes the place of another one: the rest is a forest.            *)
LEMMA ReplaceForest ==
  ASSUME NEW u \in Trees, NEW T, NEW C, NEW first, Shape(u, T, C, first), Forest(u, T, C),
         NEW z, NEW y, NEW d, NEW q, Seat(u, T, C, z, y, d, q),
         NEW v, Replaced(u, z, y, d, q, v)
  PROVE  Forest(v, (T \ {z}) \cup {y}, C)
<1>1. /\ z \in Nodes /\ z \in Places /\ z # Null /\ z # End /\ y \in Places /\ y # Null /\ y # End /\ y # z
      /\ q \in T \cup {End} /\ q \in Places /\ q # z /\ q # y /\ q # Null /\ q \notin C
      /\ d \in Sides /\ u.child[d][q] = z /\ u.child[Other(d)][q] # z /\ (q = End => d = "left")
  BY SeatIs
<1>2. \A m \in Places, s \in Sides : u.child[s][m] # Null =>
              /\ u.child[s][m] # y /\ u.child[s][m] \in Nodes /\ u.parent[u.child[s][m]] = m
              /\ u.child[s][m] # u.child[Other(s)][m]
              /\ (u.child[s][m] = z => s = d /\ m = q)
              /\ (m = z => u.child[s][m] # z)
              /\ \/ m \in T \cup {End} /\ u.child[s][m] \in T
                 \/ m \in C /\ u.child[s][m] \in C
  BY SeatIs
<1>3. \A s \in Sides, m \in Places : v.child[s][m] =
        IF m = z THEN Null ELSE IF m = y THEN u.child[s][z]
        ELSE IF s = d /\ m = q THEN y ELSE u.child[s][m]
  BY DEF Replaced
<1>4. \A m \in Nodes : v.parent[m] =
        IF m = z THEN Null ELSE IF m = y THEN q
        ELSE IF \E s \in Sides : u.child[s][z] = m THEN y ELSE u.parent[m]
  BY DEF Replaced
<1>5. T \subseteq Nodes /\ C \subseteq Nodes /\ T \cap C = {} /\ z \in T /\ y \in Nodes /\ y \notin T \cup C /\ q = u.parent[z]
      /\ End \notin T /\ End \notin C /\ Null \notin T /\ Null \notin C
  BY RBTreeAssumption DEF Forest, Seat
<1>6. ASSUME NEW s \in Sides, NEW m \in Places, u.child[s][m] # Null, m # z, m # q \/ s # d
      PROVE  v.parent[u.child[s][m]] = m /\ u.child[s][m] # z
  <2> DEFINE c == u.child[s][m]
  <2>1. c # y /\ c \in Nodes /\ u.parent[c] = m /\ c # z
    BY <1>2, <1>6
  <2>2. \A o \in Sides : u.child[o][z] # c
    BY <1>1, <1>2, <1>6, <2>1
  <2> HIDE DEF c
  <2>3. v.parent[c] = m
    BY <1>4, <2>1, <2>2
  <2>4. QED
    BY <2>1, <2>3 DEF c
<1>7. LinksAgree(v)
  <2> SUFFICES ASSUME NEW m \in Places, NEW s \in Sides, v.child[s][m] # Null
               PROVE  v.parent[v.child[s][m]] = m /\ v.child[s][m] # v.child[Other(s)][m]
    BY DEF LinksAgree
  <2>1. Other(s) \in Sides /\ Other(s) # s
    BY TwoSides
  <2>2. m # z
    BY <1>3, <2>1
  <2>3. CASE m = y
    <3>1. v.child[s][m] = u.child[s][z] /\ v.child[Other(s)][m] = u.child[Other(s)][z]
      BY <1>1, <1>3, <2>1, <2>3
    <3>2. /\ u.child[s][z] # Null /\ u.child[s][z] # z /\ u.child[s][z] # y /\ u.child[s][z] \in Nodes
          /\ u.child[s][z] # u.child[Other(s)][z]
      BY <1>1, <1>2, <2>1, <3>1
    <3>3. v.parent[u.child[s][z]] = y
      BY <1>4, <3>2
    <3>4. QED
      BY <2>3, <3>1, <3>2, <3>3
  <2>4. CASE m # y /\ s = d /\ m = q
    <3>1. v.child[s][m] = y /\ v.child[Other(s)][m] = u.child[Other(s)][m]
      BY <1>1, <1>3, <2>1, <2>2, <2>4
    <3>2. v.parent[y] = q
      BY <1>1, <1>4, <1>5
    <3>3. u.child[Other(s)][m] # y
      BY <1>1, <1>2, <2>1
    <3>4. QED
      BY <2>4, <3>1, <3>2, <3>3
  <2>5. CASE m # y /\ ~(s = d /\ m = q)
    <3>1. v.child[s][m] = u.child[s][m] /\ u.child[s][m] # Null
      BY <1>3, <2>2, <2>5
    <3>2. v.parent[u.child[s][m]] = m
      BY <1>6, <2>2, <2>5, <3>1
    <3>3. v.child[Other(s)][m] \in {y, u.child[Other(s)][m]}
      BY <1>3, <2>1, <2>2, <2>5
    <3>4. u.child[s][m] # y /\ u.child[s][m] # u.child[Other(s)][m]
      BY <1>2, <3>1
    <3>5. QED
      BY <3>1, <3>2, <3>3, <3>4
  <2>6. QED
    BY <2>3, <2>4, <2>5
<1>8. LinksWithin(v, (T \ {z}) \cup {y}, C)
  <2>1. v.child["right"][End] = Null
    <3>1. "right" \in Sides /\ "right" # "left" /\ End \in Places
      BY DEF Sides, Places
    <3>2. u.child["right"][End] = Null
      BY DEF Forest, LinksWithin
    <3>3. QED
      BY <1>1, <1>3, <3>1, <3>2
  <2>2. ASSUME NEW m \in Places, NEW s \in Sides, v.child[s][m] # Null
        PROVE  \/ m \in (T \ {z}) \cup {y} \cup {End} /\ v.child[s][m] \in (T \ {z}) \cup {y}
               \/ m \in C /\ v.child[s][m] \in C
    <3>1. m # z
      BY <1>3, <2>2
    <3>2. CASE m = y
      <4>1. v.child[s][m] = u.child[s][z] /\ u.child[s][z] # Null
        BY <1>1, <1>3, <2>2, <3>2
      <4>2. u.child[s][z] \in T /\ u.child[s][z] # z
        BY <1>1, <1>2, <1>5, <4>1
      <4>3. QED
        BY <3>2, <4>1, <4>2
    <3>3. CASE m # y /\ s = d /\ m = q
      BY <1>1, <1>3, <3>1, <3>3
    <3>4. CASE m # y /\ ~(s = d /\ m = q)
      <4>1. v.child[s][m] = u.child[s][m] /\ u.child[s][m] # Null
        BY <1>3, <2>2, <3>1, <3>4
      <4>2. u.child[s][m] # z
        BY <1>2, <3>4, <4>1
      <4>3. QED
        BY <1>2, <3>1, <4>1, <4>2
    <3>5. QED
      BY <3>2, <3>3, <3>4
  <2>3. QED
    BY <2>1, <2>2 DEF LinksWithin
<1>9. ASSUME NEW m \in T \cup C, m # z, u.parent[m] \in Places, IsChild(u, m)
      PROVE  /\ v.parent[m] = (IF u.parent[m] = z THEN y ELSE u.parent[m]) /\ IsChild(v, m)
             /\ (m \in C => u.parent[m] # z)
  <2>1. PICK s \in Sides : u.child[s][u.parent[m]] = m
    BY <1>9 DEF IsChild
  <2>2. m \in Nodes /\ m # Null /\ m # y
    BY <1>5, <1>9, RBTreeAssumption
  <2>3. CASE u.parent[m] = z
    <3>1. v.parent[m] = y /\ v.child[s][y] = m
      BY <1>1, <1>3, <1>4, <1>9, <2>1, <2>2, <2>3
    <3>2. m \in T
      BY <1>1, <1>2, <1>5, <2>1, <2>2, <2>3
    <3>3. QED
      BY <1>5, <2>3, <3>1, <3>2 DEF IsChild
  <2>4. CASE u.parent[m] # z
    <3>1. u.parent[m] # q \/ s # d
      BY <1>1, <1>9, <2>1
    <3>2. v.parent[m] = u.parent[m]
      BY <1>6, <1>9, <2>1, <2>2, <2>4, <3>1
    <3>3. u.parent[m] # y
      BY <1>1, <1>2, <1>5, <1>9, <2>1, <2>2
    <3>4. v.child[s][u.parent[m]] = m
      BY <1>3, <1>9, <2>1, <2>4, <3>1, <3>3
    <3>5. QED
      BY <2>4, <3>2, <3>4 DEF IsChild
  <2>5. QED
    BY <2>3, <2>4
<1>10. LinksUp(v, (T \ {z}) \cup {y}, C)
  <2>1. v.parent[y] = q /\ v.child[d][q] = y
    BY <1>1, <1>3, <1>4, <1>5
  <2>2. ASSUME NEW m \in T \ {z} PROVE v.parent[m] \in (T \ {z}) \cup {y} \cup {End} /\ IsChild(v, m)
    <3>1. u.parent[m] \in T \cup {End} /\ IsChild(u, m)
      BY DEF Forest, LinksUp
    <3>2. u.parent[m] \in Places
      BY <1>5, <3>1 DEF Places
    <3>3. QED
      BY <1>9, <3>1, <3>2
  <2>3. ASSUME NEW m \in C, u.parent[m] # Null
        PROVE  v.parent[m] = u.parent[m] /\ v.parent[m] \in C /\ IsChild(v, m)
    <3>1. u.parent[m] \in C /\ IsChild(u, m)
      BY <2>3 DEF Forest, LinksUp
    <3>2. u.parent[m] \in Places /\ m # z
      BY <1>5, <3>1 DEF Places
    <3>3. QED
      BY <1>9, <3>1, <3>2
  <2>4. ASSUME NEW m \in C, u.parent[m] = Null PROVE v.parent[m] = Null
    <3>1. m # z /\ m # y /\ m \in Nodes /\ m # Null
      BY <1>5
    <3>2. \A s \in Sides : u.child[s][z] # m
      BY <1>1, <1>2, <2>4, <3>1
    <3>3. QED
      BY <1>4, <2>4, <3>1, <3>2
  <2>5. ASSUME NEW m \in (T \ {z}) \cup {y} PROVE v.parent[m] \in (T \ {z}) \cup {y} \cup {End} /\ IsChild(v, m)
    BY <1>1, <2>1, <2>2 DEF IsChild
  <2>6. ASSUME NEW m \in C, v.parent[m] # Null PROVE v.parent[m] \in C /\ IsChild(v, m)
    BY <2>3, <2>4, <2>6
  <2>7. ASSUME NEW m \in C, NEW o \in C, v.parent[m] = Null, v.parent[o] = Null PROVE m = o
    <3>1. u.parent[m] = Null /\ u.parent[o] = Null
      BY <2>3, <2>7
    <3>2. QED
      BY <3>1 DEF Forest, LinksUp
  <2>8. QED
    BY <2>5, <2>6, <2>7 DEF LinksUp
<1>11. QED
  BY <1>5, <1>7, <1>8, <1>10 DEF Forest

(* The exchange makes no cycle.                                            *)
LEMMA ReplaceRanked ==
  ASSUME NEW u \in Trees, NEW T, NEW C, NEW first, Shape(u, T, C, first),
         NEW z, NEW y, NEW d, NEW q, Seat(u, T, C, z, y, d, q),
         NEW v, Replaced(u, z, y, d, q, v),
         NEW e \in Ranks, Ranked(u, e), e[z] < e[y]
  PROVE  \E e2 \in Ranks : Ranked(v, e2)
<1>1. PICK M \in Nat : e \in [Nodes -> 0..M]
  BY RanksAre
<1>2. z \in Nodes /\ y \in Nodes /\ y # z /\ q # y /\ q = u.parent[z] /\ z \in Places
  BY SeatIs DEF Seat
<1>3. \A s \in Sides : u.child[s][z] # Null => u.parent[u.child[s][z]] = z /\ u.child[s][z] # y
  BY <1>2, SeatIs
<1> DEFINE e2 == [e EXCEPT ![y] = e[z]]
<1>4. e2 \in [Nodes -> 0..M]
  BY <1>1, <1>2
<1>5. e2 \in Ranks
  BY <1>4, RanksFrom
<1>6. \A m \in Nodes : e2[m] = (IF m = y THEN e[z] ELSE e[m]) /\ e[m] \in Nat
  BY <1>1
<1> HIDE DEF e2
<1>7. ASSUME NEW m \in Nodes, v.parent[m] \in Nodes PROVE e2[v.parent[m]] < e2[m]
  <2>1. m # z /\ m # Null
    BY <1>7, RBTreeAssumption DEF Replaced
  <2>2. CASE m = y
    <3>1. v.parent[m] = q
      BY <2>1, <2>2 DEF Replaced
    <3>2. e[q] < e[z]
      BY <1>2, <1>7, <3>1 DEF Ranked
    <3>3. QED
      BY <1>2, <1>6, <1>7, <2>2, <3>1, <3>2
  <2>3. CASE m # y /\ \E s \in Sides : u.child[s][z] = m
    <3>1. v.parent[m] = y
      BY <2>1, <2>3 DEF Replaced
    <3>2. u.parent[m] = z
      BY <1>3, <2>1, <2>3
    <3>3. e[z] < e[m]
      BY <1>2, <3>2 DEF Ranked
    <3>4. QED
      BY <1>2, <1>6, <2>3, <3>1, <3>3
  <2>4. CASE m # y /\ ~\E s \in Sides : u.child[s][z] = m
    <3>1. v.parent[m] = u.parent[m]
      BY <2>1, <2>4 DEF Replaced
    <3>2. e[u.parent[m]] < e[m]
      BY <1>7, <3>1 DEF Ranked
    <3>3. e[z] \in Nat /\ e[y] \in Nat /\ e[m] \in Nat /\ e[v.parent[m]] \in Nat
      BY <1>2, <1>6, <1>7
    <3>4. e2[m] = e[m] /\ e2[v.parent[m]] = IF v.parent[m] = y THEN e[z] ELSE e[v.parent[m]]
      BY <1>6, <1>7, <2>4
    <3>5. QED
      BY <3>1, <3>2, <3>3, <3>4
  <2>5. QED
    BY <2>2, <2>3, <2>4
<1>8. QED
  BY <1>5, <1>7 DEF Ranked

(* The exchange leaves the first node alone.                               *)
LEMMA ReplaceSpine ==
  ASSUME NEW u \in Trees, NEW T, NEW C, NEW first, Shape(u, T, C, first),
         NEW z, NEW y, NEW d, NEW q, Seat(u, T, C, z, y, d, q),
         NEW v, Replaced(u, z, y, d, q, v),
         NEW sp, Spine(u, T, sp, first), first # z
  PROVE  \E sp2 \in SUBSET Places : Spine(v, (T \ {z}) \cup {y}, sp2, first)
<1>1. /\ z \in Nodes /\ z \in Places /\ z # Null /\ z # End /\ y \in Places /\ y # Null /\ y # End /\ y # z
      /\ q \in T \cup {End} /\ q \in Places /\ q # z /\ q # y /\ q # Null
      /\ d \in Sides /\ u.child[d][q] = z /\ u.child[Other(d)][q] # z
  BY SeatIs
<1>2. \A m \in Places, s \in Sides : u.child[s][m] # Null =>
              /\ u.child[s][m] # y /\ u.child[s][m] \in Nodes /\ u.parent[u.child[s][m]] = m
              /\ (u.child[s][m] = z => s = d /\ m = q)
              /\ (m = z => u.child[s][m] # z)
  BY SeatIs
<1>3. /\ T \subseteq Nodes /\ End \notin T /\ Null \notin T /\ "left" \in Sides
      /\ y \in Nodes /\ y \notin T /\ z \in T /\ q = u.parent[z] /\ Null \notin Places
  BY RootIs, RBTreeAssumption DEF Sides, Seat, Places
<1>4. /\ sp \subseteq T \cup {End} /\ End \in sp /\ first \in sp /\ y \notin sp /\ \A m \in sp : m \in Places
  BY <1>1, <1>3 DEF Spine, Places
<1>5. \A m \in Places : v.child["left"][m] =
        IF m = z THEN Null ELSE IF m = y THEN u.child["left"][z]
        ELSE IF "left" = d /\ m = q THEN y ELSE u.child["left"][m]
  BY <1>3 DEF Replaced
<1>6. \A m \in Nodes : v.parent[m] =
        IF m = z THEN Null ELSE IF m = y THEN q
        ELSE IF \E s \in Sides : u.child[s][z] = m THEN y ELSE u.parent[m]
  BY DEF Replaced
<1>7. z \in sp <=> d = "left" /\ q \in sp
  <2>1. z \in sp => q \in sp /\ u.child["left"][q] = z
    BY <1>1, <1>3 DEF Spine
  <2>2. u.child["left"][q] = z => d = "left"
    BY <1>1, <1>2, <1>3
  <2>3. d = "left" /\ q \in sp => z \in sp
    BY <1>1 DEF Spine
  <2>4. QED
    BY <2>1, <2>2, <2>3
<1>8. z \in sp => u.child["left"][z] # Null /\ u.child["left"][z] \in sp
  BY DEF Spine
<1> DEFINE sp2 == IF z \in sp THEN (sp \ {z}) \cup {y} ELSE sp
<1>9. /\ sp2 \in SUBSET Places /\ sp2 \subseteq (T \ {z}) \cup {y} \cup {End} /\ End \in sp2 /\ first \in sp2
  BY <1>1, <1>3, <1>4
<1>10. ASSUME NEW m \in sp2
       PROVE  /\ v.child["left"][m] # Null => v.child["left"][m] \in sp2
              /\ v.child["left"][m] = Null <=> m = first
  <2>1. m # z /\ m \in Places
    BY <1>1, <1>9
  <2>2. CASE m = y
    <3>1. z \in sp /\ v.child["left"][m] = u.child["left"][z]
      BY <1>4, <1>5, <2>1, <2>2
    <3>2. u.child["left"][z] # z /\ u.child["left"][z] # Null /\ u.child["left"][z] \in sp
      BY <1>1, <1>2, <1>3, <1>8, <3>1
    <3>3. QED
      BY <1>4, <2>2, <3>1, <3>2
  <2>3. CASE m # y /\ "left" = d /\ m = q
    <3>1. m \in sp /\ z \in sp /\ v.child["left"][m] = y
      BY <1>5, <1>7, <2>1, <2>3
    <3>2. m # first
      BY <1>1, <2>3, <3>1 DEF Spine
    <3>3. QED
      BY <1>1, <3>1, <3>2
  <2>4. CASE m # y /\ ~("left" = d /\ m = q)
    <3>1. m \in sp /\ v.child["left"][m] = u.child["left"][m]
      BY <1>5, <2>1, <2>4
    <3>2. u.child["left"][m] # Null => u.child["left"][m] # z
      BY <1>2, <1>3, <2>1, <2>4
    <3>3. QED
      BY <3>1, <3>2 DEF Spine
  <2>5. QED
    BY <2>2, <2>3, <2>4
<1>11. ASSUME NEW m \in sp2 \ {End}
       PROVE  v.parent[m] \in sp2 /\ v.child["left"][v.parent[m]] = m
  <2>1. m \in Nodes /\ m # Null /\ m # z
    BY <1>1, <1>3, <1>9
  <2>2. CASE m = y
    <3>1. z \in sp /\ v.parent[m] = q
      BY <1>4, <1>6, <2>1, <2>2
    <3>2. q \in sp2 /\ v.child["left"][q] = y
      BY <1>1, <1>5, <1>7, <3>1
    <3>3. QED
      BY <2>2, <3>1, <3>2
  <2>3. CASE m # y
    <3>1. m \in sp /\ u.parent[m] \in sp /\ u.child["left"][u.parent[m]] = m
      BY <2>3 DEF Spine
    <3>2. (\E s \in Sides : u.child[s][z] = m) <=> u.parent[m] = z
      BY <1>1, <1>2, <1>3, <2>1, <3>1
    <3>3. CASE u.parent[m] = z
      <4>1. v.parent[m] = y /\ z \in sp /\ v.child["left"][y] = m
        BY <1>1, <1>5, <1>6, <2>1, <2>3, <3>1, <3>2, <3>3
      <4>2. QED
        BY <4>1
    <3>4. CASE u.parent[m] # z
      <4>1. v.parent[m] = u.parent[m]
        BY <1>6, <2>1, <2>3, <3>2, <3>4
      <4>2. u.parent[m] \in Places /\ u.parent[m] # y /\ ~("left" = d /\ u.parent[m] = q)
        BY <1>1, <1>4, <2>1, <3>1
      <4>3. v.child["left"][u.parent[m]] = m
        BY <1>5, <3>1, <3>4, <4>2
      <4>4. QED
        BY <3>1, <3>4, <4>1, <4>3
    <3>5. QED
      BY <3>3, <3>4
  <2>4. QED
    BY <2>2, <2>3
<1>12. Spine(v, (T \ {z}) \cup {y}, sp2, first)
  BY <1>9, <1>10, <1>11 DEF Spine
<1> HIDE DEF sp2
<1>13. QED
  BY <1>9, <1>12

(* The node that takes the place takes the colour: the heights stay.       *)
LEMMA ReplaceBalanced ==
  ASSUME NEW u \in Trees, NEW T, NEW C, NEW first, Shape(u, T, C, first),
         NEW z, NEW y, NEW d, NEW q, Seat(u, T, C, z, y, d, q),
         NEW v, Replaced(u, z, y, d, q, v),
         NEW gp, NEW gs, Balanced(u, T, gp, gs, Null), gp # y,
         NEW gp2, gp2 = IF gp = z THEN y ELSE gp
  PROVE  Balanced(v, (T \ {z}) \cup {y}, gp2, gs, Null)
<1>1. /\ z \in Nodes /\ z \in Places /\ z # Null /\ z # End /\ y \in Places /\ y # Null /\ y # End /\ y # z
      /\ q \in T \cup {End} /\ q \in Places /\ q # z /\ q # y /\ q # Null
      /\ d \in Sides /\ u.child[d][q] = z /\ (q = End <=> z = Root(u)) /\ (q = End => d = "left")
  BY SeatIs
<1>2. /\ T \subseteq Nodes /\ End \notin T /\ Null \notin T /\ "left" \in Sides
      /\ y \in Nodes /\ y \notin T /\ z \in T /\ End \in Places
      /\ \A m \in T : m \in Places
  BY RootIs DEF Sides, Seat, Places
<1>3. \A m \in T, s \in Sides : u.child[s][m] # Null =>
              /\ u.child[s][m] # y /\ u.child[s][m] \in T
              /\ (u.child[s][m] = z => s = d /\ m = q)
  BY <1>2, SeatIs, Child
<1>4. \A s \in Sides, m \in Places : v.child[s][m] =
        IF m = z THEN Null ELSE IF m = y THEN u.child[s][z]
        ELSE IF s = d /\ m = q THEN y ELSE u.child[s][m]
  BY DEF Replaced
<1>5. /\ v.black[y] <=> u.black[z]
      /\ \A m \in T : m # z => (v.black[m] <=> u.black[m])
  BY <1>2 DEF Replaced
<1> DEFINE Old(m) == IF m = y THEN z ELSE m
           T2 == (T \ {z}) \cup {y}
<1>6. ASSUME NEW m \in T2, NEW s \in Sides
      PROVE  /\ Old(m) \in T /\ Old(v.child[s][m]) = u.child[s][Old(m)]
             /\ (v.black[m] <=> u.black[Old(m)]) /\ (m = gp2 <=> Old(m) = gp)
             /\ (v.child[s][m] # Null => v.child[s][m] \in T2)
             /\ v.child[s][m] \in T2 \cup {Null}
  <2>1. Old(m) \in T /\ (v.black[m] <=> u.black[Old(m)]) /\ (m = gp2 <=> Old(m) = gp)
    BY <1>1, <1>2, <1>5
  <2>2. CASE m = y
    <3>1. v.child[s][m] = u.child[s][z]
      BY <1>1, <1>4, <2>2
    <3>2. u.child[s][z] # Null => u.child[s][z] # y /\ u.child[s][z] # z /\ u.child[s][z] \in T
      BY <1>1, <1>2, <1>3
    <3>3. QED
      BY <1>1, <2>1, <2>2, <3>1, <3>2
  <2>3. CASE m # y /\ s = d /\ m = q
    <3>1. v.child[s][m] = y /\ u.child[s][m] = z
      BY <1>1, <1>4, <2>3
    <3>2. QED
      BY <2>1, <2>3, <3>1
  <2>4. CASE m # y /\ ~(s = d /\ m = q)
    <3>1. m \in T /\ m # z /\ v.child[s][m] = u.child[s][m]
      BY <1>2, <1>4, <2>4
    <3>2. u.child[s][m] # Null => u.child[s][m] # y /\ u.child[s][m] # z /\ u.child[s][m] \in T
      BY <1>3, <2>4, <3>1
    <3>3. QED
      BY <1>1, <2>1, <2>4, <3>1, <3>2
  <2>5. QED
    BY <2>2, <2>3, <2>4
<1>7. PICK b \in Counts : Heights(u, T, gp, gs, b)
  BY DEF Balanced
<1> DEFINE b2 == [m \in Nodes \cup {Null} |-> b[Old(m)]]
<1>8. b2 \in Counts /\ b2[Null] = 1 /\ \A m \in T2 \cup {Null} : b2[m] = b[Old(m)]
  <2>1. \A m \in Nodes \cup {Null} : Old(m) \in Nodes \cup {Null}
    BY <1>1
  <2>2. b[Null] = 1
    BY <1>7 DEF Heights
  <2>3. QED
    BY <1>1, <1>2, <1>7, <2>1, <2>2 DEF Counts
<1> HIDE DEF b2
<1>9. Heights(v, T2, gp2, gs, b2)
  <2>1. ASSUME NEW m \in T2, NEW s \in Sides
        PROVE  Climbs(b2[m], b2[v.child[s][m]], m = gp2 /\ s = gs, v.black[m])
    <3>1. Climbs(b[Old(m)], b[u.child[s][Old(m)]], Old(m) = gp /\ s = gs, u.black[Old(m)])
      BY <1>6, <1>7 DEF Heights
    <3>2. b2[m] = b[Old(m)] /\ b2[v.child[s][m]] = b[u.child[s][Old(m)]]
      BY <1>6, <1>8
    <3> HIDE DEF Old
    <3>3. QED
      BY <1>6, <3>1, <3>2 DEF Climbs
  <2>2. QED
    BY <1>8, <2>1 DEF Heights
<1>10. Reds(v, T2, Null)
  <2>1. Root(v) # Null => v.black[Root(v)]
    <3>1. Root(v) = IF q = End THEN y ELSE Root(u)
      BY <1>1, <1>2, <1>4 DEF Root
    <3>2. Root(u) # Null => Root(u) \in T /\ u.black[Root(u)]
      BY RootIs DEF Balanced, Reds
    <3>3. QED
      BY <1>1, <1>5, <3>1, <3>2
  <2>2. ASSUME NEW m \in T2, NEW s \in Sides, ~v.black[m], v.child[s][m] # Null
        PROVE  v.black[v.child[s][m]]
    <3>1. v.child[s][m] \in T2 /\ Old(m) \in T /\ Old(v.child[s][m]) = u.child[s][Old(m)] /\ ~u.black[Old(m)]
      BY <1>6, <2>2
    <3>2. Old(v.child[s][m]) # Null /\ (v.black[v.child[s][m]] <=> u.black[Old(v.child[s][m])])
      BY <1>1, <1>6, <2>2, <3>1
    <3> HIDE DEF Old
    <3>3. QED
      BY <3>1, <3>2 DEF Balanced, Reds
  <2>3. QED
    BY <2>1, <2>2 DEF Reds
<1>11. QED
  BY <1>8, <1>9, <1>10 DEF Balanced

(* All in all, the exchange keeps the shape of the links.                  *)
LEMMA ReplaceShape ==
  ASSUME NEW u \in Trees, NEW T, NEW C, NEW first, Shape(u, T, C, first),
         NEW z, NEW y, NEW d, NEW q, Seat(u, T, C, z, y, d, q),
         NEW v, Replaced(u, z, y, d, q, v),
         NEW e \in Ranks, Ranked(u, e), e[z] < e[y], first # z
  PROVE  Shape(v, (T \ {z}) \cup {y}, C, first)
<1>1. PICK e1 \in Ranks, sp \in SUBSET Places : Forest(u, T, C) /\ Ranked(u, e1) /\ Spine(u, T, sp, first)
  BY DEF Shape
<1>2. Forest(v, (T \ {z}) \cup {y}, C)
  BY <1>1, ReplaceForest
<1>3. PICK e2 \in Ranks : Ranked(v, e2)
  BY ReplaceRanked
<1>4. PICK sp2 \in SUBSET Places : Spine(v, (T \ {z}) \cup {y}, sp2, first)
  BY <1>1, ReplaceSpine
<1>5. QED
  BY <1>2, <1>3, <1>4 DEF Shape

-----------------------------------------------------------------------------
(***************************************************************************)
(* __tree_remove up to its loop.                                           *)
(***************************************************************************)
(* t2 is t with x, if there is one, painted black.                         *)
Darker(t, x, t2) ==
  /\ t2 \in Trees /\ t2.child = t.child /\ t2.parent = t.parent
  /\ x # Null => t2.black[x]
  /\ \A m \in Nodes : m # x => (t2.black[m] <=> t.black[m])

(* The child of the unlinked node is painted black.                        *)
LEMMA DarkerIs ==
  ASSUME NEW t \in Trees, NEW x \in Nodes \cup {Null}
  PROVE  Darker(t, x, IF x # Null THEN Paint(t, x, TRUE) ELSE t)
<1>1. CASE x # Null
  <2>1. Painted(t, x, TRUE, Paint(t, x, TRUE))
    BY <1>1, PaintIs
  <2>2. Darker(t, x, Paint(t, x, TRUE))
    BY <1>1, <2>1 DEF Painted, Darker
  <2>3. QED
    BY <1>1, <2>2
<1>2. CASE x = Null
  BY <1>2 DEF Darker
<1>3. QED
  BY <1>1, <1>2

(* y is unlinked, its child x painted black, and y freed.                  *)
LEMMA SplicedIs ==
  ASSUME NEW t \in Trees, NEW T, NEW C, NEW first, Shape(t, T, C, first),
         NEW s, NEW y, NEW x, NEW d, NEW p, Spot(t, T, C, s, y, x, d, p),
         NEW t1, Attached(t, d, p, x, t1), NEW t2, Darker(t1, x, t2), NEW u, Freed(t2, {y}, u)
  PROVE  /\ Spliced(t, y, x, d, p, u) /\ SplicedColours(t, y, x, u) /\ Root(u) = Root(t1)
         /\ Root(t1) = (IF p = End THEN x ELSE Root(t)) /\ Root(t) # Null
<1>1. /\ y \in Nodes /\ y # End /\ p \in Places /\ d \in Sides /\ (p = End => d = "left")
      /\ (x # Null => x \in Nodes /\ x # y) /\ y \in T
  BY SpotIs DEF Spot
<1>2. Spliced(t, y, x, d, p, u)
  <2>1. u \in Trees
    BY DEF Freed
  <2>2. \A q \in Sides, m \in Places : u.child[q][m] =
           IF m = y THEN Null ELSE IF q = d /\ m = p THEN x ELSE t.child[q][m]
    BY DEF Freed, Attached, Darker
  <2>3. \A m \in Nodes : u.parent[m] = IF m = y THEN Null ELSE IF m = x THEN p ELSE t.parent[m]
    BY DEF Freed, Attached, Darker
  <2>4. QED
    BY <2>1, <2>2, <2>3 DEF Spliced
<1>3. SplicedColours(t, y, x, u)
  BY <1>1 DEF Freed, Attached, Darker, SplicedColours
<1>4. Root(u) = Root(t1) /\ Root(t1) = IF p = End THEN x ELSE Root(t)
  <2>1. "left" \in Sides /\ End \in Places
    BY DEF Sides, Places
  <2>2. QED
    BY <1>1, <2>1 DEF Freed, Attached, Darker, Root
<1>5. Root(t) # Null
  BY <1>1, LinkedIs
<1>6. QED
  BY <1>2, <1>3, <1>4, <1>5

(* What comes of it when z has at most one child, x, and is freed.         *)
OneOut(t, T, C, z, x, d, p, t1, u, first2) ==
  /\ u \in Trees /\ Shape(u, T \ {z}, C, first2) /\ Root(u) = Root(t1) /\ Spliced(t, z, x, d, p, u)
  /\ LeavesHole(t, z, x, p) <=> t.black[z] /\ Root(t1) # Null /\ x = Null
  /\ LeavesHole(t, z, x, p) =>
       z # Root(t) /\ Removing(u, T \ {z}, C, first2, t1.child[Other(d)][p], p, d)
  /\ ~LeavesHole(t, z, x, p) => Balanced(u, T \ {z}, Null, "left", Null)

(* __tree_remove of a node with at most one child.                         *)
LEMMA UnlinkOne ==
  ASSUME NEW t \in Trees, NEW T, NEW C, NEW first, Shape(t, T, C, first),
         Balanced(t, T, Null, "left", Null),
         NEW s, NEW z, NEW x, NEW d, NEW p, Spot(t, T, C, s, z, x, d, p),
         NEW t1, Attached(t, d, p, x, t1), NEW t2, Darker(t1, x, t2), NEW u, Freed(t2, {z}, u)
  PROVE  OneOut(t, T, C, z, x, d, p, t1, u, FirstAfter(first, z, x, p))
<1> DEFINE first2 == FirstAfter(first, z, x, p)
<1> HIDE DEF first2
<1>1. /\ Spliced(t, z, x, d, p, u) /\ SplicedColours(t, z, x, u) /\ Root(u) = Root(t1)
      /\ Root(t1) = (IF p = End THEN x ELSE Root(t)) /\ Root(t) # Null
  BY SplicedIs
<1>2. Leftmost(t, x)
  <2>1. x # Null => \A q \in Sides : t.child[q][x] = Null
    BY LoneChild DEF Spot
  <2>2. QED
    BY <2>1 DEF Leftmost, Sides
<1>3. u \in Trees /\ Shape(u, T \ {z}, C, first2)
  <2>1. u \in Trees
    BY DEF Freed
  <2>2. Shape(u, T \ {z}, C, FirstAfter(first, z, x, p))
    BY <1>1, <1>2, SpliceShape
  <2>3. QED
    BY <2>1, <2>2 DEF first2
<1>4. LeavesHole(t, z, x, p) <=> t.black[z] /\ Root(t1) # Null /\ x = Null
  BY <1>1 DEF LeavesHole
<1>5. ASSUME LeavesHole(t, z, x, p)
      PROVE  z # Root(t) /\ Removing(u, T \ {z}, C, first2, t1.child[Other(d)][p], p, d)
  <2>1. Balanced(u, T \ {z}, p, d, Null)
    BY <1>1, <1>5, SpliceBalanced
  <2>2. p \in T \ {z} /\ d \in Sides /\ Other(d) \in Sides /\ Other(d) # d /\ p \in Places /\ z \in Nodes
    BY <1>5, SpotIs, TwoSides DEF LeavesHole
  <2>3. u.child[d][p] = Null /\ u.child[Other(d)][p] = t1.child[Other(d)][p]
    BY <1>1, <1>5, <2>2 DEF LeavesHole, Spliced, Attached
  <2>4. NotRed(u, u.child[d][p])
    BY <2>3 DEF NotRed
  <2>5. Removing(u, T \ {z}, C, first2, u.child[Other(d)][p], p, d)
    BY <1>3, <2>1, <2>2, <2>4, RemovingIs
  <2>6. t.parent[z] # End
    BY <1>5 DEF LeavesHole, Spot
  <2>7. QED
    BY <2>3, <2>5, <2>6, <1>1, RootIs
<1>6. ASSUME ~LeavesHole(t, z, x, p) PROVE Balanced(u, T \ {z}, Null, "left", Null)
  BY <1>1, <1>6, SpliceBalanced
<1>7. OneOut(t, T, C, z, x, d, p, t1, u, first2)
  BY <1>1, <1>3, <1>4, <1>5, <1>6 DEF OneOut
<1>8. QED
  BY <1>7 DEF first2

(* z has two children.                                                     *)
Full(t, z) == t.child["left"][z] # Null /\ t.child["right"][z] # Null

(* The node after one with two children: the ranks e show where it is.     *)
Follows(t, T, C, first, e, z, y, p, q) ==
  /\ Ranked(t, e) /\ p = t.parent[y] /\ q = t.parent[z]
  /\ y \in T /\ y # z /\ t.child["left"][y] = Null /\ y # first /\ z # first
  /\ e[z] < e[y] /\ q # y /\ q # p /\ p # End

(* The node after one with two children is the leftmost on its right.      *)
LEMMA FollowsIs ==
  ASSUME NEW t \in Trees, NEW T, NEW C, NEW first, Shape(t, T, C, first),
         NEW z \in T, Full(t, z)
  PROVE  \E e \in Ranks :
           Follows(t, T, C, first, e, z, NextNode(t, z), t.parent[NextNode(t, z)], t.parent[z])
<1>0. PICK e \in Ranks, sp \in SUBSET Places : Forest(t, T, C) /\ Ranked(t, e) /\ Spine(t, T, sp, first)
  BY DEF Shape
<1> DEFINE y == NextNode(t, z)
           p == t.parent[y]
           q == t.parent[z]
<1> DEFINE c == t.child["right"][z]
           B == {n \in T \ sp : e[z] < e[n] /\ (t.parent[n] = z \/ (t.parent[n] \in Nodes /\ e[z] < e[t.parent[n]]))}
<1>1. PICK M \in Nat : e \in [Nodes -> 0..M]
  BY RanksAre
<1>2. T \subseteq Nodes /\ End \notin Nodes /\ Null \notin Nodes /\ z \in T \cup C /\ "left" \in Sides /\ "right" \in Sides
      /\ Other("right") = "left" /\ z \in Places
      /\ t.child["left"][z] # Null /\ t.child["right"][z] # Null
  BY <1>0, RBTreeAssumption DEF Forest, Sides, Other, Places, Full
<1>3. z # first
  BY <1>0, <1>2 DEF Spine
<1>4. c \in T /\ t.parent[c] = z /\ c \in Nodes
  BY <1>0, <1>2, Below
<1>5. c \notin sp
  <2> SUFFICES ASSUME c \in sp PROVE FALSE
    OBVIOUS
  <2>1. t.child["left"][z] = c
    BY <1>0, <1>2, <1>4 DEF Spine
  <2>2. QED
    BY <1>2, <1>4, <1>0, <2>1 DEF Forest, LinksAgree
<1>6. c \in B
  BY <1>2, <1>4, <1>0, <1>5 DEF Ranked
<1>7. ASSUME NEW n \in B, t.child["left"][n] # Null PROVE t.child["left"][n] \in B
  <2> DEFINE k == t.child["left"][n]
  <2>1. n \in T /\ n \in T \cup C /\ n \in Nodes /\ n \notin sp /\ e[z] < e[n]
    BY <1>2
  <2>2. k \in T /\ t.parent[k] = n /\ k \in Nodes
    BY <1>2, <1>7, <2>1, <1>0, Below
  <2>3. e[n] < e[k] /\ e[z] \in Nat /\ e[n] \in Nat /\ e[k] \in Nat
    BY <1>1, <1>2, <2>1, <2>2, <1>0 DEF Ranked
  <2>4. k \notin sp
    BY <1>2, <2>1, <2>2, <1>0 DEF Spine
  <2> HIDE DEF k
  <2>5. k \in B
    BY <2>1, <2>2, <2>3, <2>4
  <2>6. QED
    BY <2>5 DEF k
<1>8. B \in SUBSET Nodes
  BY <1>2
<1>9. y = Extreme(t, "left", c)
  BY <1>2 DEF NextNode
<1> HIDE DEF B, c, y
<1>10. y \in B /\ t.child["left"][y] = Null
  BY <1>2, <1>6, <1>7, <1>8, <1>9, <1>0, ExtremeIs
<1>11. /\ y \in T /\ y \notin sp /\ e[z] < e[y] /\ (p = z \/ (p \in Nodes /\ e[z] < e[p]))
  BY <1>10 DEF B
<1>12. y \in Nodes /\ z \in Nodes /\ e[z] \in Nat /\ e[y] \in Nat /\ (p \in Nodes => e[p] \in Nat)
  BY <1>1, <1>2, <1>11
<1>13. q \in Nodes => e[q] < e[z] /\ e[q] \in Nat
  BY <1>1, <1>12, <1>0 DEF Ranked
<1>14. y # first /\ y # z /\ q # y /\ q # p /\ p # End
  <2>1. y # first
    BY <1>11, <1>0 DEF Spine
  <2>2. y # z
    BY <1>11, <1>12
  <2>3. q # y
    BY <1>11, <1>12, <1>13
  <2>4. p = z \/ p \in Nodes
    BY <1>11
  <2>5. q # p
    BY <1>11, <1>12, <1>13
  <2>6. QED
    BY <1>2, <2>1, <2>2, <2>3, <2>4, <2>5
<1>15. Follows(t, T, C, first, e, z, y, p, q)
  BY <1>0, <1>3, <1>10, <1>11, <1>14 DEF Follows
<1>16. QED
  BY <1>15 DEF y

(* The links on the way, from unlinking y to the place of z.               *)
Relinked(t, z, y, x, d, p, q, t1, d2, t2, ta, t3, t4) ==
  /\ Attached(t, d, p, x, t1) /\ q = t.parent[z] /\ d2 = Side(t1, z)
  /\ Attached(t1, d2, q, y, t2)
  /\ Attached(t2, "left", y, t2.child["left"][z], ta)
  /\ Attached(ta, "right", y, t2.child["right"][z], t3)
  /\ Painted(t3, y, t.black[z], t4)

(* It takes the place of that one.                                         *)
LEMMA ReplacedIs ==
  ASSUME NEW t \in Trees, NEW T, NEW C, NEW first, Shape(t, T, C, first),
         NEW s, NEW y, NEW x, NEW d, NEW p, Spot(t, T, C, s, y, x, d, p),
         NEW z \in T, NEW q, NEW e, Follows(t, T, C, first, e, z, y, p, q),
         NEW t1, NEW u1, Darker(t1, x, u1), NEW u, Freed(u1, {y}, u),
         NEW d2, NEW t2, NEW ta, NEW t3, NEW t4, Relinked(t, z, y, x, d, p, q, t1, d2, t2, ta, t3, t4),
         NEW tb, Darker(t4, x, tb), NEW v, Freed(tb, {z}, v)
  PROVE  /\ Root(t4) # Null /\ Root(v) = Root(t4)
         /\ Seat(u, T \ {y}, C, z, y, d2, q) /\ Replaced(u, z, y, d2, q, v)
<1> SUFFICES ASSUME z # y, q = t.parent[z], q # y, q # p, p # End,
                    Attached(t, d, p, x, t1), d2 = Side(t1, z), Attached(t1, d2, q, y, t2),
                    Attached(t2, "left", y, t2.child["left"][z], ta),
                    Attached(ta, "right", y, t2.child["right"][z], t3),
                    Painted(t3, y, t.black[z], t4)
             PROVE  /\ Root(t4) # Null /\ Root(v) = Root(t4)
                    /\ Seat(u, T \ {y}, C, z, y, d2, q) /\ Replaced(u, z, y, d2, q, v)
  BY DEF Follows, Relinked
<1>1. /\ y \in Nodes /\ y \in Places /\ y # Null /\ y # End /\ p \in Places /\ d \in Sides
      /\ (x # Null => x \in Nodes /\ x # y /\ t.parent[x] = y) /\ y \in T /\ t.child[d][p] = y
      /\ p = t.parent[y]
  BY SpotIs DEF Spot
<1>2. Spliced(t, y, x, d, p, u) /\ Root(t1) = Root(t) /\ Root(t) # Null
      /\ SplicedColours(t, y, x, u)
  BY SplicedIs
<1>3. PICK f \in Ranks, sp \in SUBSET Places : Forest(t, T, C) /\ Ranked(t, f) /\ Spine(t, T, sp, first)
  BY DEF Shape
<1>4. /\ z \in Nodes /\ z \in Places /\ z # Null /\ z # End /\ q \in T \cup {End} /\ q # z
      /\ z \in T \cup C /\ "left" \in Sides /\ "right" \in Sides /\ End \in Places
      /\ T \subseteq Nodes /\ T \cap C = {}
  <2>1. z \in T \cup C /\ "left" \in Sides /\ "right" \in Sides /\ End \in Places /\ T \subseteq Nodes /\ T \cap C = {}
    BY <1>3 DEF Sides, Places, Forest
  <2>2. z \in Nodes /\ z \in Places /\ z # Null /\ z # End /\ q \in T \cup {End} /\ q # z
    BY <1>3, <2>1, Above
  <2>3. QED
    BY <2>1, <2>2
<1>5. q \in Places /\ q # Null
  BY <1>4, RBTreeAssumption DEF Places
<1>6. x # z
  BY <1>1, <1>4
<1>7. /\ Side(t, z) \in Sides /\ t.child[Side(t, z)][q] = z /\ t.child[Other(Side(t, z))][q] # z
      /\ (q = End => Side(t, z) = "left")
  BY <1>3, <1>4, <1>5, Above
<1>8. \A o \in Sides, m \in Places : t1.child[o][m] = IF o = d /\ m = p THEN x ELSE t.child[o][m]
  BY DEF Attached
<1>9. t1 \in Trees /\ t1.parent[z] = q /\ \A o \in Sides : t1.child[o][q] = t.child[o][q]
  BY <1>4, <1>5, <1>6, <1>8 DEF Attached
<1>10. d2 = Side(t, z)
  BY <1>4, <1>9 DEF Side
<1>11. d2 \in Sides /\ t1.child[d2][q] = z /\ (q = End => d2 = "left")
  BY <1>7, <1>9, <1>10
<1>12. ASSUME NEW o \in Sides
       PROVE  t2.child[o][z] = t1.child[o][z] /\ t1.child[o][z] # y /\ t1.child[o][z] # z
  <2>1. t2.child[o][z] = t1.child[o][z]
    BY <1>4 DEF Attached
  <2>2. t.child[o][z] # Null =>
          t.parent[t.child[o][z]] = z /\ t.child[o][z] # t.child[Other(o)][z]
    BY <1>3, <1>4 DEF Forest, LinksAgree
  <2>3. t.child[o][z] # z
    BY <1>3, <1>4, Below
  <2>4. t1.child[o][z] # z
    BY <1>4, <1>6, <1>8, <2>3
  <2>5. t1.child[o][z] # y
    <3> SUFFICES ASSUME t1.child[o][z] = y PROVE FALSE
      OBVIOUS
    <3>1. ~(o = d /\ z = p) /\ t.child[o][z] = y
      BY <1>1, <1>4, <1>8
    <3>2. z = p
      BY <1>1, <2>2, <3>1
    <3>3. o = Other(d)
      BY <1>1, <3>1, <3>2, TwoSides
    <3>4. Other(o) = d
      BY <1>1, <3>3, TwoSides
    <3>5. QED
      BY <1>1, <2>2, <3>1, <3>2, <3>4
  <2>6. QED
    BY <2>1, <2>4, <2>5
<1> DEFINE cl == t1.child["left"][z]
           cr == t1.child["right"][z]
<1>13. /\ t2.child["left"][z] = cl /\ cl # y /\ cl # z
       /\ t2.child["right"][z] = cr /\ cr # y /\ cr # z
  BY <1>4, <1>12
<1> HIDE DEF cl, cr
<1>14. Attached(t2, "left", y, cl, ta) /\ Attached(ta, "right", y, cr, t3)
  BY <1>13
<1>15. \A o \in Sides, m \in Places : t4.child[o][m] =
         IF m = y THEN t1.child[o][z] ELSE IF o = d2 /\ m = q THEN y ELSE t1.child[o][m]
  <2> SUFFICES ASSUME NEW o \in Sides, NEW m \in Places
               PROVE  t4.child[o][m] = IF m = y THEN t1.child[o][z]
                                       ELSE IF o = d2 /\ m = q THEN y ELSE t1.child[o][m]
    OBVIOUS
  <2>1. t4.child[o][m] = t3.child[o][m]
    BY DEF Painted
  <2>2. t3.child[o][m] = IF o = "right" /\ m = y THEN cr ELSE ta.child[o][m]
    BY <1>14 DEF Attached
  <2>3. ta.child[o][m] = IF o = "left" /\ m = y THEN cl ELSE t2.child[o][m]
    BY <1>14 DEF Attached
  <2>4. t2.child[o][m] = IF o = d2 /\ m = q THEN y ELSE t1.child[o][m]
    BY DEF Attached
  <2>5. o = "left" \/ o = "right"
    BY DEF Sides
  <2>6. QED
    BY <2>1, <2>2, <2>3, <2>4, <2>5 DEF cl, cr
<1>16. \A m \in Nodes : t4.parent[m] =
         IF m = cl \/ m = cr THEN y ELSE IF m = y THEN q ELSE t1.parent[m]
  <2> SUFFICES ASSUME NEW m \in Nodes
               PROVE  t4.parent[m] = IF m = cl \/ m = cr THEN y ELSE IF m = y THEN q ELSE t1.parent[m]
    OBVIOUS
  <2>1. t4.parent[m] = t3.parent[m]
    BY DEF Painted
  <2>2. t3.parent[m] = IF m = cr THEN y ELSE ta.parent[m]
    BY <1>14 DEF Attached
  <2>3. ta.parent[m] = IF m = cl THEN y ELSE t2.parent[m]
    BY <1>14 DEF Attached
  <2>4. t2.parent[m] = IF m = y THEN q ELSE t1.parent[m]
    BY DEF Attached
  <2>5. QED
    BY <2>1, <2>2, <2>3, <2>4
<1>17. (t4.black[y] <=> t.black[z]) /\ \A m \in Nodes : m # y => (t4.black[m] <=> t.black[m])
  <2>1. t4.black[y] <=> t.black[z]
    BY DEF Painted
  <2>2. ASSUME NEW m \in Nodes, m # y PROVE t4.black[m] <=> t.black[m]
    <3>1. t4.black[m] <=> t3.black[m]
      BY <2>2 DEF Painted
    <3>2. t3.black[m] <=> ta.black[m]
      BY <1>14 DEF Attached
    <3>3. ta.black[m] <=> t2.black[m]
      BY <1>14 DEF Attached
    <3>4. t2.black[m] <=> t1.black[m]
      BY DEF Attached
    <3>5. t1.black[m] <=> t.black[m]
      BY DEF Attached
    <3>6. QED
      BY <3>1, <3>2, <3>3, <3>4, <3>5
  <2>3. QED
    BY <2>1, <2>2
<1>18. Root(t4) # Null
  BY <1>1, <1>2, <1>4, <1>11, <1>15 DEF Root
<1>19. /\ \A o \in Sides, m \in Places : u.child[o][m] = IF m = y THEN Null ELSE t1.child[o][m]
       /\ \A m \in Nodes : u.parent[m] = IF m = y THEN Null ELSE t1.parent[m]
  <2>1. \A o \in Sides, m \in Places : u.child[o][m] = IF m = y THEN Null ELSE t1.child[o][m]
    BY DEF Darker, Freed
  <2>2. \A m \in Nodes : u.parent[m] = IF m = y THEN Null ELSE t1.parent[m]
    BY DEF Darker, Freed
  <2>3. QED
    BY <2>1, <2>2
<1>20. Replaced(u, z, y, d2, q, v)
  <2>1. v \in Trees
    BY DEF Freed
  <2>2. \A o \in Sides, m \in Places : v.child[o][m] = IF m = z THEN Null ELSE t4.child[o][m]
    BY DEF Freed, Darker
  <2>3. \A o \in Sides : u.child[o][z] = t1.child[o][z]
    BY <1>4, <1>19
  <2>4. \A o \in Sides, m \in Places : v.child[o][m] =
          IF m = z THEN Null ELSE IF m = y THEN u.child[o][z]
          ELSE IF o = d2 /\ m = q THEN y ELSE u.child[o][m]
    <3> SUFFICES ASSUME NEW o \in Sides, NEW m \in Places
                 PROVE  v.child[o][m] = IF m = z THEN Null ELSE IF m = y THEN u.child[o][z]
                                        ELSE IF o = d2 /\ m = q THEN y ELSE u.child[o][m]
      OBVIOUS
    <3>1. v.child[o][m] = IF m = z THEN Null ELSE t4.child[o][m]
      BY <2>2
    <3>2. t4.child[o][m] = IF m = y THEN t1.child[o][z] ELSE IF o = d2 /\ m = q THEN y ELSE t1.child[o][m]
      BY <1>15
    <3>3. u.child[o][m] = IF m = y THEN Null ELSE t1.child[o][m]
      BY <1>19
    <3>4. QED
      BY <2>3, <3>1, <3>2, <3>3
  <2>5. \A m \in Nodes : (\E o \in Sides : u.child[o][z] = m) <=> m = cl \/ m = cr
    BY <1>4, <2>3 DEF Sides, cl, cr
  <2>6. \A m \in Nodes : v.parent[m] = IF m = z THEN Null ELSE t4.parent[m]
    BY DEF Freed, Darker
  <2>7. ASSUME NEW m \in Nodes
        PROVE  v.parent[m] = IF m = z THEN Null ELSE IF m = y THEN q
                             ELSE IF \E o \in Sides : u.child[o][z] = m THEN y ELSE u.parent[m]
    <3>1. m # y => u.parent[m] = t1.parent[m]
      BY <1>19
    <3>2. t4.parent[m] = IF m = cl \/ m = cr THEN y ELSE IF m = y THEN q ELSE t1.parent[m]
      BY <1>16
    <3>3. v.parent[m] = IF m = z THEN Null ELSE t4.parent[m]
      BY <2>6
    <3>4. QED
      BY <1>13, <2>5, <3>1, <3>2, <3>3
  <2>8. v.black[y] <=> u.black[z]
    <3>1. v.black[y] <=> t4.black[y]
      BY <1>1 DEF Freed, Darker
    <3>2. u.black[z] <=> t.black[z]
      BY <1>2, <1>4, <1>6 DEF SplicedColours
    <3>3. QED
      BY <1>17, <3>1, <3>2
  <2>9. ASSUME NEW m \in Nodes, m # y, m # z PROVE v.black[m] <=> u.black[m]
    <3>1. v.black[m] <=> tb.black[m]
      BY <2>9 DEF Freed
    <3>2. CASE m = x
      <4>1. x # Null
        BY <3>2, RBTreeAssumption
      <4>2. tb.black[x]
        BY <4>1 DEF Darker
      <4>3. QED
        BY <1>2, <3>1, <3>2, <4>1, <4>2 DEF SplicedColours
    <3>3. CASE m # x
      <4>1. tb.black[m] <=> t4.black[m]
        BY <3>3 DEF Darker
      <4>2. QED
        BY <1>2, <1>17, <2>9, <3>1, <3>3, <4>1 DEF SplicedColours
    <3>4. QED
      BY <3>2, <3>3
  <2>10. QED
    BY <2>1, <2>4, <2>7, <2>8, <2>9 DEF Replaced
<1>21. Root(v) = Root(t4)
  BY <1>4 DEF Freed, Darker, Root
<1>22. Seat(u, T \ {y}, C, z, y, d2, q)
  <2>1. u.parent[z] = q
    BY <1>4, <1>9, <1>19
  <2>2. \A o \in Sides : u.child[o][q] = t1.child[o][q]
    BY <1>5, <1>19
  <2>3. d2 = Side(u, z)
    BY <1>4, <1>9, <2>1, <2>2 DEF Side
  <2>4. QED
    BY <1>1, <1>4, <2>1, <2>3 DEF Seat
<1>23. QED
  BY <1>18, <1>20, <1>21, <1>22

(* u is t without y, and v is u with y in the place of z.                  *)
Moved(t, T, C, first, z, y, x, d, p, v) ==
  \E u, d2, q : /\ Spliced(t, y, x, d, p, u) /\ Shape(u, T \ {y}, C, first)
                /\ Seat(u, T \ {y}, C, z, y, d2, q) /\ Replaced(u, z, y, d2, q, v)

(* What comes of it when z has two, and y takes its place.                 *)
TwoOut(t, T, C, first, z, y, x, d, p, t1, t4, v) ==
  /\ v \in Trees /\ Shape(v, T \ {z}, C, first) /\ Root(v) = Root(t4) /\ Root(t4) # Null
  /\ y # Root(t) /\ Moved(t, T, C, first, z, y, x, d, p, v)
  /\ t.black[y] /\ x = Null =>
       Removing(v, T \ {z}, C, first, t1.child[Other(d)][p], IF p = z THEN y ELSE p, d)
  /\ ~(t.black[y] /\ x = Null) => Balanced(v, T \ {z}, Null, "left", Null)

(* __tree_remove of a node with two children.                              *)
LEMMA UnlinkTwo ==
  ASSUME NEW t \in Trees, NEW T, NEW C, NEW first, Shape(t, T, C, first),
         Balanced(t, T, Null, "left", Null),
         NEW z \in T, NEW y, NEW x, NEW d, NEW p, Spot(t, T, C, "left", y, x, d, p),
         NEW q, NEW e \in Ranks, Follows(t, T, C, first, e, z, y, p, q),
         NEW t1, NEW d2, NEW t2, NEW ta, NEW t3, NEW t4,
         Relinked(t, z, y, x, d, p, q, t1, d2, t2, ta, t3, t4),
         NEW tb, Darker(t4, x, tb), NEW v, Freed(tb, {z}, v)
  PROVE  TwoOut(t, T, C, first, z, y, x, d, p, t1, t4, v)
<1>1. Ranked(t, e)
  BY DEF Follows
<1>2. /\ y \in T /\ y # z /\ y # first /\ z # first
      /\ e[z] < e[y] /\ q # y /\ q # p /\ p # End
  BY DEF Follows
<1>3. Attached(t, d, p, x, t1) /\ t1 \in Trees
  BY DEF Relinked, Attached
<1>4. x \in Nodes \cup {Null} /\ p \in T /\ p # y /\ d \in Sides /\ y \in Nodes
  <2>1. x \in {Null} \cup Nodes
    BY SpotIs
  <2>2. QED
    BY <1>2, <2>1, SpotIs
<1> DEFINE u1 == IF x # Null THEN Paint(t1, x, TRUE) ELSE t1
           u == FreeNodes(u1, {y})
<1>5. Darker(t1, x, u1)
  BY <1>3, <1>4, DarkerIs
<1> HIDE DEF u1
<1>6. Freed(u1, {y}, u)
  BY <1>5, FreeNodesIs DEF Darker
<1> HIDE DEF u
<1>7. Spliced(t, y, x, d, p, u) /\ SplicedColours(t, y, x, u)
  BY <1>3, <1>5, <1>6, SplicedIs
<1>8. /\ Root(t4) # Null /\ Root(v) = Root(t4)
      /\ Seat(u, T \ {y}, C, z, y, d2, q) /\ Replaced(u, z, y, d2, q, v)
  BY <1>5, <1>6, ReplacedIs, ZenonT(30)
<1>9. u \in Trees /\ v \in Trees
  BY <1>6 DEF Freed
<1>10. Leftmost(t, x)
  <2>1. x # Null => \A o \in Sides : t.child[o][x] = Null
    BY <1>3, LoneChild DEF Spot
  <2>2. QED
    BY <2>1 DEF Leftmost, Sides
<1>11. Shape(u, T \ {y}, C, first)
  <2>1. Shape(u, T \ {y}, C, FirstAfter(first, y, x, p))
    BY <1>7, <1>10, SpliceShape
  <2>2. QED
    BY <1>2, <2>1 DEF FirstAfter
<1>12. Ranked(u, e)
  BY <1>1, <1>3, <1>7, SpliceRanked
<1>13. Shape(v, ((T \ {y}) \ {z}) \cup {y}, C, first)
  BY <1>2, <1>8, <1>9, <1>11, <1>12, ReplaceShape
<1>14. ((T \ {y}) \ {z}) \cup {y} = T \ {z}
  BY <1>2
<1>15. Shape(v, T \ {z}, C, first)
  BY <1>13, <1>14
<1>16. y # Root(t)
  BY <1>2, RootIs, RBTreeAssumption DEF Spot
<1>17. ASSUME NEW gp, NEW gs, Balanced(u, T \ {y}, gp, gs, Null), gp # y
       PROVE  Balanced(v, T \ {z}, IF gp = z THEN y ELSE gp, gs, Null)
  <2> DEFINE gp2 == IF gp = z THEN y ELSE gp
  <2>1. gp2 = IF gp = z THEN y ELSE gp
    OBVIOUS
  <2> HIDE DEF gp2
  <2>2. Balanced(v, ((T \ {y}) \ {z}) \cup {y}, gp2, gs, Null)
    BY <1>8, <1>9, <1>11, <1>17, <2>1, ReplaceBalanced
  <2>3. Balanced(v, T \ {z}, gp2, gs, Null)
    BY <1>14, <2>2
  <2>4. QED
    BY <2>3 DEF gp2
<1>18. ASSUME LeavesHole(t, y, x, p)
       PROVE  Removing(v, T \ {z}, C, first, t1.child[Other(d)][p], IF p = z THEN y ELSE p, d)
  <2> DEFINE r == IF p = z THEN y ELSE p
  <2>1. Balanced(u, T \ {y}, p, d, Null)
    BY <1>3, <1>7, <1>18, SpliceBalanced
  <2>2. Balanced(v, T \ {z}, r, d, Null)
    BY <1>4, <1>17, <2>1
  <2>3. /\ r \in T \ {z} /\ Other(d) \in Sides /\ Other(d) # d /\ p \in Places /\ y \in Places
        /\ z \in Places /\ T \subseteq Nodes
    BY <1>2, <1>4, TwoSides, RootIs DEF Places
  <2>4. \A o \in Sides : u.child[o][p] = IF o = d THEN x ELSE t1.child[o][p]
    BY <1>3, <1>4, <1>7, <2>3 DEF Spliced, Attached
  <2>5. \A o \in Sides : v.child[o][r] = u.child[o][p]
    BY <1>2, <1>4, <1>8, <2>3 DEF Replaced
  <2>6. v.child[d][r] = Null /\ v.child[Other(d)][r] = t1.child[Other(d)][p]
    BY <1>4, <1>18, <2>3, <2>4, <2>5 DEF LeavesHole
  <2>7. NotRed(v, v.child[d][r])
    BY <2>6 DEF NotRed
  <2> HIDE DEF r
  <2>8. Removing(v, T \ {z}, C, first, v.child[Other(d)][r], r, d)
    BY <1>4, <1>9, <1>15, <2>2, <2>3, <2>7, RemovingIs
  <2>9. QED
    BY <2>6, <2>8 DEF r
<1>19. ASSUME ~LeavesHole(t, y, x, p) PROVE Balanced(v, T \ {z}, Null, "left", Null)
  <2>1. Balanced(u, T \ {y}, Null, "left", Null)
    BY <1>3, <1>7, <1>19, SpliceBalanced
  <2>2. Null # y /\ Null # z
    BY <1>2, RootIs
  <2>3. QED
    BY <1>17, <2>1, <2>2
<1>20. LeavesHole(t, y, x, p) <=> t.black[y] /\ x = Null
  BY <1>2 DEF LeavesHole
<1>22. Moved(t, T, C, first, z, y, x, d, p, v)
  BY <1>7, <1>8, <1>11 DEF Moved
<1>21. QED
  BY <1>8, <1>9, <1>15, <1>16, <1>18, <1>19, <1>20, <1>22 DEF TwoOut

(* The node that is first when z is gone.                                  *)
FirstWithout(z) ==
  IF begin # z THEN begin
  ELSE IF tree.child["right"][z] # Null THEN tree.child["right"][z] ELSE tree.parent[z]

(* z is unlinked, or the node after it, which then takes its place.        *)
TakenOut(T, C, z) ==
  \/ \E s, x, d, p : Spot(tree, T, C, s, z, x, d, p) /\ Spliced(tree, z, x, d, p, tree')
  \/ \E y, x, d, p : /\ y = NextNode(tree, z) /\ y # z /\ Spot(tree, T, C, "left", y, x, d, p)
                     /\ Moved(tree, T, C, begin, z, y, x, d, p, tree')

(* What __tree_remove leaves: a hole and the node beside it, or nothing to *)
(* do.                                                                     *)
Unlinked(T, C, z) ==
  /\ tree' \in Trees /\ Shape(tree', T \ {z}, C, FirstWithout(z)) /\ TakenOut(T, C, z)
  /\ \/ /\ pc' = "idle" /\ at' = Null /\ root' = Null
        /\ Balanced(tree', T \ {z}, Null, "left", Null)
     \/ /\ pc' = "removing" /\ root' = Root(tree')
        /\ \E p, h : Removing(tree', T \ {z}, C, FirstWithout(z), at', p, h)

(* The same, said of the action.                                           *)
LEMMA UnlinkIsOne ==
  ASSUME tree \in Trees, NEW T, NEW C, Shape(tree, T, C, begin),
         Balanced(tree, T, Null, "left", Null),
         NEW z \in T, \E s \in Sides : tree.child[s][z] = Null, Unlink(z)
  PROVE  Unlinked(T, C, z)
<1> DEFINE x == IF tree.child["left"][z] # Null THEN tree.child["left"][z] ELSE tree.child["right"][z]
           d == Side(tree, z)
           p == tree.parent[z]
           t1 == Attach(tree, d, p, x)
           t2 == IF (tree.black[z] /\ Root(t1) # Null) /\ x # Null THEN Paint(t1, x, TRUE) ELSE t1
           w == IF z = Root(tree) THEN Null ELSE t1.child[Other(d)][p]
<1>1. /\ tree' = FreeNodes(t2, {z})
      /\ IF (tree.black[z] /\ Root(t1) # Null) /\ x = Null
         THEN pc' = "removing" /\ at' = w /\ root' = Root(t1)
         ELSE pc' = "idle" /\ at' = Null /\ root' = Null
  BY ZenonT(30) DEF Unlink
<1>2. PICK s \in Sides : tree.child[s][z] = Null /\ x = tree.child[Other(s)][z]
  <2>1. tree.child["left"][z] = Null => x = tree.child[Other("left")][z]
    BY DEF Other
  <2>2. tree.child["left"][z] # Null => tree.child["right"][z] = Null /\ x = tree.child[Other("right")][z]
    BY DEF Other, Sides
  <2>3. QED
    BY <2>1, <2>2 DEF Sides
<1>3. begin = z => x = tree.child["right"][z]
  BY DEF Shape, Spine
<1>4. Spot(tree, T, C, s, z, x, d, p)
  BY <1>2 DEF Spot
<1>5. FirstAfter(begin, z, x, p) = FirstWithout(z)
  BY <1>3 DEF FirstWithout, FirstAfter
<1> HIDE DEF x, d, p
<1>6. p \in Places /\ d \in Sides /\ x \in Nodes \cup {Null} /\ (p = End => d = "left")
  BY <1>4, SpotIs
<1>7. Attached(tree, d, p, x, t1)
  BY <1>6, AttachIs
<1>8. Root(t1) = (IF p = End THEN x ELSE Root(tree)) /\ Root(tree) # Null
  <2>1. "left" \in Sides /\ End \in Places
    BY DEF Sides, Places
  <2>2. Root(t1) = IF p = End THEN x ELSE Root(tree)
    BY <1>6, <1>7, <2>1 DEF Root, Attached
  <2>3. QED
    BY <2>2, LinkedIs
<1>9. x # Null => tree.black[z] /\ Root(t1) # Null
  <2>1. x # Null => tree.black[z]
    BY <1>4, LoneChild DEF Spot
  <2>2. QED
    BY <1>8, <2>1
<1>10. t2 = IF x # Null THEN Paint(t1, x, TRUE) ELSE t1
  BY <1>9
<1> HIDE DEF t1, t2
<1>11. Darker(t1, x, t2)
  <2>1. t1 \in Trees
    BY <1>7 DEF Attached
  <2>2. QED
    BY <1>6, <1>10, <2>1, DarkerIs
<1>12. Freed(t2, {z}, tree')
  <2>1. t2 \in Trees
    BY <1>11 DEF Darker
  <2>2. QED
    BY <1>1, <2>1, FreeNodesIs
<1>13. OneOut(tree, T, C, z, x, d, p, t1, tree', FirstWithout(z))
  <2>1. OneOut(tree, T, C, z, x, d, p, t1, tree', FirstAfter(begin, z, x, p))
    BY <1>4, <1>7, <1>11, <1>12, UnlinkOne
  <2>2. QED
    BY <1>5, <2>1
<1>15. TakenOut(T, C, z)
  BY <1>4, <1>13 DEF TakenOut, OneOut
<1>14. QED
  BY <1>1, <1>13, <1>15 DEF Unlinked, OneOut

(* And with two children.                                                  *)
LEMMA UnlinkIsTwo ==
  ASSUME tree \in Trees, NEW T, NEW C, Shape(tree, T, C, begin),
         Balanced(tree, T, Null, "left", Null),
         NEW z \in T, Full(tree, z), Unlink(z)
  PROVE  Unlinked(T, C, z)
<1> DEFINE y == NextNode(tree, z)
           x == tree.child["right"][y]
           d == Side(tree, y)
           p == tree.parent[y]
           q == tree.parent[z]
           t1 == Attach(tree, d, p, x)
           d2 == Side(t1, z)
           t2 == Attach(t1, d2, q, y)
           ta == Attach(t2, "left", y, t2.child["left"][z])
           t3 == Attach(ta, "right", y, t2.child["right"][z])
           t4 == Paint(t3, y, tree.black[z])
           tb == IF (tree.black[y] /\ Root(t4) # Null) /\ x # Null THEN Paint(t4, x, TRUE) ELSE t4
           w == t1.child[Other(d)][p]
<1>1. PICK e \in Ranks : Follows(tree, T, C, begin, e, z, y, p, q)
  BY FollowsIs
<1>2. /\ y \in T /\ y # z /\ tree.child["left"][y] = Null /\ y # begin /\ z # begin
      /\ q # y /\ q # p /\ p # End
  BY <1>1 DEF Follows
<1>3. y # Root(tree)
  BY <1>2, RootIs, RBTreeAssumption
<1>4. Spot(tree, T, C, "left", y, x, d, p)
  BY <1>2 DEF Spot, Sides, Other
<1>5. /\ p \in Places /\ d \in Sides /\ x \in Nodes \cup {Null} /\ y \in Nodes /\ y \in Places
      /\ (x # Null => tree.parent[x] = y)
  BY <1>4, SpotIs
<1>6. /\ z \in Nodes /\ z \in Places /\ q \in Places /\ q # z
      /\ Side(tree, z) \in Sides /\ tree.child[Side(tree, z)][q] = z
  <2>0. PICK f \in Ranks, sp \in SUBSET Places : Forest(tree, T, C) /\ Ranked(tree, f) /\ Spine(tree, T, sp, begin)
    BY DEF Shape
  <2>1. z \in T \cup C /\ T \subseteq Nodes
    BY <2>0 DEF Forest
  <2>2. q \in T \cup {End} /\ q # z
    BY <2>0, <2>1, Above
  <2>3. q \in Places /\ q # Null
    BY <2>1, <2>2, RBTreeAssumption DEF Places
  <2>4. QED
    BY <2>0, <2>1, <2>2, <2>3, Above DEF Places
<1>7. Attached(tree, d, p, x, t1)
  BY <1>5, AttachIs
<1>8. t1 \in Trees /\ t1.parent[z] = q
  <2>1. z # x
    BY <1>2, <1>5, <1>6, RBTreeAssumption
  <2>2. QED
    BY <1>6, <1>7, <2>1 DEF Attached
<1>9. /\ tree' = FreeNodes(tb, {z})
      /\ IF (tree.black[y] /\ Root(t4) # Null) /\ x = Null
         THEN pc' = "removing" /\ at' = w /\ root' = Root(t4)
         ELSE pc' = "idle" /\ at' = Null /\ root' = Null
  <2>1. ~\E s \in Sides : tree.child[s][z] = Null
    BY DEF Full, Sides
  <2> HIDE DEF y
  <2>2. Unlink(z) =>
        LET x1 == IF tree.child["left"][y] # Null THEN tree.child["left"][y] ELSE tree.child["right"][y]
            s1 == Attach(tree, Side(tree, y), tree.parent[y], x1)
            w1 == IF y = Root(tree) THEN Null ELSE s1.child[Other(Side(tree, y))][tree.parent[y]]
            s2 == Attach(s1, Side(s1, z), s1.parent[z], y)
            s3 == Attach(Attach(s2, "left", y, s2.child["left"][z]), "right", y, s2.child["right"][z])
            s4 == IF y = z THEN s1 ELSE Paint(s3, y, tree.black[z])
            doubly == tree.black[y] /\ Root(s4) # Null
        IN  /\ tree' = FreeNodes(IF doubly /\ x1 # Null THEN Paint(s4, x1, TRUE) ELSE s4, {z})
            /\ IF doubly /\ x1 = Null
               THEN pc' = "removing" /\ at' = w1 /\ root' = Root(s4)
               ELSE pc' = "idle" /\ at' = Null /\ root' = Null
    BY <2>1, ZenonT(30) DEF Unlink, y
  <2>3. QED
    BY <1>2, <1>3, <1>8, <2>2, ZenonT(30)
<1> HIDE DEF y, x, d, p, q, t1
<1>10. d2 \in Sides
  BY DEF Side, Sides
<1> HIDE DEF d2
<1>11. Attached(t1, d2, q, y, t2)
  BY <1>5, <1>6, <1>8, <1>10, AttachIs
<1> HIDE DEF t2
<1>12. t2 \in Trees
  BY <1>11 DEF Attached
<1>13. "left" \in Sides /\ "right" \in Sides /\ \A s \in Sides : t2.child[s][z] \in Nodes \cup {Null}
  BY <1>6, <1>12, TreeFields DEF Sides
<1>14. Attached(t2, "left", y, t2.child["left"][z], ta)
  BY <1>5, <1>12, <1>13, AttachIs
<1> HIDE DEF ta
<1>15. ta \in Trees
  BY <1>14 DEF Attached
<1>16. Attached(ta, "right", y, t2.child["right"][z], t3)
  BY <1>5, <1>13, <1>15, AttachIs
<1> HIDE DEF t3
<1>17. t3 \in Trees
  BY <1>16 DEF Attached
<1>18. tree.black[z] \in BOOLEAN
  BY <1>6, TreeFields
<1>19. Painted(t3, y, tree.black[z], t4)
  BY <1>5, <1>17, <1>18, PaintIs
<1> HIDE DEF t4
<1>20. t4 \in Trees
  BY <1>19 DEF Painted
<1>29. Relinked(tree, z, y, x, d, p, q, t1, d2, t2, ta, t3, t4)
  BY <1>7, <1>11, <1>14, <1>16, <1>19 DEF Relinked, q, d2
<1>21. x # Null => tree.black[y]
  BY <1>4, LoneChild DEF Spot
<1>22. Root(t4) # Null
  <2> DEFINE tc == IF x # Null THEN Paint(t4, x, TRUE) ELSE t4
             v == FreeNodes(tc, {z})
  <2>1. Darker(t4, x, tc)
    BY <1>5, <1>20, DarkerIs
  <2> HIDE DEF tc
  <2>2. Freed(tc, {z}, v)
    BY <2>1, FreeNodesIs DEF Darker
  <2> HIDE DEF v
  <2>3. TwoOut(tree, T, C, begin, z, y, x, d, p, t1, t4, v)
    BY <1>1, <1>4, <1>29, <2>1, <2>2, UnlinkTwo
  <2>4. QED
    BY <2>3 DEF TwoOut
<1>23. tb = IF x # Null THEN Paint(t4, x, TRUE) ELSE t4
  BY <1>21, <1>22
<1> HIDE DEF tb
<1>24. Darker(t4, x, tb)
  BY <1>5, <1>20, <1>23, DarkerIs
<1>25. Freed(tb, {z}, tree')
  <2>1. tb \in Trees
    BY <1>24 DEF Darker
  <2>2. QED
    BY <1>9, <2>1, FreeNodesIs
<1>26. TwoOut(tree, T, C, begin, z, y, x, d, p, t1, t4, tree')
  BY <1>1, <1>4, <1>24, <1>25, <1>29, UnlinkTwo
<1>27. FirstWithout(z) = begin
  BY <1>2 DEF FirstWithout
<1>30. TakenOut(T, C, z)
  BY <1>2, <1>4, <1>26 DEF TakenOut, TwoOut, y
<1>28. QED
  BY <1>9, <1>22, <1>26, <1>27, <1>30 DEF Unlinked, TwoOut

(* What __tree_remove does up to its loop.                                 *)
LEMMA UnlinkIs ==
  ASSUME tree \in Trees, NEW T, NEW C, Shape(tree, T, C, begin),
         Balanced(tree, T, Null, "left", Null), NEW z \in T, Unlink(z)
  PROVE  Unlinked(T, C, z)
<1>1. CASE \E s \in Sides : tree.child[s][z] = Null
  BY <1>1, UnlinkIsOne
<1>2. CASE ~\E s \in Sides : tree.child[s][z] = Null
  <2>1. Full(tree, z)
    BY <1>2 DEF Full, Sides
  <2>2. QED
    BY <2>1, UnlinkIsTwo
<1>3. QED
  BY <1>1, <1>2

-----------------------------------------------------------------------------
(***************************************************************************)
(* Nodes that are freed, and the cache of an assignment.                   *)
(***************************************************************************)
(* Above the nodes of T nothing has changed.                               *)
Kept(t, T, t2) ==
  /\ t2 \in Trees
  /\ \A n \in T \cup {End}, s \in Sides : t2.child[s][n] = t.child[s][n]
  /\ \A n \in T : t2.parent[n] = t.parent[n] /\ (t2.black[n] <=> t.black[n])

(* Then the tree is balanced as before.                                    *)
LEMMA KeptBalanced ==
  ASSUME NEW t \in Trees, NEW T, NEW C, NEW first, Shape(t, T, C, first),
         NEW gp, NEW gs, NEW tip, Balanced(t, T, gp, gs, tip), NEW t2, Kept(t, T, t2)
  PROVE  Balanced(t2, T, gp, gs, tip) /\ Root(t2) = Root(t)
<1>1. Root(t2) = Root(t)
  BY DEF Root, Kept, Sides
<1>2. \A n \in T, s \in Sides : t.child[s][n] # Null => t.child[s][n] \in T
  BY Child
<1>3. Reds(t2, T, tip)
  <2>1. Root(t2) # Null => t2.black[Root(t2)]
    BY <1>1, RootIs DEF Kept, Balanced, Reds
  <2>2. ASSUME NEW n \in T, NEW s \in Sides, ~t2.black[n], t2.child[s][n] # Null, t2.child[s][n] # tip
        PROVE  t2.black[t2.child[s][n]]
    <3> DEFINE m == t.child[s][n]
    <3>1. t2.child[s][n] = m /\ m \in T /\ m # tip /\ ~t.black[n]
      BY <1>2, <2>2 DEF Kept
    <3>2. t.black[m]
      BY <1>2, <2>2, <3>1 DEF Balanced, Reds
    <3> HIDE DEF m
    <3>3. QED
      BY <3>1, <3>2 DEF Kept
  <2>3. QED
    BY <2>1, <2>2 DEF Reds
<1>4. PICK b \in Counts : Heights(t, T, gp, gs, b)
  BY DEF Balanced
<1>5. Heights(t2, T, gp, gs, b)
  <2>1. ASSUME NEW n \in T, NEW s \in Sides
        PROVE  Climbs(b[n], b[t2.child[s][n]], n = gp /\ s = gs, t2.black[n])
    <3>1. Climbs(b[n], b[t.child[s][n]], n = gp /\ s = gs, t.black[n])
      BY <1>4 DEF Heights
    <3>2. t2.child[s][n] = t.child[s][n] /\ (t2.black[n] <=> t.black[n])
      BY DEF Kept
    <3>3. CASE t.black[n]
      BY <3>1, <3>2, <3>3 DEF Climbs
    <3>4. CASE ~t.black[n]
      BY <3>1, <3>2, <3>4 DEF Climbs
    <3>5. QED
      BY <3>3, <3>4
  <2>2. QED
    BY <1>4, <2>1 DEF Heights
<1>6. QED
  BY <1>1, <1>3, <1>5 DEF Balanced

(* And its left spine is the same.                                         *)
LEMMA KeptSpine ==
  ASSUME NEW t, NEW T, NEW sp, NEW first, Spine(t, T, sp, first), NEW t2, Kept(t, T, t2), End \notin T
  PROVE  Spine(t2, T, sp, first)
<1>1. "left" \in Sides
  BY DEF Sides
<1>2. \A p \in sp : t2.child["left"][p] = t.child["left"][p] /\ p \in T \cup {End}
  BY <1>1 DEF Spine, Kept
<1>3. \A p \in sp \ {End} : t2.parent[p] = t.parent[p] /\ t.parent[p] \in sp
  BY DEF Spine, Kept
<1>4. QED
  BY <1>2, <1>3 DEF Spine

(* The whole cache is freed.                                               *)
LEMMA FreeCache ==
  ASSUME NEW t \in Trees, NEW T, NEW C, NEW first, Shape(t, T, C, first),
         NEW S, S \subseteq Nodes, C \subseteq S, S \cap T = {}, NEW t2, Freed(t, S, t2)
  PROVE  Shape(t2, T, {}, first) /\ Kept(t, T, t2)
<1>1. PICK e \in Ranks, sp \in SUBSET Places : Forest(t, T, C) /\ Ranked(t, e) /\ Spine(t, T, sp, first)
  BY DEF Shape
<1>2. T \subseteq Nodes /\ C \subseteq Nodes /\ T \cap C = {} /\ End \notin Nodes /\ Null \notin Nodes
  BY <1>1, RBTreeAssumption DEF Forest
<1>3. Kept(t, T, t2)
  BY <1>2 DEF Kept, Freed, Places
<1>4. \A p \in Places, s \in Sides :
        t2.child[s][p] # Null => t2.child[s][p] = t.child[s][p] /\ p \in T \cup {End} /\ t.child[s][p] \in T
  BY <1>1 DEF Freed, Forest, LinksWithin
<1>5. LinksAgree(t2)
  <2> SUFFICES ASSUME NEW p \in Places, NEW s \in Sides, t2.child[s][p] # Null
               PROVE  t2.parent[t2.child[s][p]] = p /\ t2.child[s][p] # t2.child[Other(s)][p]
    BY DEF LinksAgree
  <2>1. t2.child[s][p] = t.child[s][p] /\ t.child[s][p] \in T /\ p \in T \cup {End} /\ Other(s) \in Sides
    BY <1>4, TwoSides
  <2>2. t.parent[t.child[s][p]] = p /\ t.child[s][p] # t.child[Other(s)][p]
    BY <1>1, <2>1 DEF Forest, LinksAgree
  <2>3. QED
    BY <1>3, <2>1, <2>2 DEF Kept
<1>6. LinksWithin(t2, T, {})
  <2>1. t2.child["right"][End] = Null
    BY <1>1, <1>3 DEF Kept, Sides, Forest, LinksWithin
  <2>2. QED
    BY <1>4, <2>1 DEF LinksWithin
<1>7. LinksUp(t2, T, {})
  <2>1. ASSUME NEW n \in T PROVE t2.parent[n] \in T \cup {End} /\ IsChild(t2, n)
    <3>1. t.parent[n] \in T \cup {End} /\ IsChild(t, n)
      BY <1>1 DEF Forest, LinksUp
    <3>2. t2.parent[n] = t.parent[n]
      BY <1>3 DEF Kept
    <3>3. \A s \in Sides : t2.child[s][t.parent[n]] = t.child[s][t.parent[n]]
      BY <1>3, <3>1 DEF Kept
    <3>4. QED
      BY <3>1, <3>2, <3>3 DEF IsChild
  <2>2. QED
    BY <2>1 DEF LinksUp
<1>8. Forest(t2, T, {})
  BY <1>2, <1>5, <1>6, <1>7 DEF Forest
<1>9. Ranked(t2, e)
  BY <1>1, <1>2 DEF Ranked, Freed
<1>10. Spine(t2, T, sp, first)
  BY <1>1, <1>2, <1>3, KeptSpine
<1>11. QED
  BY <1>3, <1>8, <1>9, <1>10 DEF Shape

(* There is nothing.                                                       *)
Bare(t) == t \in Trees /\ \A s \in Sides, p \in Places : t.child[s][p] = Null

(* An empty tree has its shape.                                            *)
LEMMA BareShape ==
  ASSUME NEW t, Bare(t), NEW e \in Ranks, Ranked(t, e)
  PROVE  Shape(t, {}, {}, End)
<1>1. "left" \in Sides /\ "right" \in Sides /\ End \in Places
  BY DEF Sides, Places
<1>2. Forest(t, {}, {})
  BY <1>1 DEF Forest, LinksAgree, LinksWithin, LinksUp, Bare
<1>3. Spine(t, {}, {End}, End)
  BY <1>1 DEF Spine, Bare
<1>4. {End} \in SUBSET Places
  BY <1>1
<1>5. QED
  BY <1>2, <1>3, <1>4 DEF Shape

(* An empty tree is balanced.                                              *)
LEMMA NothingBalanced ==
  ASSUME NEW t, Root(t) = Null
  PROVE  Balanced(t, {}, Null, "left", Null)
<1> DEFINE b == [n \in Nodes \cup {Null} |-> 1]
<1>1. b \in Counts
  BY DEF Counts
<1>2. Heights(t, {}, Null, "left", b)
  BY DEF Heights
<1>3. Reds(t, {}, Null)
  BY DEF Reds
<1> HIDE DEF b
<1>4. QED
  BY <1>1, <1>2, <1>3 DEF Balanced

(* All nodes of the tree are freed.                                        *)
LEMMA FreeTree ==
  ASSUME NEW t \in Trees, NEW T, NEW first, Shape(t, T, {}, first),
         NEW t1, Attached(t, "left", End, Null, t1), NEW t2, Freed(t1, T, t2)
  PROVE  t2 \in Trees /\ Shape(t2, {}, {}, End) /\ Root(t2) = Null
<1>1. PICK e \in Ranks, sp \in SUBSET Places : Forest(t, T, {}) /\ Ranked(t, e) /\ Spine(t, T, sp, first)
  BY DEF Shape
<1>2. "left" \in Sides /\ End \in Places /\ Null \notin Nodes
  BY RBTreeAssumption DEF Sides, Places
<1>3. ASSUME NEW s \in Sides, NEW p \in Places PROVE t2.child[s][p] = Null
  <2>1. CASE p \in T
    BY <2>1 DEF Freed
  <2>2. CASE p \notin T
    <3>1. t2.child[s][p] = t1.child[s][p]
      BY <2>2 DEF Freed
    <3>2. t1.child[s][p] = IF s = "left" /\ p = End THEN Null ELSE t.child[s][p]
      BY DEF Attached
    <3>3. p = End => s = "left" \/ s = "right"
      BY DEF Sides
    <3>4. t.child["right"][End] = Null
      BY <1>1 DEF Forest, LinksWithin
    <3>5. p # End => t.child[s][p] = Null
      BY <1>1, <2>2 DEF Forest, LinksWithin
    <3>6. QED
      BY <3>1, <3>2, <3>3, <3>4, <3>5
  <2>3. QED
    BY <2>1, <2>2
<1>4. Bare(t2)
  BY <1>3 DEF Bare, Freed
<1>5. Ranked(t2, e)
  BY <1>1, <1>2 DEF Ranked, Freed, Attached
<1>6. QED
  BY <1>2, <1>4, <1>5, BareShape DEF Bare, Root

(* A node of the cache that may be the next one: a leaf.                   *)
Pickable(t, C, c) == c \in C /\ \A s \in Sides : t.child[s][c] = Null

(* The tree becomes the cache.                                             *)
LEMMA TreeToCache ==
  ASSUME NEW t \in Trees, NEW T, NEW first, Shape(t, T, {}, first), T # {},
         NEW t1, Attached(t, "left", End, Null, t1),
         NEW t2 \in Trees, t2.child = t1.child,
         \A n \in Nodes : t2.parent[n] = IF n = Root(t) THEN Null ELSE t1.parent[n]
  PROVE  Shape(t2, {}, T, End) /\ Root(t2) = Null
<1>1. PICK e \in Ranks, sp \in SUBSET Places : Forest(t, T, {}) /\ Ranked(t, e) /\ Spine(t, T, sp, first)
  BY DEF Shape
<1>2. /\ "left" \in Sides /\ "right" \in Sides /\ End \in Places /\ Null \notin Nodes /\ End \notin Nodes
      /\ End # Null /\ T \subseteq Nodes
  BY <1>1, RBTreeAssumption DEF Sides, Places, Forest
<1>3. Root(t) \in T /\ t.parent[Root(t)] = End /\ \A n \in T : t.parent[n] = End => n = Root(t)
  BY LinkedIs, RootIs
<1>4. \A s \in Sides, p \in Places : t2.child[s][p] = IF p = End THEN Null ELSE t.child[s][p]
  BY <1>1 DEF Attached, Sides, Forest, LinksWithin
<1>5. \A n \in Nodes : t2.parent[n] = IF n = Root(t) THEN Null ELSE t.parent[n]
  BY <1>2 DEF Attached
<1>6. Root(t2) = Null
  BY <1>2, <1>4 DEF Root
<1>7. \A s \in Sides, p \in Places : t2.child[s][p] # Null =>
        p \in T /\ t2.child[s][p] = t.child[s][p] /\ t.child[s][p] \in T
  BY <1>1, <1>4 DEF Forest, LinksWithin
<1>8. LinksAgree(t2)
  <2> SUFFICES ASSUME NEW p \in Places, NEW s \in Sides, t2.child[s][p] # Null
               PROVE  t2.parent[t2.child[s][p]] = p /\ t2.child[s][p] # t2.child[Other(s)][p]
    BY DEF LinksAgree
  <2>1. p \in T /\ t2.child[s][p] = t.child[s][p] /\ t.child[s][p] \in T /\ Other(s) \in Sides /\ p # End
    BY <1>2, <1>7, TwoSides
  <2>2. t.parent[t.child[s][p]] = p /\ t.child[s][p] # t.child[Other(s)][p]
    BY <1>1, <1>2, <2>1 DEF Forest, LinksAgree
  <2>3. t2.child[Other(s)][p] = t.child[Other(s)][p]
    BY <1>4, <2>1
  <2>4. t2.parent[t.child[s][p]] = p
    BY <1>2, <1>3, <1>5, <2>1, <2>2
  <2>5. QED
    BY <2>1, <2>2, <2>3, <2>4
<1>9. LinksWithin(t2, {}, T)
  BY <1>2, <1>4, <1>7 DEF LinksWithin
<1>10. LinksUp(t2, {}, T)
  <2>1. ASSUME NEW n \in T, t2.parent[n] # Null PROVE t2.parent[n] \in T /\ IsChild(t2, n)
    <3>1. n # Root(t) /\ t2.parent[n] = t.parent[n] /\ t.parent[n] # End
      BY <1>2, <1>3, <1>5, <2>1
    <3>2. t.parent[n] \in T \cup {End} /\ IsChild(t, n)
      BY <1>1 DEF Forest, LinksUp
    <3>3. \A s \in Sides : t2.child[s][t.parent[n]] = t.child[s][t.parent[n]]
      BY <1>2, <1>4, <3>1, <3>2 DEF Places
    <3>4. QED
      BY <3>1, <3>2, <3>3 DEF IsChild
  <2>2. ASSUME NEW n \in T, t2.parent[n] = Null PROVE n = Root(t)
    <3>1. t.parent[n] # Null
      BY <1>1, <1>2 DEF Forest, LinksUp
    <3>2. QED
      BY <1>2, <1>5, <2>2, <3>1
  <2>3. QED
    BY <2>1, <2>2 DEF LinksUp
<1>11. Forest(t2, {}, T)
  BY <1>2, <1>8, <1>9, <1>10 DEF Forest
<1>12. Ranked(t2, e)
  BY <1>1, <1>2, <1>5 DEF Ranked
<1>13. Spine(t2, {}, {End}, End)
  BY <1>2, <1>4 DEF Spine
<1>14. {End} \in SUBSET Places
  BY <1>2
<1>15. QED
  BY <1>6, <1>11, <1>12, <1>13, <1>14 DEF Shape

(* The first node has a leaf on its right, if anything.                    *)
LEMMA FirstLeaf ==
  ASSUME NEW t \in Trees, NEW T, NEW C, NEW first, Shape(t, T, C, first),
         Balanced(t, T, Null, "left", Null), T # {},
         NEW c, c = IF t.child["right"][first] # Null THEN t.child["right"][first] ELSE first
  PROVE  Pickable(t, T, c) /\ first \in T
<1>1. PICK e \in Ranks, sp \in SUBSET Places : Forest(t, T, C) /\ Ranked(t, e) /\ Spine(t, T, sp, first)
  BY DEF Shape
<1>2. "left" \in Sides /\ "right" \in Sides /\ Other("left") = "right"
  BY DEF Sides, Other
<1>3. Root(t) # Null
  BY LinkedIs
<1>4. first # End /\ first \in T \cup {End} /\ t.child["left"][first] = Null
  BY <1>1, <1>3 DEF Spine, Root
<1>5. first \in T
  BY <1>4
<1>6. CASE t.child["right"][first] # Null
  <2>1. c \in T /\ \A q \in Sides : t.child[q][c] = Null
    BY <1>2, <1>4, <1>5, <1>6, LoneChild
  <2>2. QED
    BY <1>5, <2>1 DEF Pickable
<1>7. CASE t.child["right"][first] = Null
  BY <1>4, <1>5, <1>7 DEF Pickable, Sides
<1>8. QED
  BY <1>6, <1>7

(* c is not in the cache any more.                                         *)
Cut(t, c, t2) ==
  /\ t2 \in Trees /\ t2.parent = t.parent
  /\ \A s \in Sides, p \in Places : t2.child[s][p] = IF t.child[s][p] = c THEN Null ELSE t.child[s][p]
  /\ \A n \in Nodes : t2.black[n] <=> t.black[n]

(* A leaf of the cache that is cut off leaves the rest of it whole.        *)
LEMMA CutShape ==
  ASSUME NEW t \in Trees, NEW T, NEW C, NEW first, Shape(t, T, C, first),
         NEW c, Pickable(t, C, c), NEW t2, Cut(t, c, t2)
  PROVE  Shape(t2, T, C \ {c}, first) /\ Kept(t, T, t2)
<1>1. PICK e \in Ranks, sp \in SUBSET Places : Forest(t, T, C) /\ Ranked(t, e) /\ Spine(t, T, sp, first)
  BY DEF Shape
<1>2. /\ T \subseteq Nodes /\ C \subseteq Nodes /\ T \cap C = {} /\ End \notin Nodes /\ Null \notin Nodes
      /\ c \in C /\ "left" \in Sides /\ "right" \in Sides
  BY <1>1, RBTreeAssumption DEF Forest, Pickable, Sides
<1>3. \A p \in Places, s \in Sides :
        t2.child[s][p] # Null =>
          /\ t2.child[s][p] = t.child[s][p] /\ t2.child[s][p] # c
          /\ \/ p \in T \cup {End} /\ t2.child[s][p] \in T
             \/ p \in C \ {c} /\ t2.child[s][p] \in C \ {c}
  BY <1>1, <1>2 DEF Forest, LinksWithin, Cut, Pickable
<1>4. Kept(t, T, t2)
  <2>1. \A n \in T \cup {End}, s \in Sides : t.child[s][n] # c
    BY <1>1, <1>2 DEF Forest, LinksWithin, Places
  <2>2. QED
    BY <1>2, <2>1 DEF Kept, Cut, Places
<1>5. LinksAgree(t2)
  <2> SUFFICES ASSUME NEW p \in Places, NEW s \in Sides, t2.child[s][p] # Null
               PROVE  t2.parent[t2.child[s][p]] = p /\ t2.child[s][p] # t2.child[Other(s)][p]
    BY DEF LinksAgree
  <2>1. t2.child[s][p] = t.child[s][p] /\ Other(s) \in Sides
    BY <1>3, TwoSides
  <2>2. t.parent[t.child[s][p]] = p /\ t.child[s][p] # t.child[Other(s)][p]
    BY <1>1, <2>1 DEF Forest, LinksAgree
  <2>3. t2.child[Other(s)][p] = Null \/ t2.child[Other(s)][p] = t.child[Other(s)][p]
    BY <2>1 DEF Cut
  <2>4. QED
    BY <2>1, <2>2, <2>3 DEF Cut
<1>6. LinksWithin(t2, T, C \ {c})
  <2>1. t2.child["right"][End] = Null
    BY <1>1, <1>2, <1>4 DEF Kept, Forest, LinksWithin
  <2>2. QED
    BY <1>3, <2>1 DEF LinksWithin
<1>7. ASSUME NEW n \in T \cup C, n # c, t.parent[n] # Null, IsChild(t, n) PROVE IsChild(t2, n)
  <2>1. PICK s \in Sides : t.child[s][t.parent[n]] = n
    BY <1>7 DEF IsChild
  <2>2. t.parent[n] \in Places
    BY <1>2, <1>7, TreeFields DEF Places
  <2>3. t2.child[s][t.parent[n]] = n
    BY <1>7, <2>1, <2>2 DEF Cut
  <2>4. QED
    BY <2>3 DEF IsChild, Cut
<1>8. LinksUp(t2, T, C \ {c})
  <2>1. ASSUME NEW n \in T PROVE t2.parent[n] \in T \cup {End} /\ IsChild(t2, n)
    <3>1. t.parent[n] \in T \cup {End} /\ IsChild(t, n) /\ n # c /\ t.parent[n] # Null
      BY <1>1, <1>2, RBTreeAssumption DEF Forest, LinksUp
    <3>2. QED
      BY <1>7, <3>1 DEF Cut
  <2>2. ASSUME NEW n \in C \ {c}, t2.parent[n] # Null PROVE t2.parent[n] \in C \ {c} /\ IsChild(t2, n)
    <3>1. t2.parent[n] = t.parent[n] /\ t.parent[n] \in C /\ IsChild(t, n)
      BY <1>1, <2>2 DEF Forest, LinksUp, Cut
    <3>2. t.parent[n] # c
      BY <1>2, <3>1 DEF IsChild, Pickable
    <3>3. QED
      BY <1>7, <2>2, <3>1, <3>2
  <2>3. \A m, n \in C \ {c} : t2.parent[m] = Null /\ t2.parent[n] = Null => m = n
    BY <1>1 DEF Forest, LinksUp, Cut
  <2>4. QED
    BY <2>1, <2>2, <2>3 DEF LinksUp
<1>9. Forest(t2, T, C \ {c})
  BY <1>2, <1>5, <1>6, <1>8 DEF Forest
<1>10. Ranked(t2, e)
  BY <1>1 DEF Ranked, Cut
<1>11. Spine(t2, T, sp, first)
  BY <1>1, <1>2, <1>4, KeptSpine
<1>12. QED
  BY <1>4, <1>9, <1>10, <1>11 DEF Shape

(* The top of the cache, as the next node, is all of it.                   *)
LEMMA LastOfCache ==
  ASSUME NEW t \in Trees, NEW T, NEW C, NEW first, Shape(t, T, C, first),
         Pickable(t, C, cache), t.parent[cache] = Null
  PROVE  C = {cache} /\ CacheNodes(t) = {cache} /\ Cut(t, cache, t)
<1>1. PICK e \in Ranks, sp \in SUBSET Places : Forest(t, T, C) /\ Ranked(t, e) /\ Spine(t, T, sp, first)
  BY DEF Shape
<1>2. cache \in C /\ cache \in Nodes /\ Null \notin Nodes /\ cache # Null /\ "left" \in Sides /\ "right" \in Sides
  BY <1>1, RBTreeAssumption DEF Forest, Pickable, Sides
<1>3. CacheNodes(t) = C
  BY <1>2, CacheNodesIs
<1>4. PICK k \in {cache} : CacheNodes(t) = Subtree(t, k)
  <2>1. {cache} \in SUBSET Nodes /\ \A n \in {cache} : t.parent[n] \in Nodes => t.parent[n] \in {cache}
    BY <1>2
  <2>2. QED
    BY <1>1, <1>2, <2>1, TopIs
<1>5. Subtree(t, cache) = {cache}
  BY <1>1, <1>2, SubtreeStep DEF Pickable
<1>6. C = {cache}
  BY <1>3, <1>4, <1>5
<1>7. \A s \in Sides, p \in Places : t.child[s][p] # cache
  BY <1>1, <1>2, RBTreeAssumption DEF Forest, LinksAgree, Places
<1>8. QED
  BY <1>3, <1>6, <1>7 DEF Cut

(* t2 is the rest of the cache C, and n2 the node that comes next.         *)
Uncached(C, t2, n2) ==
  /\ Cut(tree, cache, t2)
  /\ n2 = Null => C = {cache} /\ CacheNodes(t2) = C
  /\ n2 # Null => Pickable(t2, C \ {cache}, n2) /\ CacheNodes(t2) = C \ {cache}

(* __detach(__cache) cuts the node off and finds a leaf of the rest.       *)
LEMMA DetachedIs ==
  ASSUME tree \in Trees, NEW T, NEW C, NEW first, Shape(tree, T, C, first), Pickable(tree, C, cache)
  PROVE  Uncached(C, Detached.tree, Detached.next)
<1> DEFINE p == tree.parent[cache]
           s == Side(tree, cache)
           o == tree.child[Other(s)][p]
           t2 == Attach(tree, s, p, Null)
           n2 == IF o = Null THEN p ELSE Leaf(tree, o)
<1>1. Detached = IF p = Null THEN [tree |-> tree, next |-> Null] ELSE [tree |-> t2, next |-> n2]
  BY DEF Detached
<1> HIDE DEF t2, n2
<1>2. CASE p = Null
  <2>1. Detached.tree = tree /\ Detached.next = Null
    BY <1>1, <1>2
  <2>2. C = {cache} /\ CacheNodes(tree) = {cache} /\ Cut(tree, cache, tree)
    BY <1>2, LastOfCache
  <2>3. QED
    BY <2>1, <2>2 DEF Uncached
<1>3. CASE p # Null
  <2>1. PICK e \in Ranks, sp \in SUBSET Places : Forest(tree, T, C) /\ Ranked(tree, e) /\ Spine(tree, T, sp, first)
    BY DEF Shape
  <2>2. /\ cache \in C /\ cache \in T \cup C /\ cache \in Nodes /\ C \subseteq Nodes
        /\ Null \notin Nodes /\ cache # Null /\ End \notin Nodes
    BY <2>1, RBTreeAssumption DEF Forest, Pickable
  <2>3. /\ p \in C /\ p \in Places /\ p \in Nodes /\ s \in Sides /\ tree.child[s][p] = cache
        /\ o # cache /\ p # cache
    BY <1>3, <2>1, <2>2, Above
  <2>4. Other(s) \in Sides /\ \A q \in Sides : q = s \/ q = Other(s)
    BY <2>3, TwoSides
  <2>5. Attached(tree, s, p, Null, t2)
    BY <2>3, AttachIs DEF t2
  <2>6. \A q \in Sides, m \in Places : tree.child[q][m] = cache <=> q = s /\ m = p
    <3>1. ASSUME NEW q \in Sides, NEW m \in Places, tree.child[q][m] = cache PROVE q = s /\ m = p
      <4>1. tree.parent[cache] = m
        BY <2>1, <2>2, <3>1 DEF Forest, LinksAgree
      <4>2. QED
        BY <2>3, <2>4, <3>1, <4>1
    <3>2. QED
      BY <2>3, <3>1
  <2>7. Cut(tree, cache, t2)
    <3>1. \A m \in Nodes : t2.parent[m] = tree.parent[m]
      BY <2>2, <2>5 DEF Attached
    <3>2. t2.parent = tree.parent
      BY <2>3 DEF t2, Attach
    <3>3. QED
      BY <2>5, <2>6, <3>2 DEF Cut, Attached
  <2>8. Shape(t2, T, C \ {cache}, first)
    BY <2>7, CutShape
  <2>9. CacheNodes(t2) = C \ {cache}
    <3>1. t2 \in Trees /\ t2.parent[cache] \in C \ {cache}
      BY <2>3, <2>7 DEF Cut
    <3>2. QED
      BY <2>2, <2>8, <3>1, CacheNodesIs
  <2>10. n2 # Null /\ Pickable(t2, C \ {cache}, n2)
    <3>1. CASE o = Null
      <4>1. \A q \in Sides : t2.child[q][p] = Null
        BY <2>3, <2>4, <2>7, <3>1 DEF Cut
      <4>2. QED
        BY <2>2, <2>3, <3>1, <4>1 DEF Pickable, n2
    <3>2. CASE o # Null
      <4> DEFINE B == {n \in C : e[p] < e[n] /\ n # cache}
      <4>1. PICK M \in Nat : e \in [Nodes -> 0..M]
        BY RanksAre
      <4>2. p \in T \cup C
        BY <2>3
      <4>3. o \in C /\ tree.parent[o] = p
        BY <2>1, <2>3, <2>4, <3>2, <4>2, Below
      <4>4. o \in B
        BY <2>1, <2>2, <2>3, <4>3 DEF Ranked
      <4>5. ASSUME NEW n \in B, NEW q \in Sides, tree.child[q][n] # Null PROVE tree.child[q][n] \in B
        <5> DEFINE k == tree.child[q][n]
        <5>1. n \in C /\ n \in T \cup C /\ n \in Nodes /\ e[p] < e[n]
          BY <2>2
        <5>2. k \in C /\ tree.parent[k] = n /\ k \in Nodes
          BY <2>1, <2>2, <4>5, <5>1, Below
        <5>3. e[n] < e[k] /\ e[p] \in Nat /\ e[n] \in Nat /\ e[k] \in Nat
          BY <2>1, <2>3, <4>1, <5>1, <5>2 DEF Ranked
        <5>4. k # cache
          BY <5>1, <5>2, <5>3
        <5> HIDE DEF k
        <5>5. k \in B
          BY <5>1, <5>2, <5>3, <5>4
        <5>6. QED
          BY <5>5 DEF k
      <4>6. B \in SUBSET Nodes
        BY <2>2
      <4> HIDE DEF B
      <4>7. Leaf(tree, o) \in B /\ \A q \in Sides : tree.child[q][Leaf(tree, o)] = Null
        BY <2>1, <4>4, <4>5, <4>6, LeafIs
      <4>8. n2 = Leaf(tree, o)
        BY <3>2 DEF n2
      <4>9. n2 \in C \ {cache} /\ n2 \in Places
        BY <2>2, <4>7, <4>8 DEF B, Places
      <4>10. \A q \in Sides : t2.child[q][n2] = Null
        BY <2>7, <4>7, <4>8, <4>9 DEF Cut
      <4>11. QED
        BY <2>2, <4>9, <4>10 DEF Pickable
    <3>3. QED
      BY <3>1, <3>2
  <2>11. Detached.tree = t2 /\ Detached.next = n2
    BY <1>1, <1>3
  <2>12. QED
    BY <2>7, <2>9, <2>10, <2>11 DEF Uncached
<1>4. QED
  BY <1>2, <1>3

-----------------------------------------------------------------------------
(***************************************************************************)
(* The inductive invariant.  T is the tree below the end node, C what is   *)
(* left of the cache of an assignment.                                     *)
(***************************************************************************)
Store(T, C) ==
  /\ tree \in Trees /\ Shape(tree, T, C, begin) /\ size = Cardinality(T)
  /\ allocated = T \cup C \cup lost /\ (T \cup C) \cap lost = {} /\ lost \subseteq Nodes

(* The next node of the cache is a leaf.                                   *)
CacheReady(C) == IF cache = Null THEN C = {} ELSE assigning /\ Pickable(tree, C, cache)

(* Where a loop is, and what it has left to do.                            *)
Inserting(T) ==
  /\ pc = "inserting" /\ root = Root(tree) /\ at \in T
  /\ Balanced(tree, T, Null, "left", at) /\ (tree.black[at] => at = Root(tree))

Loop(T, C) ==
  \/ pc = "idle" /\ Balanced(tree, T, Null, "left", Null)
  \/ Inserting(T)
  \/ /\ pc = "removing" /\ root = Root(tree) /\ cache = Null
     /\ \E p, h : Removing(tree, T, C, begin, at, p, h)

Held(T, C) == Store(T, C) /\ CacheReady(C) /\ Loop(T, C)

IInv == program \in Programs /\ \E T, C \in SUBSET Nodes : Held(T, C)

(* The loops change links and colours only.                                *)
LEMMA Rebalanced ==
  ASSUME NEW T, NEW C, Held(T, C), tree' \in Trees, Shape(tree', T, C, begin),
         CacheKept(tree, C, tree'),
         UNCHANGED <<begin, size, allocated, assigning, cache, lost>>, Loop(T, C)'
  PROVE  Held(T, C)'
<1>1. Store(T, C)'
  BY DEF Held, Store
<1>2. CacheReady(C)'
  <2>1. cache = Null => C = {}
    BY DEF Held, CacheReady
  <2>2. cache # Null => assigning /\ Pickable(tree', C, cache)
    BY DEF Held, CacheReady, Pickable, CacheKept
  <2>3. QED
    BY <2>1, <2>2 DEF CacheReady
<1>3. QED
  BY <1>1, <1>2 DEF Held

(* Colours have nothing to do with the cache.                              *)
LEMMA PaintKeepsCache ==
  ASSUME NEW t, NEW C, NEW t2, t2.child = t.child
  PROVE  CacheKept(t, C, t2)
BY DEF CacheKept

(* The loop of an insertion ends.                                          *)
LEMMA EndInsertionStep ==
  ASSUME NEW T, NEW C, Held(T, C), EndInsertion
  PROVE  Held(T, C)'
<1>1. Store(T, C) /\ Inserting(T)
  BY DEF Held, Loop, EndInsertion
<1>2. tree \in Trees /\ Shape(tree, T, C, begin) /\ at \in T /\ Balanced(tree, T, Null, "left", at)
  BY <1>1 DEF Store, Inserting
<1>3. at # Root(tree) => ~IsRed(tree, tree.parent[at]) /\ tree.parent[at] \in T /\ tree.parent[at] # Null
  <2>1. at # Root(tree) => tree.parent[at] \in T
    BY <1>2, Inner
  <2>2. Null \notin T
    BY <1>2, RootIs
  <2>3. QED
    BY <1>1, <2>1, <2>2 DEF EndInsertion, Violated, Parent, Inserting
<1>4. Reds(tree, T, Null)
  <2>1. ASSUME NEW n \in T, NEW s \in Sides, ~tree.black[n], tree.child[s][n] # Null
        PROVE  tree.black[tree.child[s][n]]
    <3>1. tree.parent[tree.child[s][n]] = n /\ tree.child[s][n] # Root(tree)
      BY <1>2, <2>1, Child
    <3>2. tree.child[s][n] # at
      BY <1>3, <2>1, <3>1 DEF IsRed
    <3>3. QED
      BY <1>2, <2>1, <3>2 DEF Balanced, Reds
  <2>2. QED
    BY <1>2, <2>1 DEF Balanced, Reds
<1>5. Balanced(tree, T, Null, "left", Null)
  BY <1>2, <1>4 DEF Balanced
<1>6. Loop(T, C)'
  BY <1>5 DEF EndInsertion, Loop
<1>7. CacheKept(tree, C, tree')
  BY PaintKeepsCache DEF EndInsertion
<1>8. QED
  BY <1>2, <1>6, <1>7, Rebalanced DEF EndInsertion

(* The loop of an insertion goes on above a red uncle.                     *)
LEMMA RecolourStep ==
  ASSUME NEW T, NEW C, Held(T, C), Recolour
  PROVE  Held(T, C)'
<1>1. Store(T, C) /\ Inserting(T)
  BY DEF Held, Loop, Recolour
<1>2. /\ tree \in Trees /\ Shape(tree, T, C, begin) /\ at \in T /\ Balanced(tree, T, Null, "left", at)
      /\ root = Root(tree)
  BY <1>1 DEF Store, Inserting
<1> DEFINE p == tree.parent[at]
           g == tree.parent[p]
           u == Sibling(tree, p)
           t2 == Paint(Paint(Paint(tree, p, TRUE), g, g = Root(tree)), u, TRUE)
<1>3. /\ at # Root(tree) /\ IsRed(tree, p) /\ IsRed(tree, u) /\ tree' = t2 /\ at' = g
      /\ pc' = "inserting" /\ root' = root
  BY <1>1, <1>2 DEF Recolour, Violated, Uncle, Parent, Grandparent, Inserting
<1>4. t2.child = tree.child
  BY DEF Paint
<1>9. RedUncle(tree, at, p, g, u, t2)
  BY <1>3 DEF RedUncle
<1> HIDE DEF p, g, u, t2
<1>5. /\ t2 \in Trees /\ Shape(t2, T, C, begin) /\ Balanced(t2, T, Null, "left", g)
      /\ g \in T /\ Root(t2) = Root(tree) /\ (t2.black[g] <=> g = Root(tree))
  BY <1>2, <1>9, RecolourBalanced
<1>6. Loop(T, C)'
  BY <1>2, <1>3, <1>5 DEF Loop, Inserting
<1>7. CacheKept(tree, C, tree')
  BY <1>3, <1>4, PaintKeepsCache
<1>8. QED
  BY <1>3, <1>5, <1>6, <1>7, Rebalanced DEF Recolour

(* The loop of an insertion ends with rotations.                           *)
LEMMA RotateAndEndStep ==
  ASSUME NEW T, NEW C, Held(T, C), RotateAndEnd
  PROVE  Held(T, C)'
<1>1. Store(T, C) /\ Inserting(T)
  BY DEF Held, Loop, RotateAndEnd
<1>2. /\ tree \in Trees /\ Shape(tree, T, C, begin) /\ at \in T /\ Balanced(tree, T, Null, "left", at)
      /\ root = Root(tree)
  BY <1>1 DEF Store, Inserting
<1> DEFINE p == tree.parent[at]
           g == tree.parent[p]
           s == Side(tree, p)
           inner == Side(tree, at) # s
           t1 == IF inner THEN Rotate(tree, s, p) ELSE tree
           p1 == IF inner THEN at ELSE p
           t2 == Paint(Paint(t1, p1, TRUE), g, FALSE)
           t3 == Rotate(t2, Other(s), g)
<1>3. /\ at # Root(tree) /\ IsRed(tree, p) /\ ~IsRed(tree, Sibling(tree, p)) /\ tree' = t3
      /\ pc' = "idle" /\ ~tree.black[at]
  BY <1>1, <1>2 DEF RotateAndEnd, Violated, Uncle, Parent, Grandparent, Inserting
<1>7. BlackUncle(tree, at, p, g, s, t1, p1, t2, t3)
  BY <1>3 DEF BlackUncle
<1> HIDE DEF p, g, s, inner, t1, p1, t2, t3
<1>4. /\ t3 \in Trees /\ Shape(t3, T, C, begin) /\ Balanced(t3, T, Null, "left", Null)
      /\ CacheKept(tree, C, t3)
  BY <1>2, <1>7, RotateAndEndBalanced
<1>5. Loop(T, C)'
  BY <1>3, <1>4 DEF Loop
<1>6. QED
  BY <1>3, <1>4, <1>5, Rebalanced DEF RotateAndEnd

(* The loop of a removal, at work.                                         *)
RemovingNow(T, C, p, h) ==
  /\ pc = "removing" /\ root = Root(tree) /\ cache = Null /\ C = {}
  /\ Removing(tree, T, C, begin, at, p, h) /\ p = Parent /\ h = Hole

(* There is one hole when a removal goes on, and no assignment.            *)
LEMMA RemovingNowIs ==
  ASSUME NEW T, NEW C, Held(T, C), pc = "removing"
  PROVE  \E p, h : RemovingNow(T, C, p, h)
<1>1. PICK p, h : Removing(tree, T, C, begin, at, p, h)
  BY DEF Held, Loop, Inserting
<1>2. root = Root(tree) /\ cache = Null /\ C = {}
  BY DEF Held, Loop, Inserting, CacheReady
<1>3. p = Parent /\ h = Hole
  BY <1>1 DEF Removing, Parent, Hole
<1>4. RemovingNow(T, C, p, h)
  BY <1>1, <1>2, <1>3 DEF RemovingNow
<1>5. QED
  BY <1>4

(* The loop of a removal changes links and colours only.                   *)
LEMMA RemovalGoesOn ==
  ASSUME NEW T, NEW C, Held(T, C), C = {}, tree' \in Trees, Shape(tree', T, C, begin),
         UNCHANGED <<begin, size, allocated, assigning, cache, lost>>, Loop(T, C)'
  PROVE  Held(T, C)'
<1>1. CacheKept(tree, C, tree')
  BY DEF CacheKept
<1>2. QED
  BY <1>1, Rebalanced

(* The loop of a removal lifts a red node.                                 *)
LEMMA LiftRedSiblingStep ==
  ASSUME NEW T, NEW C, Held(T, C), LiftRedSibling
  PROVE  Held(T, C)'
<1>1. PICK p, h : RemovingNow(T, C, p, h)
  BY RemovingNowIs DEF LiftRedSibling
<1> DEFINE t2 == Rotate(Paint(Paint(tree, at, TRUE), p, FALSE), h, p)
<1>2. /\ cache = Null /\ C = {} /\ root = Root(tree) /\ Removing(tree, T, C, begin, at, p, h)
      /\ p = Parent /\ h = Hole
  BY <1>1 DEF RemovingNow
<1>3. /\ tree' = t2 /\ root' = (IF root = t2.child[h][at] THEN at ELSE root)
      /\ at' = t2.child[Other(h)][t2.child[h][at]] /\ pc' = "removing" /\ ~tree.black[at]
  BY <1>2 DEF LiftRedSibling, IsRed
<1>4. RedSibling(tree, at, p, h, t2)
  BY <1>3 DEF RedSibling
<1> HIDE DEF t2
<1>5. /\ t2.child[h][at] = p /\ Root(t2) = (IF p = Root(tree) THEN at ELSE Root(tree))
      /\ Removing(t2, T, C, begin, t2.child[Other(h)][p], p, h)
  BY <1>2, <1>4, LiftRedSiblingBalanced
<1>6. t2 \in Trees /\ Shape(t2, T, C, begin)
  BY <1>5 DEF Removing
<1>7. Loop(T, C)'
  <2>1. root' = Root(tree') /\ at' = t2.child[Other(h)][p]
    BY <1>2, <1>3, <1>5
  <2>2. Removing(tree', T, C, begin', at', p, h)
    BY <1>3, <1>5, <2>1 DEF LiftRedSibling
  <2>3. cache' = Null
    BY <1>2 DEF LiftRedSibling
  <2>4. QED
    BY <1>3, <2>1, <2>2, <2>3 DEF Loop
<1>8. QED
  BY <1>2, <1>3, <1>6, <1>7, RemovalGoesOn DEF LiftRedSibling

(* The loop of a removal goes up, or ends.                                 *)
LEMMA PassBlackUpStep ==
  ASSUME NEW T, NEW C, Held(T, C), PassBlackUp
  PROVE  Held(T, C)'
<1>1. PICK p, h : RemovingNow(T, C, p, h)
  BY RemovingNowIs DEF PassBlackUp
<1> DEFINE t == Paint(tree, at, FALSE)
<1>2. /\ cache = Null /\ C = {} /\ root = Root(tree) /\ Removing(tree, T, C, begin, at, p, h)
      /\ p = Parent /\ h = Hole /\ pc = "removing"
  BY <1>1 DEF RemovingNow
<1>3. at # Null /\ p # Null
  BY <1>2, AroundHole
<1>4. NothingRed(tree, at, t)
  <2>1. tree.black[at]
    BY <1>3 DEF PassBlackUp, IsRed
  <2>2. \A s \in Sides : NotRed(tree, tree.child[s][at])
    BY DEF PassBlackUp, HasRedChild, IsRed, NotRed
  <2>3. QED
    BY <2>1, <2>2 DEF NothingRed
<1>5. IF p = Root(tree) \/ ~tree.black[p]
      THEN tree' = Paint(t, p, TRUE) /\ pc' = "idle"
      ELSE tree' = t /\ at' = Sibling(t, p) /\ pc' = pc /\ root' = root
  BY <1>2, <1>3 DEF PassBlackUp, IsRed
<1> HIDE DEF t
<1>6. PassedUp(tree, T, C, begin, p, t)
  BY <1>2, <1>4, PassBlackUpBalanced
<1>7. CASE p = Root(tree) \/ ~tree.black[p]
  <2>1. tree' = Paint(t, p, TRUE) /\ pc' = "idle"
    BY <1>5, <1>7
  <2>2. tree' \in Trees /\ Shape(tree', T, C, begin) /\ Balanced(tree', T, Null, "left", Null)
    BY <1>6, <1>7, <2>1 DEF PassedUp
  <2>3. Loop(T, C)'
    BY <2>1, <2>2 DEF Loop
  <2>4. QED
    BY <1>2, <2>2, <2>3, RemovalGoesOn DEF PassBlackUp
<1>8. CASE ~(p = Root(tree) \/ ~tree.black[p])
  <2>1. tree' = t /\ at' = Sibling(t, p) /\ pc' = "removing" /\ root' = Root(tree)
    BY <1>2, <1>5, <1>8
  <2>2. /\ Removing(tree', T, C, begin, at', tree.parent[p], Side(tree, p))
        /\ Root(tree') = Root(tree)
    BY <1>6, <1>8, <2>1 DEF PassedUp
  <2>3. tree' \in Trees /\ Shape(tree', T, C, begin)
    BY <2>2 DEF Removing
  <2>4. Loop(T, C)'
    <3>1. begin' = begin /\ cache' = Null
      BY <1>2 DEF PassBlackUp
    <3>2. \E p2, h2 : Removing(tree', T, C, begin', at', p2, h2)
      BY <2>2, <3>1
    <3>3. QED
      BY <2>1, <2>2, <3>1, <3>2 DEF Loop
  <2>5. QED
    BY <1>2, <2>3, <2>4, RemovalGoesOn DEF PassBlackUp
<1>9. QED
  BY <1>7, <1>8

(* The loop of a removal ends with rotations.                              *)
LEMMA LiftSiblingStep ==
  ASSUME NEW T, NEW C, Held(T, C), LiftSibling
  PROVE  Held(T, C)'
<1>1. PICK p, h : RemovingNow(T, C, p, h)
  BY RemovingNowIs DEF LiftSibling
<1> DEFINE far == Other(h)
           near == tree.child[h][at]
           t1 == IF IsRed(tree, tree.child[far][at]) THEN tree
                 ELSE Rotate(Paint(Paint(tree, near, TRUE), at, FALSE), far, at)
           w == IF IsRed(tree, tree.child[far][at]) THEN at ELSE near
           r == t1.child[far][w]
           t2 == Paint(Paint(Paint(t1, w, tree.black[p]), p, TRUE), r, TRUE)
<1>2. /\ cache = Null /\ C = {} /\ root = Root(tree) /\ Removing(tree, T, C, begin, at, p, h)
      /\ p = Parent /\ h = Hole /\ pc = "removing"
  BY <1>1 DEF RemovingNow
<1>3. tree' = Rotate(t2, h, p) /\ pc' = "idle"
  BY <1>2 DEF LiftSibling
<1>4. at # Null /\ h \in Sides /\ far \in Sides /\ \A q \in Sides : q = h \/ q = far
  BY <1>2, AroundHole
<1>5. tree.black[at]
  BY <1>4 DEF LiftSibling, IsRed
<1>6. ~NotRed(tree, near) \/ ~NotRed(tree, tree.child[far][at])
  BY <1>4 DEF LiftSibling, HasRedChild, IsRed, NotRed
<1>7. IsRed(tree, tree.child[far][at]) <=> ~NotRed(tree, tree.child[far][at])
  BY DEF IsRed, NotRed
<1>8. IF NotRed(tree, tree.child[far][at])
      THEN t1 = Rotate(Paint(Paint(tree, near, TRUE), at, FALSE), far, at) /\ w = near
      ELSE t1 = tree /\ w = at
  BY <1>7
<1> HIDE DEF t1, w
<1>9. RedBeside(tree, at, p, h, near, t1, w, r, t2)
  BY <1>5, <1>6, <1>8 DEF RedBeside
<1> HIDE DEF t2, r, near, far
<1>10. tree' \in Trees /\ Shape(tree', T, C, begin) /\ Balanced(tree', T, Null, "left", Null)
  BY <1>2, <1>3, <1>9, LiftSiblingBalanced
<1>11. Loop(T, C)'
  BY <1>3, <1>10 DEF Loop
<1>12. QED
  BY <1>2, <1>10, <1>11, RemovalGoesOn, ZenonT(30) DEF LiftSibling

(* Every iteration of a loop.                                              *)
LEMMA RebalanceStep ==
  ASSUME NEW T, NEW C, Held(T, C), Rebalance
  PROVE  Held(T, C)'
BY EndInsertionStep, RecolourStep, RotateAndEndStep, LiftRedSiblingStep, PassBlackUpStep,
   LiftSiblingStep DEF Rebalance

-----------------------------------------------------------------------------
(***************************************************************************)
(* The calls.                                                              *)
(***************************************************************************)
(* n has been put into the tree t.                                         *)
Grown(t, T, C, n) ==
  /\ tree' \in Trees /\ Shape(tree', T \cup {n}, C, begin') /\ size' = size + 1
  /\ pc' = "inserting" /\ root' = Root(tree') /\ at' = n
  /\ Balanced(tree', T \cup {n}, Null, "left", n) /\ (tree'.black[n] => n = Root(tree'))
  /\ CacheKept(t, C, tree')

(* A node that is put into the tree leaves the cache alone.                *)
LEMMA HungKeepsCache ==
  ASSUME NEW t \in Trees, NEW T, NEW C, NEW first, Shape(t, T, C, first),
         NEW n \in Nodes, n \notin T \cup C, NEW p, NEW s, Open(t, T, p, s), NEW t2, Hung(t, n, p, s, t2)
  PROVE  CacheKept(t, C, t2)
<1>1. C \subseteq Nodes /\ T \cap C = {} /\ End \notin Nodes
  BY RBTreeAssumption DEF Shape, Forest
<1>2. \A m \in C : m \in Places /\ m # n /\ m # p
  BY <1>1 DEF Places, Open
<1>3. QED
  BY <1>2 DEF CacheKept, Hung

(* __insert_node_at up to its loop.                                        *)
LEMMA InsertNodeAtIs ==
  ASSUME NEW t \in Trees, NEW T, NEW C, Shape(t, T, C, begin),
         Balanced(t, T, Null, "left", Null),
         NEW n \in Nodes, n \notin T \cup C, NEW place, EmptyPlace(t, T, place), InsertNodeAt(t, n, place)
  PROVE  Grown(t, T, C, n)
<1>1. PICK p \in T \cup {End}, s \in Sides : place = <<p, s>> /\ t.child[s][p] = Null /\ (p = End => s = "left")
  BY DEF EmptyPlace
<1>2. Open(t, T, p, s)
  BY <1>1 DEF Open
<1> DEFINE t1 == Attach(Attach(Attach(t, "left", n, Null), "right", n, Null), s, p, n)
           t2 == Paint(t1, n, n = Root(t1))
<1>3. /\ tree' = t2
      /\ begin' = (IF t1.child["left"][begin] # Null THEN t1.child["left"][begin] ELSE begin)
      /\ size' = size + 1 /\ pc' = "inserting" /\ at' = n /\ root' = Root(t1)
  BY <1>1 DEF InsertNodeAt
<1>4. Planted(t, n, p, s, t1, t2)
  BY DEF Planted
<1> HIDE DEF t1, t2
<1>5. /\ Hung(t, n, p, s, t2) /\ t2.child = t1.child /\ Root(t2) = Root(t1)
      /\ (n = Root(t1) <=> p = End)
  BY <1>2, <1>4, HungIs
<1>6. begin' = FirstHung(t2, begin)
  BY <1>3, <1>5 DEF FirstHung
<1>7. Shape(t2, T \cup {n}, C, FirstHung(t2, begin))
  BY <1>2, <1>5, HangShape
<1>8. Balanced(t2, T \cup {n}, Null, "left", n)
  BY <1>2, <1>5, HangBalanced
<1>9. CacheKept(t, C, t2)
  BY <1>2, <1>5, HungKeepsCache
<1>10. t2 \in Trees /\ (t2.black[n] <=> p = End)
  BY <1>5 DEF Hung
<1>11. QED
  BY <1>3, <1>5, <1>6, <1>7, <1>8, <1>9, <1>10 DEF Grown

(* The tree when no loop runs.                                             *)
LEMMA HeldIdle ==
  ASSUME NEW T, NEW C, Held(T, C), pc = "idle"
  PROVE  /\ tree \in Trees /\ Shape(tree, T, C, begin) /\ Balanced(tree, T, Null, "left", Null)
         /\ size = Cardinality(T) /\ IsFiniteSet(T) /\ T \subseteq Nodes /\ C \subseteq Nodes
         /\ T \cap C = {} /\ allocated = T \cup C \cup lost /\ (T \cup C) \cap lost = {} /\ lost \subseteq Nodes
         /\ ~assigning => cache = Null /\ C = {}
<1>1. Store(T, C) /\ CacheReady(C) /\ Balanced(tree, T, Null, "left", Null)
  BY DEF Held, Loop, Inserting
<1>2. T \subseteq Nodes /\ C \subseteq Nodes /\ T \cap C = {}
  BY <1>1 DEF Store, Shape, Forest
<1>3. IsFiniteSet(T)
  BY <1>2, RBTreeAssumption, FS_Subset
<1>4. QED
  BY <1>1, <1>2, <1>3 DEF Store, CacheReady

(* A node that is allocated for a key is not in use.                       *)
LEMMA NewIs ==
  ASSUME program \in Programs, NEW k \in Offered, Free(k) # {}
  PROVE  New(k) \in Nodes /\ New(k) \notin allocated
<1>1. Free(k) \subseteq Nodes
  BY RBTreeAssumption DEF Free, Offered
<1>2. Free(k) \subseteq Nat
  BY <1>1, RBTreeAssumption
<1>3. \E n \in Free(k) : \A m \in Free(k) : n <= m
  BY <1>2, LeastNumber
<1>4. New(k) \in Free(k)
  BY <1>3 DEF New
<1>5. QED
  BY <1>1, <1>4 DEF Free

(* A node is allocated and put into the tree.                              *)
LEMMA CreateStep ==
  ASSUME program \in Programs, NEW T, NEW C, Held(T, C), NEW k \in Offered, NEW place,
         EmptyPlace(tree, T, place), Create(k, place)
  PROVE  \E n \in Nodes : Held(T \cup {n}, C)'
<1>0. PICK n : n = New(k)
  OBVIOUS
<1>1. /\ pc = "idle" /\ ~assigning /\ Free(k) # {} /\ allocated' = allocated \cup {n}
      /\ InsertNodeAt(tree, n, place) /\ UNCHANGED <<assigning, cache, lost>>
  BY <1>0 DEF Create
<1>2. n \in Nodes /\ n \notin allocated
  BY <1>0, <1>1, NewIs
<1>3. /\ tree \in Trees /\ Shape(tree, T, C, begin) /\ Balanced(tree, T, Null, "left", Null)
      /\ size = Cardinality(T) /\ IsFiniteSet(T)
      /\ allocated = T \cup C \cup lost /\ (T \cup C) \cap lost = {} /\ lost \subseteq Nodes
      /\ cache = Null /\ C = {}
  BY <1>1, HeldIdle
<1>4. n \notin T \cup C /\ n \notin lost
  BY <1>2, <1>3
<1>5. Grown(tree, T, C, n)
  BY <1>1, <1>2, <1>3, <1>4, InsertNodeAtIs
<1>6. Cardinality(T \cup {n}) = size + 1
  BY <1>3, <1>4, FS_AddElement
<1>7. Store(T \cup {n}, C)'
  <2>1. /\ allocated' = (T \cup {n}) \cup C \cup lost' /\ ((T \cup {n}) \cup C) \cap lost' = {}
        /\ lost' \subseteq Nodes
    BY <1>1, <1>3, <1>4
  <2>2. QED
    BY <1>5, <1>6, <2>1 DEF Store, Grown
<1>8. CacheReady(C)'
  BY <1>1, <1>3 DEF CacheReady
<1>9. Loop(T \cup {n}, C)'
  BY <1>5 DEF Grown, Loop, Inserting
<1>10. QED
  BY <1>2, <1>7, <1>8, <1>9 DEF Held

(* The insertions, with a hint or without.                                 *)
LEMMA InsertStep ==
  ASSUME program \in Programs, NEW T, NEW C, Held(T, C), NEW k \in Offered, NEW h,
         \/ InsertUnique(k) \/ InsertMulti(k) \/ InsertUniqueNear(h, k) \/ InsertMultiNear(h, k)
  PROVE  \E n \in Nodes : Held(T \cup {n}, C)'
<1>1. tree \in Trees /\ Shape(tree, T, C, begin) /\ End \in T \cup {End}
  BY DEF Held, Store
<1>2. \A g \in T \cup {End} :
        /\ EmptyPlace(tree, T, FindLeafHigh(k)) /\ EmptyPlace(tree, T, FindEqual(k))
        /\ EmptyPlace(tree, T, FindLeaf(g, k)) /\ EmptyPlace(tree, T, FindEqualNear(g, k))
  BY <1>1, PlacesAreEmpty
<1>3. Hints = T \cup {End}
  BY <1>1, LinkedIs DEF Hints
<1>4. CASE InsertUnique(k)
  BY <1>1, <1>2, <1>4, CreateStep DEF InsertUnique
<1>5. CASE InsertMulti(k)
  BY <1>1, <1>2, <1>5, CreateStep DEF InsertMulti
<1>6. CASE InsertUniqueNear(h, k)
  <2>1. EmptyPlace(tree, T, FindEqualNear(h, k)) /\ Create(k, FindEqualNear(h, k))
    BY <1>2, <1>3, <1>6 DEF InsertUniqueNear
  <2>2. QED
    BY <2>1, CreateStep
<1>7. CASE InsertMultiNear(h, k)
  <2>1. EmptyPlace(tree, T, FindLeaf(h, k)) /\ Create(k, FindLeaf(h, k))
    BY <1>2, <1>3, <1>7 DEF InsertMultiNear
  <2>2. QED
    BY <2>1, CreateStep
<1>8. QED
  BY <1>4, <1>5, <1>6, <1>7

(* The node after the first is the one that becomes the first.             *)
LEMMA NextOfFirst ==
  ASSUME tree \in Trees, NEW T, NEW C, Shape(tree, T, C, begin),
         Balanced(tree, T, Null, "left", Null), begin \in T
  PROVE  NextNode(tree, begin) = FirstWithout(begin)
<1> DEFINE c == tree.child["right"][begin]
<1>1. PICK e \in Ranks, sp \in SUBSET Places : Forest(tree, T, C) /\ Ranked(tree, e) /\ Spine(tree, T, sp, begin)
  BY DEF Shape
<1>2. /\ begin \in Nodes /\ begin # End /\ "left" \in Sides /\ Other("left") = "right" /\ "right" \in Sides
  BY <1>1, RBTreeAssumption DEF Forest, Sides, Other
<1>3. tree.child["left"][begin] = Null /\ tree.child["left"][tree.parent[begin]] = begin
  BY <1>1, <1>2 DEF Spine
<1>4. NextNode(tree, begin) = IF c # Null THEN Extreme(tree, "left", c)
                              ELSE IF Side(tree, begin) = "left" THEN tree.parent[begin]
                              ELSE NextNode(tree, begin)
  BY <1>1, <1>2, NextNodeIs
<1>5. CASE c = Null
  BY <1>3, <1>4, <1>5 DEF Side, FirstWithout
<1>6. CASE c # Null
  <2>1. c \in T /\ \A q \in Sides : tree.child[q][c] = Null
    BY <1>2, <1>3, <1>6, LoneChild
  <2>2. Extreme(tree, "left", c) \in {c}
    <3>1. {c} \in SUBSET Nodes /\ \A n \in {c} : tree.child["left"][n] # Null => tree.child["left"][n] \in {c}
      BY <1>1, <1>2, <2>1 DEF Forest
    <3>2. QED
      BY <1>1, <1>2, <3>1, ExtremeIs
  <2>3. QED
    BY <1>4, <1>6, <2>2 DEF FirstWithout
<1>7. QED
  BY <1>5, <1>6

(* erase(iterator) and remove(iterator).                                   *)
LEMMA RemoveStep ==
  ASSUME NEW T, NEW C, Held(T, C), NEW z, Erase(z) \/ RemoveNode(z)
  PROVE  Held(T \ {z}, C)'
<1>1. /\ pc = "idle" /\ ~assigning /\ z \in Subtree(tree, Root(tree)) /\ size' = size - 1
      /\ Unlink(z) /\ allocated' = allocated \ {z} /\ UNCHANGED <<assigning, cache, lost>>
      /\ begin' = (IF begin # z THEN begin ELSE NextNode(tree, z)) \/ begin' = FirstWithout(z)
  BY DEF Erase, RemoveNode, FirstWithout
<1>2. /\ tree \in Trees /\ Shape(tree, T, C, begin) /\ Balanced(tree, T, Null, "left", Null)
      /\ size = Cardinality(T) /\ IsFiniteSet(T)
      /\ allocated = T \cup C \cup lost /\ (T \cup C) \cap lost = {} /\ lost \subseteq Nodes
      /\ cache = Null /\ C = {}
  BY <1>1, HeldIdle
<1>3. z \in T
  BY <1>1, <1>2, LinkedIs
<1>4. begin' = FirstWithout(z)
  <2>1. begin = z => NextNode(tree, z) = FirstWithout(z)
    BY <1>2, <1>3, NextOfFirst
  <2>2. begin # z => FirstWithout(z) = begin
    BY DEF FirstWithout
  <2>3. QED
    BY <1>1, <2>1, <2>2
<1>5. Unlinked(T, C, z)
  BY <1>1, <1>2, <1>3, UnlinkIs
<1>6. Cardinality(T \ {z}) = size - 1
  BY <1>2, <1>3, FS_RemoveElement
<1>7. Store(T \ {z}, C)'
  <2>1. /\ allocated' = (T \ {z}) \cup C \cup lost' /\ ((T \ {z}) \cup C) \cap lost' = {}
        /\ lost' \subseteq Nodes
    BY <1>1, <1>2, <1>3
  <2>2. QED
    BY <1>1, <1>4, <1>5, <1>6, <2>1 DEF Store, Unlinked
<1>8. CacheReady(C)'
  BY <1>1, <1>2 DEF CacheReady
<1>9. Loop(T \ {z}, C)'
  <2>1. cache' = Null
    BY <1>1, <1>2
  <2>2. QED
    BY <1>4, <1>5, <2>1 DEF Unlinked, Loop
<1>10. QED
  BY <1>7, <1>8, <1>9 DEF Held

(* clear().                                                                *)
LEMMA ClearStep ==
  ASSUME NEW T, NEW C, Held(T, C), Clear
  PROVE  Held({}, {})'
<1>1. /\ tree \in Trees /\ Shape(tree, T, C, begin)
      /\ allocated = T \cup C \cup lost /\ (T \cup C) \cap lost = {} /\ lost \subseteq Nodes
      /\ cache = Null /\ C = {} /\ pc = "idle"
  BY HeldIdle DEF Clear
<1>2. Subtree(tree, Root(tree)) = T
  BY <1>1, LinkedIs
<1> DEFINE t1 == Attach(tree, "left", End, Null)
<1>3. allocated' = allocated \ T /\ tree' = FreeNodes(t1, T) /\ begin' = End /\ size' = 0
      /\ UNCHANGED <<pc, cache, lost>>
  BY <1>2 DEF Clear
<1>4. Attached(tree, "left", End, Null, t1)
  BY <1>1, AttachIs DEF Sides, Places
<1> HIDE DEF t1
<1>5. Freed(t1, T, tree')
  BY <1>3, <1>4, FreeNodesIs DEF Attached
<1>6. tree' \in Trees /\ Shape(tree', {}, {}, End) /\ Root(tree') = Null
  BY <1>1, <1>4, <1>5, FreeTree
<1>7. Balanced(tree', {}, Null, "left", Null)
  BY <1>6, NothingBalanced
<1>8. Store({}, {})'
  <2>1. Cardinality({}) = 0
    BY FS_EmptySet
  <2>2. allocated' = lost' /\ lost' \subseteq Nodes
    BY <1>1, <1>3
  <2>3. QED
    BY <1>3, <1>6, <2>1, <2>2 DEF Store
<1>9. CacheReady({})' /\ Loop({}, {})'
  BY <1>1, <1>3, <1>7 DEF CacheReady, Loop
<1>10. QED
  BY <1>8, <1>9 DEF Held

(* The nodes of the tree become the cache of an assignment.                *)
LEMMA BeginAssignStep ==
  ASSUME NEW T, NEW C, Held(T, C), BeginAssign
  PROVE  Held({}, T)'
<1>1. /\ tree \in Trees /\ Shape(tree, T, C, begin) /\ Balanced(tree, T, Null, "left", Null)
      /\ size = Cardinality(T) /\ allocated = T \cup C \cup lost /\ (T \cup C) \cap lost = {}
      /\ lost \subseteq Nodes /\ cache = Null /\ C = {} /\ pc = "idle" /\ T \subseteq Nodes
  BY HeldIdle DEF BeginAssign
<1>2. T # {}
  BY <1>1, FS_EmptySet DEF BeginAssign
<1> DEFINE t1 == Attach(tree, "left", End, Null)
           c == IF tree.child["right"][begin] # Null THEN tree.child["right"][begin] ELSE begin
<1>3. /\ assigning' = TRUE /\ cache' = c /\ tree' = [t1 EXCEPT !.parent[Root(tree)] = Null]
      /\ begin' = End /\ size' = 0 /\ UNCHANGED <<allocated, pc, lost>>
  BY DEF BeginAssign
<1>4. Attached(tree, "left", End, Null, t1)
  BY <1>1, AttachIs DEF Sides, Places
<1> HIDE DEF t1
<1>5. Pickable(tree, T, c)
  BY <1>1, <1>2, FirstLeaf
<1> HIDE DEF c
<1>6. /\ tree' \in Trees /\ tree'.child = t1.child
      /\ \A n \in Nodes : tree'.parent[n] = IF n = Root(tree) THEN Null ELSE t1.parent[n]
  <2>1. t1 \in Trees
    BY <1>4 DEF Attached
  <2>2. t1.parent \in [Nodes -> Nodes \cup {End, Null}]
    BY <2>1, TreeFields
  <2>3. tree' \in Trees
    BY <1>3, <2>1 DEF Trees
  <2>4. tree'.child = t1.child /\ tree'.parent = [t1.parent EXCEPT ![Root(tree)] = Null]
    BY <1>3, <2>1 DEF Trees
  <2>5. QED
    BY <2>2, <2>3, <2>4
<1>7. Shape(tree', {}, T, End) /\ Root(tree') = Null
  BY <1>1, <1>2, <1>4, <1>6, TreeToCache
<1>8. Balanced(tree', {}, Null, "left", Null)
  BY <1>7, NothingBalanced
<1>9. c \in T /\ c # Null /\ c \in Places /\ c # End
  BY <1>1, <1>5, RBTreeAssumption DEF Pickable, Places
<1>10. Pickable(tree', T, c)
  <2>1. \A s \in Sides : tree'.child[s][c] = tree.child[s][c]
    BY <1>4, <1>6, <1>9 DEF Attached
  <2>2. QED
    BY <1>5, <2>1 DEF Pickable
<1>11. Store({}, T)'
  BY <1>1, <1>3, <1>6, <1>7, FS_EmptySet DEF Store
<1>12. CacheReady(T)'
  BY <1>3, <1>9, <1>10 DEF CacheReady
<1>13. Loop({}, T)'
  BY <1>1, <1>3, <1>8 DEF Loop
<1>14. QED
  BY <1>11, <1>12, <1>13 DEF Held

(* What a step of an assignment starts from.                               *)
LEMMA Detaching ==
  ASSUME NEW T, NEW C, Held(T, C), pc = "idle", cache # Null
  PROVE  LET t2 == Detached.tree
             n2 == Detached.next
         IN  /\ Uncached(C, t2, n2) /\ t2 \in Trees /\ Shape(t2, T, C \ {cache}, begin)
             /\ Balanced(t2, T, Null, "left", Null) /\ Kept(tree, T, t2)
             /\ cache \in C /\ cache \in Nodes /\ assigning
<1>1. tree \in Trees /\ Shape(tree, T, C, begin) /\ Balanced(tree, T, Null, "left", Null) /\ C \subseteq Nodes
  BY HeldIdle
<1>2. assigning /\ Pickable(tree, C, cache)
  BY DEF Held, CacheReady
<1> DEFINE t2 == Detached.tree
           n2 == Detached.next
<1>3. Uncached(C, t2, n2)
  BY <1>1, <1>2, DetachedIs
<1> HIDE DEF t2, n2
<1>4. Cut(tree, cache, t2)
  BY <1>3 DEF Uncached
<1>5. Shape(t2, T, C \ {cache}, begin) /\ Kept(tree, T, t2)
  BY <1>1, <1>2, <1>4, CutShape
<1>6. Balanced(t2, T, Null, "left", Null)
  BY <1>1, <1>5, KeptBalanced
<1>7. QED
  BY <1>1, <1>2, <1>3, <1>4, <1>5, <1>6 DEF Cut, Pickable, t2, n2

(* The next node is ready in the rest of the cache.                        *)
LEMMA NextReady ==
  ASSUME NEW C, NEW c, c = cache, c \in C, NEW t2, NEW n2, Uncached(C, t2, n2), cache' = n2,
         assigning', CacheKept(t2, C \ {c}, tree')
  PROVE  CacheReady(C \ {c})'
<1>1. n2 = Null => C \ {c} = {}
  BY DEF Uncached
<1>2. n2 # Null => Pickable(tree', C \ {c}, n2)
  BY DEF Uncached, Pickable, CacheKept
<1>3. QED
  BY <1>1, <1>2 DEF CacheReady

(* A node leaves the cache for the tree, or is let go of.                  *)
LEMMA AssignNextStep ==
  ASSUME NEW T, NEW C, Held(T, C), NEW k, AssignNext(k)
  PROVE  \E n \in C : Held(T, C \ {n})' \/ Held(T \cup {n}, C \ {n})'
<1>0. PICK c : c = cache
  OBVIOUS
<1> DEFINE t2 == Detached.tree
           n2 == Detached.next
<1>1. /\ assigning /\ pc = "idle" /\ cache # Null /\ cache' = n2 /\ UNCHANGED <<allocated, assigning>>
      /\ \/ /\ tree' = t2 /\ lost' = lost \cup {c} /\ UNCHANGED <<begin, size, pc, at, root>>
         \/ /\ InsertNodeAt(t2, c, FindLeafHigh(k)) /\ UNCHANGED lost
  BY <1>0 DEF AssignNext
<1>2. /\ Uncached(C, t2, n2) /\ t2 \in Trees /\ Shape(t2, T, C \ {c}, begin)
      /\ Balanced(t2, T, Null, "left", Null) /\ Kept(tree, T, t2) /\ c \in C /\ c \in Nodes
  BY <1>0, <1>1, Detaching
<1>3. /\ tree \in Trees /\ Shape(tree, T, C, begin) /\ size = Cardinality(T) /\ IsFiniteSet(T)
      /\ allocated = T \cup C \cup lost /\ (T \cup C) \cap lost = {} /\ lost \subseteq Nodes
      /\ T \cap C = {} /\ T \subseteq Nodes
  BY <1>1, HeldIdle
<1> HIDE DEF t2, n2
<1>4. CASE tree' = t2 /\ lost' = lost \cup {c} /\ UNCHANGED <<begin, size, pc, at, root>>
  <2>1. Store(T, C \ {c})'
    <3>1. /\ allocated' = T \cup (C \ {c}) \cup lost' /\ (T \cup (C \ {c})) \cap lost' = {}
          /\ lost' \subseteq Nodes
      BY <1>1, <1>2, <1>3, <1>4
    <3>2. QED
      BY <1>2, <1>3, <1>4, <3>1 DEF Store
  <2>2. CacheKept(t2, C \ {c}, tree')
    BY <1>4 DEF CacheKept
  <2>3. CacheReady(C \ {c})'
    BY <1>0, <1>1, <1>2, <2>2, NextReady
  <2>4. Loop(T, C \ {c})'
    BY <1>1, <1>2, <1>4 DEF Loop
  <2>5. QED
    BY <1>2, <2>1, <2>3, <2>4 DEF Held
<1>5. CASE InsertNodeAt(t2, c, FindLeafHigh(k)) /\ UNCHANGED lost
  <2>1. EmptyPlace(tree, T, FindLeafHigh(k))
    <3>1. End \in T \cup {End}
      OBVIOUS
    <3>2. QED
      BY <1>3, <3>1, PlacesAreEmpty
  <2>2. EmptyPlace(t2, T, FindLeafHigh(k))
    BY <1>2, <2>1 DEF EmptyPlace, Kept
  <2>3. c \notin T \cup (C \ {c})
    BY <1>2, <1>3
  <2>4. Grown(t2, T, C \ {c}, c)
    BY <1>2, <1>5, <2>2, <2>3, InsertNodeAtIs
  <2>5. Cardinality(T \cup {c}) = size + 1
    BY <1>3, <2>3, FS_AddElement
  <2>6. Store(T \cup {c}, C \ {c})'
    <3>1. /\ allocated' = (T \cup {c}) \cup (C \ {c}) \cup lost' /\ ((T \cup {c}) \cup (C \ {c})) \cap lost' = {}
          /\ lost' \subseteq Nodes
      BY <1>1, <1>2, <1>3, <1>5
    <3>2. QED
      BY <2>4, <2>5, <3>1 DEF Store, Grown
  <2>7. CacheReady(C \ {c})'
    <3>1. CacheKept(t2, C \ {c}, tree')
      BY <2>4 DEF Grown
    <3>2. QED
      BY <1>0, <1>1, <1>2, <3>1, NextReady
  <2>8. Loop(T \cup {c}, C \ {c})'
    BY <2>4 DEF Grown, Loop, Inserting
  <2>9. QED
    BY <1>2, <2>6, <2>7, <2>8 DEF Held
<1>6. QED
  BY <1>1, <1>4, <1>5

(* The rest of the cache is destroyed.                                     *)
LEMMA Destroyed ==
  ASSUME NEW T, NEW C2, NEW t2 \in Trees, Shape(t2, T, C2, begin), Balanced(t2, T, Null, "left", Null),
         NEW S, S \subseteq Nodes, C2 \subseteq S, S \cap T = {}, tree' = FreeNodes(t2, S),
         pc = "idle", size = Cardinality(T), UNCHANGED <<begin, size, pc>>, cache' = Null,
         allocated' = T \cup lost', T \cap lost' = {}, lost' \subseteq Nodes
  PROVE  Held(T, {})'
<1>1. Freed(t2, S, tree')
  BY FreeNodesIs
<1>2. Shape(tree', T, {}, begin) /\ Kept(t2, T, tree') /\ tree' \in Trees
  BY <1>1, FreeCache DEF Freed
<1>3. Balanced(tree', T, Null, "left", Null)
  BY <1>2, KeptBalanced
<1>4. Store(T, {})'
  BY <1>2 DEF Store
<1>5. CacheReady({})' /\ Loop(T, {})'
  BY <1>3 DEF CacheReady, Loop
<1>6. QED
  BY <1>4, <1>5 DEF Held

(* A comparison throws: what is left of the cache is destroyed.            *)
LEMMA ThrowInAssignStep ==
  ASSUME NEW T, NEW C, Held(T, C), NEW k, ThrowInAssign(k)
  PROVE  Held(T, {})'
<1> DEFINE t2 == Detached.tree
           n2 == Detached.next
           S == CacheNodes(t2)
<1>1. /\ pc = "idle" /\ cache # Null /\ allocated' = allocated \ S /\ tree' = FreeNodes(t2, S)
      /\ lost' = lost \cup ({cache} \ S) /\ cache' = Null /\ UNCHANGED <<begin, size, pc>>
  BY DEF ThrowInAssign
<1>2. /\ Uncached(C, t2, n2) /\ t2 \in Trees /\ Shape(t2, T, C \ {cache}, begin)
      /\ Balanced(t2, T, Null, "left", Null) /\ cache \in C /\ cache \in Nodes
  BY <1>1, Detaching
<1>3. /\ size = Cardinality(T) /\ allocated = T \cup C \cup lost /\ (T \cup C) \cap lost = {}
      /\ lost \subseteq Nodes /\ T \cap C = {} /\ C \subseteq Nodes
  BY <1>1, HeldIdle
<1>4. (S = C /\ C = {cache}) \/ S = C \ {cache}
  BY <1>2 DEF Uncached
<1> HIDE DEF t2, n2, S
<1>5. /\ S \subseteq Nodes /\ C \ {cache} \subseteq S /\ S \cap T = {}
      /\ allocated' = T \cup lost' /\ T \cap lost' = {} /\ lost' \subseteq Nodes
  BY <1>1, <1>2, <1>3, <1>4
<1>6. QED
  BY <1>1, <1>2, <1>3, <1>5, Destroyed

(* The rest of the cache is destroyed at the end.                          *)
LEMMA EndAssignStep ==
  ASSUME NEW T, NEW C, Held(T, C), EndAssign
  PROVE  Held(T, {})'
<1>1. /\ pc = "idle" /\ allocated' = allocated \ CacheNodes(tree) /\ tree' = FreeNodes(tree, CacheNodes(tree))
      /\ cache' = Null /\ UNCHANGED <<begin, size, pc, lost>>
  BY DEF EndAssign
<1>2. /\ tree \in Trees /\ Shape(tree, T, C, begin) /\ Balanced(tree, T, Null, "left", Null)
      /\ size = Cardinality(T) /\ allocated = T \cup C \cup lost /\ (T \cup C) \cap lost = {}
      /\ lost \subseteq Nodes /\ T \cap C = {} /\ C \subseteq Nodes
  BY <1>1, HeldIdle
<1>3. CacheNodes(tree) = C
  <2>1. CASE cache = Null
    BY <2>1 DEF Held, CacheReady, CacheNodes
  <2>2. CASE cache # Null
    <3>1. cache \in C /\ cache \in Nodes
      BY <1>2, <2>2 DEF Held, CacheReady, Pickable
    <3>2. QED
      BY <1>2, <3>1, CacheNodesIs
  <2>3. QED
    BY <2>1, <2>2
<1>4. /\ tree' = FreeNodes(tree, C) /\ C \subseteq Nodes /\ C \subseteq C /\ C \cap T = {}
      /\ allocated' = T \cup lost' /\ T \cap lost' = {} /\ lost' \subseteq Nodes
  BY <1>1, <1>2, <1>3
<1>5. QED
  BY <1>1, <1>2, <1>4, Destroyed

-----------------------------------------------------------------------------
(***************************************************************************)
(* The invariant holds always.                                             *)
(***************************************************************************)
(* An empty tree is well.                                                  *)
LEMMA Begins == Init => IInv
<1> SUFFICES ASSUME Init PROVE IInv
  OBVIOUS
<1> DEFINE c == [s \in Sides |-> [n \in Nodes \cup {End} |-> Null]]
           u == [n \in Nodes |-> Null]
           b == [n \in Nodes |-> FALSE]
<1>1. tree = [child |-> c, parent |-> u, black |-> b]
  BY DEF Init
<1>2. c \in [Sides -> [Places -> Nodes \cup {Null}]] /\ u \in [Nodes -> Nodes \cup {End, Null}] /\ b \in [Nodes -> BOOLEAN]
  BY DEF Places
<1>3. \A s \in Sides, p \in Places : c[s][p] = Null
  BY DEF Places
<1>4. \A n \in Nodes : u[n] = Null
  OBVIOUS
<1> HIDE DEF c, u, b
<1>5. Bare(tree)
  BY <1>1, <1>2, <1>3 DEF Bare, Trees
<1>6. Root(tree) = Null
  BY <1>1, <1>3 DEF Root, Sides, Places
<1> DEFINE e == [n \in Nodes |-> 0]
<1>7. e \in Ranks
  <2>1. e \in [Nodes -> 0..0]
    OBVIOUS
  <2>2. QED
    BY <2>1, RanksFrom
<1>8. Ranked(tree, e)
  BY <1>1, <1>4, RBTreeAssumption DEF Ranked
<1>9. Shape(tree, {}, {}, End) /\ Balanced(tree, {}, Null, "left", Null)
  BY <1>5, <1>6, <1>7, <1>8, BareShape, NothingBalanced
<1>10. Held({}, {})
  <2>1. Store({}, {})
    BY <1>5, <1>9, FS_EmptySet DEF Init, Store, Bare
  <2>2. CacheReady({}) /\ Loop({}, {})
    BY <1>9 DEF Init, CacheReady, Loop
  <2>3. QED
    BY <2>1, <2>2 DEF Held
<1>11. QED
  BY <1>10 DEF IInv, Init

(* What stays within the nodes will do.                                    *)
LEMMA Holds ==
  ASSUME program \in Programs, program' = program,
         NEW T, NEW C, T \subseteq Nodes, C \subseteq Nodes, Held(T, C)'
  PROVE  IInv'
BY DEF IInv

(* Every step keeps the invariant.                                         *)
LEMMA Stays == IInv /\ [Next]_vars => IInv'
<1> SUFFICES ASSUME IInv, [Next]_vars PROVE IInv'
  OBVIOUS
<1>1. PICK T, C \in SUBSET Nodes : Held(T, C)
  BY DEF IInv
<1>2. program \in Programs
  BY DEF IInv
<1>3. program' = program
  BY DEF Next, vars, InsertUnique, InsertMulti, InsertUniqueNear, InsertMultiNear, Create, Erase,
         RemoveNode, Clear, BeginAssign, EndAssign, AssignNext, ThrowInAssign, Rebalance, EndInsertion,
         Recolour, RotateAndEnd, LiftRedSibling, PassBlackUp, LiftSibling
<1>4. CASE UNCHANGED vars
  <2>1. Held(T, C)'
    BY <1>1, <1>4 DEF vars, Held, Store, CacheReady, Loop, Inserting, Root
  <2>2. QED
    BY <1>2, <1>3, <2>1, Holds
<1>5. ASSUME NEW k \in Offered, NEW h,
             InsertUnique(k) \/ InsertMulti(k) \/ InsertUniqueNear(h, k) \/ InsertMultiNear(h, k)
      PROVE  IInv'
  <2>1. PICK n \in Nodes : Held(T \cup {n}, C)'
    BY <1>1, <1>2, <1>5, InsertStep
  <2>2. T \cup {n} \subseteq Nodes
    OBVIOUS
  <2>3. QED
    BY <1>2, <1>3, <2>1, <2>2, Holds
<1>6. ASSUME NEW z \in Nodes, Erase(z) \/ RemoveNode(z) PROVE IInv'
  <2>1. Held(T \ {z}, C)'
    BY <1>1, <1>6, RemoveStep
  <2>2. T \ {z} \subseteq Nodes
    OBVIOUS
  <2>3. QED
    BY <1>2, <1>3, <2>1, <2>2, Holds
<1>7. CASE Clear
  <2>1. Held({}, {})'
    BY <1>1, <1>7, ClearStep
  <2>2. {} \subseteq Nodes
    OBVIOUS
  <2>3. QED
    BY <1>2, <1>3, <2>1, <2>2, Holds
<1>8. CASE BeginAssign
  <2>1. Held({}, T)'
    BY <1>1, <1>8, BeginAssignStep
  <2>2. {} \subseteq Nodes
    OBVIOUS
  <2>3. QED
    BY <1>2, <1>3, <2>1, <2>2, Holds
<1>9. CASE EndAssign
  <2>1. Held(T, {})'
    BY <1>1, <1>9, EndAssignStep
  <2>2. {} \subseteq Nodes
    OBVIOUS
  <2>3. QED
    BY <1>2, <1>3, <2>1, <2>2, Holds
<1>10. ASSUME NEW k \in Offered, AssignNext(k) PROVE IInv'
  <2>1. PICK n \in C : Held(T, C \ {n})' \/ Held(T \cup {n}, C \ {n})'
    BY <1>1, <1>10, AssignNextStep
  <2>2. C \ {n} \subseteq Nodes /\ T \cup {n} \subseteq Nodes
    OBVIOUS
  <2>3. CASE Held(T, C \ {n})'
    BY <1>2, <1>3, <2>2, <2>3, Holds
  <2>4. CASE Held(T \cup {n}, C \ {n})'
    BY <1>2, <1>3, <2>2, <2>4, Holds
  <2>5. QED
    BY <2>1, <2>3, <2>4
<1>11. ASSUME NEW k \in Offered, ThrowInAssign(k) PROVE IInv'
  <2>1. Held(T, {})'
    BY <1>1, <1>11, ThrowInAssignStep
  <2>2. {} \subseteq Nodes
    OBVIOUS
  <2>3. QED
    BY <1>2, <1>3, <2>1, <2>2, Holds
<1>12. CASE Rebalance
  <2>1. Held(T, C)'
    BY <1>1, <1>12, RebalanceStep
  <2>2. QED
    BY <1>2, <1>3, <2>1, Holds
<1>13. QED
  BY <1>4, <1>5, <1>6, <1>7, <1>8, <1>9, <1>10, <1>11, <1>12 DEF Next

(* The nodes that the container owns form a tree and a cache without       *)
(* cycles and without a node in common, the tree is balanced but for what  *)
(* a loop has still to do, and the next node of the cache is a leaf.       *)
THEOREM Sound == Spec => []IInv
<1>1. Init => IInv
  BY Begins
<1>2. IInv /\ [Next]_vars => IInv'
  BY Stays
<1>3. QED
  BY <1>1, <1>2, PTL DEF Spec

-----------------------------------------------------------------------------
(***************************************************************************)
(* What the invariant says of the properties that are checked.             *)
(***************************************************************************)
(* In a loop or not, the tree has its shape.                               *)
LEMMA HeldShape ==
  ASSUME NEW T, NEW C, Held(T, C)
  PROVE  /\ tree \in Trees /\ Shape(tree, T, C, begin) /\ Linked = T /\ CacheNodes(tree) = C
         /\ T \subseteq Nodes /\ T \cap C = {} /\ allocated = T \cup C \cup lost /\ (T \cup C) \cap lost = {}
<1>1. /\ tree \in Trees /\ Shape(tree, T, C, begin)
      /\ allocated = T \cup C \cup lost /\ (T \cup C) \cap lost = {}
  BY DEF Held, Store
<1>2. T \subseteq Nodes /\ C \subseteq Nodes /\ T \cap C = {}
  BY <1>1 DEF Shape, Forest
<1>3. Linked = T
  BY <1>1, LinkedIs DEF Linked
<1>4. CASE cache = Null
  <2>1. CacheNodes(tree) = C
    BY <1>4 DEF Held, CacheReady, CacheNodes
  <2>2. QED
    BY <1>1, <1>2, <1>3, <2>1
<1>5. CASE cache # Null
  <2>1. cache \in C /\ cache \in Nodes
    BY <1>2, <1>5 DEF Held, CacheReady, Pickable
  <2>2. CacheNodes(tree) = C
    BY <1>1, <2>1, CacheNodesIs
  <2>3. QED
    BY <1>1, <1>2, <1>3, <2>2
<1>6. QED
  BY <1>4, <1>5

(* The first node is the last one of the spine.                            *)
LEMMA FirstIs ==
  ASSUME NEW t \in Trees, NEW T, NEW C, NEW first, Shape(t, T, C, first)
  PROVE  first = IF Root(t) = Null THEN End ELSE Extreme(t, "left", Root(t))
<1>1. PICK e \in Ranks, sp \in SUBSET Places : Forest(t, T, C) /\ Ranked(t, e) /\ Spine(t, T, sp, first)
  BY DEF Shape
<1>2. T \subseteq Nodes /\ End \notin T
  BY RootIs
<1>3. CASE Root(t) = Null
  BY <1>1, <1>3 DEF Spine, Root
<1>4. CASE Root(t) # Null
  <2> DEFINE B == sp \ {End}
  <2>1. B \in SUBSET Nodes
    BY <1>1, <1>2 DEF Spine
  <2>2. Root(t) \in B
    <3>1. Root(t) \in T /\ Root(t) # End
      BY <1>2, <1>4, RootIs
    <3>2. QED
      BY <1>1, <1>4, <3>1 DEF Spine, Root
  <2>3. "left" \in Sides
    BY DEF Sides
  <2>4. ASSUME NEW n \in B, t.child["left"][n] # Null PROVE t.child["left"][n] \in B
    <3>1. n \in T /\ t.child["left"][n] \in sp
      BY <1>1, <2>4 DEF Spine
    <3>2. t.child["left"][n] # End
      BY <1>2, <2>3, <2>4, <3>1, Child
    <3>3. QED
      BY <3>1, <3>2
  <2>5. Extreme(t, "left", Root(t)) \in B /\ t.child["left"][Extreme(t, "left", Root(t))] = Null
    <3> HIDE DEF B
    <3>1. QED
      BY <1>1, <2>1, <2>2, <2>3, <2>4, ExtremeIs
  <2>6. QED
    BY <1>1, <1>4, <2>5 DEF Spine
<1>5. QED
  BY <1>3, <1>4

(* Links, local root and first node are what LinksExact says.              *)
LEMMA LinksExactHolds == IInv => LinksExact
<1> SUFFICES ASSUME IInv PROVE LinksExact
  OBVIOUS
<1>1. PICK T, C \in SUBSET Nodes : Held(T, C)
  BY DEF IInv
<1>2. tree \in Trees /\ Shape(tree, T, C, begin) /\ Linked = T
  BY <1>1, HeldShape
<1>3. \A p \in T \cup {End}, s \in Sides :
        tree.child[s][p] # Null => tree.parent[tree.child[s][p]] = p
  BY <1>2 DEF Shape, Forest, LinksAgree, Places
<1>4. pc # "idle" => root = Root(tree)
  BY <1>1 DEF Held, Loop, Inserting
<1>5. begin = IF Root(tree) = Null THEN End ELSE Extreme(tree, "left", Root(tree))
  BY <1>2, FirstIs
<1>6. QED
  BY <1>2, <1>3, <1>4, <1>5 DEF LinksExact

(* The nodes are accounted for.                                            *)
LEMMA NodesAccountedHolds == IInv => NodesAccounted
<1> SUFFICES ASSUME IInv PROVE NodesAccounted
  OBVIOUS
<1>1. PICK T, C \in SUBSET Nodes : Held(T, C)
  BY DEF IInv
<1>2. /\ Linked = T /\ CacheNodes(tree) = C /\ T \cap C = {}
      /\ allocated = T \cup C \cup lost /\ (T \cup C) \cap lost = {}
  BY <1>1, HeldShape
<1>3. QED
  BY <1>2 DEF NodesAccounted

(* Where a black node is lacking, if anywhere.                             *)
LacksAt(T, gp, gs) == \A n \in T, s \in Sides : Lacking(n, s) = IF n = gp /\ s = gs THEN 1 ELSE 0

(* What a loop has left of the balance.                                    *)
LEMMA HeldBalanced ==
  ASSUME NEW T, NEW C, Held(T, C)
  PROVE  \E gp, gs, tip : /\ Balanced(tree, T, gp, gs, tip) /\ LacksAt(T, gp, gs)
                          /\ tip # Null => pc = "inserting" /\ tip = at
<1>1. tree \in Trees /\ Shape(tree, T, C, begin) /\ T \subseteq Nodes
  BY HeldShape
<1>2. CASE pc # "removing"
  <2>1. Null \notin T
    BY <1>1, RootIs
  <2>2. LacksAt(T, Null, "left")
    BY <1>2, <2>1 DEF LacksAt, Lacking
  <2>3. Balanced(tree, T, Null, "left", Null) \/ (pc = "inserting" /\ Balanced(tree, T, Null, "left", at))
    BY <1>2 DEF Held, Loop, Inserting
  <2>4. QED
    BY <2>2, <2>3
<1>3. CASE pc = "removing"
  <2>1. PICK p, h : Removing(tree, T, C, begin, at, p, h)
    BY <1>3 DEF Held, Loop, Inserting
  <2>2. /\ Side(tree, at) = Other(h) /\ tree.child[Other(h)][p] = at /\ at # Null
        /\ h \in Sides
    BY <2>1, AroundHole
  <2>3. ASSUME NEW n \in T, NEW s \in Sides PROVE tree.child[Other(s)][n] = at <=> n = p /\ s = h
    <3>1. ASSUME tree.child[Other(s)][n] = at PROVE n = p /\ s = h
      <4>1. Other(s) \in Sides
        BY TwoSides
      <4>2. tree.parent[at] = n /\ Side(tree, at) = Other(s)
        BY <1>1, <2>2, <3>1, <4>1, Child
      <4>3. n = p
        BY <2>1, <4>2 DEF Removing
      <4>4. s = h
        BY <2>2, <4>2, TwoSides
      <4>5. QED
        BY <4>3, <4>4
    <3>2. QED
      BY <2>2, <3>1
  <2>4. LacksAt(T, p, h)
    BY <1>3, <2>3 DEF LacksAt, Lacking
  <2>5. QED
    BY <2>1, <2>4 DEF Removing
<1>4. QED
  BY <1>2, <1>3

(* The heights that RedBlack compares are those of the invariant.          *)
LEMMA BlackHeightIs ==
  ASSUME tree \in Trees, NEW T, NEW C, NEW first, Shape(tree, T, C, first),
         NEW gp, NEW gs, LacksAt(T, gp, gs), NEW b \in Counts, Heights(tree, T, gp, gs, b),
         NEW x \in T \cup {Null}
  PROVE  BlackHeight(x) = b[x]
<1>1. PICK e \in Ranks : Forest(tree, T, C) /\ Ranked(tree, e)
  BY DEF Shape
<1>2. PICK M \in Nat : \E q \in [Nodes -> 0..M] :
        \A n \in Nodes, s \in Sides : tree.child[s][n] # Null =>
          tree.child[s][n] \in Nodes /\ q[tree.child[s][n]] < q[n]
  BY <1>1, Downwards
<1>3. PICK q \in [Nodes -> 0..M] :
        \A n \in Nodes, s \in Sides : tree.child[s][n] # Null =>
          tree.child[s][n] \in Nodes /\ q[tree.child[s][n]] < q[n]
  BY <1>2
<1> DEFINE S == Nodes \cup {Null}
           l == [n \in S |-> IF n = Null THEN Null ELSE tree.child["left"][n]]
           add == [n \in S |-> Lacking(n, "left") + IF tree.black[n] THEN 1 ELSE 0]
           r == [n \in S |-> IF n = Null THEN 0 ELSE q[n] + 1]
           Is(g) == g = [m \in S |-> IF m = Null THEN 1
                           ELSE g[tree.child["left"][m]] + Lacking(m, "left") + IF tree.black[m] THEN 1 ELSE 0]
           h == CHOOSE g : Is(g)
           step == [a \in S \X [S -> Nat] |-> IF a[1] = Null THEN 1 ELSE a[2][l[a[1]]] + add[a[1]]]
<1>4. l \in [S -> S] /\ add \in [S -> Nat] /\ r \in [S -> 0..(M + 1)]
  <2>1. l \in [S -> S]
    BY TreeFields DEF Places, Sides
  <2>2. add \in [S -> Nat]
    BY DEF Lacking
  <2>3. r \in [S -> 0..(M + 1)]
    OBVIOUS
  <2>4. QED
    BY <2>1, <2>2, <2>3
<1>5. \A n \in S : n # Null => l[n] = tree.child["left"][n] /\ r[l[n]] < r[n]
  <2> SUFFICES ASSUME NEW n \in S, n # Null
               PROVE  l[n] = tree.child["left"][n] /\ r[l[n]] < r[n]
    OBVIOUS
  <2>1. n \in Nodes /\ l[n] = tree.child["left"][n] /\ r[n] = q[n] + 1 /\ q[n] \in 0..M /\ "left" \in Sides
    BY DEF Sides
  <2>2. CASE l[n] = Null
    BY <2>1, <2>2
  <2>3. CASE l[n] # Null
    <3>1. l[n] \in Nodes /\ q[l[n]] < q[n]
      BY <1>3, <2>1, <2>3
    <3>2. r[l[n]] = q[l[n]] + 1 /\ q[l[n]] \in 0..M
      BY <3>1, RBTreeAssumption
    <3>3. QED
      BY <2>1, <3>1, <3>2
  <2>4. QED
    BY <2>2, <2>3
<1>6. \A n \in S, f \in [S -> Nat] : step[<<n, f>>] = IF n = Null THEN 1 ELSE f[l[n]] + add[n]
  BY DEF step
<1>7. step \in [S \X [S -> Nat] -> Nat]
  <2> HIDE DEF l, add
  <2>1. QED
    BY <1>4
<1>8. Recursive(S, Nat, M + 1, r, step)
  <2> HIDE DEF step, l, add, r
  <2>1. ASSUME NEW n \in S, NEW f \in [S -> Nat], NEW g \in [S -> Nat], \A m \in S : r[m] < r[n] => f[m] = g[m]
        PROVE  step[<<n, f>>] = step[<<n, g>>]
    <3>1. n # Null => f[l[n]] = g[l[n]]
      <4>1. n # Null => l[n] \in S /\ r[l[n]] < r[n]
        BY <1>4, <1>5
      <4>2. QED
        BY <2>1, <4>1
    <3> HIDE DEF S
    <3>2. QED
      BY <1>6, <3>1
  <2>2. M + 1 \in Nat /\ Nat # {}
    OBVIOUS
  <2>3. QED
    BY <1>4, <1>7, <2>1, <2>2 DEF Recursive
<1>9. \A g \in [S -> Nat], n \in S \ {Null} :
        g[l[n]] + add[n] = g[tree.child["left"][n]] + Lacking(n, "left") + IF tree.black[n] THEN 1 ELSE 0
  <2> SUFFICES ASSUME NEW g \in [S -> Nat], NEW n \in S \ {Null}
               PROVE  g[l[n]] + add[n] = g[tree.child["left"][n]] + Lacking(n, "left") + IF tree.black[n] THEN 1 ELSE 0
    OBVIOUS
  <2>1. l[n] \in S /\ l[n] = tree.child["left"][n]
    BY <1>4, <1>5
  <2>2. g[l[n]] \in Nat
    BY <2>1
  <2>3. Lacking(n, "left") \in Nat
    BY DEF Lacking
  <2>4. add[n] = Lacking(n, "left") + IF tree.black[n] THEN 1 ELSE 0
    OBVIOUS
  <2> HIDE DEF l, add
  <2>5. QED
    BY <2>1, <2>2, <2>3, <2>4
<1>10. PICK f : Solves(S, Nat, step, f)
  BY <1>8, Recursion
<1>11. Is(f)
  <2>1. f \in [S -> Nat] /\ \A n \in S : f[n] = step[<<n, f>>]
    BY <1>10 DEF Solves
  <2> HIDE DEF step, l, add
  <2>2. \A n \in S : f[n] = IF n = Null THEN 1
          ELSE f[tree.child["left"][n]] + Lacking(n, "left") + IF tree.black[n] THEN 1 ELSE 0
    BY <1>6, <1>9, <2>1
  <2>3. QED
    BY <2>1, <2>2
<1>12. Is(h)
  <2> HIDE DEF Is
  <2>1. QED
    BY <1>11
<1>13. BlackHeight(x) = h[x]
  BY DEF BlackHeight
<1> HIDE DEF h
<1> DEFINE B == {n \in S : n \in T \cup {Null} => h[n] = b[n]}
<1>14. ASSUME NEW n \in S, \A m \in S : r[m] < r[n] => m \in B PROVE n \in B
  <2>1. CASE n = Null
    BY <1>12, <2>1 DEF Heights
  <2>2. CASE n \in T /\ n # Null
    <3> DEFINE m == tree.child["left"][n]
    <3>1. m \in S /\ r[m] < r[n] /\ "left" \in Sides
      <4> HIDE DEF l, r
      <4>1. QED
        BY <1>4, <1>5, <2>2 DEF Sides
    <3>2. m \in T \cup {Null}
      BY <2>2, <3>1, Child
    <3>3. h[m] = b[m] /\ b[m] \in Nat
      <4>1. m \in B
        BY <1>14, <3>1
      <4>2. QED
        BY <3>1, <3>2, <4>1 DEF Counts
    <3>4. h[n] = h[m] + Lacking(n, "left") + IF tree.black[n] THEN 1 ELSE 0
      BY <1>12, <2>2
    <3>5. Climbs(b[n], b[m], n = gp /\ "left" = gs, tree.black[n])
      BY <2>2, <3>1 DEF Heights
    <3>6. Lacking(n, "left") = IF n = gp /\ "left" = gs THEN 1 ELSE 0
      BY <2>2, <3>1 DEF LacksAt
    <3>7. b[n] \in Nat /\ tree.black[n] \in BOOLEAN
      BY <2>2, TreeFields DEF Counts
    <3> HIDE DEF m
    <3>8. h[n] = b[n]
      BY <3>3, <3>4, <3>5, <3>6, <3>7 DEF Climbs
    <3>9. QED
      BY <3>8
  <2>3. QED
    BY <2>1, <2>2
<1>15. r \in [S -> Nat]
  BY <1>4
<1>16. x \in S
  BY <1>1 DEF Forest
<1> HIDE DEF B, r, S
<1>17. x \in B
  BY <1>14, <1>15, <1>16, RankInduction
<1>18. QED
  BY <1>13, <1>17 DEF B

(* The heights and the colours are what RedBlack says.                     *)
LEMMA RedBlackHolds == IInv => RedBlack
<1> SUFFICES ASSUME IInv PROVE RedBlack
  OBVIOUS
<1>1. PICK T, C \in SUBSET Nodes : Held(T, C)
  BY DEF IInv
<1>2. tree \in Trees /\ Shape(tree, T, C, begin) /\ Linked = T
  BY <1>1, HeldShape
<1>3. PICK gp, gs, tip : /\ Balanced(tree, T, gp, gs, tip) /\ LacksAt(T, gp, gs)
                         /\ tip # Null => pc = "inserting" /\ tip = at
  BY <1>1, HeldBalanced
<1>4. PICK b \in Counts : Heights(tree, T, gp, gs, b)
  BY <1>3 DEF Balanced
<1>5. Root(tree) # Null => tree.black[Root(tree)]
  BY <1>3 DEF Balanced, Reds
<1>6. ASSUME NEW n \in T, IsRed(tree, n), IsRed(tree, tree.parent[n])
      PROVE  pc = "inserting" /\ n = at
  <2>1. n # Root(tree)
    BY <1>5, <1>6 DEF IsRed
  <2>2. tree.parent[n] \in T /\ \E s \in Sides : tree.child[s][tree.parent[n]] = n
    BY <1>2, <2>1, Inner
  <2>3. n = tip /\ n # Null
    BY <1>3, <1>6, <2>2 DEF Balanced, Reds, IsRed
  <2>4. QED
    BY <1>3, <2>3
<1>7. ASSUME NEW n \in T
      PROVE  BlackHeight(tree.child["left"][n]) + Lacking(n, "left")
               = BlackHeight(tree.child["right"][n]) + Lacking(n, "right")
  <2>1. "left" \in Sides /\ "right" \in Sides
    BY DEF Sides
  <2>2. \A s \in Sides : tree.child[s][n] \in T \cup {Null}
    BY <1>2, Child
  <2>3. \A s \in Sides : BlackHeight(tree.child[s][n]) = b[tree.child[s][n]]
    BY <1>2, <1>3, <1>4, <2>2, BlackHeightIs
  <2>4. \A s \in Sides : b[tree.child[s][n]] \in Nat /\ b[n] \in Nat /\ tree.black[n] \in BOOLEAN
    BY <1>2, <2>2, TreeFields DEF Counts
  <2>5. \A s \in Sides : Climbs(b[n], b[tree.child[s][n]], n = gp /\ s = gs, tree.black[n])
    BY <1>4 DEF Heights
  <2>6. \A s \in Sides : Lacking(n, s) = IF n = gp /\ s = gs THEN 1 ELSE 0
    BY <1>3 DEF LacksAt
  <2>7. ASSUME NEW s \in Sides
        PROVE  b[tree.child[s][n]] + Lacking(n, s) = b[n] - IF tree.black[n] THEN 1 ELSE 0
    BY <2>4, <2>5, <2>6 DEF Climbs
  <2>8. QED
    BY <2>1, <2>3, <2>7
<1>8. QED
  BY <1>2, <1>5, <1>6, <1>7 DEF RedBlack

(* Children point back at their parents, the local root of a loop is the   *)
(* root of the tree, and begin() is the leftmost node, whatever calls      *)
(* there are and however they interleave with assignments that throw.      *)
THEOREM LinksAreExact == Spec => []LinksExact
BY Sound, LinksExactHolds, PTL

(* The root is black, no red node but the one at hand has a red parent,    *)
(* and the ways down from a node have the same number of black nodes but   *)
(* for the hole of a removal: __tree_invariant for a tree of any size.     *)
THEOREM AlwaysRedBlack == Spec => []RedBlack
BY Sound, RedBlackHolds, PTL

(* A node that is allocated is in the tree, in the cache or let go of by   *)
(* an assignment, and never in two of them: none is freed twice.           *)
THEOREM NodesAreAccounted == Spec => []NodesAccounted
BY Sound, NodesAccountedHolds, PTL

(* The variables that the shape does not speak of.                         *)
Plain ==
  /\ key \in [Nodes -> Keys] /\ assigning \in BOOLEAN
  /\ pc = "idle" => at = Null /\ root = Null

LEMMA PlainBegins ==
  ASSUME Keys # {}, Init
  PROVE  Plain
<1>1. AnyKey \in Keys
  BY DEF AnyKey
<1>2. QED
  BY <1>1 DEF Init, Plain

(* Keys come from where they are offered.                                  *)
LEMMA PlainStays ==
  ASSUME Keys # {}, Plain, IInv, [Next]_vars
  PROVE  Plain'
<1>1. AnyKey \in Keys /\ Offered \subseteq Keys
  BY DEF AnyKey, Offered
<1>2. \A S : FreeKeys(S) \in [Nodes -> Keys]
  BY <1>1 DEF FreeKeys, Plain
<1> HIDE DEF AnyKey
<1>3. \A k \in Offered, n \in Nodes : [key EXCEPT ![n] = k] \in [Nodes -> Keys]
  BY <1>1 DEF Plain
<1>4. CASE UNCHANGED vars
  BY <1>4 DEF vars, Plain
<1>5. ASSUME NEW k \in Offered, NEW h,
             InsertUnique(k) \/ InsertMulti(k) \/ InsertUniqueNear(h, k) \/ InsertMultiNear(h, k)
      PROVE  Plain'
  <2>1. PICK place : Create(k, place)
    BY <1>5 DEF InsertUnique, InsertMulti, InsertUniqueNear, InsertMultiNear
  <2>2. key' = [key EXCEPT ![New(k)] = k] /\ pc' = "inserting" /\ assigning' = assigning
    BY <2>1 DEF Create, InsertNodeAt
  <2>3. key' \in [Nodes -> Keys]
    BY <1>1, <2>2 DEF Plain
  <2>4. QED
    BY <2>2, <2>3 DEF Plain
<1>6. ASSUME NEW z \in Nodes, Erase(z) \/ RemoveNode(z) PROVE Plain'
  <2>1. Unlink(z) /\ key' = FreeKeys({z}) /\ assigning' = assigning
    BY <1>6 DEF Erase, RemoveNode
  <2>2. pc' = "removing" \/ (pc' = "idle" /\ at' = Null /\ root' = Null)
    BY <2>1, ZenonT(30) DEF Unlink
  <2>3. QED
    BY <1>2, <2>1, <2>2 DEF Plain
<1>7. CASE Clear
  BY <1>2, <1>7 DEF Clear, Plain
<1>8. CASE BeginAssign
  BY <1>8 DEF BeginAssign, Plain
<1>9. CASE EndAssign
  BY <1>2, <1>9 DEF EndAssign, Plain
<1>10. ASSUME NEW k \in Offered, AssignNext(k) PROVE Plain'
  <2>1. key' = [key EXCEPT ![cache] = k] /\ assigning' = assigning
    BY <1>10 DEF AssignNext
  <2>2. key' \in [Nodes -> Keys]
    BY <1>1, <2>1 DEF Plain
  <2>3. pc' = "inserting" \/ UNCHANGED <<pc, at, root>>
    BY <1>10 DEF AssignNext, InsertNodeAt
  <2>4. QED
    BY <2>1, <2>2, <2>3 DEF Plain
<1>11. ASSUME NEW k \in Offered, ThrowInAssign(k) PROVE Plain'
  <2> DEFINE S == CacheNodes(Detached.tree)
             v == IF cache \in S THEN AnyKey ELSE k
  <2>1. key' = [FreeKeys(S) EXCEPT ![cache] = v] /\ v \in Keys
    BY <1>1, <1>11 DEF ThrowInAssign
  <2> HIDE DEF S, v
  <2>2. key' \in [Nodes -> Keys]
    BY <1>2, <2>1
  <2>3. assigning' = FALSE /\ UNCHANGED <<pc, at, root>>
    BY <1>11 DEF ThrowInAssign
  <2>4. QED
    BY <2>2, <2>3 DEF Plain
<1>12. CASE Rebalance
  <2>1. /\ UNCHANGED <<key, assigning>>
        /\ (pc' = pc /\ pc # "idle") \/ (pc' = "idle" /\ at' = Null /\ root' = Null)
    BY <1>12 DEF Rebalance, EndInsertion, Recolour, RotateAndEnd, LiftRedSibling, PassBlackUp, LiftSibling
  <2>2. QED
    BY <2>1 DEF Plain
<1>13. QED
  BY <1>4, <1>5, <1>6, <1>7, <1>8, <1>9, <1>10, <1>11, <1>12 DEF Next

LEMMA TypesHold == Plain /\ IInv => TypeOK
<1> SUFFICES ASSUME Plain, IInv PROVE TypeOK
  OBVIOUS
<1>1. PICK T, C \in SUBSET Nodes : Held(T, C)
  BY DEF IInv
<1>2. /\ tree \in Trees /\ Shape(tree, T, C, begin) /\ Linked = T
      /\ allocated = T \cup C \cup lost /\ lost \subseteq Nodes /\ size = Cardinality(T)
  BY <1>1, HeldShape DEF Held, Store
<1>3. begin \in Nodes \cup {End}
  BY <1>2 DEF Shape, Spine
<1>4. Root(tree) \in Nodes \cup {Null}
  BY <1>2, TreeFields DEF Root, Sides, Places
<1>5. /\ pc \in {"idle", "inserting", "removing"}
      /\ pc # "idle" => at \in Nodes /\ root = Root(tree)
  BY <1>1 DEF Held, Loop, Inserting, Removing
<1>6. cache \in Nodes \cup {Null}
  BY <1>1 DEF Held, CacheReady, Pickable
<1>7. tree \in [child  : [Sides -> [Nodes \cup {End} -> Nodes \cup {Null}]],
                 parent : [Nodes -> Nodes \cup {End, Null}],
                 black  : [Nodes -> BOOLEAN]]
  BY <1>2 DEF Trees, Places
<1>8. allocated \subseteq Nodes /\ program \in Programs
  BY <1>2 DEF IInv
<1>9. QED
  BY <1>2, <1>3, <1>4, <1>5, <1>6, <1>7, <1>8 DEF TypeOK, Plain

(* Every variable has its type, and size() is the number of nodes below    *)
(* the end node after every step, of an assignment that throws as well.    *)
THEOREM TypeCorrect ==
  ASSUME Keys # {}
  PROVE  Spec => []TypeOK
<1>1. Init => Plain
  BY PlainBegins
<1>2. Plain /\ IInv /\ [Next]_vars => Plain'
  BY PlainStays
<1>3. Plain /\ IInv => TypeOK
  BY TypesHold
<1>4. QED
  BY <1>1, <1>2, <1>3, Sound, PTL DEF Spec
==============================================================================
