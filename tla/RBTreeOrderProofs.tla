--------------------------- MODULE RBTreeOrderProofs ---------------------------
(***************************************************************************)
(* The red-black tree for any number of nodes and keys and any series of   *)
(* calls: its elements are in the order of the keys, the searches find     *)
(* what a walk over the elements finds, and the tree implements a sorted   *)
(* sequence, in which an insertion puts an element where it is asked to.   *)
(*                                                                         *)
(* The walk over the elements is recursive and cannot be reasoned about as *)
(* it stands.  So the places of the tree are numbered in order (Inorder),  *)
(* with the bounds of the numbers below every node; each rotation, splice  *)
(* and exchange of links is shown to keep such a numbering or to take one  *)
(* number out or put one in, and the walk to visit the numbers in turn.    *)
(***************************************************************************)
EXTENDS RBTreeProofs, SequenceTheorems

(***************************************************************************)
(* Numbers in order.  g.pos counts the nodes of the tree from 1, and the   *)
(* end node; the numbers of the nodes below n are those between g.lo[n]    *)
(* and g.hi[n].                                                            *)
(***************************************************************************)
Numberings == [pos : [Places -> Nat], lo : [Places -> Nat], hi : [Places -> Nat]]

(* The bounds of what is below n on side s.                                *)
Lower(g, s, n) == IF s = "left" THEN g.lo[n] ELSE g.pos[n]
Upper(g, s, n) == IF s = "left" THEN g.pos[n] ELSE g.hi[n]

(* There is nothing between the bounds of a null leaf, and a child has the *)
(* bounds of its place.                                                    *)
Fits(t, g, s, n) ==
  IF t.child[s][n] = Null THEN Upper(g, s, n) = Lower(g, s, n) + 1
  ELSE g.lo[t.child[s][n]] = Lower(g, s, n) /\ g.hi[t.child[s][n]] = Upper(g, s, n)

(* The places in the tree where a child may be.                            *)
At(T, s, n) == n \in T \cup {End} /\ s \in Sides /\ (n = End => s = "left")

Counted(T, g) ==
  /\ \A m, n \in T \cup {End} : g.pos[m] = g.pos[n] => m = n
  /\ \A n \in T : 0 < g.pos[n] /\ g.pos[n] < g.pos[End]
  /\ \A i \in 1..g.pos[End] - 1 : \E n \in T : g.pos[n] = i

Inorder(t, T, g) ==
  /\ g \in Numberings /\ g.lo[End] = 0 /\ 0 < g.pos[End]
  /\ \A n \in T \cup {End}, s \in Sides : At(T, s, n) => Fits(t, g, s, n)
  /\ \A n \in T : g.lo[n] < g.pos[n] /\ g.pos[n] < g.hi[n]
  /\ Counted(T, g)

(* The types of the numbers.                                               *)
LEMMA NumbersAre ==
  ASSUME NEW g \in Numberings, NEW n \in Places
  PROVE  /\ g.pos[n] \in Nat /\ g.lo[n] \in Nat /\ g.hi[n] \in Nat
         /\ \A s \in Sides : Lower(g, s, n) \in Nat /\ Upper(g, s, n) \in Nat
BY DEF Numberings, Lower, Upper

(* A rotation leaves the order as it is.                                   *)
LEMMA TurnInorder ==
  ASSUME NEW t \in Trees, NEW T, NEW C, NEW e \in Ranks, Forest(t, T, C), Ranked(t, e),
         NEW s \in Sides, NEW x \in T, NEW o, NEW y, NEW d, NEW p, NEW t2,
         o = Other(s), y = t.child[o][x], d = Side(t, x), p = t.parent[x], y # Null,
         Turned(t, s, x, o, y, d, p, t2), NEW g, Inorder(t, T, g)
  PROVE  \E g2 : Inorder(t2, T, g2) /\ g2.pos = g.pos
<1> DEFINE z == t.child[s][y]
           lo3 == [g.lo EXCEPT ![y] = g.lo[x], ![x] = IF s = "left" THEN g.lo[x] ELSE g.pos[y]]
           hi3 == [g.hi EXCEPT ![y] = g.hi[x], ![x] = IF s = "left" THEN g.pos[y] ELSE g.hi[x]]
           g2 == [pos |-> g.pos, lo |-> lo3, hi |-> hi3]
<1>1. o \in Sides /\ o # s /\ (\A q \in Sides : q = s \/ q = o) /\ Other(s) = o /\ Other(o) = s
  BY TwoSides
<1>2. /\ x \in T \cup C /\ x \in Nodes /\ x \in Places /\ x # End /\ x # Null
      /\ p # x /\ p \in T \cup {End}
  BY Above
<1>3. p # Null /\ p \in Places
  BY <1>2, RBTreeAssumption DEF Forest, Places
<1>4. d \in Sides /\ t.child[d][p] = x /\ t.child[Other(d)][p] # x /\ (p = End => d = "left")
  BY <1>2, <1>3, Above
<1>5. y \in T /\ y \in Nodes /\ y # x /\ y # End /\ y \in Places /\ t.parent[y] = x /\ y # p
  BY <1>1, <1>2, Below
<1>6. z # Null => z \in T /\ z \in Places /\ z # y /\ z # x /\ t.parent[z] = y
  BY <1>2, <1>5, Below
<1>7. g \in Numberings /\ T \subseteq Places /\ End \in Places
  BY DEF Inorder, Forest, Places
<1>8. /\ g.pos \in [Places -> Nat] /\ g.lo \in [Places -> Nat] /\ g.hi \in [Places -> Nat]
  BY <1>7 DEF Numberings
<1>9. g2 \in Numberings
  BY <1>2, <1>5, <1>8 DEF Numberings
<1>10. \A n \in Places : /\ lo3[n] = IF n = x THEN (IF s = "left" THEN g.lo[x] ELSE g.pos[y])
                                     ELSE IF n = y THEN g.lo[x] ELSE g.lo[n]
                         /\ hi3[n] = IF n = x THEN (IF s = "left" THEN g.pos[y] ELSE g.hi[x])
                                     ELSE IF n = y THEN g.hi[x] ELSE g.hi[n]
  BY <1>2, <1>5, <1>8
<1>11. g2.pos = g.pos /\ g2.lo = lo3 /\ g2.hi = hi3
  OBVIOUS
<1> HIDE DEF lo3, hi3, g2
<1>12. Fits(t, g, o, x) /\ Fits(t, g, s, y) /\ Fits(t, g, d, p) /\ Fits(t, g, s, x) /\ Fits(t, g, o, y)
  BY <1>1, <1>2, <1>4, <1>5 DEF Inorder, At
<1>13. /\ g.lo[y] = Lower(g, o, x) /\ g.hi[y] = Upper(g, o, x)
       /\ g.lo[x] = Lower(g, d, p) /\ g.hi[x] = Upper(g, d, p)
       /\ g.lo[x] < g.pos[x] /\ g.pos[x] < g.hi[x] /\ g.lo[y] < g.pos[y] /\ g.pos[y] < g.hi[y]
  BY <1>2, <1>4, <1>5, <1>12 DEF Fits, Inorder
<1>14. \A n \in T : g2.lo[n] < g2.pos[n] /\ g2.pos[n] < g2.hi[n]
  <2> SUFFICES ASSUME NEW n \in T PROVE g2.lo[n] < g2.pos[n] /\ g2.pos[n] < g2.hi[n]
    OBVIOUS
  <2>1. n \in Places /\ g.lo[n] < g.pos[n] /\ g.pos[n] < g.hi[n]
    BY <1>7 DEF Inorder
  <2>2. g.lo[x] \in Nat /\ g.hi[x] \in Nat /\ g.pos[x] \in Nat /\ g.pos[y] \in Nat /\ g.lo[y] \in Nat /\ g.hi[y] \in Nat
    BY <1>2, <1>5, <1>8
  <2>3. s = "left" \/ s = "right"
    BY DEF Sides
  <2>4. QED
    BY <1>1, <1>10, <1>11, <1>13, <2>1, <2>2, <2>3 DEF Lower, Upper, Other
<1>15. ASSUME NEW n \in T \cup {End}, NEW q \in Sides, At(T, q, n) PROVE Fits(t2, g2, q, n)
  <2>1. Fits(t, g, q, n) /\ n \in Places
    BY <1>7, <1>15 DEF Inorder
  <2>2. t2.child[q][n] =
           IF q = s /\ n = y THEN x ELSE IF q = d /\ n = p THEN y
           ELSE IF q = o /\ n = x THEN z ELSE t.child[q][n]
    BY <2>1 DEF Turned, z
  <2>3. t.child[q][n] # Null => t.child[q][n] \in Nodes /\ t.child[q][n] \in Places /\ t.parent[t.child[q][n]] = n
    BY <2>1, TreeFields DEF Forest, LinksAgree, Places
  <2>4. CASE q = s /\ n = y
    BY <1>1, <1>2, <1>5, <1>10, <1>11, <1>13, <2>2, <2>4 DEF Fits, Lower, Upper, Sides, Other
  <2>5. CASE q = d /\ n = p
    <3>1. t2.child[q][n] = y
      BY <1>5, <2>2, <2>5
    <3>2. /\ Lower(g2, d, p) = Lower(g, d, p) /\ Upper(g2, d, p) = Upper(g, d, p)
      BY <1>2, <1>3, <1>5, <1>10, <1>11 DEF Lower, Upper
    <3>3. QED
      BY <1>5, <1>10, <1>11, <1>13, <2>5, <3>1, <3>2 DEF Fits
  <2>6. CASE q = o /\ n = x
    <3>1. t2.child[q][n] = z
      BY <1>2, <1>5, <2>2, <2>6
    <3>2. z # Null => g2.lo[z] = g.lo[z] /\ g2.hi[z] = g.hi[z]
      BY <1>6, <1>10, <1>11
    <3>3. Lower(g2, o, x) = Lower(g, s, y) /\ Upper(g2, o, x) = Upper(g, s, y)
      BY <1>1, <1>2, <1>5, <1>10, <1>11, <1>13 DEF Lower, Upper, Sides, Other
    <3>4. QED
      BY <1>12, <2>6, <3>1, <3>2, <3>3 DEF Fits, z
  <2>7. CASE ~(q = s /\ n = y) /\ ~(q = d /\ n = p) /\ ~(q = o /\ n = x)
    <3>1. t2.child[q][n] = t.child[q][n]
      BY <2>2, <2>7
    <3>2. Lower(g2, q, n) = Lower(g, q, n) /\ Upper(g2, q, n) = Upper(g, q, n)
      <4>1. CASE n # x /\ n # y
        BY <1>10, <1>11, <2>1, <4>1 DEF Lower, Upper
      <4>2. CASE n = x
        <5>1. q = s
          BY <1>1, <2>7, <4>2
        <5>2. QED
          BY <1>10, <1>11, <2>1, <4>2, <5>1 DEF Lower, Upper
      <4>3. CASE n = y
        <5>1. q = o
          BY <1>1, <2>7, <4>3
        <5>2. QED
          BY <1>1, <1>5, <1>10, <1>11, <1>13, <2>1, <4>3, <5>1 DEF Lower, Upper, Sides, Other
      <4>4. QED
        BY <4>1, <4>2, <4>3
    <3>3. t.child[q][n] # x
      <4>1. n = p => q = Other(d)
        BY <1>4, <2>7, TwoSides
      <4>2. QED
        BY <1>4, <2>3, <1>2, <4>1
    <3>4. t.child[q][n] # y
      <4>1. n = x => q = s
        BY <1>1, <2>7
      <4>2. t.child[s][x] # y
        BY <1>1, <1>2, <1>5 DEF Forest, LinksAgree
      <4>3. QED
        BY <1>5, <2>3, <4>1, <4>2, RBTreeAssumption DEF Places
    <3>5. t.child[q][n] # Null =>
            g2.lo[t.child[q][n]] = g.lo[t.child[q][n]] /\ g2.hi[t.child[q][n]] = g.hi[t.child[q][n]]
      BY <1>10, <1>11, <2>3, <3>3, <3>4
    <3>6. QED
      BY <2>1, <3>1, <3>2, <3>5 DEF Fits
  <2>8. QED
    BY <2>4, <2>5, <2>6, <2>7
<1>16. Counted(T, g2)
  BY <1>11 DEF Counted, Inorder
<1>17. g2.lo[End] = 0 /\ 0 < g2.pos[End]
  BY <1>2, <1>5, <1>7, <1>10, <1>11 DEF Inorder
<1>18. Inorder(t2, T, g2)
  BY <1>9, <1>14, <1>15, <1>16, <1>17 DEF Inorder
<1>19. QED
  BY <1>11, <1>18

(* The bounds of a node are those of its place.                            *)
LEMMA PlaceOf ==
  ASSUME NEW t \in Trees, NEW T, NEW C, NEW e \in Ranks, Forest(t, T, C), Ranked(t, e),
         NEW g, Inorder(t, T, g), NEW n \in T
  PROVE  LET p == t.parent[n]
             d == Side(t, n)
         IN  /\ At(T, d, p) /\ t.child[d][p] = n /\ p \in Places
             /\ g.lo[n] = Lower(g, d, p) /\ g.hi[n] = Upper(g, d, p)
<1> DEFINE p == t.parent[n]
           d == Side(t, n)
<1>1. /\ n \in T \cup C /\ n # Null /\ p \in T \cup {End} 
  BY Above
<1>2. p # Null
  BY <1>1, RBTreeAssumption DEF Forest
<1>3. d \in Sides /\ t.child[d][p] = n /\ (p = End => d = "left") /\ p \in Places
  BY <1>1, <1>2, Above
<1>4. At(T, d, p)
  BY <1>1, <1>3 DEF At
<1>5. Fits(t, g, d, p)
  BY <1>1, <1>3, <1>4 DEF Inorder
<1>6. QED
  BY <1>1, <1>3, <1>4, <1>5 DEF Fits

(* A node with the number of a bound of n has what is below n below it.    *)
Encloses(T, g, n) ==
  /\ \A m \in T : g.pos[m] = g.lo[n] => g.hi[n] <= g.hi[m]
  /\ \A m \in T \cup {End} : g.pos[m] = g.hi[n] => g.lo[m] <= g.lo[n]

LEMMA Enclosed ==
  ASSUME NEW t \in Trees, NEW T, NEW C, NEW e \in Ranks, Forest(t, T, C), Ranked(t, e),
         NEW g, Inorder(t, T, g), NEW n \in T
  PROVE  Encloses(T, g, n)
<1> DEFINE B == {m \in Nodes : m \in T => Encloses(T, g, m)}
<1>1. /\ g \in Numberings /\ T \subseteq Nodes /\ T \subseteq Places /\ End \in Places
      /\ \A m, k \in T \cup {End} : g.pos[m] = g.pos[k] => m = k
      /\ \A m \in T : /\ 0 < g.pos[m] /\ g.pos[m] < g.pos[End]
                      /\ g.lo[m] < g.pos[m] /\ g.pos[m] < g.hi[m]
      /\ g.lo[End] = 0
  BY DEF Inorder, Forest, Places, Counted
<1>2. ASSUME NEW m \in Nodes, \A k \in Nodes : e[k] < e[m] => k \in B PROVE m \in B
  <2> SUFFICES ASSUME m \in T PROVE Encloses(T, g, m)
    OBVIOUS
  <2> DEFINE p == t.parent[m]
             d == Side(t, m)
  <2>1. /\ At(T, d, p) /\ g.lo[m] = Lower(g, d, p) /\ g.hi[m] = Upper(g, d, p)
    BY PlaceOf
  <2>2. p \in T \cup {End} /\ d \in Sides /\ (p = End => d = "left") /\ p \in Places
    BY <1>1, <2>1 DEF At
  <2>3. p \in T => Encloses(T, g, p) /\ g.lo[p] < g.pos[p] /\ g.pos[p] < g.hi[p]
    BY <1>1, <1>2, <2>2 DEF Ranked
  <2> HIDE DEF p, d
  <2>4. \A k \in T \cup {End} : /\ k \in Places /\ g.pos[k] \in Nat /\ g.lo[k] \in Nat /\ g.hi[k] \in Nat
    BY <1>1, NumbersAre
  <2>5. g.pos[p] \in Nat /\ g.lo[p] \in Nat /\ g.hi[p] \in Nat
    BY <2>2, <2>4
  <2>6. d = "left" \/ d = "right"
    BY <2>2 DEF Sides
  <2>7. CASE d = "left"
    <3>1. g.lo[m] = g.lo[p] /\ g.hi[m] = g.pos[p]
      BY <2>1, <2>7 DEF Lower, Upper
    <3>2. ASSUME NEW k \in T, g.pos[k] = g.lo[m] PROVE g.hi[m] <= g.hi[k]
      <4>1. CASE p = End
        BY <1>1, <3>1, <3>2, <4>1
      <4>2. CASE p \in T
        <5>1. g.hi[p] <= g.hi[k] /\ g.pos[p] < g.hi[p] 
          BY <2>3, <3>1, <3>2, <4>2 DEF Encloses
        <5>2. QED
          BY <2>4, <2>5, <3>1, <5>1
      <4>3. QED
        BY <2>2, <4>1, <4>2
    <3>3. ASSUME NEW k \in T \cup {End}, g.pos[k] = g.hi[m] PROVE g.lo[k] <= g.lo[m]
      <4>1. k = p
        BY <1>1, <2>2, <3>1, <3>3
      <4>2. QED
        BY <2>5, <3>1, <4>1
    <3>4. QED
      BY <3>2, <3>3 DEF Encloses
  <2>8. CASE d = "right"
    <3>1. g.lo[m] = g.pos[p] /\ g.hi[m] = g.hi[p] /\ p \in T
      BY <2>1, <2>2, <2>8 DEF Lower, Upper
    <3>2. ASSUME NEW k \in T, g.pos[k] = g.lo[m] PROVE g.hi[m] <= g.hi[k]
      <4>1. k = p
        BY <1>1, <2>2, <3>1, <3>2
      <4>2. QED
        BY <2>5, <3>1, <4>1
    <3>3. ASSUME NEW k \in T \cup {End}, g.pos[k] = g.hi[m] PROVE g.lo[k] <= g.lo[m]
      <4>1. g.lo[k] <= g.lo[p] /\ g.lo[p] < g.pos[p] 
        BY <2>3, <3>1, <3>3 DEF Encloses
      <4>2. QED
        BY <2>4, <2>5, <3>1, <4>1
    <3>4. QED
      BY <3>2, <3>3 DEF Encloses
  <2>9. QED
    BY <2>6, <2>7, <2>8
<1> HIDE DEF B
<1>3. e \in [Nodes -> Nat]
  BY RanksAre
<1>4. \A m \in Nodes : m \in B
  BY <1>2, <1>3, RankInduction
<1>5. QED
  BY <1>1, <1>4 DEF B

(* No two null leaves are at the same place in the order.                  *)
LEMMA OneLeaf ==
  ASSUME NEW t \in Trees, NEW T, NEW C, NEW e \in Ranks, Forest(t, T, C), Ranked(t, e),
         NEW g, Inorder(t, T, g), NEW s, NEW n, NEW q, NEW m, At(T, s, n), At(T, q, m),
         t.child[s][n] = Null, t.child[q][m] = Null, Lower(g, s, n) = Lower(g, q, m)
  PROVE  n = m /\ s = q
<1>1. /\ g \in Numberings /\ T \subseteq Nodes /\ T \subseteq Places /\ End \in Places
      /\ \A k, l \in T \cup {End} : g.pos[l] = g.pos[k] => l = k
      /\ \A k \in T : /\ 0 < g.pos[k] /\ g.pos[k] < g.pos[End]
                      /\ g.lo[k] < g.pos[k] /\ g.pos[k] < g.hi[k]
      /\ g.lo[End] = 0
  BY DEF Inorder, Forest, Places, Counted
<1>2. /\ n \in T \cup {End} /\ m \in T \cup {End} /\ s \in {"left", "right"} /\ q \in {"left", "right"}
      /\ (n = End => s = "left") /\ (m = End => q = "left")
  BY DEF At, Sides
<1>3. \A k \in T \cup {End} : /\ g.pos[k] \in Nat /\ g.lo[k] \in Nat /\ g.hi[k] \in Nat
  BY <1>1, NumbersAre
<1>4. Upper(g, s, n) = Lower(g, s, n) + 1 /\ Upper(g, q, m) = Lower(g, q, m) + 1
  BY <1>2 DEF Inorder, Fits, Sides
<1>5. ASSUME NEW k \in T \cup {End}, NEW l \in T, Lower(g, "left", k) = Lower(g, "right", l),
             Upper(g, "left", k) = Lower(g, "left", k) + 1, Upper(g, "right", l) = Lower(g, "right", l) + 1
      PROVE  FALSE
  <2>1. g.lo[k] = g.pos[l] /\ g.pos[k] = g.lo[k] + 1 /\ g.hi[l] = g.pos[l] + 1
    BY <1>5 DEF Lower, Upper
  <2>2. CASE k = End
    BY <1>1, <2>1, <2>2
  <2>3. CASE k \in T
    <3>1. Encloses(T, g, k)
      BY <2>3, Enclosed
    <3>2. g.hi[k] <= g.hi[l]
      BY <2>1, <3>1 DEF Encloses
    <3>3. QED
      BY <1>1, <1>3, <2>1, <2>3, <3>2
  <2>4. QED
    BY <2>2, <2>3
<1>6. s = q
  BY <1>2, <1>4, <1>5
<1>7. g.pos[n] = g.pos[m]
  BY <1>2, <1>3, <1>4, <1>6 DEF Lower, Upper
<1>8. QED
  BY <1>1, <1>2, <1>6, <1>7

(* g2 is g with n as the element after the first a ones.                   *)
Opened(T, g, a, n, g2) ==
  /\ g2.pos[n] = a + 1
  /\ \A m \in T \cup {End} : g2.pos[m] = IF a < g.pos[m] THEN g.pos[m] + 1 ELSE g.pos[m]

(* The numbers of a set with one more.                                     *)
LEMMA OpenedCounted ==
  ASSUME NEW T, NEW g \in Numberings, NEW g2 \in Numberings, T \subseteq Nodes, Counted(T, g),
         NEW a \in Nat, a < g.pos[End], NEW n \in Nodes, n \notin T, Opened(T, g, a, n, g2)
  PROVE  Counted(T \cup {n}, g2)
<1>1. End \notin Nodes /\ T \subseteq Places /\ End \in Places
  BY RBTreeAssumption DEF Places
<1>2. \A m \in T \cup {End} : g.pos[m] \in Nat
  BY <1>1, NumbersAre
<1>3. \A m \in T \cup {End} : g2.pos[m] # a + 1
  BY <1>2 DEF Opened
<1>4. \A m, k \in T \cup {n} \cup {End} : g2.pos[m] = g2.pos[k] => m = k
  <2>1. \A m, k \in T \cup {End} : g2.pos[m] = g2.pos[k] => m = k
    BY <1>2 DEF Opened, Counted
  <2>2. QED
    BY <1>3, <2>1 DEF Opened
<1>5. \A m \in T \cup {n} : 0 < g2.pos[m] /\ g2.pos[m] < g2.pos[End]
  BY <1>1, <1>2 DEF Opened, Counted
<1>6. ASSUME NEW i \in 1..g2.pos[End] - 1 PROVE \E m \in T \cup {n} : g2.pos[m] = i
  <2>0. g.pos[End] \in Nat /\ g2.pos[End] = g.pos[End] + 1
    BY <1>2 DEF Opened
  <2>1. CASE i = a + 1
    BY <2>1 DEF Opened
  <2>2. CASE i < a + 1
    <3>1. i \in 1..g.pos[End] - 1
      BY <2>0, <2>2
    <3>2. PICK m \in T : g.pos[m] = i
      BY <3>1 DEF Counted
    <3>3. QED
      BY <1>2, <2>2, <3>2 DEF Opened
  <2>3. CASE i > a + 1
    <3>1. i - 1 \in 1..g.pos[End] - 1
      BY <2>0, <2>3
    <3>2. PICK m \in T : g.pos[m] = i - 1
      BY <3>1 DEF Counted
    <3>3. g2.pos[m] = i
      BY <1>2, <2>3, <3>2 DEF Opened
    <3>4. QED
      BY <3>2, <3>3
  <2>4. QED
    BY <2>1, <2>2, <2>3
<1>7. QED
  BY <1>4, <1>5, <1>6 DEF Counted

(* A new node at a null leaf comes where the leaf is in the order.         *)
LEMMA HangInorder ==
  ASSUME NEW t \in Trees, NEW T, NEW C, NEW e \in Ranks, Forest(t, T, C), Ranked(t, e),
         NEW g, Inorder(t, T, g), NEW n \in Nodes, n \notin T \cup C, NEW p, NEW s, Open(t, T, p, s),
         NEW t2, Hung(t, n, p, s, t2)
  PROVE  \E g2 : Inorder(t2, T \cup {n}, g2) /\ Opened(T, g, Lower(g, s, p), n, g2)
<1> DEFINE a == Lower(g, s, p)
           Up(i) == IF a < i THEN i + 1 ELSE i
           pos2 == [m \in Places |-> IF m = n THEN a + 1 ELSE Up(g.pos[m])]
           lo2 == [m \in Places |-> IF m = n THEN a ELSE Up(g.lo[m])]
           hi2 == [m \in Places |-> IF m = n THEN a + 2 ELSE Up(g.hi[m])]
           g2 == [pos |-> pos2, lo |-> lo2, hi |-> hi2]
           T2 == T \cup {n}
<1>1. /\ g \in Numberings /\ T \subseteq Nodes /\ T \subseteq Places /\ End \in Places /\ End \notin Nodes
      /\ n \in Places /\ n # End /\ n # Null /\ g.lo[End] = 0 /\ 0 < g.pos[End] /\ Counted(T, g) /\ n \notin T
  BY RBTreeAssumption DEF Inorder, Forest, Places
<1>2. \A m \in Places : /\ g.pos[m] \in Nat /\ g.lo[m] \in Nat /\ g.hi[m] \in Nat
  BY <1>1, NumbersAre
<1>3. At(T, s, p) /\ p \in Places /\ s \in Sides /\ p # n /\ t.child[s][p] = Null
  BY <1>1 DEF Open, At
<1>4. a \in Nat
  BY <1>1, <1>3, NumbersAre
<1>5. Upper(g, s, p) = a + 1
  BY <1>3 DEF Inorder, Fits, At
<1> HIDE DEF a
<1>6. a < g.pos[End]
  <2>1. CASE s = "left"
    <3>1. g.pos[p] = a + 1
      BY <1>5, <2>1 DEF Upper
    <3>2. g.pos[p] <= g.pos[End]
      BY <1>1, <1>2, <1>3 DEF Counted, At
    <3>3. QED
      BY <1>1, <1>2, <1>3, <1>4, <3>1, <3>2
  <2>2. CASE s # "left"
    <3>1. g.pos[p] = a /\ p \in T
      BY <1>3, <2>2 DEF Lower, a, At
    <3>2. QED
      BY <1>1, <3>1 DEF Counted
  <2>3. QED
    BY <2>1, <2>2
<1>7. g2 \in Numberings
  BY <1>2, <1>4 DEF Numberings
<1>8. /\ g2.pos[n] = a + 1 /\ g2.lo[n] = a /\ g2.hi[n] = a + 2
      /\ \A m \in Places : m # n => /\ g2.pos[m] = IF a < g.pos[m] THEN g.pos[m] + 1 ELSE g.pos[m]
                                    /\ g2.lo[m] = IF a < g.lo[m] THEN g.lo[m] + 1 ELSE g.lo[m]
                                    /\ g2.hi[m] = IF a < g.hi[m] THEN g.hi[m] + 1 ELSE g.hi[m]
  BY <1>1
<1> HIDE DEF g2, pos2, lo2, hi2, Up
<1>9. Opened(T, g, a, n, g2)
  BY <1>1, <1>8 DEF Opened
<1>10. Counted(T2, g2)
  BY <1>1, <1>4, <1>6, <1>7, <1>9, OpenedCounted
<1>11. \A m \in T2 : g2.lo[m] < g2.pos[m] /\ g2.pos[m] < g2.hi[m]
  <2>1. \A m \in T : m \in Places /\ m # n /\ g.lo[m] < g.pos[m] /\ g.pos[m] < g.hi[m]
    BY <1>1 DEF Inorder
  <2>2. \A m \in T : g2.lo[m] < g2.pos[m] /\ g2.pos[m] < g2.hi[m]
    BY <1>2, <1>4, <1>8, <2>1
  <2>3. QED
    BY <1>4, <1>8, <2>2
<1>12. g2.lo[End] = 0 /\ 0 < g2.pos[End]
  BY <1>1, <1>2, <1>4, <1>8
<1>13. ASSUME NEW m \in T2 \cup {End}, NEW q \in Sides, At(T2, q, m) PROVE Fits(t2, g2, q, m)
  <2>1. t2.child[q][m] = IF m = n THEN Null ELSE IF q = s /\ m = p THEN n ELSE t.child[q][m]
    BY <1>1 DEF Hung
  <2>2. CASE m = n
    BY <1>4, <1>8, <2>1, <2>2 DEF Fits, Lower, Upper
  <2>3. CASE m # n /\ q = s /\ m = p
    <3>1. Lower(g2, s, p) = a /\ Upper(g2, s, p) = a + 2
      <4>1. s = "left" \/ s = "right"
        BY <1>3 DEF Sides
      <4>2. CASE s = "left"
        BY <1>2, <1>3, <1>4, <1>5, <1>8, <4>2 DEF a, Lower, Upper
      <4>3. CASE s = "right"
        BY <1>2, <1>3, <1>4, <1>5, <1>8, <4>3 DEF a, Lower, Upper
      <4>4. QED
        BY <4>1, <4>2, <4>3
    <3>2. QED
      BY <1>1, <1>8, <2>1, <2>3, <3>1 DEF Fits
  <2>4. CASE m # n /\ ~(q = s /\ m = p)
    <3>1. At(T, q, m) /\ t2.child[q][m] = t.child[q][m] /\ m \in Places
      BY <1>1, <1>13, <2>1, <2>4 DEF At
    <3>2. Fits(t, g, q, m)
      BY <3>1 DEF Inorder, At
    <3> DEFINE Pushed(i) == IF a < i THEN i + 1 ELSE i
    <3>3. Lower(g2, q, m) = Pushed(Lower(g, q, m)) /\ Upper(g2, q, m) = Pushed(Upper(g, q, m))
      BY <1>8, <2>4, <3>1 DEF Lower, Upper
    <3>4. Lower(g, q, m) \in Nat
      BY <1>1, <3>1, NumbersAre
    <3>5. CASE t.child[q][m] = Null
      <4>1. Lower(g, q, m) # a
        BY <1>3, <2>4, <3>1, <3>5, OneLeaf DEF a
      <4>2. QED
        BY <1>4, <3>1, <3>2, <3>3, <3>4, <3>5, <4>1 DEF Fits
    <3>6. CASE t.child[q][m] # Null
      <4>1. t.child[q][m] \in Places /\ t.child[q][m] # n
        <5>1. t.child[q][m] \in T
          BY <1>1, <3>1, <3>6 DEF Forest, LinksWithin, At
        <5>2. QED
          BY <1>1, <5>1
      <4>2. /\ g2.lo[t.child[q][m]] = Pushed(g.lo[t.child[q][m]])
            /\ g2.hi[t.child[q][m]] = Pushed(g.hi[t.child[q][m]])
        BY <1>8, <4>1
      <4>3. QED
        BY <3>1, <3>2, <3>3, <3>6, <4>2 DEF Fits
    <3>7. QED
      BY <3>5, <3>6
  <2>5. QED
    BY <2>2, <2>3, <2>4
<1>14. Inorder(t2, T2, g2)
  BY <1>7, <1>10, <1>11, <1>12, <1>13 DEF Inorder
<1>15. QED
  BY <1>9, <1>14 DEF a

(* g2 is g without y.                                                      *)
Closed(T, g, y, g2) ==
  \A m \in (T \ {y}) \cup {End} : g2.pos[m] = IF g.pos[y] < g.pos[m] THEN g.pos[m] - 1 ELSE g.pos[m]

(* The numbers of a set with one less.                                     *)
LEMMA ClosedCounted ==
  ASSUME NEW T, NEW g \in Numberings, NEW g2 \in Numberings, T \subseteq Nodes, Counted(T, g),
         NEW y \in T, Closed(T, g, y, g2)
  PROVE  Counted(T \ {y}, g2)
<1> DEFINE a == g.pos[y]
           T2 == T \ {y}
<1>1. End \notin Nodes /\ T \subseteq Places /\ End \in Places /\ y # End /\ T2 \subseteq T
  BY RBTreeAssumption DEF Places
<1>2. \A m \in T \cup {End} : g.pos[m] \in Nat
  BY <1>1, NumbersAre
<1>3. \A m \in T2 \cup {End} : g.pos[m] # a
  BY <1>1 DEF Counted
<1>4. a \in Nat /\ 0 < a /\ a < g.pos[End]
  BY <1>2 DEF Counted
<1>5. \A m \in T2 \cup {End} : g2.pos[m] = IF a < g.pos[m] THEN g.pos[m] - 1 ELSE g.pos[m]
  BY DEF Closed
<1> HIDE DEF a, T2
<1>6. \A m, k \in T2 \cup {End} : g2.pos[m] = g2.pos[k] => m = k
  <2> SUFFICES ASSUME NEW m \in T2 \cup {End}, NEW k \in T2 \cup {End}, g2.pos[m] = g2.pos[k] PROVE m = k
    OBVIOUS
  <2>1. /\ g.pos[m] \in Nat /\ g.pos[k] \in Nat /\ g.pos[m] # a /\ g.pos[k] # a
    BY <1>1, <1>2, <1>3
  <2>2. g.pos[m] = g.pos[k]
    BY <1>4, <1>5, <2>1
  <2>3. QED
    BY <1>1, <2>2 DEF Counted
<1>7. \A m \in T2 : 0 < g2.pos[m] /\ g2.pos[m] < g2.pos[End]
  <2> SUFFICES ASSUME NEW m \in T2 PROVE 0 < g2.pos[m] /\ g2.pos[m] < g2.pos[End]
    OBVIOUS
  <2>1. g.pos[m] \in Nat /\ g.pos[m] # a /\ 0 < g.pos[m] /\ g.pos[m] < g.pos[End] /\ g.pos[End] \in Nat
    BY <1>1, <1>2, <1>3 DEF Counted
  <2>2. QED
    BY <1>4, <1>5, <2>1
<1>8. ASSUME NEW i \in 1..g2.pos[End] - 1 PROVE \E m \in T2 : g2.pos[m] = i
  <2>1. g.pos[End] \in Nat /\ g2.pos[End] = g.pos[End] - 1
    BY <1>2, <1>4, <1>5
  <2>2. CASE i < a
    <3>1. i \in 1..g.pos[End] - 1
      BY <2>1
    <3>2. PICK m \in T : g.pos[m] = i
      BY <3>1 DEF Counted
    <3>3. m # y
      BY <1>4, <2>2, <3>2 DEF a
    <3>4. m \in T2 /\ g2.pos[m] = i
      BY <1>4, <1>5, <2>2, <3>2, <3>3 DEF T2
    <3>5. QED
      BY <3>4
  <2>3. CASE i >= a
    <3>1. i + 1 \in 1..g.pos[End] - 1
      BY <2>1
    <3>2. PICK m \in T : g.pos[m] = i + 1
      BY <3>1 DEF Counted
    <3>3. m # y
      BY <1>4, <2>3, <3>2 DEF a
    <3>4. m \in T2 /\ g2.pos[m] = i
      BY <1>4, <1>5, <2>3, <3>2, <3>3 DEF T2
    <3>5. QED
      BY <3>4
  <2>4. QED
    BY <1>4, <2>2, <2>3
<1>9. QED
  BY <1>6, <1>7, <1>8 DEF Counted, T2

(* Without y the others keep their order.                                  *)
LEMMA SpliceInorder ==
  ASSUME NEW t \in Trees, NEW T, NEW C, NEW first, Shape(t, T, C, first),
         NEW s, NEW y, NEW x, NEW d, NEW p, Spot(t, T, C, s, y, x, d, p),
         NEW u, Spliced(t, y, x, d, p, u), NEW g, Inorder(t, T, g)
  PROVE  \E g2 : Inorder(u, T \ {y}, g2) /\ Closed(T, g, y, g2)
<1> DEFINE a == g.pos[y]
           Dn(i) == IF a < i THEN i - 1 ELSE i
           Dl(i) == IF a <= i THEN i - 1 ELSE i
           pos2 == [m \in Places |-> Dn(g.pos[m])]
           lo2 == [m \in Places |-> Dl(g.lo[m])]
           hi2 == [m \in Places |-> Dn(g.hi[m])]
           g2 == [pos |-> pos2, lo |-> lo2, hi |-> hi2]
           T2 == T \ {y}
<1>1. /\ g \in Numberings /\ T \subseteq Nodes /\ T \subseteq Places /\ End \in Places /\ End \notin Nodes /\ Null \notin Places
      /\ g.lo[End] = 0 /\ 0 < g.pos[End] /\ Counted(T, g) /\ T2 \subseteq T
  BY RBTreeAssumption DEF Inorder, Forest, Shape, Places
<1>2. \A m \in Places : /\ g.pos[m] \in Nat /\ g.lo[m] \in Nat /\ g.hi[m] \in Nat
  BY <1>1, NumbersAre
<1>3. /\ y \in T /\ y \in Places /\ y # Null /\ y # End /\ p # y /\ p \in Places
      /\ p \in T \cup {End} /\ (p = End => d = "left")
      /\ d \in Sides /\ t.child[d][p] = y /\ t.child[Other(d)][p] # y
      /\ (x # Null => x \in T /\ x # y /\ x # p /\ t.parent[x] = y)
      /\ s \in Sides /\ t.child[s][y] = Null /\ x = t.child[Other(s)][y]
  BY SpotIs DEF Spot
<1>4. PICK e \in Ranks, sp \in SUBSET Places : Forest(t, T, C) /\ Ranked(t, e) /\ Spine(t, T, sp, first)
  BY DEF Shape
<1>5. /\ a \in Nat /\ 0 < a /\ a < g.pos[End] /\ g.lo[y] < a /\ a < g.hi[y]
      /\ \A m \in T2 \cup {End} : g.pos[m] # a
  BY <1>1, <1>2, <1>3 DEF Counted, Inorder
<1>6. Fits(t, g, s, y) /\ Fits(t, g, Other(s), y) /\ Fits(t, g, d, p) /\ Other(s) \in Sides /\ Other(s) # s
  BY <1>3, TwoSides DEF Inorder, At
<1> HIDE DEF a, T2
<1>7. g2 \in Numberings
  BY <1>2, <1>5 DEF Numberings
<1>8. \A m \in Places : g2.pos[m] = Dn(g.pos[m]) /\ g2.lo[m] = Dl(g.lo[m]) /\ g2.hi[m] = Dn(g.hi[m])
  OBVIOUS
<1> HIDE DEF g2, pos2, lo2, hi2
<1>9. Closed(T, g, y, g2)
  BY <1>1, <1>8 DEF Closed, a
<1>10. Counted(T2, g2)
  BY <1>1, <1>3, <1>7, <1>9, ClosedCounted DEF T2
<1>11. \A m \in T2 : g2.lo[m] < g2.pos[m] /\ g2.pos[m] < g2.hi[m]
  <2> SUFFICES ASSUME NEW m \in T2 PROVE g2.lo[m] < g2.pos[m] /\ g2.pos[m] < g2.hi[m]
    OBVIOUS
  <2>1. /\ m \in Places /\ g.lo[m] < g.pos[m] /\ g.pos[m] < g.hi[m] /\ g.pos[m] # a
        /\ g.pos[m] \in Nat /\ g.lo[m] \in Nat /\ g.hi[m] \in Nat
    BY <1>1, <1>2, <1>5 DEF Inorder
  <2>2. QED
    BY <1>5, <1>8, <2>1
<1>12. g2.lo[End] = 0 /\ 0 < g2.pos[End]
  BY <1>1, <1>2, <1>5, <1>8
(* The bounds of what is below y, without it.                              *)
<1>13. /\ g.lo[y] = Lower(g, d, p) /\ g.hi[y] = Upper(g, d, p)
       /\ x # Null => g2.lo[x] = Dl(g.lo[y]) /\ g2.hi[x] = Dn(g.hi[y])
       /\ x = Null => Dn(g.hi[y]) = Dl(g.lo[y]) + 1
  <2>1. g.lo[y] = Lower(g, d, p) /\ g.hi[y] = Upper(g, d, p)
    BY <1>3, <1>6 DEF Fits
  <2>2. Upper(g, s, y) = Lower(g, s, y) + 1
    BY <1>3, <1>6 DEF Fits
  <2>3. IF x = Null THEN Upper(g, Other(s), y) = Lower(g, Other(s), y) + 1
        ELSE g.lo[x] = Lower(g, Other(s), y) /\ g.hi[x] = Upper(g, Other(s), y)
    BY <1>3, <1>6 DEF Fits
  <2>4. g.lo[y] \in Nat /\ g.hi[y] \in Nat /\ a = g.pos[y]
    BY <1>2, <1>3 DEF a
  <2>5. x # Null => x \in Places
    BY <1>1, <1>3
  <2>6. CASE s = "left"
    BY <1>5, <1>8, <2>1, <2>2, <2>3, <2>4, <2>5, <2>6 DEF Lower, Upper, Other
  <2>7. CASE s = "right"
    BY <1>5, <1>8, <2>1, <2>2, <2>3, <2>4, <2>5, <2>7 DEF Lower, Upper, Other
  <2>8. QED
    BY <1>3, <2>6, <2>7 DEF Sides
<1>14. ASSUME NEW m \in T2 \cup {End}, NEW q \in Sides, At(T2, q, m) PROVE Fits(u, g2, q, m)
  <2>1. At(T, q, m) /\ m \in Places /\ m # y
    BY <1>1, <1>3, <1>14 DEF At, T2
  <2>2. u.child[q][m] = IF q = d /\ m = p THEN x ELSE t.child[q][m]
    BY <2>1 DEF Spliced
  <2>3. Fits(t, g, q, m)
    BY <2>1 DEF Inorder, At
  <2>4. Lower(g2, q, m) = Dl(Lower(g, q, m)) /\ Upper(g2, q, m) = Dn(Upper(g, q, m))
    BY <1>2, <1>5, <1>8, <2>1 DEF Lower, Upper
  <2>5. CASE q = d /\ m = p
    BY <1>13, <2>2, <2>4, <2>5 DEF Fits
  <2>6. CASE ~(q = d /\ m = p)
    <3>1. u.child[q][m] = t.child[q][m]
      BY <2>2, <2>6
    <3>2. CASE t.child[q][m] = Null
      <4>1. Lower(g, q, m) \in Nat /\ Upper(g, q, m) = Lower(g, q, m) + 1
        BY <1>1, <2>1, <2>3, <3>2, NumbersAre DEF Fits
      <4>2. Lower(g, q, m) = g.pos[m] \/ Upper(g, q, m) = g.pos[m]
        BY DEF Lower, Upper
      <4>3. g.pos[m] # a /\ g.pos[m] \in Nat
        BY <1>2, <1>5, <1>14, <2>1
      <4>4. Dn(Upper(g, q, m)) = Dl(Lower(g, q, m)) + 1
        BY <1>5, <4>1, <4>2, <4>3
      <4>5. QED
        BY <2>4, <3>1, <3>2, <4>4 DEF Fits
    <3>3. CASE t.child[q][m] # Null
      <4>1. t.child[q][m] \in Places
        BY <2>1, <3>3, TreeFields DEF Places
      <4>2. QED
        BY <1>8, <2>3, <2>4, <3>1, <3>3, <4>1 DEF Fits
    <3>4. QED
      BY <3>2, <3>3
  <2>7. QED
    BY <2>5, <2>6
<1>15. Inorder(u, T2, g2)
  BY <1>7, <1>10, <1>11, <1>12, <1>14 DEF Inorder
<1>16. QED
  BY <1>9, <1>15 DEF T2

(* g2 is g with y in the place of z.                                       *)
Swapped(T, g, z, y, g2) ==
  g2.pos[y] = g.pos[z] /\ \A m \in (T \ {z}) \cup {End} : g2.pos[m] = g.pos[m]

(* A node that takes the place of another has its number.                  *)
LEMMA ReplaceInorder ==
  ASSUME NEW u \in Trees, NEW T, NEW C, NEW first, Shape(u, T, C, first),
         NEW z, NEW y, NEW d, NEW q, Seat(u, T, C, z, y, d, q),
         NEW v, Replaced(u, z, y, d, q, v), NEW g, Inorder(u, T, g)
  PROVE  \E g2 : Inorder(v, (T \ {z}) \cup {y}, g2) /\ Swapped(T, g, z, y, g2)
<1> DEFINE g2 == [pos |-> [g.pos EXCEPT ![y] = g.pos[z]],
                  lo  |-> [g.lo EXCEPT ![y] = g.lo[z]],
                  hi  |-> [g.hi EXCEPT ![y] = g.hi[z]]]
           T2 == (T \ {z}) \cup {y}
<1>1. /\ g \in Numberings /\ T \subseteq Nodes /\ T \subseteq Places /\ End \in Places /\ End \notin Nodes /\ Null \notin Places
      /\ g.lo[End] = 0 /\ 0 < g.pos[End] /\ Counted(T, g)
  BY RBTreeAssumption DEF Inorder, Forest, Shape, Places
<1>2. /\ z \in T /\ z \in Places /\ z # Null /\ z # End /\ y \in Places /\ y # Null /\ y # End /\ y # z
      /\ y \in Nodes /\ y \notin T /\ d \in Sides /\ u.child[d][q] = z
      /\ q \in T \cup {End} /\ (q = End => d = "left")
      /\ \A m \in Places, s \in Sides : u.child[s][m] # Null =>
           /\ u.child[s][m] # y /\ u.child[s][m] \in Nodes
           /\ (u.child[s][m] = z => s = d /\ m = q)
           /\ (m = z => u.child[s][m] # z)
  <2>1. z \in T /\ y \in Nodes /\ y \notin T
    BY DEF Seat
  <2>2. QED
    BY <2>1, SeatIs
<1>3. /\ g.pos \in [Places -> Nat] /\ g.lo \in [Places -> Nat] /\ g.hi \in [Places -> Nat]
  BY <1>1 DEF Numberings
<1>4. g2 \in Numberings
  BY <1>2, <1>3 DEF Numberings
<1>5. \A m \in Places : /\ g2.pos[m] = g.pos[IF m = y THEN z ELSE m]
                        /\ g2.lo[m] = g.lo[IF m = y THEN z ELSE m]
                        /\ g2.hi[m] = g.hi[IF m = y THEN z ELSE m]
  BY <1>2, <1>3
<1> HIDE DEF g2
<1>6. Swapped(T, g, z, y, g2)
  BY <1>1, <1>2, <1>5 DEF Swapped
<1>7. Counted(T2, g2)
  <2>1. g2.pos[y] = g.pos[z] /\ \A m \in (T \ {z}) \cup {End} : g2.pos[m] = g.pos[m] /\ g.pos[m] # g.pos[z]
    BY <1>1, <1>2, <1>6 DEF Swapped, Counted
  <2>2. \A m, k \in T2 \cup {End} : g2.pos[m] = g2.pos[k] => m = k
    BY <1>1, <1>2, <2>1 DEF Counted
  <2>3. \A m \in T2 : 0 < g2.pos[m] /\ g2.pos[m] < g2.pos[End]
    BY <1>1, <1>2, <2>1 DEF Counted
  <2>4. ASSUME NEW i \in 1..g2.pos[End] - 1 PROVE \E m \in T2 : g2.pos[m] = i
    <3>1. PICK m \in T : g.pos[m] = i
      BY <1>1, <2>1 DEF Counted
    <3>2. QED
      BY <2>1, <3>1
  <2>5. QED
    BY <2>2, <2>3, <2>4 DEF Counted
<1>8. \A m \in T2 : g2.lo[m] < g2.pos[m] /\ g2.pos[m] < g2.hi[m]
  BY <1>1, <1>2, <1>5 DEF Inorder
<1>9. g2.lo[End] = 0 /\ 0 < g2.pos[End]
  BY <1>1, <1>2, <1>5
<1>10. ASSUME NEW m \in T2 \cup {End}, NEW s \in Sides, At(T2, s, m) PROVE Fits(v, g2, s, m)
  <2> DEFINE n == IF m = y THEN z ELSE m
             c == u.child[s][n]
  <2>1. m \in Places /\ n \in Places /\ n \in T \cup {End} /\ m # z /\ (m = End <=> n = End) /\ m # Null
    BY <1>1, <1>2, <1>10 DEF At
  <2>2. At(T, s, n)
    BY <1>10, <2>1 DEF At
  <2>3. Fits(u, g, s, n)
    BY <2>1, <2>2 DEF Inorder
  <2>4. v.child[s][m] = IF c = z THEN y ELSE c
    <3>1. v.child[s][m] = IF m = y THEN u.child[s][z] ELSE IF s = d /\ m = q THEN y ELSE u.child[s][m]
      BY <2>1 DEF Replaced
    <3>2. CASE m = y
      BY <1>2, <3>1, <3>2
    <3>3. CASE m # y
      BY <1>2, <2>1, <3>1, <3>3
    <3>4. QED
      BY <3>2, <3>3
  <2>5. Lower(g2, s, m) = Lower(g, s, n) /\ Upper(g2, s, m) = Upper(g, s, n)
    BY <1>5, <2>1 DEF Lower, Upper
  <2>6. c # Null => c # y /\ c \in Places
    BY <1>2, <2>1 DEF Places
  <2>7. c # Null => g2.lo[v.child[s][m]] = g.lo[c] /\ g2.hi[v.child[s][m]] = g.hi[c] /\ v.child[s][m] # Null
    BY <1>2, <1>5, <2>4, <2>6
  <2>8. c = Null => v.child[s][m] = Null
    BY <1>2, <2>4
  <2> HIDE DEF n, c
  <2>9. QED
    BY <2>3, <2>5, <2>7, <2>8 DEF Fits, c
<1>11. Inorder(v, T2, g2)
  BY <1>4, <1>7, <1>8, <1>9, <1>10 DEF Inorder
<1>12. QED
  BY <1>6, <1>11

(* What the numbers say of the nodes, in a form that is used often.        *)
LEMMA NumbersOf ==
  ASSUME NEW t \in Trees, NEW T, NEW C, NEW e \in Ranks, Forest(t, T, C), Ranked(t, e),
         NEW g, Inorder(t, T, g)
  PROVE  /\ T \subseteq Nodes /\ T \subseteq Places /\ End \in Places /\ End \notin T /\ Null \notin T
         /\ \A n \in T \cup {End} : n \in Places /\ g.pos[n] \in Nat /\ g.lo[n] \in Nat /\ g.hi[n] \in Nat
         /\ \A m, n \in T \cup {End} : g.pos[m] = g.pos[n] => m = n
         /\ \A n \in T : 0 < g.pos[n] /\ g.pos[n] < g.pos[End] /\ g.lo[n] < g.pos[n] /\ g.pos[n] < g.hi[n]
         /\ g.lo[End] = 0 /\ 0 < g.pos[End]
         /\ \A n \in T \cup {End}, s \in Sides : (n = End => s = "left") => Fits(t, g, s, n)
<1>1. T \subseteq Nodes /\ g \in Numberings
  BY DEF Forest, Inorder
<1>2. T \subseteq Places /\ End \in Places /\ End \notin T /\ Null \notin T
  BY <1>1, RBTreeAssumption DEF Places
<1>3. \A n \in T \cup {End} : n \in Places /\ g.pos[n] \in Nat /\ g.lo[n] \in Nat /\ g.hi[n] \in Nat
  BY <1>1, <1>2, NumbersAre
<1>4. \A n \in T \cup {End}, s \in Sides : (n = End => s = "left") => Fits(t, g, s, n)
  BY DEF Inorder, At
<1>5. QED
  BY <1>1, <1>2, <1>3, <1>4 DEF Inorder, Counted

(* The climb of an iterator, which ends when it comes up from side q.      *)
Climb(t, q) ==
  CHOOSE f : f = [n \in Nodes |-> IF t.parent[n] \notin Nodes \/ Side(t, n) = q
                                  THEN t.parent[n] ELSE f[t.parent[n]]]

(* It ends in Q if it stays in B until it comes up from side q.            *)
LEMMA ClimbEnds ==
  ASSUME NEW t \in Trees, NEW e \in Ranks, Ranked(t, e), NEW q, NEW B, NEW Q, B \subseteq Nodes,
         \A n \in B : IF t.parent[n] \notin Nodes \/ Side(t, n) = q THEN t.parent[n] \in Q
                      ELSE t.parent[n] \in B,
         NEW x \in B
  PROVE  Climb(t, q)[x] \in Q
<1> DEFINE climb == Climb(t, q)
           Is(f) == f = [n \in Nodes |-> IF t.parent[n] \notin Nodes \/ Side(t, n) = q
                                         THEN t.parent[n] ELSE f[t.parent[n]]]
           D == {n \in Nodes : t.parent[n] \notin Nodes \/ Side(t, n) = q}
           val == [n \in Nodes |-> t.parent[n]]
           next == [n \in Nodes |-> IF n \in D THEN n ELSE t.parent[n]]
<1>1. PICK M \in Nat : e \in [Nodes -> 0..M]
  BY RanksAre
<1>2. next \in [Nodes -> Nodes] /\ \A n \in Nodes : n \notin D => e[next[n]] < e[n]
  BY DEF Ranked
<1>3. val \in [Nodes -> Nodes \cup {End, Null}] /\ Nodes \cup {End, Null} # {}
  BY TreeFields
<1>4. \A f : Is(f) <=> Walks(Nodes, D, val, next, f)
  <2> SUFFICES ASSUME NEW f PROVE Is(f) <=> Walks(Nodes, D, val, next, f)
    OBVIOUS
  <2>1. \A n \in Nodes : (IF t.parent[n] \notin Nodes \/ Side(t, n) = q
                          THEN t.parent[n] ELSE f[t.parent[n]])
                       = (IF n \in D THEN val[n] ELSE f[next[n]])
    OBVIOUS
  <2>2. QED
    BY <2>1 DEF Walks
<1>5. climb = CHOOSE f : Is(f)
  BY DEF Climb
<1>6. \A n \in B : IF n \in D THEN val[n] \in Q ELSE next[n] \in B
  OBVIOUS
<1> HIDE DEF D, val, next, climb
<1>7. PICK f : Walks(Nodes, D, val, next, f)
  BY <1>1, <1>2, <1>3, WalkExists
<1>8. Is(f)
  BY <1>4, <1>7
<1>9. Is(climb)
  <2> HIDE DEF Is
  <2>1. QED
    BY <1>5, <1>8
<1>10. Walks(Nodes, D, val, next, climb)
  BY <1>4, <1>9
<1>11. Arrives(Nodes, D, val, next, e, B, Q)
  <2>1. e \in [Nodes -> Nat]
    BY <1>1
  <2>2. QED
    BY <1>2, <1>6, <2>1 DEF Arrives
<1>12. QED
  BY <1>10, <1>11, WalkEnds DEF climb

(* __tree_next_iter steps to the next number.                              *)
LEMMA NextInorder ==
  ASSUME NEW t \in Trees, NEW T, NEW C, NEW e \in Ranks, Forest(t, T, C), Ranked(t, e),
         NEW g, Inorder(t, T, g), NEW n \in T
  PROVE  NextNode(t, n) \in T \cup {End} /\ g.pos[NextNode(t, n)] = g.pos[n] + 1
<1> DEFINE r == t.child["right"][n]
           Q == {m \in T \cup {End} : g.pos[m] = g.pos[n] + 1}
<1>1. /\ T \subseteq Nodes /\ T \subseteq Places /\ End \in Places /\ End \notin T /\ Null \notin T
      /\ \A m \in T \cup {End} : m \in Places /\ g.pos[m] \in Nat /\ g.lo[m] \in Nat /\ g.hi[m] \in Nat
      /\ \A m \in T \cup {End}, s \in Sides : (m = End => s = "left") => Fits(t, g, s, m)
  BY NumbersOf
<1>2. "left" \in Sides /\ "right" \in Sides /\ \A s \in Sides : s = "left" \/ s = "right"
  BY DEF Sides
<1>3. Fits(t, g, "right", n)
  BY <1>1, <1>2
<1>4. CASE r # Null
  <2> DEFINE B == {m \in T : g.lo[m] = g.pos[n]}
  <2>1. r \in B
    <3>1. r \in T
      BY <1>2, <1>4, Below
    <3>2. QED
      BY <1>3, <1>4, <3>1 DEF Fits, Lower
  <2>2. ASSUME NEW m \in B, t.child["left"][m] # Null PROVE t.child["left"][m] \in B
    <3>1. t.child["left"][m] \in T
      BY <1>2, <2>2, Below
    <3>2. Fits(t, g, "left", m)
      BY <1>1, <1>2
    <3>3. QED
      BY <2>2, <3>1, <3>2 DEF Fits, Lower
  <2>3. B \in SUBSET Nodes
    BY <1>1
  <2> DEFINE x == Extreme(t, "left", r)
  <2> HIDE DEF B
  <2>4. x \in B /\ t.child["left"][x] = Null
    BY <1>2, <2>1, <2>2, <2>3, ExtremeIs
  <2>5. NextNode(t, n) = x
    BY <1>4 DEF NextNode
  <2> HIDE DEF x
  <2>6. Fits(t, g, "left", x) /\ x \in T /\ g.lo[x] = g.pos[n]
    BY <1>1, <1>2, <2>4 DEF B
  <2>7. g.pos[x] = g.pos[n] + 1
    BY <2>4, <2>6 DEF Fits, Upper, Lower
  <2>8. QED
    BY <2>5, <2>6, <2>7
<1>5. CASE r = Null
  <2> DEFINE B == {m \in T : g.hi[m] = g.pos[n] + 1}
  <2>1. n \in B
    BY <1>3, <1>5 DEF Fits, Lower, Upper
  <2>2. ASSUME NEW m \in B
        PROVE  IF t.parent[m] \notin Nodes \/ Side(t, m) = "left" THEN t.parent[m] \in Q
               ELSE t.parent[m] \in B
    <3> DEFINE p == t.parent[m]
               d == Side(t, m)
    <3>1. At(T, d, p) /\ g.hi[m] = Upper(g, d, p)
      BY PlaceOf
    <3> HIDE DEF p, d
    <3>2. p \in T \cup {End} /\ d \in Sides /\ (p = End => d = "left")
      BY <3>1 DEF At
    <3>3. d = "left" => p \in Q
      BY <3>1, <3>2 DEF Upper
    <3>4. d = "right" => p \in B /\ p \in Nodes
      BY <1>1, <3>1, <3>2 DEF Upper
    <3>5. p \notin Nodes => p = End
      BY <1>1, <3>2
    <3>6. IF p \notin Nodes \/ d = "left" THEN p \in Q ELSE p \in B
      BY <1>2, <3>2, <3>3, <3>4, <3>5
    <3>7. QED
      BY <3>6 DEF p, d
  <2>3. B \subseteq Nodes
    BY <1>1
  <2>4. NextNode(t, n) = Climb(t, "left")[n]
    BY <1>5 DEF NextNode, Climb
  <2> HIDE DEF B, Q
  <2>5. Climb(t, "left")[n] \in Q
    BY <2>1, <2>2, <2>3, ClimbEnds
  <2>6. QED
    BY <2>4, <2>5 DEF Q
<1>6. QED
  BY <1>4, <1>5

(* __tree_prev_iter steps back to the previous number.                     *)
LEMMA PrevInorder ==
  ASSUME NEW t \in Trees, NEW T, NEW C, NEW e \in Ranks, Forest(t, T, C), Ranked(t, e),
         NEW g, Inorder(t, T, g), NEW n \in T \cup {End}, g.pos[n] # 1
  PROVE  PrevNode(t, n) \in T /\ g.pos[PrevNode(t, n)] = g.pos[n] - 1
<1> DEFINE l == t.child["left"][n]
           Q == {m \in T : g.pos[m] = g.pos[n] - 1}
<1>1. /\ T \subseteq Nodes /\ T \subseteq Places /\ End \in Places /\ End \notin T /\ Null \notin T
      /\ \A m \in T \cup {End} : m \in Places /\ g.pos[m] \in Nat /\ g.lo[m] \in Nat /\ g.hi[m] \in Nat
      /\ \A m \in T \cup {End}, s \in Sides : (m = End => s = "left") => Fits(t, g, s, m)
      /\ g.lo[End] = 0
  BY NumbersOf
<1>2. "left" \in Sides /\ "right" \in Sides /\ \A s \in Sides : s = "left" \/ s = "right"
  BY DEF Sides
<1>3. Fits(t, g, "left", n)
  BY <1>1, <1>2
<1>4. CASE l # Null
  <2> DEFINE B == {m \in T : g.hi[m] = g.pos[n]}
  <2>1. l \in B
    <3>1. l \in T
      <4>1. n \in Places
        BY <1>1
      <4>2. n \in C => FALSE
        BY <1>1, RBTreeAssumption DEF Forest
      <4>3. QED
        BY <1>2, <1>4, <4>1, <4>2 DEF Forest, LinksWithin
    <3>2. QED
      BY <1>3, <1>4, <3>1 DEF Fits, Upper
  <2>2. ASSUME NEW m \in B, t.child["right"][m] # Null PROVE t.child["right"][m] \in B
    <3>1. t.child["right"][m] \in T
      BY <1>2, <2>2, Below
    <3>2. Fits(t, g, "right", m)
      BY <1>1, <1>2
    <3>3. QED
      BY <2>2, <3>1, <3>2 DEF Fits, Upper
  <2>3. B \in SUBSET Nodes
    BY <1>1
  <2> DEFINE x == Extreme(t, "right", l)
  <2> HIDE DEF B
  <2>4. x \in B /\ t.child["right"][x] = Null
    BY <1>2, <2>1, <2>2, <2>3, ExtremeIs
  <2>5. PrevNode(t, n) = x
    BY <1>4 DEF PrevNode
  <2> HIDE DEF x
  <2>6. Fits(t, g, "right", x) /\ x \in T /\ g.hi[x] = g.pos[n]
    BY <1>1, <1>2, <2>4 DEF B
  <2>7. g.pos[n] = g.pos[x] + 1
    BY <2>4, <2>6 DEF Fits, Upper, Lower
  <2>8. g.pos[x] = g.pos[n] - 1
    BY <1>1, <2>6, <2>7
  <2>9. QED
    BY <2>5, <2>6, <2>8
<1>5. CASE l = Null
  <2> DEFINE B == {m \in T : g.lo[m] = g.pos[n] - 1}
  <2>0. g.pos[n] = g.lo[n] + 1 /\ g.pos[n] - 1 = g.lo[n] /\ g.lo[n] # 0 /\ n \in T
    <3>1. g.pos[n] = g.lo[n] + 1
      BY <1>3, <1>5 DEF Fits, Lower, Upper
    <3>2. g.pos[n] \in Nat /\ g.lo[n] \in Nat
      BY <1>1
    <3>3. g.pos[n] - 1 = g.lo[n] /\ g.lo[n] # 0
      BY <3>1, <3>2
    <3>4. n # End
      BY <1>1, <3>3
    <3>5. QED
      BY <3>1, <3>3, <3>4
  <2>1. n \in B
    BY <2>0
  <2>2. ASSUME NEW m \in B
        PROVE  IF t.parent[m] \notin Nodes \/ Side(t, m) = "right" THEN t.parent[m] \in Q
               ELSE t.parent[m] \in B
    <3> DEFINE p == t.parent[m]
               d == Side(t, m)
    <3>1. At(T, d, p) /\ g.lo[m] = Lower(g, d, p)
      BY PlaceOf
    <3> HIDE DEF p, d
    <3>2. p \in T \cup {End} /\ d \in Sides /\ (p = End => d = "left")
      BY <3>1 DEF At
    <3>3. d = "right" => p \in Q
      BY <3>1, <3>2 DEF Lower
    <3>4. p # End
      BY <1>1, <2>0, <3>1, <3>2 DEF Lower
    <3>5. d = "left" => p \in B
      BY <3>1, <3>2, <3>4 DEF Lower
    <3>6. p \in Nodes
      BY <1>1, <3>2, <3>4
    <3>7. IF p \notin Nodes \/ d = "right" THEN p \in Q ELSE p \in B
      BY <1>2, <3>2, <3>3, <3>5, <3>6
    <3>8. QED
      BY <3>7 DEF p, d
  <2>3. B \subseteq Nodes
    BY <1>1
  <2>4. PrevNode(t, n) = Climb(t, "right")[n]
    BY <1>5 DEF PrevNode, Climb
  <2> HIDE DEF B, Q
  <2>5. Climb(t, "right")[n] \in Q
    BY <2>1, <2>2, <2>3, ClimbEnds
  <2>6. QED
    BY <2>4, <2>5 DEF Q
<1>6. QED
  BY <1>4, <1>5

(* begin() has the first number.                                           *)
LEMMA FirstInorder ==
  ASSUME NEW t \in Trees, NEW T, NEW C, NEW e \in Ranks, Forest(t, T, C), Ranked(t, e),
         NEW sp, NEW first, Spine(t, T, sp, first), NEW g, Inorder(t, T, g)
  PROVE  first \in T \cup {End} /\ g.pos[first] = 1
<1>1. /\ T \subseteq Nodes /\ T \subseteq Places /\ End \in Places /\ End \notin T /\ Null \notin T
      /\ \A m \in T \cup {End} : m \in Places /\ g.pos[m] \in Nat /\ g.lo[m] \in Nat /\ g.hi[m] \in Nat
      /\ \A m \in T \cup {End}, s \in Sides : (m = End => s = "left") => Fits(t, g, s, m)
      /\ g.lo[End] = 0
  BY NumbersOf
<1>2. "left" \in Sides
  BY DEF Sides
<1>3. /\ sp \subseteq T \cup {End} /\ first \in sp /\ t.child["left"][first] = Null
      /\ \A p \in sp \ {End} : t.parent[p] \in sp /\ t.child["left"][t.parent[p]] = p
  BY DEF Spine
<1> DEFINE B == {n \in Nodes : n \in sp => g.lo[n] = 0}
<1>4. ASSUME NEW n \in Nodes, \A m \in Nodes : e[m] < e[n] => m \in B PROVE n \in B
  <2> SUFFICES ASSUME n \in sp PROVE g.lo[n] = 0
    OBVIOUS
  <2>1. n # End /\ n # Null
    BY RBTreeAssumption
  <2>2. t.parent[n] \in sp /\ t.child["left"][t.parent[n]] = n
    BY <1>3, <2>1
  <2>3. Fits(t, g, "left", t.parent[n])
    BY <1>1, <1>2, <1>3, <2>2
  <2>4. g.lo[n] = g.lo[t.parent[n]]
    BY <2>1, <2>2, <2>3 DEF Fits, Lower
  <2>5. t.parent[n] # End => g.lo[t.parent[n]] = 0
    BY <1>1, <1>3, <1>4, <2>2 DEF Ranked
  <2>6. QED
    BY <1>1, <2>4, <2>5
<1> HIDE DEF B
<1>5. e \in [Nodes -> Nat]
  BY RanksAre
<1>6. \A n \in Nodes : n \in B
  BY <1>4, <1>5, RankInduction
<1>7. g.lo[first] = 0
  BY <1>1, <1>3, <1>6 DEF B
<1>8. Fits(t, g, "left", first)
  BY <1>1, <1>2, <1>3
<1>9. QED
  BY <1>3, <1>7, <1>8 DEF Fits, Lower, Upper

(* The order depends on the links of its nodes only.                       *)
LEMMA KeptInorder ==
  ASSUME NEW t, NEW T, NEW g, Inorder(t, T, g), NEW t2,
         \A n \in T \cup {End}, s \in Sides : At(T, s, n) => t2.child[s][n] = t.child[s][n]
  PROVE  Inorder(t2, T, g)
<1>1. ASSUME NEW n \in T \cup {End}, NEW s \in Sides, At(T, s, n) PROVE Fits(t2, g, s, n)
  <2>1. Fits(t, g, s, n) /\ t2.child[s][n] = t.child[s][n]
    BY <1>1 DEF Inorder
  <2>2. QED
    BY <2>1 DEF Fits
<1>2. QED
  BY <1>1 DEF Inorder

(* There is nothing to count in an empty tree.                             *)
LEMMA NothingInorder ==
  ASSUME NEW t \in Trees, Root(t) = Null
  PROVE  \E g : Inorder(t, {}, g)
<1> DEFINE zero == [n \in Places |-> 0]
           one == [n \in Places |-> 1]
           g == [pos |-> one, lo |-> zero, hi |-> one]
<1>1. g \in Numberings /\ End \in Places
  BY DEF Numberings, Places
<1>2. g.pos[End] = 1 /\ g.lo[End] = 0
  BY <1>1
<1> HIDE DEF g
<1>3. Fits(t, g, "left", End)
  BY <1>2 DEF Fits, Root, Lower, Upper
<1>4. \A n \in {} \cup {End}, s \in Sides : At({}, s, n) => Fits(t, g, s, n)
  BY <1>3 DEF At
<1>5. Counted({}, g)
  <2>1. 1..g.pos[End] - 1 = {}
    BY <1>2
  <2>2. QED
    BY <1>2, <2>1 DEF Counted
<1>6. Inorder(t, {}, g)
  BY <1>1, <1>2, <1>4, <1>5 DEF Inorder
<1>7. QED
  BY <1>6

(* The elements of the tree t with the keys K, from first on.              *)
ElementsOf(t, K, first, T) ==
  LET walk[n \in T \cup {End}] ==
        IF n = End THEN <<>> ELSE <<<<n, K[n]>>>> \o walk[NextNode(t, n)]
  IN  walk[first]

(* s has every node of T, with its key, at the number of the node.         *)
Pairs(T, K) == {<<n, K[n]>> : n \in T}

Lists(s, T, g, K) ==
  /\ s \in Seq(Pairs(T, K)) /\ Len(s) = g.pos[End] - 1
  /\ \A n \in T : s[g.pos[n]] = <<n, K[n]>>

(* A sequence with an element before it.                                   *)
LEMMA Prepended ==
  ASSUME NEW X, NEW x \in X, NEW s \in Seq(X)
  PROVE  /\ <<x>> \o s \in Seq(X) /\ Len(<<x>> \o s) = Len(s) + 1
         /\ (<<x>> \o s)[1] = x
         /\ \A i \in 1..Len(s) : (<<x>> \o s)[i + 1] = s[i]
OBVIOUS

(* The iterators see the nodes in the order of their numbers.              *)
LEMMA ElementsOfIs ==
  ASSUME NEW t \in Trees, NEW T, NEW C, NEW first, Shape(t, T, C, first), NEW g, Inorder(t, T, g), NEW K
  PROVE  Lists(ElementsOf(t, K, first, T), T, g, K)
<1> DEFINE S == T \cup {End}
           V == Seq(Pairs(T, K))
           Is(f) == f = [n \in S |-> IF n = End THEN <<>> ELSE <<<<n, K[n]>>>> \o f[NextNode(t, n)]]
           walk == CHOOSE f : Is(f)
           N == g.pos[End]
           r == [n \in S |-> N - g.pos[n]]
           step == [a \in S \X [S -> V] |->
                      IF a[1] = End THEN <<>> ELSE <<<<a[1], K[a[1]]>>>> \o a[2][NextNode(t, a[1])]]
<1>1. PICK e \in Ranks, sp \in SUBSET Places : Forest(t, T, C) /\ Ranked(t, e) /\ Spine(t, T, sp, first)
  BY DEF Shape
<1>2. /\ End \notin T /\ \A n \in S : g.pos[n] \in Nat
      /\ \A m, n \in S : g.pos[m] = g.pos[n] => m = n
      /\ \A n \in T : 0 < g.pos[n] /\ g.pos[n] < N
  BY <1>1, NumbersOf
<1>3. \A n \in T : NextNode(t, n) \in S /\ g.pos[NextNode(t, n)] = g.pos[n] + 1
  BY <1>1, NextInorder
<1>4. r \in [S -> 0..N] /\ N \in Nat
  BY <1>2
<1>5. \A n \in S : r[n] = N - g.pos[n]
  OBVIOUS
<1>6. \A n \in T : r[NextNode(t, n)] < r[n]
  BY <1>2, <1>3, <1>5
<1>7. \A n \in S, f \in [S -> V] : step[<<n, f>>] = IF n = End THEN <<>> ELSE <<<<n, K[n]>>>> \o f[NextNode(t, n)]
  OBVIOUS
<1>8. ASSUME NEW n \in S, NEW f \in [S -> V]
      PROVE  (IF n = End THEN <<>> ELSE <<<<n, K[n]>>>> \o f[NextNode(t, n)]) \in V
  <2>1. CASE n = End
    BY <2>1
  <2>2. CASE n # End
    <3>1. n \in T /\ <<n, K[n]>> \in Pairs(T, K)
      BY <2>2 DEF Pairs
    <3>2. f[NextNode(t, n)] \in V
      BY <1>3, <3>1
    <3> HIDE DEF V
    <3>3. <<<<n, K[n]>>>> \o f[NextNode(t, n)] \in V
      BY <3>1, <3>2, Prepended DEF V
    <3>4. QED
      BY <2>2, <3>3
  <2>3. QED
    BY <2>1, <2>2
<1>9. <<>> \in V
  OBVIOUS
<1> HIDE DEF r, V
<1>10. step \in [S \X [S -> V] -> V]
  BY <1>8
<1> HIDE DEF step
<1>11. ASSUME NEW n \in S, NEW f \in [S -> V], NEW h \in [S -> V], \A m \in S : r[m] < r[n] => f[m] = h[m]
       PROVE  step[<<n, f>>] = step[<<n, h>>]
  <2>1. CASE n = End
    BY <1>7, <2>1
  <2>2. CASE n # End
    <3>1. f[NextNode(t, n)] = h[NextNode(t, n)]
      BY <1>3, <1>6, <1>11, <2>2
    <3>2. QED
      BY <1>7, <3>1
  <2>3. QED
    BY <2>1, <2>2
<1>12. Recursive(S, V, N, r, step)
  BY <1>4, <1>9, <1>10, <1>11 DEF Recursive
<1>13. PICK f : Solves(S, V, step, f)
  BY <1>12, Recursion
<1>14. Is(f)
  BY <1>7, <1>13 DEF Solves
<1>15. Is(walk)
  <2> HIDE DEF Is
  <2>1. QED
    BY <1>14
<1>16. ElementsOf(t, K, first, T) = walk[first]
  BY DEF ElementsOf
<1> HIDE DEF walk
<1>17. \A n \in S : walk[n] = IF n = End THEN <<>> ELSE <<<<n, K[n]>>>> \o walk[NextNode(t, n)]
  BY <1>15
<1> HIDE DEF Is
<1> DEFINE Seen(n) == /\ walk[n] \in V /\ Len(walk[n]) = r[n]
                      /\ \A m \in T : g.pos[n] <= g.pos[m] => walk[n][g.pos[m] - g.pos[n] + 1] = <<m, K[m]>>
           B == {n \in S : Seen(n)}
<1>18. ASSUME NEW n \in S, \A m \in S : r[m] < r[n] => m \in B PROVE n \in B
  <2>1. CASE n = End
    <3>1. walk[n] = <<>>
      BY <1>17, <2>1
    <3>5. r[n] = 0
      <4>1. r[n] = N - g.pos[n] /\ N = g.pos[n]
        BY <1>5, <2>1
      <4>2. QED
        BY <1>4, <4>1
    <3>2. \A m \in T : ~(g.pos[n] <= g.pos[m])
      BY <1>2, <2>1
    <3>3. Len(<<>>) = 0
      OBVIOUS
    <3>4. QED
      BY <1>9, <3>1, <3>2, <3>3, <3>5
  <2>2. CASE n # End
    <3> DEFINE y == NextNode(t, n)
               w == walk[y]
    <3>1. n \in T
      BY <2>2
    <3>2. y \in S /\ g.pos[y] = g.pos[n] + 1 /\ r[y] < r[n]
      BY <1>3, <1>6, <3>1
    <3>3. walk[n] = <<<<n, K[n]>>>> \o w
      BY <1>17, <2>2
    <3> HIDE DEF y
    <3>4. Seen(y)
      BY <1>18, <3>2
    <3>5. /\ w \in V /\ Len(w) = r[y]
          /\ \A m \in T : g.pos[y] <= g.pos[m] => w[g.pos[m] - g.pos[y] + 1] = <<m, K[m]>>
      BY <3>4
    <3> HIDE DEF w
    <3>6. <<n, K[n]>> \in Pairs(T, K)
      BY <3>1 DEF Pairs
    <3>7. /\ walk[n] \in V /\ Len(walk[n]) = Len(w) + 1 /\ walk[n][1] = <<n, K[n]>>
          /\ \A i \in 1..Len(w) : walk[n][i + 1] = w[i]
      BY <3>3, <3>5, <3>6, Prepended DEF V
    <3>8. /\ g.pos[n] \in Nat /\ g.pos[y] \in Nat /\ N \in Nat /\ r[n] = N - g.pos[n] /\ r[y] = N - g.pos[y]
      BY <1>2, <1>4, <1>5, <3>2
    <3>9. Len(walk[n]) = r[n] /\ Len(w) = N - g.pos[y] /\ Len(w) \in Nat
      <4>1. r[n] = r[y] + 1
        BY <3>2, <3>8
      <4>2. r[y] \in Nat
        BY <1>4, <3>2
      <4>3. QED
        BY <3>5, <3>7, <3>8, <4>1, <4>2
    <3>10. ASSUME NEW m \in T, g.pos[n] <= g.pos[m]
           PROVE  walk[n][g.pos[m] - g.pos[n] + 1] = <<m, K[m]>>
      <4>1. g.pos[m] \in Nat /\ g.pos[m] < N
        BY <1>2
      <4>2. CASE m = n
        <5>1. g.pos[m] - g.pos[n] + 1 = 1
          BY <3>8, <4>2
        <5>2. QED
          BY <3>7, <4>2, <5>1
      <4>3. CASE m # n
        <5>1. g.pos[m] # g.pos[n]
          BY <1>2, <3>1, <4>3
        <5> DEFINE i == g.pos[m] - g.pos[y] + 1
        <5>2. g.pos[y] <= g.pos[m] /\ g.pos[m] - g.pos[n] + 1 = i + 1
          <6>1. g.pos[y] <= g.pos[m]
            BY <3>2, <3>8, <3>10, <4>1, <5>1
          <6>2. g.pos[m] - g.pos[n] + 1 = i + 1
            BY <3>2, <3>8, <4>1
          <6>3. QED
            BY <6>1, <6>2
        <5>5. i \in Int /\ 1 <= i /\ i <= Len(w)
          BY <3>8, <3>9, <4>1, <5>2
        <5>6. i \in 1..Len(w)
          BY <3>9, <5>5
        <5>3. w[i] = <<m, K[m]>>
          BY <3>5, <5>2
        <5> HIDE DEF i
        <5>4. QED
          BY <3>7, <5>2, <5>3, <5>6
      <4>4. QED
        BY <4>2, <4>3
    <3>11. QED
      BY <3>7, <3>9, <3>10
  <2>3. QED
    BY <2>1, <2>2
<1> HIDE DEF B
<1>19. r \in [S -> Nat]
  BY <1>4
<1>20. \A n \in S : n \in B
  BY <1>18, <1>19, RankInduction
<1>21. first \in S /\ g.pos[first] = 1
  BY <1>1, FirstInorder
<1>22. Seen(first)
  BY <1>20, <1>21 DEF B
<1>23. \A m \in T : g.pos[first] <= g.pos[m] /\ g.pos[m] - g.pos[first] + 1 = g.pos[m]
  BY <1>2, <1>21
<1>24. QED
  BY <1>5, <1>16, <1>21, <1>22, <1>23 DEF Lists, V

(* Elements is what the iterators see of the tree.                         *)
LEMMA ElementsAre ==
  ASSUME NEW T, NEW C, tree \in Trees, Shape(tree, T, C, begin)
  PROVE  Elements = ElementsOf(tree, key, begin, T)
<1>1. Linked = T
  BY LinkedIs DEF Linked
<1>2. Elements = ElementsOf(tree, key, begin, Linked)
  BY DEF Elements, ElementsOf
<1>3. QED
  BY <1>1, <1>2

(* And after a step.                                                       *)
LEMMA ElementsAreThen ==
  ASSUME NEW T, NEW C, tree' \in Trees, Shape(tree', T, C, begin')
  PROVE  Elements' = ElementsOf(tree', key', begin', T)
<1>1. Linked' = T
  BY LinkedIs DEF Linked
<1>2. Elements' = ElementsOf(tree', key', begin', Linked')
  BY DEF Elements, ElementsOf
<1>3. QED
  BY <1>1, <1>2

(* The number of a node says where a sequence has it.                      *)
LEMMA ListIs ==
  ASSUME NEW T, NEW K, NEW g, NEW s, T \subseteq Places, g \in Numberings, Counted(T, g), 0 < g.pos[End],
         Lists(s, T, g, K)
  PROVE  /\ DOMAIN s = 1..g.pos[End] - 1 /\ Len(s) \in Nat /\ Len(s) = g.pos[End] - 1
         /\ \A n \in T : g.pos[n] \in DOMAIN s /\ s[g.pos[n]] = <<n, K[n]>>
         /\ \A i \in DOMAIN s : \E n \in T : g.pos[n] = i /\ s[i] = <<n, K[n]>>
<1>1. End \in Places
  BY DEF Places
<1>2. \A n \in T \cup {End} : g.pos[n] \in Nat
  BY <1>1, NumbersAre
<1>3. DOMAIN s = 1..g.pos[End] - 1 /\ Len(s) = g.pos[End] - 1 /\ Len(s) \in Nat
  BY DEF Lists
<1>4. \A n \in T : g.pos[n] \in DOMAIN s /\ s[g.pos[n]] = <<n, K[n]>>
  BY <1>2, <1>3 DEF Lists, Counted
<1>5. \A i \in DOMAIN s : \E n \in T : g.pos[n] = i /\ s[i] = <<n, K[n]>>
  BY <1>3, <1>4 DEF Counted
<1>6. QED
  BY <1>3, <1>4, <1>5

(* The nodes of the tree that are in L are those after the first a ones.   *)
Splits(T, g, L, a) == a \in Nat /\ a < g.pos[End] /\ \A m \in T : m \in L <=> a < g.pos[m]

(* What is closed upwards is behind a place in the order.                  *)
LEMMA SplitExists ==
  ASSUME NEW T, NEW g \in Numberings, T \subseteq Places, Counted(T, g), 0 < g.pos[End], NEW L,
         \A m, n \in T : m \in L /\ g.pos[m] < g.pos[n] => n \in L
  PROVE  \E a : Splits(T, g, L, a)
<1> DEFINE P == {g.pos[m] : m \in {x \in T \cup {End} : x = End \/ x \in L}}
<1>1. \A n \in T \cup {End} : g.pos[n] \in Nat
  BY NumbersAre DEF Places
<1>2. P \subseteq Nat /\ P # {}
  BY <1>1
<1>3. PICK l \in P : \A p \in P : l <= p
  BY <1>2, LeastNumber
<1>4. PICK x \in T \cup {End} : (x = End \/ x \in L) /\ g.pos[x] = l
  BY <1>3
<1>5. g.pos[End] \in P
  OBVIOUS
<1>6. l \in Nat /\ 0 < l /\ l <= g.pos[End]
  BY <1>1, <1>2, <1>3, <1>4, <1>5 DEF Counted
<1>7. ASSUME NEW m \in T PROVE m \in L <=> l - 1 < g.pos[m]
  <2>1. g.pos[m] \in Nat /\ g.pos[m] < g.pos[End]
    BY <1>1 DEF Counted
  <2>2. m \in L => g.pos[m] \in P
    OBVIOUS
  <2>3. m \in L => l - 1 < g.pos[m]
    BY <1>3, <1>6, <2>1, <2>2
  <2>4. ASSUME l - 1 < g.pos[m] PROVE m \in L
    <3>1. l <= g.pos[m]
      BY <1>6, <2>1, <2>4
    <3>2. x # End
      BY <1>1, <1>4, <1>6, <2>1, <3>1
    <3>3. x \in T /\ x \in L
      BY <1>4, <3>2
    <3>4. g.pos[x] = g.pos[m] => x = m
      BY <3>3 DEF Counted
    <3>5. g.pos[x] # g.pos[m] => g.pos[x] < g.pos[m]
      BY <1>4, <1>6, <2>1, <3>1
    <3>6. QED
      BY <3>3, <3>4, <3>5
  <2>5. QED
    BY <2>3, <2>4
<1>8. l - 1 \in Nat /\ l - 1 < g.pos[End]
  BY <1>1, <1>6
<1>9. Splits(T, g, L, l - 1)
  BY <1>7, <1>8 DEF Splits
<1>10. QED
  BY <1>9

(* A descent at n, with the result r for a null leaf, looks for the place  *)
(* after the first a nodes.                                                *)
Sought(T, g, a, n, r) ==
  /\ r \in T \cup {End}
  /\ IF n = Null THEN g.pos[r] = a + 1
     ELSE n \in T /\ g.lo[n] <= a /\ a < g.hi[n] /\ g.hi[n] = g.pos[r]

(* It begins at the root,                                                  *)
LEMMA SoughtFromRoot ==
  ASSUME NEW t \in Trees, NEW T, NEW C, NEW e \in Ranks, Forest(t, T, C), Ranked(t, e),
         NEW g, Inorder(t, T, g), NEW a \in Nat, a < g.pos[End]
  PROVE  Sought(T, g, a, Root(t), End)
<1>1. /\ End \in Places /\ g.lo[End] = 0 /\ g.pos[End] \in Nat
      /\ Fits(t, g, "left", End)
  BY NumbersOf DEF Sides
<1>2. Root(t) # Null => Root(t) \in T
  <2>1. End \notin C
    BY RBTreeAssumption DEF Forest
  <2>2. QED
    BY <1>1, <2>1 DEF Forest, LinksWithin, Root, Sides
<1>3. QED
  BY <1>1, <1>2 DEF Sought, Fits, Lower, Upper, Root

(* goes left at a node behind the place                                    *)
LEMMA SoughtLeft ==
  ASSUME NEW t \in Trees, NEW T, NEW C, NEW e \in Ranks, Forest(t, T, C), Ranked(t, e),
         NEW g, Inorder(t, T, g), NEW a \in Nat, NEW n, NEW r, Sought(T, g, a, n, r), n # Null,
         a < g.pos[n]
  PROVE  Sought(T, g, a, t.child["left"][n], n)
<1>1. n \in T /\ g.lo[n] <= a
  BY DEF Sought
<1>2. Fits(t, g, "left", n) /\ g.pos[n] \in Nat /\ g.lo[n] \in Nat
  BY <1>1, NumbersOf DEF Sides
<1>3. t.child["left"][n] # Null => t.child["left"][n] \in T
  BY <1>1, Below DEF Sides
<1>4. QED
  BY <1>1, <1>2, <1>3 DEF Sought, Fits, Lower, Upper

(* and right at one before it.                                             *)
LEMMA SoughtRight ==
  ASSUME NEW t \in Trees, NEW T, NEW C, NEW e \in Ranks, Forest(t, T, C), Ranked(t, e),
         NEW g, Inorder(t, T, g), NEW a \in Nat, NEW n, NEW r, Sought(T, g, a, n, r), n # Null,
         g.pos[n] <= a
  PROVE  Sought(T, g, a, t.child["right"][n], r)
<1>1. n \in T /\ a < g.hi[n] /\ g.hi[n] = g.pos[r] /\ r \in T \cup {End}
  BY DEF Sought
<1>2. Fits(t, g, "right", n) /\ g.pos[n] \in Nat /\ g.hi[n] \in Nat
  BY <1>1, NumbersOf DEF Sides
<1>3. t.child["right"][n] # Null => t.child["right"][n] \in T
  BY <1>1, Below DEF Sides
<1>4. QED
  BY <1>1, <1>2, <1>3 DEF Sought, Fits, Lower, Upper

(* A rank for the states of a descent: a node and the result so far.       *)
States == (Nodes \cup {Null}) \X (Nodes \cup {End})

LEMMA DescentRank ==
  ASSUME NEW t \in Trees, NEW T, NEW C, NEW e \in Ranks, Forest(t, T, C), Ranked(t, e)
  PROVE  \E M \in Nat : \E r \in [States -> 0..M] :
           \A a \in States, s \in Sides, x \in Nodes \cup {End} : a[1] # Null =>
             <<t.child[s][a[1]], x>> \in States /\ r[<<t.child[s][a[1]], x>>] < r[a]
<1>1. PICK M \in Nat : \E r \in [Nodes -> 0..M] :
        \A n \in Nodes, q \in Sides : t.child[q][n] # Null =>
             t.child[q][n] \in Nodes /\ r[t.child[q][n]] < r[n]
  BY Downwards
<1>2. PICK r \in [Nodes -> 0..M] :
        \A n \in Nodes, q \in Sides : t.child[q][n] # Null =>
             t.child[q][n] \in Nodes /\ r[t.child[q][n]] < r[n]
  BY <1>1
<1> DEFINE R(n) == IF n = Null THEN 0 ELSE r[n] + 1
           h == [a \in States |-> R(a[1])]
<1>3. \A n \in Nodes \cup {Null} : R(n) \in 0..(M + 1)
  BY <1>2
<1>4. h \in [States -> 0..(M + 1)] /\ M + 1 \in Nat
  <2> HIDE DEF R
  <2>1. \A a \in States : a[1] \in Nodes \cup {Null}
    BY DEF States
  <2>2. QED
    BY <1>3, <2>1
<1>5. ASSUME NEW a \in States, NEW s \in Sides, NEW x \in Nodes \cup {End}, a[1] # Null
      PROVE  <<t.child[s][a[1]], x>> \in States /\ h[<<t.child[s][a[1]], x>>] < h[a]
  <2> DEFINE n == a[1]
             c == t.child[s][n]
  <2>1. n \in Nodes /\ n \in Places /\ n # Null
    BY <1>5 DEF States, Places
  <2> HIDE DEF n
  <2>2. c \in Nodes \cup {Null}
    BY <2>1, TreeFields
  <2>3. <<c, x>> \in States
    BY <2>2 DEF States
  <2>4. c # Null => r[c] < r[n] /\ r[c] \in 0..M
    BY <1>2, <2>1
  <2>5. r[n] \in 0..M
    BY <2>1
  <2>6. R(c) < R(n)
    BY <2>1, <2>4, <2>5
  <2> HIDE DEF R
  <2>7. h[<<c, x>>] = R(c) /\ h[a] = R(n)
    BY <2>3 DEF n
  <2> HIDE DEF h, c
  <2>8. QED
    BY <2>3, <2>6, <2>7 DEF n, c
<1> HIDE DEF h
<1>6. QED
  BY <1>4, <1>5

(* The keys of the nodes do not decrease with their numbers, and increase  *)
(* in a set or map.                                                        *)
Sorted(T, g) ==
  /\ \A n \in T : key[n] \in Keys
  /\ \A m, n \in T : g.pos[m] < g.pos[n] => key[m] <= key[n] /\ (unique => key[m] < key[n])

(* The nodes behind a key, and with it.                                    *)
Beyond(strict, k) == {n \in Nodes : IF strict THEN k < key[n] ELSE ~(key[n] < k)}

(* They are behind a place in the order.                                   *)
LEMMA BeyondSplits ==
  ASSUME NEW t, NEW T, NEW g, T \subseteq Nodes, Inorder(t, T, g), Sorted(T, g), NEW strict \in BOOLEAN,
         NEW k \in Keys
  PROVE  \E a : Splits(T, g, Beyond(strict, k), a)
<1>1. g \in Numberings /\ T \subseteq Places /\ Counted(T, g) /\ 0 < g.pos[End]
  BY DEF Inorder, Places
<1>2. \A m, n \in T : m \in Beyond(strict, k) /\ g.pos[m] < g.pos[n] => n \in Beyond(strict, k)
  <2> SUFFICES ASSUME NEW m \in T, NEW n \in T, m \in Beyond(strict, k), g.pos[m] < g.pos[n]
               PROVE  n \in Beyond(strict, k)
    OBVIOUS
  <2>1. key[m] \in Int /\ key[n] \in Int /\ k \in Int /\ key[m] <= key[n]
    BY RBTreeAssumption DEF Sorted
  <2>2. QED
    BY <2>1 DEF Beyond
<1>3. QED
  BY <1>1, <1>2, SplitExists

(* __lower_bound and __upper_bound find the first node behind the key.     *)
LEMMA BoundIs ==
  ASSUME tree \in Trees, NEW T, NEW C, NEW e \in Ranks, Forest(tree, T, C), Ranked(tree, e),
         NEW g, Inorder(tree, T, g), Sorted(T, g), NEW strict \in BOOLEAN, NEW k \in Keys,
         NEW a, Splits(T, g, Beyond(strict, k), a), NEW n, NEW r, Sought(T, g, a, n, r)
  PROVE  Bound(strict, k, n, r) \in T \cup {End} /\ g.pos[Bound(strict, k, n, r)] = a + 1
<1> DEFINE Left(b) == (strict /\ key[b[1]] > k) \/ (~strict /\ key[b[1]] >= k)
           Is(f) == f = [b \in (Nodes \cup {Null}) \X (Nodes \cup {End}) |->
                           IF b[1] = Null THEN b[2]
                           ELSE IF (strict /\ key[b[1]] > k) \/ (~strict /\ key[b[1]] >= k)
                                THEN f[<<tree.child["left"][b[1]], b[1]>>]
                                ELSE f[<<tree.child["right"][b[1]], b[2]>>]]
           go == CHOOSE f : Is(f)
           D == {b \in States : b[1] = Null}
           val == [b \in States |-> b[2]]
           next == [b \in States |-> IF b \in D THEN b
                                     ELSE IF Left(b) THEN <<tree.child["left"][b[1]], b[1]>>
                                     ELSE <<tree.child["right"][b[1]], b[2]>>]
           B == {b \in States : Sought(T, g, a, b[1], b[2])}
           Q == {m \in T \cup {End} : g.pos[m] = a + 1}
<1>1. PICK M \in Nat : \E h \in [States -> 0..M] :
           \A b \in States, s \in Sides, x \in Nodes \cup {End} : b[1] # Null =>
             <<tree.child[s][b[1]], x>> \in States /\ h[<<tree.child[s][b[1]], x>>] < h[b]
  BY DescentRank
<1>2. PICK h \in [States -> 0..M] :
           \A b \in States, s \in Sides, x \in Nodes \cup {End} : b[1] # Null =>
             <<tree.child[s][b[1]], x>> \in States /\ h[<<tree.child[s][b[1]], x>>] < h[b]
  BY <1>1
<1>3. "left" \in Sides /\ "right" \in Sides
  BY DEF Sides
<1>4. \A b \in States : /\ b[1] \in Nodes \cup {Null} /\ b[2] \in Nodes \cup {End}
                        /\ b[1] # Null => b[1] \in Nodes \cup {End}
  BY DEF States
<1>5. \A b \in States : next[b] = IF b \in D THEN b
                                  ELSE IF Left(b) THEN <<tree.child["left"][b[1]], b[1]>>
                                  ELSE <<tree.child["right"][b[1]], b[2]>>
  OBVIOUS
<1>6. \A f : Is(f) <=> Walks(States, D, val, next, f)
  <2> SUFFICES ASSUME NEW f PROVE Is(f) <=> Walks(States, D, val, next, f)
    OBVIOUS
  <2>1. Is(f) <=> f = [b \in States |-> IF b[1] = Null THEN b[2]
                           ELSE IF Left(b) THEN f[<<tree.child["left"][b[1]], b[1]>>]
                           ELSE f[<<tree.child["right"][b[1]], b[2]>>]]
    BY DEF States
  <2> HIDE DEF Is, Left
  <2>2. \A b \in States : (IF b[1] = Null THEN b[2]
                           ELSE IF Left(b) THEN f[<<tree.child["left"][b[1]], b[1]>>]
                           ELSE f[<<tree.child["right"][b[1]], b[2]>>])
                        = (IF b \in D THEN val[b] ELSE f[next[b]])
    OBVIOUS
  <2>3. QED
    BY <2>1, <2>2 DEF Walks
<1>7. next \in [States -> States] /\ \A b \in States : b \notin D => h[next[b]] < h[b]
  <2> HIDE DEF Left
  <2>1. ASSUME NEW b \in States PROVE next[b] \in States /\ (b \notin D => h[next[b]] < h[b])
    <3>1. CASE b \in D
      BY <1>5, <3>1
    <3>2. CASE b \notin D
      <4>1. b[1] # Null
        BY <3>2
      <4>2. /\ <<tree.child["left"][b[1]], b[1]>> \in States /\ h[<<tree.child["left"][b[1]], b[1]>>] < h[b]
            /\ <<tree.child["right"][b[1]], b[2]>> \in States /\ h[<<tree.child["right"][b[1]], b[2]>>] < h[b]
        BY <1>2, <1>3, <1>4, <4>1
      <4> HIDE DEF D, next
      <4>3. QED
        BY <1>5, <3>2, <4>2
    <3>3. QED
      BY <3>1, <3>2
  <2>2. next \in [States -> States]
    BY <2>1
  <2> HIDE DEF next
  <2>3. QED
    BY <2>1, <2>2
<1>8. val \in [States -> Nodes \cup {End}]
  BY <1>4
<1>9. \A b \in B : IF b \in D THEN val[b] \in Q ELSE next[b] \in B
  <2> SUFFICES ASSUME NEW b \in B PROVE IF b \in D THEN val[b] \in Q ELSE next[b] \in B
    OBVIOUS
  <2>1. b \in States /\ Sought(T, g, a, b[1], b[2])
    OBVIOUS
  <2>2. CASE b \in D
    BY <2>1, <2>2 DEF Sought
  <2>3. CASE b \notin D
    <3> DEFINE m == b[1]
    <3>1. m # Null /\ m \in T
      BY <2>1, <2>3 DEF Sought
    <3>2. T \subseteq Nodes /\ a \in Nat /\ g.pos[m] \in Nat
      BY <3>1, NumbersOf DEF Splits
    <3>3. key[m] \in Int /\ k \in Int
      BY <3>1, RBTreeAssumption DEF Sorted
    <3>4. m \in Beyond(strict, k) <=> Left(b)
      BY <3>1, <3>2, <3>3 DEF Beyond
    <3>5. Left(b) <=> a < g.pos[m]
      BY <3>1, <3>4 DEF Splits
    <3> HIDE DEF Left
    <3>6. CASE Left(b)
      <4>1. Sought(T, g, a, tree.child["left"][m], m)
        BY <2>1, <3>1, <3>2, <3>5, <3>6, SoughtLeft
      <4>2. next[b] = <<tree.child["left"][m], m>>
        BY <1>5, <2>1, <2>3, <3>6
      <4>3. next[b] \in States
        BY <1>7, <2>1
      <4> HIDE DEF next, m
      <4>4. QED
        BY <2>3, <4>1, <4>2, <4>3
    <3>7. CASE ~Left(b)
      <4>1. g.pos[m] <= a
        BY <3>2, <3>5, <3>7
      <4>2. Sought(T, g, a, tree.child["right"][m], b[2])
        BY <2>1, <3>1, <3>2, <4>1, SoughtRight
      <4>3. next[b] = <<tree.child["right"][m], b[2]>>
        BY <1>5, <2>1, <2>3, <3>7
      <4>4. next[b] \in States
        BY <1>7, <2>1
      <4> HIDE DEF next, m
      <4>5. QED
        BY <2>3, <4>2, <4>3, <4>4
    <3>8. QED
      BY <3>6, <3>7
  <2>4. QED
    BY <2>2, <2>3
<1>10. Bound(strict, k, n, r) = go[<<n, r>>]
  BY DEF Bound
<1>11. <<n, r>> \in B
  <2>1. T \subseteq Nodes
    BY NumbersOf
  <2>2. <<n, r>> \in States
    BY <2>1 DEF Sought, States
  <2>3. QED
    BY <2>2
<1> HIDE DEF Is, D, val, next, B, Q
<1>12. PICK f : Walks(States, D, val, next, f)
  <2>1. Nodes \cup {End} # {}
    OBVIOUS
  <2>2. QED
    BY <1>2, <1>7, <1>8, <2>1, WalkExists
<1>13. Is(go)
  BY <1>6, <1>12
<1> HIDE DEF go
<1>14. Walks(States, D, val, next, go)
  BY <1>6, <1>13
<1>15. Arrives(States, D, val, next, h, B, Q)
  <2>1. h \in [States -> Nat]
    OBVIOUS
  <2>2. B \subseteq States
    BY DEF B
  <2>3. QED
    BY <1>7, <1>9, <2>1, <2>2 DEF Arrives
<1>16. go[<<n, r>>] \in Q
  BY <1>11, <1>14, <1>15, WalkEnds
<1>17. QED
  BY <1>10, <1>16 DEF Q

(* x is behind the first a nodes, and no other.                            *)
Numbered(T, g, x, a) == x \in T \cup {End} /\ g.pos[x] = a + 1

(* __equal_range_multi finds both bounds.                                  *)
LEMMA EqualRangeIs ==
  ASSUME tree \in Trees, NEW T, NEW C, NEW e \in Ranks, Forest(tree, T, C), Ranked(tree, e),
         NEW g, Inorder(tree, T, g), Sorted(T, g), NEW k \in Keys,
         NEW l \in Nat, Splits(T, g, Beyond(FALSE, k), l), NEW u \in Nat, Splits(T, g, Beyond(TRUE, k), u)
  PROVE  \E x, y : EqualRange(k) = <<x, y>> /\ Numbered(T, g, x, l) /\ Numbered(T, g, y, u)
<1> DEFINE Pair(b) == <<Bound(FALSE, k, tree.child["left"][b[1]], b[1]),
                        Bound(TRUE, k, tree.child["right"][b[1]], b[2])>>
           Is(f) == f = [b \in (Nodes \cup {Null}) \X (Nodes \cup {End}) |->
                           LET n == b[1] IN
                           IF n = Null THEN <<b[2], b[2]>>
                           ELSE IF k < key[n] THEN f[<<tree.child["left"][n], n>>]
                           ELSE IF key[n] < k THEN f[<<tree.child["right"][n], b[2]>>]
                           ELSE <<Bound(FALSE, k, tree.child["left"][n], n),
                                  Bound(TRUE, k, tree.child["right"][n], b[2])>>]
           go == CHOOSE f : Is(f)
           D == {b \in States : b[1] = Null \/ (~(k < key[b[1]]) /\ ~(key[b[1]] < k))}
           val == [b \in States |-> IF b[1] = Null THEN <<b[2], b[2]>> ELSE Pair(b)]
           next == [b \in States |-> IF b \in D THEN b
                                     ELSE IF k < key[b[1]] THEN <<tree.child["left"][b[1]], b[1]>>
                                     ELSE <<tree.child["right"][b[1]], b[2]>>]
           B == {b \in States : Sought(T, g, l, b[1], b[2]) /\ Sought(T, g, u, b[1], b[2])}
           Q == {<<x, y>> : x \in {m \in T \cup {End} : g.pos[m] = l + 1},
                            y \in {m \in T \cup {End} : g.pos[m] = u + 1}}
<1>1. PICK M \in Nat : \E h \in [States -> 0..M] :
           \A b \in States, s \in Sides, x \in Nodes \cup {End} : b[1] # Null =>
             <<tree.child[s][b[1]], x>> \in States /\ h[<<tree.child[s][b[1]], x>>] < h[b]
  BY DescentRank
<1>2. PICK h \in [States -> 0..M] :
           \A b \in States, s \in Sides, x \in Nodes \cup {End} : b[1] # Null =>
             <<tree.child[s][b[1]], x>> \in States /\ h[<<tree.child[s][b[1]], x>>] < h[b]
  BY <1>1
<1>3. "left" \in Sides /\ "right" \in Sides
  BY DEF Sides
<1>4. \A b \in States : /\ b[1] \in Nodes \cup {Null} /\ b[2] \in Nodes \cup {End}
                        /\ b[1] # Null => b[1] \in Nodes \cup {End}
  BY DEF States
<1> HIDE DEF Pair
<1>5. \A b \in States : next[b] = IF b \in D THEN b
                                  ELSE IF k < key[b[1]] THEN <<tree.child["left"][b[1]], b[1]>>
                                  ELSE <<tree.child["right"][b[1]], b[2]>>
  OBVIOUS
<1>6. \A f : Is(f) <=> Walks(States, D, val, next, f)
  <2> SUFFICES ASSUME NEW f PROVE Is(f) <=> Walks(States, D, val, next, f)
    OBVIOUS
  <2>1. Is(f) <=> f = [b \in States |-> IF b[1] = Null THEN <<b[2], b[2]>>
                           ELSE IF k < key[b[1]] THEN f[<<tree.child["left"][b[1]], b[1]>>]
                           ELSE IF key[b[1]] < k THEN f[<<tree.child["right"][b[1]], b[2]>>]
                           ELSE Pair(b)]
    BY DEF States, Pair
  <2> HIDE DEF Is
  <2>2. \A b \in States : (IF b[1] = Null THEN <<b[2], b[2]>>
                           ELSE IF k < key[b[1]] THEN f[<<tree.child["left"][b[1]], b[1]>>]
                           ELSE IF key[b[1]] < k THEN f[<<tree.child["right"][b[1]], b[2]>>]
                           ELSE Pair(b))
                        = (IF b \in D THEN val[b] ELSE f[next[b]])
    OBVIOUS
  <2>3. QED
    BY <2>1, <2>2 DEF Walks
<1>7. next \in [States -> States] /\ \A b \in States : b \notin D => h[next[b]] < h[b]
  <2>1. ASSUME NEW b \in States PROVE next[b] \in States /\ (b \notin D => h[next[b]] < h[b])
    <3>1. CASE b \in D
      BY <1>5, <3>1
    <3>2. CASE b \notin D
      <4>1. b[1] # Null
        BY <3>2
      <4>2. /\ <<tree.child["left"][b[1]], b[1]>> \in States /\ h[<<tree.child["left"][b[1]], b[1]>>] < h[b]
            /\ <<tree.child["right"][b[1]], b[2]>> \in States /\ h[<<tree.child["right"][b[1]], b[2]>>] < h[b]
        BY <1>2, <1>3, <1>4, <4>1
      <4> HIDE DEF D, next
      <4>3. QED
        BY <1>5, <3>2, <4>2
    <3>3. QED
      BY <3>1, <3>2
  <2>2. next \in [States -> States]
    BY <2>1
  <2> HIDE DEF next
  <2>3. QED
    BY <2>1, <2>2
<1>8. ASSUME NEW b \in B PROVE IF b \in D THEN val[b] \in Q ELSE next[b] \in B
  <2> DEFINE m == b[1]
             r == b[2]
  <2>1. b \in States /\ Sought(T, g, l, m, r) /\ Sought(T, g, u, m, r) /\ l \in Nat /\ u \in Nat
    BY DEF Splits
  <2>2. CASE m = Null
    <3>1. val[b] = <<r, r>> /\ b \in D
      BY <2>1, <2>2
    <3>2. r \in T \cup {End} /\ g.pos[r] = l + 1 /\ g.pos[r] = u + 1
      BY <2>1, <2>2 DEF Sought
    <3> HIDE DEF r, val, D
    <3>3. QED
      BY <3>1, <3>2
  <2>3. CASE m # Null
    <3>1. m \in T
      BY <2>1, <2>3 DEF Sought
    <3>2. T \subseteq Nodes /\ g.pos[m] \in Nat
      BY <3>1, NumbersOf
    <3>3. key[m] \in Int /\ k \in Int
      BY <3>1, RBTreeAssumption DEF Sorted
    <3>4. /\ (l < g.pos[m] <=> ~(key[m] < k)) /\ (u < g.pos[m] <=> k < key[m])
      BY <3>1, <3>2 DEF Splits, Beyond
    <3>5. CASE k < key[m]
      <4>1. l < g.pos[m] /\ u < g.pos[m]
        BY <3>3, <3>4, <3>5
      <4>2. Sought(T, g, l, tree.child["left"][m], m) /\ Sought(T, g, u, tree.child["left"][m], m)
        BY <2>1, <2>3, <4>1, SoughtLeft
      <4>3. b \notin D /\ next[b] = <<tree.child["left"][m], m>>
        BY <1>5, <2>1, <2>3, <3>5
      <4>4. next[b] \in States
        BY <1>7, <2>1
      <4> HIDE DEF next, m, D
      <4>5. QED
        BY <4>2, <4>3, <4>4
    <3>6. CASE key[m] < k
      <4>1. g.pos[m] <= l /\ g.pos[m] <= u
        BY <2>1, <3>2, <3>3, <3>4, <3>6
      <4>2. Sought(T, g, l, tree.child["right"][m], r) /\ Sought(T, g, u, tree.child["right"][m], r)
        BY <2>1, <2>3, <4>1, SoughtRight
      <4>3. b \notin D /\ next[b] = <<tree.child["right"][m], r>>
        BY <1>5, <2>1, <2>3, <3>3, <3>6
      <4>4. next[b] \in States
        BY <1>7, <2>1
      <4> HIDE DEF next, m, D, r
      <4>5. QED
        BY <4>2, <4>3, <4>4
    <3>7. CASE ~(k < key[m]) /\ ~(key[m] < k)
      <4>1. l < g.pos[m] /\ g.pos[m] <= u
        BY <2>1, <3>2, <3>3, <3>4, <3>7
      <4>2. Sought(T, g, l, tree.child["left"][m], m)
        BY <2>1, <2>3, <4>1, SoughtLeft
      <4>3. Sought(T, g, u, tree.child["right"][m], r)
        BY <2>1, <2>3, <4>1, SoughtRight
      <4> DEFINE x == Bound(FALSE, k, tree.child["left"][m], m)
                 y == Bound(TRUE, k, tree.child["right"][m], r)
      <4>4. b \in D /\ val[b] = <<x, y>>
        BY <2>1, <2>3, <3>7 DEF Pair
      <4> HIDE DEF m, r, D, val, next, B, Q, Is, go
      <4>5. PICK no, yes \in BOOLEAN : no = FALSE /\ yes = TRUE
        OBVIOUS
      <4>6. Splits(T, g, Beyond(no, k), l) /\ Splits(T, g, Beyond(yes, k), u)
        BY <4>5
      <4>7. /\ Bound(no, k, tree.child["left"][m], m) \in T \cup {End}
            /\ g.pos[Bound(no, k, tree.child["left"][m], m)] = l + 1
        BY <4>2, <4>6, BoundIs
      <4>8. /\ Bound(yes, k, tree.child["right"][m], r) \in T \cup {End}
            /\ g.pos[Bound(yes, k, tree.child["right"][m], r)] = u + 1
        BY <4>3, <4>6, BoundIs
      <4>9. x \in T \cup {End} /\ g.pos[x] = l + 1 /\ y \in T \cup {End} /\ g.pos[y] = u + 1
        BY <4>5, <4>7, <4>8
      <4> HIDE DEF x, y
      <4>10. QED
        BY <4>4, <4>9 DEF Q
    <3>8. QED
      BY <3>5, <3>6, <3>7
  <2>4. QED
    BY <2>2, <2>3
<1>9. EqualRange(k) = go[<<Root(tree), End>>]
  BY DEF EqualRange
<1>10. <<Root(tree), End>> \in B
  <2>1. Sought(T, g, l, Root(tree), End) /\ Sought(T, g, u, Root(tree), End)
    BY SoughtFromRoot DEF Splits
  <2>2. T \subseteq Nodes
    BY NumbersOf
  <2>3. <<Root(tree), End>> \in States
    BY <2>1, <2>2 DEF Sought, States
  <2>4. QED
    BY <2>1, <2>3
<1> DEFINE V == {val[b] : b \in States}
<1>11. val \in [States -> V] /\ V # {}
  BY <1>10
<1> HIDE DEF Is, D, val, next, B, Q, V
<1>12. PICK f : Walks(States, D, val, next, f)
  BY <1>2, <1>7, <1>11, WalkExists
<1>13. Is(go)
  BY <1>6, <1>12
<1> HIDE DEF go
<1>14. Walks(States, D, val, next, go)
  BY <1>6, <1>13
<1>15. Arrives(States, D, val, next, h, B, Q)
  <2>1. h \in [States -> Nat]
    OBVIOUS
  <2>2. B \subseteq States
    BY DEF B
  <2>3. QED
    BY <1>7, <1>8, <2>1, <2>2 DEF Arrives
<1>16. go[<<Root(tree), End>>] \in Q
  BY <1>10, <1>14, <1>15, WalkEnds
<1>17. \E x, y \in T \cup {End} : go[<<Root(tree), End>>] = <<x, y>> /\ g.pos[x] = l + 1 /\ g.pos[y] = u + 1
  BY <1>16 DEF Q
<1>18. QED
  BY <1>9, <1>17 DEF Numbered

(* place is the null leaf behind the first a nodes.                        *)
Gap(T, g, place, a) == \E p, s : place = <<p, s>> /\ Open(tree, T, p, s) /\ Lower(g, s, p) = a

(* A descent that goes left at what is behind a place ends there.          *)
LEMMA DescentGap ==
  ASSUME tree \in Trees, NEW T, NEW C, NEW e \in Ranks, Forest(tree, T, C), Ranked(tree, e),
         NEW g, Inorder(tree, T, g), NEW L, NEW a, Splits(T, g, L, a)
  PROVE  Gap(T, g, Descent(L), a)
<1> DEFINE Where(n) == IF n \in L THEN "left" ELSE "right"
           Is(f) == f = [n \in Nodes |-> LET s == IF n \in L THEN "left" ELSE "right"
                                         IN  IF tree.child[s][n] = Null THEN <<n, s>> ELSE f[tree.child[s][n]]]
           go == CHOOSE f : Is(f)
           D == {n \in Nodes : tree.child[Where(n)][n] = Null}
           val == [n \in Nodes |-> <<n, Where(n)>>]
           next == [n \in Nodes |-> IF n \in D THEN n ELSE tree.child[Where(n)][n]]
           x == Root(tree)
           B == {n \in T : g.lo[n] <= a /\ a < g.hi[n]}
           Q == {b \in T \X Sides : tree.child[b[2]][b[1]] = Null /\ Lower(g, b[2], b[1]) = a}
<1>1. /\ T \subseteq Nodes /\ T \subseteq Places /\ End \in Places /\ End \notin T /\ Null \notin T
      /\ \A m \in T \cup {End} : m \in Places /\ g.pos[m] \in Nat /\ g.lo[m] \in Nat /\ g.hi[m] \in Nat
      /\ \A m \in T \cup {End}, s \in Sides : (m = End => s = "left") => Fits(tree, g, s, m)
  BY NumbersOf
<1>2. PICK M \in Nat : \E r \in [Nodes -> 0..M] :
        \A n \in Nodes, q \in Sides : tree.child[q][n] # Null =>
             tree.child[q][n] \in Nodes /\ r[tree.child[q][n]] < r[n]
  BY Downwards
<1>3. PICK r \in [Nodes -> 0..M] :
        \A n \in Nodes, q \in Sides : tree.child[q][n] # Null =>
             tree.child[q][n] \in Nodes /\ r[tree.child[q][n]] < r[n]
  BY <1>2
<1>4. "left" \in Sides /\ "right" \in Sides /\ \A n : Where(n) \in Sides
  BY DEF Sides
<1>5. a \in Nat /\ a < g.pos[End] /\ \A m \in T : m \in L <=> a < g.pos[m]
  BY DEF Splits
<1>6. Sought(T, g, a, x, End)
  BY <1>5, SoughtFromRoot
<1>7. x # Null => Descent(L) = go[x]
  BY DEF Descent
<1>8. \A f : Is(f) <=> Walks(Nodes, D, val, next, f)
  <2> SUFFICES ASSUME NEW f PROVE Is(f) <=> Walks(Nodes, D, val, next, f)
    OBVIOUS
  <2>1. Is(f) <=> f = [n \in Nodes |-> IF tree.child[Where(n)][n] = Null THEN <<n, Where(n)>>
                                       ELSE f[tree.child[Where(n)][n]]]
    OBVIOUS
  <2> HIDE DEF Is, Where
  <2>2. \A n \in Nodes : (IF tree.child[Where(n)][n] = Null THEN <<n, Where(n)>>
                          ELSE f[tree.child[Where(n)][n]])
                       = (IF n \in D THEN val[n] ELSE f[next[n]])
    OBVIOUS
  <2>3. QED
    BY <2>1, <2>2 DEF Walks
<1>9. ASSUME NEW n \in B PROVE IF n \in D THEN val[n] \in Q ELSE next[n] \in B
  <2> DEFINE s == Where(n)
             c == tree.child[s][n]
  <2>1. n \in T /\ n \in Nodes /\ g.lo[n] <= a /\ a < g.hi[n] /\ s \in Sides
    BY <1>1, <1>4
  <2>2. Fits(tree, g, s, n)
    BY <1>1, <2>1
  <2>3. /\ g.pos[n] \in Nat /\ g.lo[n] \in Nat /\ g.hi[n] \in Nat
    BY <1>1, <2>1
  <2>4. Lower(g, s, n) <= a /\ a < Upper(g, s, n) /\ Lower(g, s, n) \in Nat /\ Upper(g, s, n) \in Nat
    BY <1>5, <2>1, <2>3 DEF Lower, Upper
  <2>5. val[n] = <<n, s>> /\ (n \in D <=> c = Null) /\ (n \notin D => next[n] = c)
    BY <2>1
  <2> HIDE DEF Where, val, D, next, s
  <2>6. CASE c = Null
    <3>1. Lower(g, s, n) = a
      BY <1>5, <2>2, <2>4, <2>6 DEF Fits
    <3>2. QED
      BY <2>1, <2>5, <2>6, <3>1
  <2>7. CASE c # Null
    <3>1. c \in T
      BY <2>1, <2>7, Below
    <3>2. g.lo[c] = Lower(g, s, n) /\ g.hi[c] = Upper(g, s, n)
      BY <2>2, <2>7 DEF Fits
    <3>3. QED
      BY <2>4, <2>5, <2>7, <3>1, <3>2
  <2>8. QED
    BY <2>6, <2>7
<1> HIDE DEF Where, Is, go, x
<1>10. next \in [Nodes -> Nodes] /\ \A n \in Nodes : n \notin D => r[next[n]] < r[n]
  BY <1>3, <1>4
<1>11. val \in [Nodes -> Nodes \X Sides]
  <2>1. \A n \in Nodes : <<n, Where(n)>> \in Nodes \X Sides
    BY <1>4
  <2>2. QED
    BY <2>1
<1>12. r \in [Nodes -> Nat]
  OBVIOUS
<1>13. B \subseteq Nodes
  BY <1>1
<1> HIDE DEF D, val, next, Q
<1>14. CASE x # Null
  <2>1. x \in B /\ x \in Nodes
    BY <1>1, <1>6, <1>14 DEF Sought
  <2> HIDE DEF B
  <2>2. Nodes \X Sides # {}
    <3>1. <<x, "left">> \in Nodes \X Sides
      BY <1>4, <2>1
    <3>2. QED
      BY <3>1
  <2>3. PICK f : Walks(Nodes, D, val, next, f)
    BY <1>10, <1>11, <2>2, WalkExists
  <2>4. Is(go)
    BY <1>8, <2>3 DEF go
  <2>5. Walks(Nodes, D, val, next, go)
    BY <1>8, <2>4
  <2>6. Arrives(Nodes, D, val, next, r, B, Q)
    BY <1>9, <1>10, <1>12, <1>13 DEF Arrives
  <2>7. go[x] \in Q
    BY <2>1, <2>5, <2>6, WalkEnds
  <2>8. PICK p \in T, s \in Sides : go[x] = <<p, s>> /\ tree.child[s][p] = Null /\ Lower(g, s, p) = a
    BY <2>7 DEF Q
  <2>9. Open(tree, T, p, s)
    BY <1>1, <2>8 DEF Open
  <2>10. QED
    BY <1>7, <1>14, <2>8, <2>9 DEF Gap
<1>15. CASE x = Null
  <2>1. Open(tree, T, End, "left") /\ Descent(L) = <<End, "left">>
    BY <1>4, <1>15 DEF Open, Descent, AtEnd, Root, x
  <2>2. Fits(tree, g, "left", End) /\ g.lo[End] = 0
    BY <1>1, <1>4, NumbersOf
  <2>3. g.pos[End] = a + 1
    BY <1>6, <1>15 DEF Sought
  <2>4. Lower(g, "left", End) = a
    BY <1>1, <1>5, <1>15, <2>2, <2>3 DEF Fits, Lower, Upper, Root, x
  <2>5. QED
    BY <2>1, <2>4 DEF Gap
<1>16. QED
  BY <1>14, <1>15

(* The tree, and its order, when it has its shape.                         *)
InShape(T, C, e, g) ==
  /\ tree \in Trees /\ e \in Ranks /\ Forest(tree, T, C) /\ Ranked(tree, e)
  /\ Inorder(tree, T, g) /\ begin \in T \cup {End} /\ g.pos[begin] = 1
  /\ tree.child["left"][begin] = Null

(* The leaf between a node and the one before it.                          *)
LEMMA BeforeGap ==
  ASSUME NEW T, NEW C, NEW e, NEW g, InShape(T, C, e, g), NEW h \in T \cup {End}
  PROVE  /\ h = begin => Gap(T, g, Between(Null, h), g.pos[h] - 1)
         /\ h # begin => /\ Gap(T, g, Between(PrevNode(tree, h), h), g.pos[h] - 1)
                         /\ PrevNode(tree, h) \in T /\ g.pos[PrevNode(tree, h)] = g.pos[h] - 1
<1>1. /\ tree \in Trees /\ e \in Ranks /\ Forest(tree, T, C) /\ Ranked(tree, e) /\ Inorder(tree, T, g)
      /\ begin \in T \cup {End} /\ g.pos[begin] = 1 /\ tree.child["left"][begin] = Null
  BY DEF InShape
<1>2. "left" \in Sides /\ "right" \in Sides
  BY DEF Sides
<1>3. /\ End \notin T /\ Fits(tree, g, "left", h)
      /\ g.pos[h] \in Nat /\ g.lo[h] \in Nat /\ \A n \in T : g.pos[n] \in Nat
      /\ \A m, n \in T \cup {End} : g.pos[m] = g.pos[n] => m = n
  BY <1>1, <1>2, NumbersOf
<1>4. ASSUME tree.child["left"][h] = Null PROVE Gap(T, g, <<h, "left">>, g.pos[h] - 1)
  <2>1. g.lo[h] = g.pos[h] - 1
    BY <1>3, <1>4 DEF Fits, Lower, Upper
  <2>2. Open(tree, T, h, "left")
    BY <1>2, <1>4 DEF Open
  <2>3. QED
    BY <2>1, <2>2 DEF Gap, Lower
<1>5. h = begin => Gap(T, g, Between(Null, h), g.pos[h] - 1)
  BY <1>1, <1>4 DEF Between
<1>6. ASSUME h # begin
      PROVE  /\ Gap(T, g, Between(PrevNode(tree, h), h), g.pos[h] - 1)
             /\ PrevNode(tree, h) \in T /\ g.pos[PrevNode(tree, h)] = g.pos[h] - 1
  <2> DEFINE p == PrevNode(tree, h)
  <2>1. g.pos[h] # 1
    BY <1>1, <1>3, <1>6
  <2>2. p \in T /\ g.pos[p] = g.pos[h] - 1
    BY <1>1, <2>1, PrevInorder
  <2>3. ASSUME tree.child["left"][h] # Null PROVE Gap(T, g, <<p, "right">>, g.pos[h] - 1)
    <3>1. EmptyPlace(tree, T, <<p, "right">>)
      <4>1. tree.child["right"][p] = Null
        <5> DEFINE c == tree.child["left"][h]
        <5>1. p = Extreme(tree, "right", c)
          BY <2>3 DEF PrevNode
        <5>2. c \in T
          <6>1. h \notin C /\ h \in Places
            BY <1>1, RBTreeAssumption DEF Forest, Places
          <6>2. QED
            BY <1>1, <1>2, <2>3, <6>1 DEF Forest, LinksWithin
        <5>3. T \in SUBSET Nodes
          BY <1>1 DEF Forest
        <5>4. \A n \in T : tree.child["right"][n] # Null => tree.child["right"][n] \in T
          BY <1>1, <1>2, Below
        <5> HIDE DEF c, p
        <5>5. QED
          BY <1>1, <1>2, <5>1, <5>2, <5>3, <5>4, ExtremeIs
      <4>2. QED
        BY <1>2, <1>3, <2>2, <4>1 DEF EmptyPlace
    <3>2. PICK q \in T \cup {End}, s \in Sides :
             <<p, "right">> = <<q, s>> /\ tree.child[s][q] = Null /\ (q = End => s = "left")
      BY <3>1 DEF EmptyPlace
    <3> HIDE DEF p
    <3>3. Open(tree, T, p, "right")
      BY <3>2 DEF Open
    <3>4. QED
      BY <2>2, <3>3 DEF Gap, Lower
  <2> HIDE DEF p
  <2>4. Gap(T, g, Between(p, h), g.pos[h] - 1)
    BY <1>4, <2>3 DEF Between
  <2>5. QED
    BY <2>2, <2>4 DEF p
<1>7. QED
  BY <1>5, <1>6

(* The leaf behind a node.                                                 *)
LEMMA BehindGap ==
  ASSUME NEW T, NEW C, NEW e, NEW g, InShape(T, C, e, g), NEW h \in T
  PROVE  /\ Gap(T, g, IF tree.child["right"][h] = Null THEN <<h, "right">>
                      ELSE <<NextNode(tree, h), "left">>, g.pos[h])
         /\ NextNode(tree, h) \in T \cup {End} /\ g.pos[NextNode(tree, h)] = g.pos[h] + 1
<1>1. /\ tree \in Trees /\ e \in Ranks /\ Forest(tree, T, C) /\ Ranked(tree, e) /\ Inorder(tree, T, g)
  BY DEF InShape
<1>2. "left" \in Sides /\ "right" \in Sides
  BY DEF Sides
<1>3. /\ End \notin T /\ \A n \in T \cup {End} : g.pos[n] \in Nat /\ g.lo[n] \in Nat
      /\ \A n \in T \cup {End} : Fits(tree, g, "left", n)
  BY <1>1, <1>2, NumbersOf
<1> DEFINE y == NextNode(tree, h)
<1>4. y \in T \cup {End} /\ g.pos[y] = g.pos[h] + 1
  BY <1>1, NextInorder
<1>5. ASSUME tree.child["right"][h] = Null PROVE Gap(T, g, <<h, "right">>, g.pos[h])
  <2>1. Open(tree, T, h, "right")
    BY <1>2, <1>3, <1>5 DEF Open
  <2>2. QED
    BY <2>1 DEF Gap, Lower
<1>6. ASSUME tree.child["right"][h] # Null PROVE Gap(T, g, <<y, "left">>, g.pos[h])
  <2>1. tree.child["left"][y] = Null
    <3> DEFINE c == tree.child["right"][h]
    <3>1. y = Extreme(tree, "left", c)
      BY <1>6 DEF NextNode
    <3>2. c \in T
      BY <1>1, <1>2, <1>6, Below
    <3>3. T \in SUBSET Nodes
      BY <1>1 DEF Forest
    <3>4. \A n \in T : tree.child["left"][n] # Null => tree.child["left"][n] \in T
      BY <1>1, <1>2, Below
    <3> HIDE DEF c, y
    <3>5. QED
      BY <1>1, <1>2, <3>1, <3>2, <3>3, <3>4, ExtremeIs
  <2> HIDE DEF y
  <2>2. Open(tree, T, y, "left")
    BY <1>2, <1>4, <2>1 DEF Open
  <2>3. g.lo[y] = g.pos[h]
    <3>1. Fits(tree, g, "left", y) /\ g.lo[y] \in Nat /\ g.pos[h] \in Nat
      BY <1>3, <1>4
    <3>2. QED
      BY <1>4, <2>1, <3>1 DEF Fits, Lower, Upper
  <2>4. QED
    BY <2>2, <2>3 DEF Gap, Lower
<1>7. QED
  BY <1>4, <1>5, <1>6

(* j, or the nearest to it from l to u.                                    *)
Nearest(l, u, j) == IF j < l THEN l ELSE IF j > u THEN u ELSE j

(* __find_leaf finds the place that is nearest to the hint.                *)
LEMMA FindLeafGap ==
  ASSUME NEW T, NEW C, NEW e, NEW g, InShape(T, C, e, g), Sorted(T, g), NEW k \in Keys,
         NEW l, Splits(T, g, Beyond(FALSE, k), l), NEW u, Splits(T, g, Beyond(TRUE, k), u),
         NEW h \in T \cup {End}
  PROVE  /\ Gap(T, g, FindLeafHigh(k), u) /\ Gap(T, g, FindLeafLow(k), l)
         /\ Gap(T, g, FindLeaf(h, k), Nearest(l, u, g.pos[h] - 1)) /\ l <= u
<1>1. /\ tree \in Trees /\ e \in Ranks /\ Forest(tree, T, C) /\ Ranked(tree, e) /\ Inorder(tree, T, g)
      /\ begin \in T \cup {End} /\ g.pos[begin] = 1
  BY DEF InShape
<1>2. /\ T \subseteq Nodes /\ End \notin T /\ \A n \in T \cup {End} : g.pos[n] \in Nat
      /\ \A n \in T : 0 < g.pos[n] /\ g.pos[n] < g.pos[End]
      /\ \A i \in 1..g.pos[End] - 1 : \E n \in T : g.pos[n] = i
  BY <1>1, NumbersOf DEF Inorder, Counted
<1>3. \A n \in T : key[n] \in Int /\ k \in Int
  BY RBTreeAssumption DEF Sorted
<1>4. /\ \A n \in T : (l < g.pos[n] <=> ~(key[n] < k)) /\ (u < g.pos[n] <=> k < key[n])
      /\ l \in Nat /\ u \in Nat /\ l < g.pos[End] /\ u < g.pos[End]
  BY <1>2 DEF Splits, Beyond
<1>5. l <= u
  <2> SUFFICES ASSUME u < l PROVE FALSE
    BY <1>4
  <2>1. l \in 1..g.pos[End] - 1
    BY <1>2, <1>4
  <2>2. PICK n \in T : g.pos[n] = l
    BY <1>2, <2>1
  <2>3. k < key[n] /\ key[n] < k
    BY <1>3, <1>4, <2>2
  <2>4. QED
    BY <1>3, <2>3
<1>6. Gap(T, g, FindLeafHigh(k), u)
  <2>1. FindLeafHigh(k) = Descent(Beyond(TRUE, k))
    BY DEF FindLeafHigh, Beyond
  <2>2. QED
    BY <1>1, <2>1, DescentGap
<1>7. Gap(T, g, FindLeafLow(k), l)
  <2>1. FindLeafLow(k) = Descent(Beyond(FALSE, k))
    BY DEF FindLeafLow, Beyond
  <2>2. QED
    BY <1>1, <2>1, DescentGap
<1> DEFINE j == g.pos[h] - 1
           p == PrevNode(tree, h)
<1>8. /\ h = begin => Gap(T, g, Between(Null, h), j)
      /\ h # begin => Gap(T, g, Between(p, h), j) /\ p \in T /\ g.pos[p] = j
  BY BeforeGap
<1> HIDE DEF p
<1>9. g.pos[h] \in Nat
  BY <1>2
<1>10. Gap(T, g, FindLeaf(h, k), Nearest(l, u, j))
  <2>1. CASE h = End \/ ~(key[h] < k)
    <3>1. l <= j
      <4>1. l < g.pos[h]
        BY <1>4, <2>1
      <4>2. QED
        BY <1>4, <1>9, <4>1
    <3>2. CASE h = begin
      <4>1. j = 0 /\ Nearest(l, u, j) = j
        BY <1>1, <1>4, <3>1, <3>2 DEF Nearest
      <4>2. FindLeaf(h, k) = Between(Null, h)
        BY <2>1, <3>2 DEF FindLeaf
      <4>3. QED
        BY <1>8, <3>2, <4>1, <4>2
    <3>3. CASE h # begin
      <4>1. p \in T /\ g.pos[p] = j /\ j \in Nat
        BY <1>2, <1>8, <3>3
      <4>2. CASE ~(k < key[p])
        <5>1. j <= u
          BY <1>4, <4>1, <4>2
        <5>2. Nearest(l, u, j) = j
          BY <1>4, <3>1, <4>1, <5>1 DEF Nearest
        <5>3. FindLeaf(h, k) = Between(p, h)
          BY <2>1, <3>3, <4>2 DEF FindLeaf, p
        <5>4. QED
          BY <1>8, <3>3, <5>2, <5>3
      <4>3. CASE k < key[p]
        <5>1. u < j
          BY <1>4, <4>1, <4>3
        <5>2. Nearest(l, u, j) = u
          BY <1>4, <1>5, <4>1, <5>1 DEF Nearest
        <5>3. FindLeaf(h, k) = FindLeafHigh(k)
          BY <2>1, <3>3, <4>3 DEF FindLeaf, p
        <5>4. QED
          BY <1>6, <5>2, <5>3
      <4>4. QED
        BY <4>2, <4>3
    <3>4. QED
      BY <3>2, <3>3
  <2>2. CASE ~(h = End \/ ~(key[h] < k))
    <3>1. h \in T /\ key[h] < k
      BY <2>2
    <3>2. ~(l < g.pos[h])
      BY <1>4, <3>1
    <3>3. j < l
      BY <1>4, <1>9, <3>2
    <3>4. Nearest(l, u, j) = l
      BY <3>3 DEF Nearest
    <3>5. FindLeaf(h, k) = FindLeafLow(k)
      BY <2>2 DEF FindLeaf
    <3>6. QED
      BY <1>7, <3>4, <3>5
  <2>3. QED
    BY <2>1, <2>2
<1>11. QED
  BY <1>5, <1>6, <1>7, <1>10

(* A key that is not there has one place only.                             *)
LEMMA AbsentGap ==
  ASSUME NEW T, NEW C, NEW e, NEW g, InShape(T, C, e, g), Sorted(T, g), NEW k \in Keys,
         NEW l, Splits(T, g, Beyond(FALSE, k), l), NEW u, Splits(T, g, Beyond(TRUE, k), u),
         \A n \in T : key[n] # k
  PROVE  l = u
<1>1. Inorder(tree, T, g) /\ T \subseteq Nodes
  BY DEF InShape, Forest
<1>2. /\ \A n \in T : g.pos[n] \in Nat
      /\ \A i \in 1..g.pos[End] - 1 : \E n \in T : g.pos[n] = i
      /\ g.pos[End] \in Nat
  BY <1>1, NumbersAre DEF Inorder, Counted, Places
<1>3. \A n \in T : key[n] \in Int /\ k \in Int
  BY RBTreeAssumption DEF Sorted
<1>4. /\ \A n \in T : (l < g.pos[n] <=> ~(key[n] < k)) /\ (u < g.pos[n] <=> k < key[n])
      /\ l \in Nat /\ u \in Nat /\ l < g.pos[End] /\ u < g.pos[End]
  BY <1>1 DEF Splits, Beyond
<1>5. \A n \in T : l < g.pos[n] <=> u < g.pos[n]
  BY <1>3, <1>4
<1>6. ASSUME NEW i \in Nat, 0 < i, i < g.pos[End] PROVE l < i <=> u < i
  <2>1. i \in 1..g.pos[End] - 1
    BY <1>2, <1>6
  <2>2. PICK n \in T : g.pos[n] = i
    BY <1>2, <2>1
  <2>3. QED
    BY <1>5, <2>2
<1>7. l < u => FALSE
  <2>1. l < u => (l < u <=> u < u)
    BY <1>4, <1>6
  <2>2. QED
    BY <1>4, <2>1
<1>8. u < l => FALSE
  <2>1. u < l => (l < l <=> u < l)
    BY <1>4, <1>6
  <2>2. QED
    BY <1>4, <2>1
<1>9. QED
  BY <1>4, <1>7, <1>8

(* __find_equal with a hint finds it.                                      *)
LEMMA FindEqualNearGap ==
  ASSUME NEW T, NEW C, NEW e, NEW g, InShape(T, C, e, g), Sorted(T, g), NEW k \in Keys,
         NEW l, Splits(T, g, Beyond(FALSE, k), l), NEW u, Splits(T, g, Beyond(TRUE, k), u),
         \A n \in T : key[n] # k, NEW h \in T \cup {End}
  PROVE  Gap(T, g, FindEqualNear(h, k), u) /\ Gap(T, g, FindEqual(k), u)
<1>1. /\ tree \in Trees /\ e \in Ranks /\ Forest(tree, T, C) /\ Ranked(tree, e) /\ Inorder(tree, T, g)
      /\ begin \in T \cup {End} /\ g.pos[begin] = 1
  BY DEF InShape
<1>2. /\ T \subseteq Nodes /\ End \notin T /\ \A n \in T \cup {End} : g.pos[n] \in Nat
  BY <1>1, NumbersOf
<1>3. \A n \in T : key[n] \in Int /\ k \in Int
  BY RBTreeAssumption DEF Sorted
<1>4. /\ \A n \in T : (l < g.pos[n] <=> ~(key[n] < k)) /\ (u < g.pos[n] <=> k < key[n])
      /\ l \in Nat /\ u \in Nat /\ l < g.pos[End] /\ u < g.pos[End]
  BY <1>2 DEF Splits, Beyond
<1>5. l = u
  BY AbsentGap
<1>6. Gap(T, g, FindEqual(k), u)
  BY FindLeafGap DEF FindEqual
<1> DEFINE j == g.pos[h] - 1
           p == PrevNode(tree, h)
           y == NextNode(tree, h)
<1>7. /\ h = begin => Gap(T, g, Between(Null, h), j)
      /\ h # begin => Gap(T, g, Between(p, h), j) /\ p \in T /\ g.pos[p] = j
  BY BeforeGap
<1>8. h \in T =>
         /\ Gap(T, g, IF tree.child["right"][h] = Null THEN <<h, "right">> ELSE <<y, "left">>, g.pos[h])
         /\ y \in T \cup {End} /\ g.pos[y] = g.pos[h] + 1
  BY BehindGap
<1> HIDE DEF p, y
<1>9. g.pos[h] \in Nat
  BY <1>2
<1>10. CASE h = End \/ k < key[h]
  <2>1. u < g.pos[h]
    BY <1>4, <1>10
  <2>2. CASE h = begin
    <3>1. j = u
      BY <1>1, <1>4, <2>1, <2>2
    <3>2. FindEqualNear(h, k) = Between(Null, h)
      BY <1>10, <2>2 DEF FindEqualNear
    <3>3. QED
      BY <1>6, <1>7, <2>2, <3>1, <3>2
  <2>3. CASE h # begin /\ key[p] < k
    <3>1. j <= l /\ j \in Nat
      BY <1>2, <1>4, <1>7, <2>3
    <3>2. j = u
      BY <1>4, <1>5, <1>9, <2>1, <3>1
    <3>3. FindEqualNear(h, k) = Between(p, h)
      BY <1>10, <2>3 DEF FindEqualNear, p
    <3>4. QED
      BY <1>6, <1>7, <2>3, <3>2, <3>3
  <2>4. CASE h # begin /\ ~(key[p] < k)
    <3>1. FindEqualNear(h, k) = FindEqual(k)
      BY <1>10, <2>4 DEF FindEqualNear, p
    <3>2. QED
      BY <1>6, <3>1
  <2>5. QED
    BY <2>2, <2>3, <2>4
<1>11. CASE ~(h = End \/ k < key[h])
  <2>1. h \in T /\ ~(k < key[h])
    BY <1>11
  <2>2. g.pos[h] <= u
    BY <1>4, <1>9, <2>1
  <2>3. CASE y = End \/ k < key[y]
    <3>1. u < g.pos[y]
      BY <1>4, <1>8, <2>1, <2>3
    <3>2. g.pos[h] = u
      BY <1>4, <1>8, <1>9, <2>1, <2>2, <3>1
    <3>3. FindEqualNear(h, k) = IF tree.child["right"][h] = Null THEN <<h, "right">> ELSE <<y, "left">>
      BY <1>11, <2>3 DEF FindEqualNear, y
    <3>4. QED
      BY <1>6, <1>8, <2>1, <3>2, <3>3
  <2>4. CASE ~(y = End \/ k < key[y])
    <3>1. FindEqualNear(h, k) = FindEqual(k)
      BY <1>11, <2>4 DEF FindEqualNear, y
    <3>2. QED
      BY <1>6, <3>1
  <2>5. QED
    BY <2>3, <2>4
<1>12. QED
  BY <1>6, <1>10, <1>11

(* t2 has its shape, and its nodes are in the order of t.                  *)
SameOrder(t, T, C, first, t2) ==
  /\ t2 \in Trees /\ Shape(t2, T, C, first)
  /\ \A g : Inorder(t, T, g) => \E g2 : Inorder(t2, T, g2) /\ g2.pos = g.pos

(* Two changes that keep the order keep it together.                       *)
LEMMA OrderTwice ==
  ASSUME NEW T, NEW C, NEW first, NEW t, NEW t1, NEW t2,
         SameOrder(t, T, C, first, t1), SameOrder(t1, T, C, first, t2)
  PROVE  SameOrder(t, T, C, first, t2)
<1>1. ASSUME NEW g, Inorder(t, T, g) PROVE \E g2 : Inorder(t2, T, g2) /\ g2.pos = g.pos
  <2>1. PICK g1 : Inorder(t1, T, g1) /\ g1.pos = g.pos
    BY <1>1 DEF SameOrder
  <2>2. PICK g2 : Inorder(t2, T, g2) /\ g2.pos = g1.pos
    BY <2>1 DEF SameOrder
  <2>3. QED
    BY <2>1, <2>2
<1>2. QED
  BY <1>1 DEF SameOrder

(* So do the same links.                                                   *)
LEMMA SameLinksOrder ==
  ASSUME NEW T, NEW C, NEW first, NEW t, NEW t2 \in Trees, Shape(t2, T, C, first), t2.child = t.child
  PROVE  SameOrder(t, T, C, first, t2)
<1>1. ASSUME NEW g, Inorder(t, T, g) PROVE Inorder(t2, T, g)
  BY <1>1, KeptInorder
<1>2. QED
  BY <1>1 DEF SameOrder

(* So does painting a node.                                                *)
LEMMA PaintOrder ==
  ASSUME NEW t \in Trees, NEW T, NEW C, NEW first, Shape(t, T, C, first),
         NEW n \in Nodes, NEW b \in BOOLEAN
  PROVE  SameOrder(t, T, C, first, Paint(t, n, b)) /\ Paint(t, n, b).child = t.child
<1>1. /\ Paint(t, n, b) \in Trees /\ Shape(Paint(t, n, b), T, C, first)
      /\ Painted(t, n, b, Paint(t, n, b))
  BY PaintShape
<1>2. Paint(t, n, b).child = t.child
  BY <1>1 DEF Painted
<1>3. QED
  BY <1>1, <1>2, SameLinksOrder

(* So does a rotation.                                                     *)
LEMMA RotateOrder ==
  ASSUME NEW t \in Trees, NEW T, NEW C, NEW first, Shape(t, T, C, first),
         NEW s \in Sides, NEW x \in T, t.child[Other(s)][x] # Null
  PROVE  /\ SameOrder(t, T, C, first, Rotate(t, s, x))
         /\ Turned(t, s, x, Other(s), t.child[Other(s)][x], Side(t, x), t.parent[x], Rotate(t, s, x))
<1> DEFINE o == Other(s)
           y == t.child[o][x]
           d == Side(t, x)
           p == t.parent[x]
           t2 == Rotate(t, s, x)
<1>1. t2 \in Trees /\ Shape(t2, T, C, first) /\ Rotated(t, s, x, o, y, d, p, t2)
  BY RotateShape
<1>2. PICK e \in Ranks, sp \in SUBSET Places : Forest(t, T, C) /\ Ranked(t, e) /\ Spine(t, T, sp, first)
  BY DEF Shape
<1> HIDE DEF o, y, d, p, t2
<1>3. Turned(t, s, x, o, y, d, p, t2)
  BY <1>1 DEF Rotated
<1>4. ASSUME NEW g, Inorder(t, T, g) PROVE \E g2 : Inorder(t2, T, g2) /\ g2.pos = g.pos
  BY <1>2, <1>3, <1>4, TurnInorder DEF o, y, d, p
<1>5. SameOrder(t, T, C, first, t2)
  BY <1>1, <1>4 DEF SameOrder
<1>6. QED
  BY <1>3, <1>5 DEF o, y, d, p, t2

(* The rotations that end an insertion.                                    *)
LEMMA RotateAndEndOrder ==
  ASSUME NEW t \in Trees, NEW T, NEW C, NEW first, Shape(t, T, C, first),
         NEW x \in T, Balanced(t, T, Null, "left", x),
         NEW p, NEW g, NEW s, NEW t1, NEW p1, NEW t2, NEW t3, BlackUncle(t, x, p, g, s, t1, p1, t2, t3)
  PROVE  SameOrder(t, T, C, first, t3)
<1> DEFINE inner == Side(t, x) # s
           o == Other(s)
           d == Side(t, x)
<1>0. /\ p = t.parent[x] /\ g = t.parent[p] /\ s = Side(t, p)
      /\ x # Root(t) /\ IsRed(t, p)
      /\ (inner => t1 = Rotate(t, s, p) /\ p1 = x) /\ (~inner => t1 = t /\ p1 = p)
      /\ t2 = Paint(Paint(t1, p1, TRUE), g, FALSE) /\ t3 = Rotate(t2, Other(s), g)
  BY DEF BlackUncle
<1>1. /\ p \in T /\ p \in Nodes /\ x # p /\ x \in Nodes /\ d \in Sides /\ t.child[d][p] = x /\ g # x
  BY <1>0, Inner
<1>2. p # Root(t)
  BY <1>0, <1>1 DEF Balanced, Reds, IsRed
<1>3. /\ g \in T /\ g \in Nodes /\ g # p /\ s \in Sides /\ o \in Sides /\ s # o /\ s = Other(o)
      /\ (\A q \in Sides : q = s \/ q = o) /\ t.child[s][g] = p
  BY <1>0, <1>1, <1>2, Inner
<1>4. x # Null /\ p # Null /\ g # Null
  BY <1>1, <1>3, RBTreeAssumption
<1>5. /\ SameOrder(t, T, C, first, t1) /\ t1.child[s][g] = p1 /\ p1 \in Nodes /\ p1 # Null
  <2>1. CASE inner
    <3>1. d = o /\ t1 = Rotate(t, s, p) /\ p1 = x
      BY <1>0, <1>1, <1>3, <2>1
    <3>2. /\ SameOrder(t, T, C, first, t1)
          /\ Turned(t, s, p, o, t.child[o][p], Side(t, p), t.parent[p], t1)
      BY <1>1, <1>3, <1>4, <3>1, RotateOrder
    <3>3. Turned(t, s, p, o, x, s, g, t1)
      BY <1>0, <1>1, <3>1, <3>2
    <3>4. g \in Places
      BY <1>3 DEF Places
    <3>5. t1.child[s][g] = x
      BY <1>1, <1>3, <3>3, <3>4 DEF Turned
    <3>6. QED
      BY <1>1, <1>4, <3>1, <3>2, <3>5
  <2>2. CASE ~inner
    <3>1. t1 = t /\ p1 = p
      BY <1>0, <2>2
    <3>2. SameOrder(t, T, C, first, t1)
      BY <3>1, SameLinksOrder
    <3>3. QED
      BY <1>1, <1>3, <1>4, <3>1, <3>2
  <2>3. QED
    BY <2>1, <2>2
<1> HIDE DEF inner, o, d
<1> DEFINE ta == Paint(t1, p1, TRUE)
<1>6. SameOrder(t1, T, C, first, ta) /\ ta.child = t1.child
  <2>1. t1 \in Trees /\ Shape(t1, T, C, first)
    BY <1>5 DEF SameOrder
  <2>2. QED
    BY <1>5, <2>1, PaintOrder
<1>7. SameOrder(ta, T, C, first, t2) /\ t2.child = ta.child
  <2> HIDE DEF ta
  <2>1. t2 = Paint(ta, g, FALSE)
    BY <1>0 DEF ta
  <2>2. ta \in Trees /\ Shape(ta, T, C, first)
    BY <1>6 DEF SameOrder
  <2>3. QED
    BY <1>3, <2>1, <2>2, PaintOrder
<1> HIDE DEF ta
<1>8. SameOrder(t2, T, C, first, t3)
  <2>1. t2.child[Other(o)][g] # Null /\ t3 = Rotate(t2, o, g)
    BY <1>0, <1>3, <1>5, <1>6, <1>7 DEF o
  <2>2. t2 \in Trees /\ Shape(t2, T, C, first)
    BY <1>7 DEF SameOrder
  <2>3. QED
    BY <1>3, <2>1, <2>2, RotateOrder
<1>9. QED
  BY <1>5, <1>6, <1>7, <1>8, OrderTwice

(* The rotation that lifts a red node beside the hole.                     *)
LEMMA LiftRedSiblingOrder ==
  ASSUME NEW t, NEW T, NEW C, NEW first, NEW x, NEW p, NEW h, Removing(t, T, C, first, x, p, h),
         NEW t2, RedSibling(t, x, p, h, t2)
  PROVE  SameOrder(t, T, C, first, t2)
<1>1. t \in Trees /\ Shape(t, T, C, first) /\ p \in T
  BY DEF Removing
<1>2. /\ h \in Sides /\ t.child[Other(h)][p] = x /\ x \in Nodes /\ p \in Nodes /\ x # Null
  BY AroundHole
<1> DEFINE ta == Paint(t, x, TRUE)
           tb == Paint(ta, p, FALSE)
<1>3. SameOrder(t, T, C, first, ta) /\ ta.child = t.child
  BY <1>1, <1>2, PaintOrder
<1> HIDE DEF ta
<1>4. SameOrder(ta, T, C, first, tb) /\ tb.child = ta.child
  BY <1>2, <1>3, PaintOrder DEF SameOrder
<1>5. t2 = Rotate(tb, h, p)
  BY DEF RedSibling, ta
<1> HIDE DEF tb
<1>6. SameOrder(tb, T, C, first, t2)
  BY <1>1, <1>2, <1>3, <1>4, <1>5, RotateOrder DEF SameOrder
<1>7. QED
  BY <1>3, <1>4, <1>6, OrderTwice

(* The rotations that end a removal.                                       *)
LEMMA LiftSiblingOrder ==
  ASSUME NEW t, NEW T, NEW C, NEW first, NEW x, NEW p, NEW h, Removing(t, T, C, first, x, p, h),
         NEW near, NEW t1, NEW w, NEW r, NEW t2, RedBeside(t, x, p, h, near, t1, w, r, t2)
  PROVE  SameOrder(t, T, C, first, Rotate(t2, h, p))
<1> DEFINE o == Other(h)
           far == t.child[o][x]
           b == t.black[p]
<1>1. t \in Trees /\ Shape(t, T, C, first) /\ x \in T /\ p = t.parent[x] /\ p \in T
  BY DEF Removing
<1>2. /\ h \in Sides /\ o \in Sides /\ h # o /\ Other(o) = h /\ Side(t, x) = o /\ t.child[o][p] = x
      /\ x \in Nodes /\ p \in Nodes /\ x # Null /\ p # Null /\ x # p /\ p \in Places
  BY AroundHole DEF Places
<1>3. b \in BOOLEAN
  BY <1>1, <1>2, TreeFields
<1>4. /\ near = t.child[h][x] /\ (~NotRed(t, near) \/ ~NotRed(t, far))
      /\ NotRed(t, far) => t1 = Rotate(Paint(Paint(t, near, TRUE), x, FALSE), o, x) /\ w = near
      /\ ~NotRed(t, far) => t1 = t /\ w = x
      /\ r = t1.child[o][w] /\ t2 = Paint(Paint(Paint(t1, w, b), p, TRUE), r, TRUE)
  BY DEF RedBeside
<1> HIDE DEF o, far, b
<1>5. /\ SameOrder(t, T, C, first, t1) /\ w = t1.child[o][p] /\ w \in Nodes /\ r \in Nodes /\ w # Null
  <2>1. CASE ~NotRed(t, far)
    <3>1. t1 = t /\ w = x /\ r = far /\ far # Null
      BY <1>4, <2>1 DEF far, NotRed
    <3>2. far \in Nodes
      BY <1>1, <1>2, <3>1, Child DEF far
    <3>3. SameOrder(t, T, C, first, t1)
      BY <1>1, <3>1, SameLinksOrder
    <3>4. QED
      BY <1>2, <3>1, <3>2, <3>3
  <2>2. CASE NotRed(t, far)
    <3> DEFINE u2 == Paint(t, near, TRUE)
               t3 == Paint(u2, x, FALSE)
    <3>1. t1 = Rotate(t3, o, x) /\ w = near
      BY <1>4, <2>2
    <3>2. near # Null
      BY <1>4, <2>2 DEF NotRed
    <3>3. near \in T /\ near \in Nodes /\ near # x /\ near # p
      BY <1>1, <1>2, <1>4, <3>2, Child
    <3>4. SameOrder(t, T, C, first, u2) /\ u2.child = t.child
      BY <1>1, <3>3, PaintOrder
    <3>5. Painted(t, near, TRUE, u2)
      BY <1>1, <3>3, PaintIs
    <3> HIDE DEF u2
    <3>6. SameOrder(u2, T, C, first, t3) /\ t3.child = u2.child
      BY <1>2, <3>4, PaintOrder DEF SameOrder
    <3>7. Painted(u2, x, FALSE, t3)
      BY <1>2, <3>4, PaintIs DEF SameOrder
    <3> HIDE DEF t3
    <3>8. t3.child = t.child /\ t3.parent = t.parent /\ t3 \in Trees /\ Shape(t3, T, C, first)
      BY <3>4, <3>5, <3>6, <3>7 DEF Painted, SameOrder
    <3>9. Side(t3, x) = o
      BY <1>2, <3>8 DEF Side
    <3>10. /\ SameOrder(t3, T, C, first, t1)
           /\ Turned(t3, o, x, h, near, o, p, t1)
      <4>1. t3.child[Other(o)][x] = near /\ t3.parent[x] = p
        BY <1>1, <1>2, <1>4, <3>8
      <4>2. /\ SameOrder(t3, T, C, first, Rotate(t3, o, x))
            /\ Turned(t3, o, x, Other(o), t3.child[Other(o)][x], Side(t3, x), t3.parent[x], Rotate(t3, o, x))
        BY <1>1, <1>2, <3>2, <3>8, <4>1, RotateOrder
      <4>3. QED
        BY <1>2, <3>1, <3>9, <4>1, <4>2
    <3>11. t1.child[o][near] = x /\ t1.child[o][p] = near
      BY <1>2, <3>3, <3>10 DEF Turned, Places
    <3>12. SameOrder(t, T, C, first, t1)
      BY <3>4, <3>6, <3>10, OrderTwice
    <3>13. QED
      BY <1>2, <1>4, <3>1, <3>2, <3>3, <3>11, <3>12
  <2>3. QED
    BY <2>1, <2>2
<1> DEFINE ta == Paint(t1, w, b)
           tb == Paint(ta, p, TRUE)
<1>6. SameOrder(t1, T, C, first, ta) /\ ta.child = t1.child
  BY <1>3, <1>5, PaintOrder DEF SameOrder
<1> HIDE DEF ta
<1>7. SameOrder(ta, T, C, first, tb) /\ tb.child = ta.child
  BY <1>2, <1>6, PaintOrder DEF SameOrder
<1>8. t2 = Paint(tb, r, TRUE)
  BY <1>4 DEF ta, tb
<1> HIDE DEF tb
<1>9. SameOrder(tb, T, C, first, t2) /\ t2.child = tb.child
  <2>1. tb \in Trees /\ Shape(tb, T, C, first)
    BY <1>7 DEF SameOrder
  <2>2. QED
    BY <1>5, <1>8, <2>1, PaintOrder
<1>10. SameOrder(t2, T, C, first, Rotate(t2, h, p))
  <2>1. t2.child[Other(h)][p] # Null
    BY <1>5, <1>6, <1>7, <1>9 DEF o
  <2>2. QED
    BY <1>1, <1>2, <1>9, <2>1, RotateOrder DEF SameOrder
<1>11. SameOrder(t1, T, C, first, tb)
  BY <1>6, <1>7, OrderTwice
<1>12. SameOrder(tb, T, C, first, Rotate(t2, h, p))
  BY <1>9, <1>10, OrderTwice
<1>13. SameOrder(t1, T, C, first, Rotate(t2, h, p))
  BY <1>11, <1>12, OrderTwice
<1>14. QED
  BY <1>5, <1>13, OrderTwice

(* The loops of rebalancing leave the order as it is.                      *)
LEMMA RebalanceOrder ==
  ASSUME NEW T, NEW C, Held(T, C), Rebalance
  PROVE  SameOrder(tree, T, C, begin, tree') /\ begin' = begin /\ key' = key
<1>1. begin' = begin /\ key' = key
  BY DEF Rebalance, EndInsertion, Recolour, RotateAndEnd, LiftRedSibling, PassBlackUp, LiftSibling
<1>2. tree \in Trees /\ Shape(tree, T, C, begin)
  BY DEF Held, Store
<1>3. tree' \in Trees /\ Shape(tree', T, C, begin)
  <2>1. Held(T, C)'
    BY RebalanceStep
  <2>2. QED
    BY <1>1, <2>1 DEF Held, Store
<1>4. CASE EndInsertion
  <2>1. tree'.child = tree.child
    BY <1>4 DEF EndInsertion
  <2>2. QED
    BY <1>1, <1>3, <2>1, SameLinksOrder
<1>5. CASE Recolour
  <2>1. tree'.child = tree.child
    BY <1>5 DEF Recolour, Paint
  <2>2. QED
    BY <1>1, <1>3, <2>1, SameLinksOrder
<1>6. CASE RotateAndEnd
  <2>1. Inserting(T)
    BY <1>6 DEF Held, Loop, RotateAndEnd
  <2> DEFINE p == tree.parent[at]
             g == tree.parent[p]
             s == Side(tree, p)
             inner == Side(tree, at) # s
             t1 == IF inner THEN Rotate(tree, s, p) ELSE tree
             p1 == IF inner THEN at ELSE p
             t2 == Paint(Paint(t1, p1, TRUE), g, FALSE)
             t3 == Rotate(t2, Other(s), g)
  <2>2. at \in T /\ Balanced(tree, T, Null, "left", at)
    BY <2>1 DEF Inserting
  <2>3. /\ at # Root(tree) /\ IsRed(tree, p) /\ ~IsRed(tree, Sibling(tree, p)) /\ tree' = t3
        /\ ~tree.black[at]
    BY <1>6, <2>1 DEF RotateAndEnd, Violated, Uncle, Parent, Grandparent, Inserting
  <2>4. BlackUncle(tree, at, p, g, s, t1, p1, t2, t3)
    BY <2>3 DEF BlackUncle
  <2> HIDE DEF p, g, s, inner, t1, p1, t2, t3
  <2>5. SameOrder(tree, T, C, begin, t3)
    BY <1>2, <2>2, <2>4, RotateAndEndOrder
  <2>6. QED
    BY <1>1, <2>3, <2>5
<1>7. CASE LiftRedSibling
  <2>1. PICK p, h : RemovingNow(T, C, p, h)
    BY <1>7, RemovingNowIs DEF LiftRedSibling
  <2> DEFINE t2 == Rotate(Paint(Paint(tree, at, TRUE), p, FALSE), h, p)
  <2>2. Removing(tree, T, C, begin, at, p, h) /\ p = Parent /\ h = Hole
    BY <2>1 DEF RemovingNow
  <2>3. tree' = t2 /\ ~tree.black[at]
    BY <1>7, <2>2 DEF LiftRedSibling, IsRed
  <2>4. RedSibling(tree, at, p, h, t2)
    BY <2>3 DEF RedSibling
  <2> HIDE DEF t2
  <2>5. SameOrder(tree, T, C, begin, t2)
    BY <2>2, <2>4, LiftRedSiblingOrder
  <2>6. QED
    BY <1>1, <2>3, <2>5
<1>8. CASE PassBlackUp
  <2>1. \/ tree' = Paint(Paint(tree, at, FALSE), Parent, TRUE)
        \/ tree' = Paint(tree, at, FALSE)
    BY <1>8 DEF PassBlackUp
  <2> DEFINE t == Paint(tree, at, FALSE)
  <2>2. t.child = tree.child
    BY DEF Paint
  <2>3. tree'.child = tree.child
    <3> HIDE DEF t
    <3>1. Paint(t, Parent, TRUE).child = t.child
      BY DEF Paint
    <3>2. tree' = Paint(t, Parent, TRUE) \/ tree' = t
      BY <2>1 DEF t
    <3>3. QED
      BY <2>2, <3>1, <3>2
  <2>4. QED
    BY <1>1, <1>3, <2>3, SameLinksOrder
<1>9. CASE LiftSibling
  <2>1. PICK p, h : RemovingNow(T, C, p, h)
    BY <1>9, RemovingNowIs DEF LiftSibling
  <2> DEFINE far == Other(h)
             near == tree.child[h][at]
             t1 == IF IsRed(tree, tree.child[far][at]) THEN tree
                   ELSE Rotate(Paint(Paint(tree, near, TRUE), at, FALSE), far, at)
             w == IF IsRed(tree, tree.child[far][at]) THEN at ELSE near
             r == t1.child[far][w]
             t2 == Paint(Paint(Paint(t1, w, tree.black[p]), p, TRUE), r, TRUE)
  <2>2. Removing(tree, T, C, begin, at, p, h) /\ p = Parent /\ h = Hole
    BY <2>1 DEF RemovingNow
  <2>3. tree' = Rotate(t2, h, p)
    BY <1>9, <2>2 DEF LiftSibling
  <2>4. at # Null /\ h \in Sides /\ far \in Sides /\ \A q \in Sides : q = h \/ q = far
    BY <2>2, AroundHole
  <2>5. tree.black[at]
    BY <1>9, <2>4 DEF LiftSibling, IsRed
  <2>6. ~NotRed(tree, near) \/ ~NotRed(tree, tree.child[far][at])
    BY <1>9, <2>4 DEF LiftSibling, HasRedChild, IsRed, NotRed
  <2>7. IsRed(tree, tree.child[far][at]) <=> ~NotRed(tree, tree.child[far][at])
    BY DEF IsRed, NotRed
  <2>8. IF NotRed(tree, tree.child[far][at])
        THEN t1 = Rotate(Paint(Paint(tree, near, TRUE), at, FALSE), far, at) /\ w = near
        ELSE t1 = tree /\ w = at
    BY <2>7
  <2> HIDE DEF t1, w
  <2>9. RedBeside(tree, at, p, h, near, t1, w, r, t2)
    BY <2>5, <2>6, <2>8 DEF RedBeside
  <2> HIDE DEF t2, r, near, far
  <2>10. SameOrder(tree, T, C, begin, Rotate(t2, h, p))
    BY <2>2, <2>9, LiftSiblingOrder
  <2>11. QED
    BY <1>1, <2>3, <2>10
<1>10. QED
  BY <1>4, <1>5, <1>6, <1>7, <1>8, <1>9 DEF Rebalance

(* A node that is taken out leaves the others in their order.              *)
LEMMA TakenOutOrder ==
  ASSUME tree \in Trees, NEW T, NEW C, Shape(tree, T, C, begin), NEW z \in T, TakenOut(T, C, z),
         NEW g, Inorder(tree, T, g)
  PROVE  \E g2 : Inorder(tree', T \ {z}, g2) /\ Closed(T, g, z, g2)
<1>1. CASE \E s, x, d, p : Spot(tree, T, C, s, z, x, d, p) /\ Spliced(tree, z, x, d, p, tree')
  BY <1>1, SpliceInorder
<1>2. CASE \E y, x, d, p : /\ y = NextNode(tree, z) /\ y # z /\ Spot(tree, T, C, "left", y, x, d, p)
                           /\ Moved(tree, T, C, begin, z, y, x, d, p, tree')
  <2>1. PICK y, x, d, p : /\ y = NextNode(tree, z) /\ y # z /\ Spot(tree, T, C, "left", y, x, d, p)
                          /\ Moved(tree, T, C, begin, z, y, x, d, p, tree')
    BY <1>2
  <2>2. PICK u, d2, q : /\ Spliced(tree, y, x, d, p, u) /\ Shape(u, T \ {y}, C, begin)
                        /\ Seat(u, T \ {y}, C, z, y, d2, q) /\ Replaced(u, z, y, d2, q, tree')
    BY <2>1 DEF Moved
  <2>3. PICK g1 : Inorder(u, T \ {y}, g1) /\ Closed(T, g, y, g1)
    BY <2>1, <2>2, SpliceInorder
  <2>4. u \in Trees
    BY <2>2 DEF Spliced
  <2>5. PICK g2 : Inorder(tree', ((T \ {y}) \ {z}) \cup {y}, g2) /\ Swapped(T \ {y}, g1, z, y, g2)
    BY <2>2, <2>3, <2>4, ReplaceInorder
  <2>6. y \in T /\ ((T \ {y}) \ {z}) \cup {y} = T \ {z}
    BY <2>1 DEF Spot
  <2>7. PICK e \in Ranks, sp \in SUBSET Places : Forest(tree, T, C) /\ Ranked(tree, e) /\ Spine(tree, T, sp, begin)
    BY DEF Shape
  <2>8. g.pos[y] = g.pos[z] + 1
    BY <2>1, <2>7, NextInorder
  <2>9. /\ \A n \in T \cup {End} : g.pos[n] \in Nat
        /\ \A m, n \in T \cup {End} : g.pos[m] = g.pos[n] => m = n
        /\ End \notin T
    BY <2>7, NumbersOf
  <2>10. ASSUME NEW m \in (T \ {z}) \cup {End}
         PROVE  g2.pos[m] = IF g.pos[z] < g.pos[m] THEN g.pos[m] - 1 ELSE g.pos[m]
    <3>1. CASE m = y
      <4>1. z \in (T \ {y}) \cup {End}
        BY <2>1
      <4>2. g1.pos[z] = g.pos[z]
        BY <2>3, <2>8, <2>9, <4>1 DEF Closed
      <4>3. g2.pos[y] = g.pos[z]
        BY <2>5, <4>2 DEF Swapped
      <4>4. QED
        BY <2>8, <2>9, <3>1, <4>3
    <3>2. CASE m # y
      <4>1. m \in (T \ {y}) \cup {End} /\ m \in ((T \ {y}) \ {z}) \cup {End}
        BY <2>9, <3>2
      <4>2. g1.pos[m] = IF g.pos[y] < g.pos[m] THEN g.pos[m] - 1 ELSE g.pos[m]
        BY <2>3, <4>1 DEF Closed
      <4>3. g2.pos[m] = g1.pos[m]
        BY <2>5, <4>1 DEF Swapped
      <4>4. g.pos[m] # g.pos[y] /\ g.pos[m] \in Nat /\ g.pos[z] \in Nat
        BY <2>6, <2>9, <3>2
      <4>5. QED
        BY <2>8, <4>2, <4>3, <4>4
    <3>3. QED
      BY <3>1, <3>2
  <2>11. Closed(T, g, z, g2)
    BY <2>10 DEF Closed
  <2>12. QED
    BY <2>5, <2>6, <2>11
<1>3. QED
  BY <1>1, <1>2 DEF TakenOut

(* A node that is put into the tree has the number of its place.           *)
LEMMA InsertNodeAtOrder ==
  ASSUME NEW t \in Trees, NEW T, NEW C, NEW first, Shape(t, T, C, first),
         NEW n \in Nodes, n \notin T \cup C, NEW p, NEW s, Open(t, T, p, s), InsertNodeAt(t, n, <<p, s>>),
         NEW g, Inorder(t, T, g)
  PROVE  \E g2 : Inorder(tree', T \cup {n}, g2) /\ Opened(T, g, Lower(g, s, p), n, g2)
<1> DEFINE t1 == Attach(Attach(Attach(t, "left", n, Null), "right", n, Null), s, p, n)
<1>1. tree' = Paint(t1, n, n = Root(t1))
  BY DEF InsertNodeAt
<1>2. Planted(t, n, p, s, t1, tree')
  BY <1>1 DEF Planted
<1> HIDE DEF t1
<1>3. Hung(t, n, p, s, tree')
  BY <1>2, HungIs
<1>4. PICK e \in Ranks, sp \in SUBSET Places : Forest(t, T, C) /\ Ranked(t, e) /\ Spine(t, T, sp, first)
  BY DEF Shape
<1>5. QED
  BY <1>3, <1>4, HangInorder

(***************************************************************************)
(* What a step does to the order.                                          *)
(***************************************************************************)
SameKeys(T) == \A m \in T : key'[m] = key[m]

(* The new element n has key k, and a elements before it.                  *)
Placed(T, g, n, k, a, g2) ==
  /\ n \in Nodes /\ n \notin T /\ k \in Keys /\ key'[n] = k /\ SameKeys(T)
  /\ a \in Nat /\ a < g.pos[End] /\ Opened(T, g, a, n, g2)

(* The places that key k may take.                                         *)
Allowed(T, g, k, a) ==
  \E l, u : /\ Splits(T, g, Beyond(FALSE, k), l) /\ Splits(T, g, Beyond(TRUE, k), u)
            /\ l <= a /\ a <= u /\ (unique => l = u)

Unmoved(T, g, T2, g2) == T2 = T /\ SameKeys(T) /\ \A m \in T \cup {End} : g2.pos[m] = g.pos[m]
Added(T, g, T2, g2) ==
  \E n, k, a : T2 = T \cup {n} /\ Placed(T, g, n, k, a, g2) /\ Allowed(T, g, k, a)
Removed(T, g, T2, g2) == \E z \in T : T2 = T \ {z} /\ SameKeys(T2) /\ Closed(T, g, z, g2)

Stepped(T, g, T2, g2) ==
  Unmoved(T, g, T2, g2) \/ Added(T, g, T2, g2) \/ Removed(T, g, T2, g2) \/ T2 = {}

(* The order before a step, and after it.                                  *)
Before(T, C, g) ==
  /\ program \in Programs /\ Held(T, C) /\ Inorder(tree, T, g) /\ Sorted(T, g)
  /\ DOMAIN key = Nodes

After(T2, g2) ==
  tree' \in Trees /\ (\E C2 : Shape(tree', T2, C2, begin')) /\ Inorder(tree', T2, g2)

(* A step that changes nothing of the tree.                                *)
LEMMA UnmovedIs ==
  ASSUME NEW T, NEW C, NEW g, Before(T, C, g), SameKeys(T), SameOrder(tree, T, C, begin, tree'),
         begin' = begin
  PROVE  \E T2, g2 : After(T2, g2) /\ Stepped(T, g, T2, g2)
<1>1. PICK g2 : Inorder(tree', T, g2) /\ g2.pos = g.pos
  BY DEF Before, SameOrder
<1>2. After(T, g2)
  BY <1>1 DEF After, SameOrder
<1>3. Unmoved(T, g, T, g2)
  BY <1>1 DEF Unmoved
<1>4. QED
  BY <1>2, <1>3 DEF Stepped

(* The searches have what they start from.                                 *)
LEMMA InShapeIs ==
  ASSUME NEW T, NEW C, NEW g, Before(T, C, g)
  PROVE  /\ tree \in Trees /\ Shape(tree, T, C, begin) /\ Inorder(tree, T, g) /\ Sorted(T, g)
         /\ T \subseteq Nodes /\ C \subseteq Nodes /\ T \cap C = {} /\ Linked = T
         /\ \E e \in Ranks : InShape(T, C, e, g) /\ Forest(tree, T, C) /\ Ranked(tree, e)
<1>1. /\ tree \in Trees /\ Shape(tree, T, C, begin) /\ Inorder(tree, T, g) /\ Sorted(T, g)
  BY DEF Before, Held, Store
<1>2. PICK e \in Ranks, sp \in SUBSET Places : Forest(tree, T, C) /\ Ranked(tree, e) /\ Spine(tree, T, sp, begin)
  BY <1>1 DEF Shape
<1>3. T \subseteq Nodes /\ C \subseteq Nodes /\ T \cap C = {}
  BY <1>2 DEF Forest
<1>4. begin \in T \cup {End} /\ g.pos[begin] = 1
  BY <1>1, <1>2, FirstInorder
<1>5. tree.child["left"][begin] = Null
  BY <1>2 DEF Spine
<1>6. Linked = T
  BY <1>1, LinkedIs DEF Linked
<1>7. InShape(T, C, e, g)
  BY <1>1, <1>2, <1>4, <1>5 DEF InShape
<1>8. QED
  BY <1>1, <1>2, <1>3, <1>6, <1>7

(* A node goes to a null leaf.                                             *)
LEMMA PlacedIs ==
  ASSUME NEW T, NEW C, NEW first, NEW t \in Trees, Shape(t, T, C, first), NEW g, Inorder(t, T, g),
         NEW n \in Nodes, n \notin T \cup C, NEW place, NEW a, Gap(T, g, place, a), NEW k \in Keys,
         \A q \in T \cup {End}, s \in Sides : t.child[s][q] = tree.child[s][q],
         InsertNodeAt(t, n, place), key' = [key EXCEPT ![n] = k], DOMAIN key = Nodes
  PROVE  \E g2 : Inorder(tree', T \cup {n}, g2) /\ Placed(T, g, n, k, a, g2)
<1>1. PICK p, s : place = <<p, s>> /\ Open(tree, T, p, s) /\ Lower(g, s, p) = a
  BY DEF Gap
<1>2. Open(t, T, p, s)
  BY <1>1 DEF Open
<1>3. PICK g2 : Inorder(tree', T \cup {n}, g2) /\ Opened(T, g, a, n, g2)
  BY <1>1, <1>2, InsertNodeAtOrder
<1>4. key'[n] = k /\ SameKeys(T)
  <2>1. T \subseteq Nodes
    BY RootIs
  <2>2. QED
    BY <2>1 DEF SameKeys
<1>5. a \in Nat /\ a < g.pos[End]
  <2>1. PICK e \in Ranks, sp \in SUBSET Places : Forest(t, T, C) /\ Ranked(t, e) /\ Spine(t, T, sp, first)
    BY DEF Shape
  <2>2. /\ \A m \in T \cup {End} : g.pos[m] \in Nat /\ g.lo[m] \in Nat
        /\ \A m \in T : g.pos[m] < g.pos[End] /\ g.lo[m] < g.pos[m]
        /\ g.lo[End] = 0 /\ 0 < g.pos[End]
    BY <2>1, NumbersOf
  <2>3. p \in T \cup {End} /\ s \in Sides /\ (p = End => s = "left")
    BY <1>1 DEF Open
  <2>4. CASE p = End
    BY <1>1, <2>2, <2>3, <2>4 DEF Lower
  <2>5. CASE p \in T
    BY <1>1, <2>2, <2>3, <2>5 DEF Lower
  <2>6. QED
    BY <2>3, <2>4, <2>5
<1>6. Placed(T, g, n, k, a, g2)
  BY <1>3, <1>4, <1>5 DEF Placed
<1>7. QED
  BY <1>3, <1>6

(* A node is allocated for key k and put into the tree.                    *)
LEMMA CreateOrder ==
  ASSUME NEW T, NEW C, NEW g, Before(T, C, g), NEW k \in Offered, NEW place, NEW a,
         Gap(T, g, place, a), Create(k, place)
  PROVE  \E g2 : After(T \cup {New(k)}, g2) /\ Placed(T, g, New(k), k, a, g2)
<1>0. PICK n : n = New(k)
  OBVIOUS
<1>1. /\ pc = "idle" /\ ~assigning /\ Free(k) # {} /\ key' = [key EXCEPT ![n] = k]
      /\ InsertNodeAt(tree, n, place)
  BY <1>0 DEF Create
<1>2. n \in Nodes /\ n \notin allocated
  BY <1>0, <1>1, NewIs DEF Before
<1>3. /\ tree \in Trees /\ Shape(tree, T, C, begin) /\ Balanced(tree, T, Null, "left", Null)
      /\ allocated = T \cup C \cup lost
  BY <1>1, HeldIdle DEF Before
<1>4. n \notin T \cup C
  BY <1>2, <1>3
<1>5. EmptyPlace(tree, T, place)
  BY DEF Gap, Open, EmptyPlace
<1>6. Grown(tree, T, C, n)
  BY <1>1, <1>2, <1>3, <1>4, <1>5, InsertNodeAtIs
<1>7. PICK g2 : Inorder(tree', T \cup {n}, g2) /\ Placed(T, g, n, k, a, g2)
  <2>1. k \in Keys /\ Inorder(tree, T, g) /\ DOMAIN key = Nodes
    BY DEF Offered, Before
  <2>2. QED
    BY <1>1, <1>2, <1>3, <1>4, <2>1, PlacedIs
<1>8. After(T \cup {n}, g2)
  BY <1>6, <1>7 DEF After, Grown
<1>9. QED
  BY <1>0, <1>7, <1>8

(* The places that the searches find for key k.                            *)
Finds(T, g, k, l, u) ==
  /\ Splits(T, g, Beyond(FALSE, k), l) /\ Splits(T, g, Beyond(TRUE, k), u) /\ l <= u
  /\ Gap(T, g, FindLeafHigh(k), u)
  /\ \A h \in T \cup {End} : Gap(T, g, FindLeaf(h, k), Nearest(l, u, g.pos[h] - 1))
  /\ (\A n \in T : key[n] # k) =>
       l = u /\ \A h \in T \cup {End} : Gap(T, g, FindEqual(k), u) /\ Gap(T, g, FindEqualNear(h, k), u)

(* They find a place.                                                      *)
LEMMA SearchesFind ==
  ASSUME NEW T, NEW C, NEW g, Before(T, C, g), NEW k \in Keys
  PROVE  \E l, u : Finds(T, g, k, l, u)
<1>1. /\ T \subseteq Nodes /\ Inorder(tree, T, g) /\ Sorted(T, g)
      /\ \E e \in Ranks : InShape(T, C, e, g)
  BY InShapeIs
<1>2. PICK e : InShape(T, C, e, g)
  BY <1>1
<1>3. \A strict \in BOOLEAN : \E a : Splits(T, g, Beyond(strict, k), a)
  BY <1>1, BeyondSplits
<1>4. PICK l : Splits(T, g, Beyond(FALSE, k), l)
  BY <1>3
<1>5. PICK u : Splits(T, g, Beyond(TRUE, k), u)
  BY <1>3
<1>6. \A h \in T \cup {End} :
        /\ Gap(T, g, FindLeafHigh(k), u) /\ l <= u
        /\ Gap(T, g, FindLeaf(h, k), Nearest(l, u, g.pos[h] - 1))
  BY <1>1, <1>2, <1>4, <1>5, FindLeafGap
<1>7. ASSUME \A n \in T : key[n] # k
      PROVE  l = u /\ \A h \in T \cup {End} : Gap(T, g, FindEqual(k), u) /\ Gap(T, g, FindEqualNear(h, k), u)
  <2>1. l = u
    BY <1>1, <1>2, <1>4, <1>5, <1>7, AbsentGap
  <2>2. QED
    BY <1>1, <1>2, <1>4, <1>5, <1>7, <2>1, FindEqualNearGap
<1>8. End \in T \cup {End}
  OBVIOUS
<1>9. Finds(T, g, k, l, u)
  BY <1>4, <1>5, <1>6, <1>7, <1>8 DEF Finds
<1>10. QED
  BY <1>9

(* An insertion puts a node where its key may be.                          *)
LEMMA InsertOrder ==
  ASSUME NEW T, NEW C, NEW g, Before(T, C, g), NEW k \in Offered, NEW h,
         \/ InsertUnique(k) \/ InsertMulti(k) \/ InsertUniqueNear(h, k) \/ InsertMultiNear(h, k)
  PROVE  \E T2, g2 : After(T2, g2) /\ Stepped(T, g, T2, g2)
<1>1. k \in Keys
  BY DEF Offered
<1>2. PICK l, u : Finds(T, g, k, l, u)
  BY <1>1, SearchesFind
<1>3. Linked = T /\ T \subseteq Nodes /\ Inorder(tree, T, g)
  BY InShapeIs
<1>4. Hints = T \cup {End} /\ (Present(k) <=> \E n \in T : key[n] = k)
  BY <1>3 DEF Hints, Present, Linked
<1>5. \E place, a : Create(k, place) /\ Gap(T, g, place, a) /\ l <= a /\ a <= u /\ (unique => l = u)
  <2>1. l \in Nat /\ u \in Nat /\ l <= u
    BY <1>2 DEF Finds, Splits
  <2>2. CASE InsertUnique(k) \/ InsertUniqueNear(h, k)
    <3>1. \A n \in T : key[n] # k
      BY <1>4, <2>2 DEF InsertUnique, InsertUniqueNear
    <3>2. l = u /\ \A q \in T \cup {End} : Gap(T, g, FindEqual(k), u) /\ Gap(T, g, FindEqualNear(q, k), u)
      BY <1>2, <3>1 DEF Finds
    <3>3. End \in T \cup {End}
      OBVIOUS
    <3>4. \/ Create(k, FindEqual(k))
          \/ Create(k, FindEqualNear(h, k)) /\ h \in T \cup {End}
      BY <1>4, <2>2 DEF InsertUnique, InsertUniqueNear
    <3>5. QED
      BY <2>1, <3>2, <3>3, <3>4
  <2>3. CASE InsertMulti(k)
    <3>1. Create(k, FindLeafHigh(k)) /\ ~unique /\ Gap(T, g, FindLeafHigh(k), u)
      BY <1>2, <2>3 DEF InsertMulti, Finds
    <3>2. QED
      BY <2>1, <3>1
  <2>4. CASE InsertMultiNear(h, k)
    <3>1. Create(k, FindLeaf(h, k)) /\ ~unique /\ h \in T \cup {End}
      BY <1>4, <2>4 DEF InsertMultiNear
    <3>2. Gap(T, g, FindLeaf(h, k), Nearest(l, u, g.pos[h] - 1))
      BY <1>2, <3>1 DEF Finds
    <3>3. g.pos[h] \in Nat
      BY <1>3, <3>1, NumbersAre DEF Inorder, Places
    <3>4. l <= Nearest(l, u, g.pos[h] - 1) /\ Nearest(l, u, g.pos[h] - 1) <= u
      BY <2>1, <3>3 DEF Nearest
    <3>5. QED
      BY <3>1, <3>2, <3>4
  <2>5. QED
    BY <2>2, <2>3, <2>4
<1>6. PICK place, a : Create(k, place) /\ Gap(T, g, place, a) /\ l <= a /\ a <= u /\ (unique => l = u)
  BY <1>5
<1>7. PICK g2 : After(T \cup {New(k)}, g2) /\ Placed(T, g, New(k), k, a, g2)
  BY <1>6, CreateOrder
<1>8. Allowed(T, g, k, a)
  BY <1>2, <1>6 DEF Allowed, Finds
<1>9. Added(T, g, T \cup {New(k)}, g2)
  BY <1>7, <1>8 DEF Added
<1>10. QED
  BY <1>7, <1>9 DEF Stepped

(* An erasure takes one node out.                                          *)
LEMMA RemoveOrder ==
  ASSUME NEW T, NEW C, NEW g, Before(T, C, g), NEW z, Erase(z) \/ RemoveNode(z)
  PROVE  \E T2, g2 : After(T2, g2) /\ Stepped(T, g, T2, g2)
<1>1. /\ pc = "idle" /\ z \in Subtree(tree, Root(tree)) /\ Unlink(z) /\ key' = FreeKeys({z})
      /\ begin' = (IF begin # z THEN begin ELSE NextNode(tree, z)) \/ begin' = FirstWithout(z)
  BY DEF Erase, RemoveNode, FirstWithout
<1>2. /\ tree \in Trees /\ Shape(tree, T, C, begin) /\ Balanced(tree, T, Null, "left", Null)
      /\ T \subseteq Nodes /\ Inorder(tree, T, g)
  BY <1>1, HeldIdle DEF Before
<1>3. z \in T
  BY <1>1, <1>2, LinkedIs
<1>4. begin' = FirstWithout(z)
  <2>1. begin = z => NextNode(tree, z) = FirstWithout(z)
    BY <1>2, <1>3, NextOfFirst
  <2>2. begin # z => FirstWithout(z) = begin
    BY DEF FirstWithout
  <2>3. QED
    BY <1>1, <2>1, <2>2
<1>5. Unlinked(T, C, z)
  BY <1>1, <1>2, <1>3, UnlinkIs
<1>6. tree' \in Trees /\ Shape(tree', T \ {z}, C, begin') /\ TakenOut(T, C, z)
  BY <1>4, <1>5 DEF Unlinked
<1>7. PICK g2 : Inorder(tree', T \ {z}, g2) /\ Closed(T, g, z, g2)
  BY <1>2, <1>3, <1>6, TakenOutOrder
<1>8. SameKeys(T \ {z})
  BY <1>1, <1>2 DEF SameKeys, FreeKeys
<1>9. Removed(T, g, T \ {z}, g2)
  BY <1>3, <1>7, <1>8 DEF Removed
<1>10. After(T \ {z}, g2)
  BY <1>6, <1>7 DEF After
<1>11. QED
  BY <1>9, <1>10 DEF Stepped

(* Nothing is left.                                                        *)
LEMMA ClearOrder ==
  ASSUME NEW T, NEW C, NEW g, Before(T, C, g), Clear \/ BeginAssign
  PROVE  \E T2, g2 : After(T2, g2) /\ Stepped(T, g, T2, g2)
<1>1. Held({}, {})' \/ Held({}, T)'
  BY ClearStep, BeginAssignStep DEF Before
<1>2. PICK C2 : tree' \in Trees /\ Shape(tree', {}, C2, begin')
  BY <1>1 DEF Held, Store
<1>3. Root(tree') = Null
  BY <1>2, RootIs
<1>4. PICK g2 : Inorder(tree', {}, g2)
  BY <1>2, <1>3, NothingInorder
<1>5. After({}, g2)
  BY <1>2, <1>4 DEF After
<1>6. QED
  BY <1>5 DEF Stepped

(* A step that changes nothing of the tree, but of the cache.              *)
LEMMA CacheOrder ==
  ASSUME NEW T, NEW C, NEW g, Before(T, C, g), SameKeys(T), tree' \in Trees, NEW C2,
         Shape(tree', T, C2, begin'),
         \A q \in T \cup {End}, s \in Sides : tree'.child[s][q] = tree.child[s][q]
  PROVE  \E T2, g2 : After(T2, g2) /\ Stepped(T, g, T2, g2)
<1>1. Inorder(tree', T, g)
  BY KeptInorder DEF Before
<1>2. After(T, g)
  BY <1>1 DEF After
<1>3. Unmoved(T, g, T, g)
  BY DEF Unmoved
<1>4. QED
  BY <1>2, <1>3 DEF Stepped

(* A node leaves the cache for the place of its key, or is let go of.      *)
LEMMA AssignOrder ==
  ASSUME NEW T, NEW C, NEW g, Before(T, C, g), NEW k \in Offered, AssignNext(k)
  PROVE  \E T2, g2 : After(T2, g2) /\ Stepped(T, g, T2, g2)
<1>0. PICK c : c = cache
  OBVIOUS
<1> DEFINE t2 == Detached.tree
           n2 == Detached.next
<1>1. /\ pc = "idle" /\ cache # Null /\ key' = [key EXCEPT ![c] = k]
      /\ \/ tree' = t2 /\ begin' = begin
         \/ InsertNodeAt(t2, c, FindLeafHigh(k)) /\ ~(unique /\ Present(k))
  BY <1>0 DEF AssignNext
<1>2. /\ t2 \in Trees /\ Shape(t2, T, C \ {c}, begin)
      /\ Balanced(t2, T, Null, "left", Null) /\ Kept(tree, T, t2) /\ c \in C /\ c \in Nodes
  BY <1>0, <1>1, Detaching DEF Before
<1> HIDE DEF t2, n2
<1>3. T \cap C = {} /\ T \subseteq Nodes /\ Linked = T /\ Inorder(tree, T, g)
  BY InShapeIs
<1>4. SameKeys(T) /\ DOMAIN key = Nodes /\ k \in Keys
  BY <1>1, <1>2, <1>3 DEF SameKeys, Before, Offered
<1>5. \A q \in T \cup {End}, s \in Sides : t2.child[s][q] = tree.child[s][q]
  BY <1>2 DEF Kept
<1>6. CASE tree' = t2 /\ begin' = begin
  BY <1>2, <1>4, <1>5, <1>6, CacheOrder
<1>7. CASE InsertNodeAt(t2, c, FindLeafHigh(k)) /\ ~(unique /\ Present(k))
  <2>1. PICK l, u : Finds(T, g, k, l, u)
    BY <1>4, SearchesFind
  <2>2. Gap(T, g, FindLeafHigh(k), u)
    BY <2>1 DEF Finds
  <2>3. EmptyPlace(t2, T, FindLeafHigh(k))
    BY <1>5, <2>2 DEF Gap, Open, EmptyPlace
  <2>4. c \notin T \cup (C \ {c})
    BY <1>2, <1>3
  <2>5. Grown(t2, T, C \ {c}, c)
    BY <1>2, <1>7, <2>3, <2>4, InsertNodeAtIs
  <2>6. Inorder(t2, T, g)
    BY <1>3, <1>5, KeptInorder
  <2>7. PICK g2 : Inorder(tree', T \cup {c}, g2) /\ Placed(T, g, c, k, u, g2)
    BY <1>1, <1>2, <1>4, <1>5, <1>7, <2>2, <2>4, <2>6, PlacedIs
  <2>8. After(T \cup {c}, g2)
    BY <2>5, <2>7 DEF After, Grown
  <2>9. unique => l = u
    <3>1. unique => \A n \in T : key[n] # k
      BY <1>3, <1>7 DEF Present, Linked
    <3>2. QED
      BY <2>1, <3>1 DEF Finds
  <2>10. Allowed(T, g, k, u)
    <3>1. l \in Nat /\ u \in Nat /\ l <= u /\ u <= u
      BY <2>1 DEF Finds, Splits
    <3>2. QED
      BY <2>1, <2>9, <3>1 DEF Allowed, Finds
  <2>11. Added(T, g, T \cup {c}, g2)
    BY <2>7, <2>10 DEF Added
  <2>12. QED
    BY <2>8, <2>11 DEF Stepped
<1>8. QED
  BY <1>1, <1>6, <1>7

(* The end of an assignment has nothing to do with the tree.               *)
LEMMA EndAssignOrder ==
  ASSUME NEW T, NEW C, NEW g, Before(T, C, g), NEW k, EndAssign \/ ThrowInAssign(k)
  PROVE  \E T2, g2 : After(T2, g2) /\ Stepped(T, g, T2, g2)
<1>1. /\ tree \in Trees /\ Shape(tree, T, C, begin) /\ CacheNodes(tree) = C
      /\ T \subseteq Nodes /\ T \cap C = {}
  BY HeldShape DEF Before
<1>2. Held(T, {})' /\ begin' = begin
  BY EndAssignStep, ThrowInAssignStep DEF Before, EndAssign, ThrowInAssign
<1>3. tree' \in Trees /\ Shape(tree', T, {}, begin')
  BY <1>2 DEF Held, Store
<1>4. End \notin Nodes /\ C \subseteq Nodes
  BY <1>1, RBTreeAssumption, RootIs
<1>5. CASE EndAssign
  <2>1. tree' = FreeNodes(tree, C) /\ key' = FreeKeys(C)
    BY <1>1, <1>5 DEF EndAssign
  <2>2. SameKeys(T)
    BY <1>1, <2>1 DEF SameKeys, FreeKeys
  <2>3. Freed(tree, C, tree')
    BY <1>1, <2>1, FreeNodesIs
  <2>4. \A q \in T \cup {End}, s \in Sides : tree'.child[s][q] = tree.child[s][q]
    BY <1>1, <1>4, <2>3 DEF Freed, Places
  <2>5. QED
    BY <1>3, <2>2, <2>4, CacheOrder
<1>6. CASE ThrowInAssign(k)
  <2> DEFINE t2 == Detached.tree
             n2 == Detached.next
             S == CacheNodes(t2)
  <2>1. /\ pc = "idle" /\ cache # Null /\ tree' = FreeNodes(t2, S)
        /\ key' = [FreeKeys(S) EXCEPT ![cache] = IF cache \in S THEN AnyKey ELSE k]
    BY <1>6 DEF ThrowInAssign
  <2>2. /\ Uncached(C, t2, n2) /\ t2 \in Trees /\ Kept(tree, T, t2) /\ cache \in C
    BY <2>1, Detaching DEF Before
  <2>3. S \subseteq C
    BY <2>2 DEF Uncached
  <2> HIDE DEF t2, n2, S
  <2>4. S \cap T = {} /\ cache \notin T
    BY <1>1, <2>2, <2>3
  <2>5. SameKeys(T)
    BY <1>1, <2>1, <2>4 DEF SameKeys, FreeKeys
  <2>6. Freed(t2, S, tree')
    BY <2>1, <2>2, FreeNodesIs
  <2>7. \A q \in T \cup {End}, s \in Sides : tree'.child[s][q] = tree.child[s][q]
    <3>1. \A q \in T \cup {End}, s \in Sides : t2.child[s][q] = tree.child[s][q]
      BY <2>2 DEF Kept
    <3>2. \A q \in T \cup {End}, s \in Sides : tree'.child[s][q] = t2.child[s][q]
      BY <1>1, <1>4, <2>3, <2>4, <2>6 DEF Freed, Places
    <3>3. QED
      BY <3>1, <3>2
  <2>8. QED
    BY <1>3, <2>5, <2>7, CacheOrder
<1>7. QED
  BY <1>5, <1>6

(* Every step adds a node where it may be, takes one out, empties the tree *)
(* or leaves the order as it is.                                           *)
LEMMA OrderSteps ==
  ASSUME NEW T, NEW C, NEW g, Before(T, C, g), [Next]_vars
  PROVE  \E T2, g2 : After(T2, g2) /\ Stepped(T, g, T2, g2)
<1>1. CASE UNCHANGED vars
  <2>1. tree \in Trees /\ Shape(tree, T, C, begin)
    BY InShapeIs
  <2>2. tree' = tree /\ begin' = begin /\ key' = key
    BY <1>1 DEF vars
  <2>3. SameKeys(T)
    BY <2>2 DEF SameKeys
  <2>4. QED
    BY <2>1, <2>2, <2>3, CacheOrder
<1>2. CASE Rebalance
  <2>1. SameOrder(tree, T, C, begin, tree') /\ begin' = begin /\ key' = key
    BY <1>2, RebalanceOrder DEF Before
  <2>2. SameKeys(T)
    BY <2>1 DEF SameKeys
  <2>3. QED
    BY <2>1, <2>2, UnmovedIs
<1>3. QED
  BY <1>1, <1>2, InsertOrder, RemoveOrder, ClearOrder, AssignOrder, EndAssignOrder DEF Next

(* The keys stay in order.                                                 *)
LEMMA StaysSorted ==
  ASSUME NEW T, NEW C, NEW g, Before(T, C, g), program' = program,
         NEW T2, NEW g2, After(T2, g2), Stepped(T, g, T2, g2)
  PROVE  Sorted(T2, g2)'
<1>1. /\ T \subseteq Nodes /\ Inorder(tree, T, g) /\ Sorted(T, g)
      /\ \E e \in Ranks : Forest(tree, T, C) /\ Ranked(tree, e) /\ tree \in Trees
  BY InShapeIs
<1>2. /\ \A n \in T \cup {End} : g.pos[n] \in Nat
      /\ \A m, n \in T \cup {End} : g.pos[m] = g.pos[n] => m = n
  BY <1>1, NumbersOf
<1>3. \A n \in T : key[n] \in Keys /\ key[n] \in Int
  BY <1>1, RBTreeAssumption DEF Sorted
<1>4. \A m, n \in T : g.pos[m] < g.pos[n] => key[m] <= key[n] /\ (unique => key[m] < key[n])
  BY <1>1 DEF Sorted
<1>5. (unique => unique') /\ (unique' => unique)
  BY DEF unique
<1>6. ASSUME T2 \subseteq T, SameKeys(T2),
             \A m, n \in T2 : g2.pos[m] < g2.pos[n] => g.pos[m] < g.pos[n]
      PROVE  Sorted(T2, g2)'
  <2>1. \A n \in T2 : key'[n] \in Keys
    BY <1>3, <1>6 DEF SameKeys
  <2>2. \A m, n \in T2 : g2.pos[m] < g2.pos[n] => key'[m] <= key'[n] /\ (unique' => key'[m] < key'[n])
    BY <1>4, <1>5, <1>6 DEF SameKeys
  <2>3. QED
    BY <2>1, <2>2 DEF Sorted
<1>7. CASE Unmoved(T, g, T2, g2)
  BY <1>6, <1>7 DEF Unmoved
<1>8. CASE Removed(T, g, T2, g2)
  <2>1. PICK z \in T : T2 = T \ {z} /\ SameKeys(T2) /\ Closed(T, g, z, g2)
    BY <1>8 DEF Removed
  <2>2. ASSUME NEW m \in T2, NEW n \in T2, g2.pos[m] < g2.pos[n] PROVE g.pos[m] < g.pos[n]
    <3>1. g.pos[m] \in Nat /\ g.pos[n] \in Nat /\ g.pos[z] \in Nat
      BY <1>2, <2>1
    <3>2. /\ g2.pos[m] = IF g.pos[z] < g.pos[m] THEN g.pos[m] - 1 ELSE g.pos[m]
          /\ g2.pos[n] = IF g.pos[z] < g.pos[n] THEN g.pos[n] - 1 ELSE g.pos[n]
      BY <2>1 DEF Closed
    <3>3. QED
      BY <2>2, <3>1, <3>2
  <2>3. QED
    BY <1>6, <2>1, <2>2
<1>9. CASE Added(T, g, T2, g2)
  <2>1. PICK n, k, a : T2 = T \cup {n} /\ Placed(T, g, n, k, a, g2) /\ Allowed(T, g, k, a)
    BY <1>9 DEF Added
  <2>2. PICK l, u : /\ Splits(T, g, Beyond(FALSE, k), l) /\ Splits(T, g, Beyond(TRUE, k), u)
                    /\ l <= a /\ a <= u /\ (unique => l = u)
    BY <2>1 DEF Allowed
  <2>3. /\ n \in Nodes /\ n \notin T /\ k \in Keys /\ key'[n] = k /\ a \in Nat /\ k \in Int
        /\ \A m \in T : key'[m] = key[m]
        /\ g2.pos[n] = a + 1
        /\ \A m \in T : g2.pos[m] = IF a < g.pos[m] THEN g.pos[m] + 1 ELSE g.pos[m]
    BY <2>1, RBTreeAssumption DEF Placed, SameKeys, Opened
  <2>4. l \in Nat /\ u \in Nat
    BY <2>2 DEF Splits
  <2>5. \A m \in T : (l < g.pos[m] <=> ~(key[m] < k)) /\ (u < g.pos[m] <=> k < key[m])
    BY <1>1, <2>2 DEF Splits, Beyond
  <2>6. ASSUME NEW m \in T, g.pos[m] <= a PROVE key[m] <= k /\ (unique => key[m] < k)
    <3>1. g.pos[m] \in Nat /\ key[m] \in Int /\ ~(u < g.pos[m])
      BY <1>2, <1>3, <2>2, <2>3, <2>4, <2>6
    <3>2. key[m] <= k
      BY <2>3, <2>5, <3>1
    <3>3. ASSUME unique PROVE key[m] < k
      BY <2>2, <2>4, <2>5, <3>1, <3>3
    <3>4. QED
      BY <3>2, <3>3
  <2>7. ASSUME NEW m \in T, a < g.pos[m] PROVE k <= key[m] /\ (unique => k < key[m])
    <3>1. g.pos[m] \in Nat /\ key[m] \in Int /\ l < g.pos[m]
      BY <1>2, <1>3, <2>2, <2>3, <2>4, <2>7
    <3>2. k <= key[m]
      BY <2>3, <2>5, <3>1
    <3>3. ASSUME unique PROVE k < key[m]
      BY <2>2, <2>4, <2>5, <3>1, <3>3
    <3>4. QED
      BY <3>2, <3>3
  <2>8. ASSUME NEW m \in T2, NEW q \in T2, g2.pos[m] < g2.pos[q]
        PROVE  key'[m] <= key'[q] /\ (unique => key'[m] < key'[q])
    <3>1. CASE m = n /\ q = n
      BY <2>3, <2>8, <3>1
    <3>2. CASE m = n /\ q \in T
      <4>1. g.pos[q] \in Nat /\ a + 1 < g2.pos[q]
        BY <1>2, <2>3, <2>8, <3>2
      <4>2. a < g.pos[q]
        BY <2>3, <3>2, <4>1
      <4>3. QED
        BY <2>3, <2>7, <3>2, <4>2
    <3>3. CASE m \in T /\ q = n
      <4>1. g.pos[m] \in Nat /\ g2.pos[m] < a + 1
        BY <1>2, <2>3, <2>8, <3>3
      <4>2. g.pos[m] <= a
        BY <2>3, <3>3, <4>1
      <4>3. QED
        BY <2>3, <2>6, <3>3, <4>2
    <3>4. CASE m \in T /\ q \in T
      <4>1. g.pos[m] \in Nat /\ g.pos[q] \in Nat
        BY <1>2, <3>4
      <4>2. /\ g2.pos[m] = IF a < g.pos[m] THEN g.pos[m] + 1 ELSE g.pos[m]
            /\ g2.pos[q] = IF a < g.pos[q] THEN g.pos[q] + 1 ELSE g.pos[q]
        BY <2>3, <3>4
      <4>3. g.pos[m] < g.pos[q]
        BY <2>3, <2>8, <4>1, <4>2
      <4>4. QED
        BY <1>4, <2>3, <3>4, <4>3
    <3>5. QED
      BY <2>1, <3>1, <3>2, <3>3, <3>4
  <2>9. \A m \in T2 : key'[m] \in Keys
    BY <1>3, <2>1, <2>3
  <2>10. QED
    BY <1>5, <2>8, <2>9 DEF Sorted
<1>10. CASE T2 = {}
  BY <1>10 DEF Sorted
<1>11. QED
  BY <1>7, <1>8, <1>9, <1>10 DEF Stepped

-----------------------------------------------------------------------------
(***************************************************************************)
(* The order of the elements is part of the invariant.                     *)
(***************************************************************************)
Ordered == DOMAIN key = Nodes /\ \E g : Inorder(tree, Linked, g) /\ Sorted(Linked, g)

OInv == IInv /\ Ordered

(* An empty tree is in order.                                              *)
LEMMA OrderBegins == Init => OInv
<1> SUFFICES ASSUME Init PROVE OInv
  OBVIOUS
<1>1. IInv
  BY Begins
<1>2. PICK T, C \in SUBSET Nodes : Held(T, C)
  BY <1>1 DEF IInv
<1>3. tree \in Trees /\ Shape(tree, T, C, begin) /\ Linked = T
  BY <1>2, HeldShape
<1>4. Root(tree) = Null /\ DOMAIN key = Nodes
  BY DEF Init, Root, Sides
<1>5. Linked = {}
  BY <1>3, <1>4, LinkedIs
<1>6. PICK g : Inorder(tree, {}, g)
  BY <1>3, <1>4, NothingInorder
<1>7. Sorted({}, g)
  BY DEF Sorted
<1>8. QED
  BY <1>1, <1>4, <1>5, <1>6, <1>7 DEF OInv, Ordered

(* What a step starts from.                                                *)
LEMMA OrderNow ==
  ASSUME OInv
  PROVE  \E C, g : Before(Linked, C, g)
<1>1. PICK T, C \in SUBSET Nodes : Held(T, C)
  BY DEF OInv, IInv
<1>2. Linked = T
  BY <1>1, HeldShape
<1>3. PICK g : Inorder(tree, Linked, g) /\ Sorted(Linked, g)
  BY DEF OInv, Ordered
<1>4. program \in Programs /\ DOMAIN key = Nodes
  BY DEF OInv, Ordered, IInv
<1>5. Before(Linked, C, g)
  BY <1>1, <1>2, <1>3, <1>4 DEF Before
<1>6. QED
  BY <1>5

(* A container stays a set or a multiset.                                  *)
LEMMA ProgramStays == [Next]_vars => program' = program
BY DEF Next, vars, InsertUnique, InsertMulti, InsertUniqueNear, InsertMultiNear, Create, Erase,
       RemoveNode, Clear, BeginAssign, EndAssign, AssignNext, ThrowInAssign, Rebalance, EndInsertion,
       Recolour, RotateAndEnd, LiftRedSibling, PassBlackUp, LiftSibling

(* Every node has a key.                                                   *)
LEMMA KeysStay ==
  ASSUME DOMAIN key = Nodes, [Next]_vars
  PROVE  DOMAIN key' = Nodes
<1>1. \A S : DOMAIN FreeKeys(S) = Nodes
  BY DEF FreeKeys
<1>2. CASE UNCHANGED key
  BY <1>2
<1>3. CASE \E n, k : key' = [key EXCEPT ![n] = k]
  BY <1>3
<1>4. CASE \E S : key' = FreeKeys(S)
  BY <1>1, <1>4
<1>5. CASE \E S, n, k : key' = [FreeKeys(S) EXCEPT ![n] = k]
  BY <1>1, <1>5
<1>6. CASE UNCHANGED vars
  BY <1>2, <1>6 DEF vars
<1>7. CASE Rebalance
  BY <1>2, <1>7 DEF Rebalance, EndInsertion, Recolour, RotateAndEnd, LiftRedSibling, PassBlackUp, LiftSibling
<1>8. CASE BeginAssign
  BY <1>2, <1>8 DEF BeginAssign
<1>9. CASE \E z \in Nodes : Erase(z) \/ RemoveNode(z)
  BY <1>4, <1>9 DEF Erase, RemoveNode
<1>10. CASE Clear \/ EndAssign
  BY <1>4, <1>10 DEF Clear, EndAssign
<1>11. ASSUME NEW k, ThrowInAssign(k) PROVE DOMAIN key' = Nodes
  BY <1>5, <1>11 DEF ThrowInAssign
<1>12. ASSUME NEW k, AssignNext(k) PROVE DOMAIN key' = Nodes
  BY <1>3, <1>12 DEF AssignNext
<1>13. ASSUME NEW k, NEW h, InsertUnique(k) \/ InsertMulti(k) \/ InsertUniqueNear(h, k) \/ InsertMultiNear(h, k)
       PROVE  DOMAIN key' = Nodes
  BY <1>3, <1>13 DEF InsertUnique, InsertMulti, InsertUniqueNear, InsertMultiNear, Create
<1>14. QED
  BY <1>6, <1>7, <1>8, <1>9, <1>10, <1>11, <1>12, <1>13 DEF Next

(* Every step keeps the elements in order.                                 *)
LEMMA OrderStays == OInv /\ [Next]_vars => OInv'
<1> SUFFICES ASSUME OInv, [Next]_vars PROVE OInv'
  OBVIOUS
<1>1. IInv'
  BY Stays DEF OInv
<1>2. PICK C, g : Before(Linked, C, g)
  BY OrderNow
<1>3. PICK T2, g2 : After(T2, g2) /\ Stepped(Linked, g, T2, g2)
  BY <1>2, OrderSteps
<1>4. Sorted(T2, g2)'
  BY <1>2, <1>3, ProgramStays, StaysSorted
<1>5. Linked' = T2
  BY <1>3, LinkedIs DEF After, Linked
<1>6. Inorder(tree', T2, g2)
  BY <1>3 DEF After
<1>7. DOMAIN key' = Nodes
  BY KeysStay DEF OInv, Ordered
<1>8. Ordered'
  BY <1>4, <1>5, <1>6, <1>7 DEF Ordered
<1>9. QED
  BY <1>1, <1>8 DEF OInv

(* From begin() to end() the keys do not decrease, and increase in a set   *)
(* or map: in every tree that operations and loops of any length leave.    *)
THEOREM AlwaysOrdered == Spec => []OInv
<1>1. Init => OInv
  BY OrderBegins
<1>2. OInv /\ [Next]_vars => OInv'
  BY OrderStays
<1>3. QED
  BY <1>1, <1>2, PTL DEF Spec

(* The first number beyond a, if there is one.                             *)
LEMMA FirstBeyond ==
  ASSUME NEW N \in Nat, NEW a \in Nat, NEW I, I \subseteq 1..N, \A i \in 1..N : i \in I <=> a < i
  PROVE  (IF I # {} THEN Min(I) ELSE 0) = IF a < N THEN a + 1 ELSE 0
<1>1. CASE a < N
  <2>1. a + 1 \in I /\ \A i \in I : i \in Nat /\ a + 1 <= i
    BY <1>1
  <2>2. PICK m : m = Min(I)
    OBVIOUS
  <2>3. m \in I /\ \A i \in I : m <= i
    <3>1. \E x \in I : \A y \in I : x <= y
      BY <2>1
    <3>2. QED
      BY <2>2, <3>1 DEF Min
  <2>4. m \in Nat /\ a + 1 <= m
    BY <2>1, <2>3
  <2>5. m <= a + 1
    BY <2>1, <2>3
  <2>6. m = a + 1
    BY <2>4, <2>5
  <2>7. QED
    BY <1>1, <2>1, <2>2, <2>6
<1>2. CASE ~(a < N)
  <2>1. ASSUME NEW x \in I PROVE FALSE
    <3>1. x \in 1..N /\ a < x
      OBVIOUS
    <3>2. QED
      BY <1>2, <3>1
  <2>2. I = {}
    BY <2>1
  <2>3. QED
    BY <1>2, <2>2
<1>3. QED
  BY <1>1, <1>2

(* The node at the first place of I in s, or end() if there is none.       *)
FirstAt(s, I) ==
  LET i == IF I # {} THEN Min(I) ELSE 0 IN IF i = 0 THEN End ELSE s[i][1]

(* The elements, by their numbers.                                         *)
LEMMA ElementsByNumber ==
  ASSUME NEW T, NEW C, NEW g, Before(T, C, g)
  PROVE  /\ Elements \in Seq(Pairs(T, key)) /\ Len(Elements) \in Nat /\ Len(Elements) = g.pos[End] - 1
         /\ DOMAIN Elements = 1..Len(Elements)
         /\ \A n \in T : g.pos[n] \in 1..Len(Elements) /\ Elements[g.pos[n]] = <<n, key[n]>>
         /\ \A j \in 1..Len(Elements) : \E n \in T : g.pos[n] = j /\ Elements[j] = <<n, key[n]>>
<1>1. /\ tree \in Trees /\ Shape(tree, T, C, begin) /\ Inorder(tree, T, g) /\ T \subseteq Nodes
      /\ \E e \in Ranks : Forest(tree, T, C) /\ Ranked(tree, e)
  BY InShapeIs
<1> DEFINE s == Elements
<1>2. Lists(s, T, g, key)
  BY <1>1, ElementsAre, ElementsOfIs
<1> HIDE DEF s
<1>3. 0 < g.pos[End]
  BY <1>1, NumbersOf
<1>4. T \subseteq Places /\ g \in Numberings /\ Counted(T, g)
  BY <1>1 DEF Inorder, Places
<1>5. /\ DOMAIN s = 1..g.pos[End] - 1 /\ Len(s) \in Nat /\ Len(s) = g.pos[End] - 1
      /\ \A n \in T : g.pos[n] \in DOMAIN s /\ s[g.pos[n]] = <<n, key[n]>>
      /\ \A j \in DOMAIN s : \E n \in T : g.pos[n] = j /\ s[j] = <<n, key[n]>>
  BY <1>2, <1>3, <1>4, ListIs
<1>6. s \in Seq(Pairs(T, key))
  BY <1>2 DEF Lists
<1>7. QED
  BY <1>5, <1>6 DEF s

(* I has the places in s of the nodes of the tree that are in L.           *)
PlacesIn(s, I, T, L) ==
  I \subseteq 1..Len(s) /\ \A q \in 1..Len(s), n \in T : s[q] = <<n, key[n]>> => (q \in I <=> n \in L)

(* The element that a walk meets first is the one that the numbers say.    *)
LEMMA FoundByWalk ==
  ASSUME NEW T, NEW C, NEW g, Before(T, C, g), NEW L, NEW a \in Nat, Splits(T, g, L, a), NEW s, s = Elements,
         NEW I, PlacesIn(s, I, T, L), NEW x \in T \cup {End}, g.pos[x] = a + 1
  PROVE  x = FirstAt(s, I)
<1>0. /\ I \subseteq 1..Len(s)
      /\ \A q \in 1..Len(s), n \in T : s[q] = <<n, key[n]>> => (q \in I <=> n \in L)
  BY DEF PlacesIn
<1>1. Inorder(tree, T, g) /\ \E e \in Ranks : Forest(tree, T, C) /\ Ranked(tree, e) /\ tree \in Trees
  BY InShapeIs
<1>3. /\ End \notin T /\ \A n \in T \cup {End} : g.pos[n] \in Nat
      /\ \A m, n \in T \cup {End} : g.pos[m] = g.pos[n] => m = n
      /\ 0 < g.pos[End] /\ \A n \in T : g.pos[n] < g.pos[End]
  BY <1>1, NumbersOf
<1>4. /\ Len(s) \in Nat /\ Len(s) = g.pos[End] - 1
      /\ \A n \in T : s[g.pos[n]] = <<n, key[n]>>
      /\ \A j \in 1..Len(s) : \E n \in T : g.pos[n] = j /\ s[j] = <<n, key[n]>>
  BY ElementsByNumber
<1>5. a \in Nat /\ a < g.pos[End] /\ \A n \in T : n \in L <=> a < g.pos[n]
  BY DEF Splits
<1>6. \A j \in 1..Len(s) : j \in I <=> a < j
  BY <1>0, <1>4, <1>5
<1>7. PICK N, i : N \in Nat /\ N = Len(s) /\ i = IF I # {} THEN Min(I) ELSE 0
  BY <1>4
<1>8. i = IF a < N THEN a + 1 ELSE 0
  BY <1>0, <1>5, <1>6, <1>7, FirstBeyond
<1>9. x = IF i = 0 THEN End ELSE s[i][1]
  <2>1. CASE x = End
    <3>1. ~(a < N)
      BY <1>3, <1>4, <1>5, <1>7, <2>1
    <3>2. QED
      BY <1>8, <2>1, <3>1
  <2>2. CASE x \in T
    <3>1. s[g.pos[x]] = <<x, key[x]>> /\ g.pos[x] \in Nat /\ g.pos[x] < g.pos[End] /\ g.pos[End] \in Nat
      BY <1>3, <1>4, <2>2
    <3>2. a < N
      BY <1>4, <1>5, <1>7, <3>1
    <3>3. i = a + 1 /\ i # 0
      BY <1>5, <1>8, <3>2
    <3>4. QED
      BY <3>1, <3>3
  <2>3. QED
    BY <2>1, <2>2
<1>10. QED
  BY <1>7, <1>9 DEF FirstAt

(* The places of s where a key is behind k.                                *)
From(strict, k, s) == {i \in 1..Len(s) : IF strict THEN s[i][2] > k ELSE s[i][2] >= k}

(* So it is with the nodes behind a key.                                   *)
LEMMA FoundBeyond ==
  ASSUME NEW T, NEW C, NEW g, Before(T, C, g), NEW k \in Keys, NEW s, s = Elements, NEW strict \in BOOLEAN,
         NEW a \in Nat, Splits(T, g, Beyond(strict, k), a), NEW x \in T \cup {End}, g.pos[x] = a + 1
  PROVE  x = FirstAt(s, From(strict, k, s))
<1>1. Sorted(T, g) /\ T \subseteq Nodes
  BY InShapeIs
<1>2. \A n \in T : key[n] \in Int /\ k \in Int
  BY <1>1, RBTreeAssumption DEF Sorted
<1>3. ASSUME NEW q \in 1..Len(s), NEW n \in T, s[q] = <<n, key[n]>>
      PROVE  q \in From(strict, k, s) <=> n \in Beyond(strict, k)
  <2>1. q \in From(strict, k, s) <=> IF strict THEN key[n] > k ELSE key[n] >= k
    BY <1>3 DEF From
  <2>2. n \in Beyond(strict, k) <=> IF strict THEN k < key[n] ELSE ~(key[n] < k)
    BY <1>1 DEF Beyond
  <2>3. key[n] \in Int /\ k \in Int
    BY <1>2
  <2>4. QED
    BY <2>1, <2>2, <2>3
<1>4. From(strict, k, s) \subseteq 1..Len(s)
  BY DEF From
<1>5. PICK I : I = From(strict, k, s)
  OBVIOUS
<1>6. PICK L : L = Beyond(strict, k)
  OBVIOUS
<1>7. PlacesIn(s, I, T, L)
  BY <1>3, <1>4, <1>5, <1>6 DEF PlacesIn
<1>8. Splits(T, g, L, a)
  BY <1>6
<1>9. x = FirstAt(s, I)
  BY <1>7, <1>8, FoundByWalk
<1>10. QED
  BY <1>5, <1>9

(* The searches find what a walk from begin() finds.                       *)
LEMMA SearchIs ==
  ASSUME NEW T, NEW C, NEW g, Before(T, C, g), NEW k \in Keys, NEW s, s = Elements,
         NEW lower, lower = FirstAt(s, From(FALSE, k, s)), NEW upper, upper = FirstAt(s, From(TRUE, k, s))
  PROVE  /\ Bound(FALSE, k, Root(tree), End) = lower
         /\ Bound(TRUE, k, Root(tree), End) = upper
         /\ EqualRange(k) = <<lower, upper>>
<1>1. /\ tree \in Trees /\ Shape(tree, T, C, begin) /\ Inorder(tree, T, g) /\ Sorted(T, g) /\ T \subseteq Nodes
      /\ \E e \in Ranks : Forest(tree, T, C) /\ Ranked(tree, e)
  BY InShapeIs
<1>0. \A strict \in BOOLEAN : \E a : Splits(T, g, Beyond(strict, k), a)
  BY <1>1, BeyondSplits
<1>2. PICK l, u : Splits(T, g, Beyond(FALSE, k), l) /\ Splits(T, g, Beyond(TRUE, k), u)
  BY <1>0
<1>4. l \in Nat /\ u \in Nat
  BY <1>2 DEF Splits
<1>3. \A strict \in BOOLEAN : \A a \in Nat : \A x \in T \cup {End} :
        Splits(T, g, Beyond(strict, k), a) /\ g.pos[x] = a + 1 => x = FirstAt(s, From(strict, k, s))
  BY FoundBeyond
<1>6. \A x \in T \cup {End} : g.pos[x] = l + 1 => x = lower
  BY <1>2, <1>3, <1>4
<1>7. \A x \in T \cup {End} : g.pos[x] = u + 1 => x = upper
  BY <1>2, <1>3, <1>4
<1>8. \A strict \in BOOLEAN : \A a :
        Splits(T, g, Beyond(strict, k), a) =>
          /\ Bound(strict, k, Root(tree), End) \in T \cup {End}
          /\ g.pos[Bound(strict, k, Root(tree), End)] = a + 1
  <2> SUFFICES ASSUME NEW strict \in BOOLEAN, NEW a, Splits(T, g, Beyond(strict, k), a)
               PROVE  /\ Bound(strict, k, Root(tree), End) \in T \cup {End}
                      /\ g.pos[Bound(strict, k, Root(tree), End)] = a + 1
    OBVIOUS
  <2>1. Sought(T, g, a, Root(tree), End)
    BY <1>1, SoughtFromRoot DEF Splits
  <2>2. QED
    BY <1>1, <2>1, BoundIs
<1>9. Bound(FALSE, k, Root(tree), End) = lower
  BY <1>2, <1>6, <1>8
<1>10. Bound(TRUE, k, Root(tree), End) = upper
  BY <1>2, <1>7, <1>8
<1>11. EqualRange(k) = <<lower, upper>>
  <2>0. PICK e \in Ranks : Forest(tree, T, C) /\ Ranked(tree, e)
    BY <1>1
  <2>1. Splits(T, g, Beyond(FALSE, k), l)
    BY <1>2
  <2>2. Splits(T, g, Beyond(TRUE, k), u)
    BY <1>2
  <2>3. Inorder(tree, T, g) /\ Sorted(T, g) /\ tree \in Trees
    BY <1>1
  <2>4. PICK x, y : EqualRange(k) = <<x, y>> /\ Numbered(T, g, x, l) /\ Numbered(T, g, y, u)
    BY <1>4, <2>0, <2>1, <2>2, <2>3, EqualRangeIs
  <2>5. QED
    BY <1>6, <1>7, <2>4 DEF Numbered
<1>12. QED
  BY <1>9, <1>10, <1>11

(* What the searches find is what is there.                                *)
LEMMA SearchExactHolds == OInv => SearchExact
<1> SUFFICES ASSUME OInv PROVE SearchExact
  OBVIOUS
<1>1. PICK C, g : Before(Linked, C, g)
  BY OrderNow
<1>2. ASSUME NEW k \in Offered
      PROVE  LET s == Elements
                 I == {i \in 1..Len(s) : s[i][2] >= k}
                 i == IF I # {} THEN Min(I) ELSE 0
                 J == {j \in 1..Len(s) : s[j][2] > k}
                 j == IF J # {} THEN Min(J) ELSE 0
                 lower == IF i = 0 THEN End ELSE s[i][1]
                 upper == IF j = 0 THEN End ELSE s[j][1]
             IN  /\ Bound(FALSE, k, Root(tree), End) = lower
                 /\ Bound(TRUE, k, Root(tree), End) = upper
                 /\ EqualRange(k) = <<lower, upper>>
  <2>1. k \in Keys
    BY DEF Offered
  <2>2. PICK s, lower, upper : /\ s = Elements /\ lower = FirstAt(s, From(FALSE, k, s))
                               /\ upper = FirstAt(s, From(TRUE, k, s))
    OBVIOUS
  <2>3. /\ Bound(FALSE, k, Root(tree), End) = lower
        /\ Bound(TRUE, k, Root(tree), End) = upper
        /\ EqualRange(k) = <<lower, upper>>
    BY <1>1, <2>1, <2>2, SearchIs
  <2>4. From(FALSE, k, s) = {i \in 1..Len(s) : s[i][2] >= k}
    BY DEF From
  <2>5. From(TRUE, k, s) = {i \in 1..Len(s) : s[i][2] > k}
    BY DEF From
  <2>6. QED
    BY <2>2, <2>3, <2>4, <2>5 DEF FirstAt
<1>3. QED
  BY <1>2 DEF SearchExact, SelectInSeq

(* lower_bound, upper_bound and equal_range find what a walk over the      *)
(* elements finds, in every tree, between the iterations of a loop too.    *)
THEOREM SearchesAreExact == Spec => []SearchExact
<1>1. OInv => SearchExact
  BY SearchExactHolds
<1>2. QED
  BY <1>1, AlwaysOrdered, PTL

-----------------------------------------------------------------------------
(***************************************************************************)
(* The tree implements the sorted sequence.                                *)
(***************************************************************************)
(* The sequence r is s with e behind its first a elements.                 *)
Inserted(s, X, a, e, r) ==
  /\ r \in Seq(X) /\ Len(r) = Len(s) + 1 /\ r[a + 1] = e
  /\ \A i \in 1..a : r[i] = s[i]
  /\ \A i \in a + 1..Len(s) : r[i + 1] = s[i]

(* So is what InsertAt returns.                                            *)
LEMMA InsertAtIs ==
  ASSUME NEW X, NEW s \in Seq(X), NEW a \in 0..Len(s), NEW j, j = a + 1, NEW e \in X
  PROVE  Inserted(s, X, a, e, InsertAt(s, j, e))
<1> DEFINE b == SubSeq(s, 1, a)
           c == SubSeq(s, a + 1, Len(s))
           m == b \o <<e>>
           r == InsertAt(s, j, e)
<1>1. Len(s) \in Nat /\ a \in Nat /\ a <= Len(s) /\ (a + 1) - 1 = a /\ j - 1 = a
  BY LenProperties
<1>2. b \in Seq(X) /\ Len(b) = a /\ \A i \in 1..a : b[i] = s[i]
  <2>1. \A i \in 1..a : s[i] \in X
    BY <1>1, ElementOfSeq
  <2>2. QED
    BY <1>1, <2>1
<1>3. c \in Seq(X) /\ Len(c) = Len(s) - a /\ \A i \in 1..Len(s) - a : c[i] = s[i + a]
  <2>1. \A i \in a + 1..Len(s) : s[i] \in X
    BY <1>1, ElementOfSeq
  <2>2. QED
    BY <1>1, <2>1
<1>4. r = m \o c
  BY <1>1 DEF InsertAt
<1> HIDE DEF b, c, r
<1>5. m \in Seq(X) /\ Len(m) = a + 1 /\ m[a + 1] = e /\ \A i \in 1..a : m[i] = s[i]
  <2>1. <<e>> \in Seq(X) /\ Len(<<e>>) = 1 /\ <<e>>[1] = e
    OBVIOUS
  <2>2. m \in Seq(X) /\ Len(m) = a + 1 /\ \A i \in 1..a + 1 : m[i] = IF i <= a THEN b[i] ELSE <<e>>[i - a]
    BY <1>1, <1>2, <2>1, ConcatProperties
  <2>3. m[a + 1] = <<e>>[(a + 1) - a]
    <3>1. a + 1 \in 1..a + 1 /\ ~(a + 1 <= a)
      BY <1>1
    <3>2. m[a + 1] = IF a + 1 <= a THEN b[a + 1] ELSE <<e>>[(a + 1) - a]
      BY <2>2, <3>1
    <3>3. QED
      BY <3>1, <3>2
  <2>4. (a + 1) - a = 1
    BY <1>1
  <2>5. m[a + 1] = e
    BY <2>1, <2>3, <2>4
  <2>6. \A i \in 1..a : m[i] = s[i]
    BY <1>1, <1>2, <2>2
  <2>7. QED
    BY <2>2, <2>5, <2>6
<1> HIDE DEF m
<1>6. /\ r \in Seq(X) /\ Len(r) = a + 1 + (Len(s) - a)
      /\ \A i \in 1..a + 1 + (Len(s) - a) : r[i] = IF i <= a + 1 THEN m[i] ELSE c[i - (a + 1)]
  <2>1. /\ r \in Seq(X) /\ Len(r) = Len(m) + Len(c)
        /\ \A i \in 1..Len(m) + Len(c) : r[i] = IF i <= Len(m) THEN m[i] ELSE c[i - Len(m)]
    BY <1>3, <1>4, <1>5, ConcatProperties
  <2>2. QED
    BY <1>3, <1>5, <2>1
<1>7. \A i \in a + 1..Len(s) : r[i + 1] = s[i]
  <2> SUFFICES ASSUME NEW i \in a + 1..Len(s) PROVE r[i + 1] = s[i]
    OBVIOUS
  <2>1. r[i + 1] = c[i - a]
    BY <1>1, <1>6
  <2>2. c[i - a] = s[(i - a) + a]
    BY <1>1, <1>3
  <2>3. QED
    BY <1>1, <2>1, <2>2
<1>8. r[a + 1] = e /\ \A i \in 1..a : r[i] = s[i]
  BY <1>1, <1>5, <1>6
<1>9. Len(r) = Len(s) + 1
  BY <1>1, <1>6
<1>10. QED
  BY <1>6, <1>7, <1>8, <1>9 DEF r, Inserted

(* A sequence without one of its elements.                                 *)
LEMMA RemoveAtIs ==
  ASSUME NEW X, NEW s \in Seq(X), NEW j \in 1..Len(s)
  PROVE  LET r == RemoveAt(s, j)
         IN  /\ r \in Seq(X) /\ Len(r) = Len(s) - 1
             /\ \A i \in 1..j - 1 : r[i] = s[i]
             /\ \A i \in j + 1..Len(s) : r[i - 1] = s[i]
<1> DEFINE b == SubSeq(s, 1, j - 1)
           c == SubSeq(s, j + 1, Len(s))
           r == RemoveAt(s, j)
<1>1. Len(s) \in Nat /\ j \in Nat /\ 1 <= j /\ j <= Len(s)
  BY LenProperties
<1>2. b \in Seq(X) /\ Len(b) = j - 1 /\ \A i \in 1..j - 1 : b[i] = s[i]
  <2>1. \A i \in 1..j - 1 : s[i] \in X
    BY <1>1, ElementOfSeq
  <2>2. QED
    BY <1>1, <2>1
<1>3. c \in Seq(X) /\ Len(c) = Len(s) - j /\ \A i \in 1..Len(s) - j : c[i] = s[i + j]
  <2>1. \A i \in j + 1..Len(s) : s[i] \in X
    BY <1>1, ElementOfSeq
  <2>2. QED
    BY <1>1, <2>1
<1>4. r = b \o c
  BY DEF RemoveAt
<1> HIDE DEF b, c, r
<1>5. /\ r \in Seq(X) /\ Len(r) = (j - 1) + (Len(s) - j)
      /\ \A i \in 1..(j - 1) + (Len(s) - j) : r[i] = IF i <= j - 1 THEN b[i] ELSE c[i - (j - 1)]
  <2>1. /\ r \in Seq(X) /\ Len(r) = Len(b) + Len(c)
        /\ \A i \in 1..Len(b) + Len(c) : r[i] = IF i <= Len(b) THEN b[i] ELSE c[i - Len(b)]
    BY <1>2, <1>3, <1>4, ConcatProperties
  <2>2. QED
    BY <1>2, <1>3, <2>1
<1>6. \A i \in j + 1..Len(s) : r[i - 1] = s[i]
  <2> SUFFICES ASSUME NEW i \in j + 1..Len(s) PROVE r[i - 1] = s[i]
    OBVIOUS
  <2>1. r[i - 1] = c[i - j]
    BY <1>1, <1>5
  <2>2. c[i - j] = s[(i - j) + j]
    BY <1>1, <1>3
  <2>3. QED
    BY <1>1, <2>1, <2>2
<1>7. \A i \in 1..j - 1 : r[i] = s[i]
  BY <1>1, <1>2, <1>5
<1>8. Len(r) = Len(s) - 1
  BY <1>1, <1>5
<1>9. QED
  BY <1>5, <1>6, <1>7, <1>8 DEF r

(* s lists the nodes of a tree in their order.                             *)
InOrder(s, T, g, K) ==
  /\ T \subseteq Places /\ g \in Numberings /\ Counted(T, g) /\ 0 < g.pos[End]
  /\ Lists(s, T, g, K)

(* What that says of the places of s.                                      *)
LEMMA InOrderIs ==
  ASSUME NEW T, NEW K, NEW g, NEW s, InOrder(s, T, g, K)
  PROVE  /\ s \in Seq(Pairs(T, K)) /\ DOMAIN s = 1..Len(s) /\ Len(s) \in Nat /\ Len(s) = g.pos[End] - 1
         /\ \A n \in T \cup {End} : g.pos[n] \in Nat /\ 0 < g.pos[n]
         /\ \A n \in T : g.pos[n] < g.pos[End] /\ s[g.pos[n]] = <<n, K[n]>>
         /\ \A i \in 1..Len(s) : \E n \in T : g.pos[n] = i /\ s[i] = <<n, K[n]>>
<1>1. /\ T \subseteq Places /\ g \in Numberings /\ Counted(T, g) /\ 0 < g.pos[End] /\ Lists(s, T, g, K)
  BY DEF InOrder
<1>2. /\ DOMAIN s = 1..g.pos[End] - 1 /\ Len(s) \in Nat /\ Len(s) = g.pos[End] - 1
      /\ \A n \in T : g.pos[n] \in DOMAIN s /\ s[g.pos[n]] = <<n, K[n]>>
      /\ \A i \in DOMAIN s : \E n \in T : g.pos[n] = i /\ s[i] = <<n, K[n]>>
  BY <1>1, ListIs
<1>3. \A n \in T \cup {End} : g.pos[n] \in Nat
  <2>1. T \cup {End} \subseteq Places
    BY <1>1 DEF Places
  <2>2. QED
    BY <1>1, <2>1, NumbersAre
<1>4. s \in Seq(Pairs(T, K))
  BY <1>1 DEF Lists
<1>5. \A n \in T : 0 < g.pos[n] /\ g.pos[n] < g.pos[End]
  BY <1>1 DEF Counted
<1>6. QED
  BY <1>1, <1>2, <1>3, <1>4, <1>5

(* The same nodes in the same order are the same list.                     *)
LEMMA ListUnmoved ==
  ASSUME NEW T, NEW K, NEW g, NEW s, InOrder(s, T, g, K), NEW K2, NEW g2, NEW t, InOrder(t, T, g2, K2),
         \A m \in T : K2[m] = K[m], \A m \in T \cup {End} : g2.pos[m] = g.pos[m]
  PROVE  t = s
<1>1. /\ s \in Seq(Pairs(T, K)) /\ Len(s) \in Nat /\ Len(s) = g.pos[End] - 1
      /\ \A i \in 1..Len(s) : \E n \in T : g.pos[n] = i /\ s[i] = <<n, K[n]>>
  BY InOrderIs
<1>2. /\ t \in Seq(Pairs(T, K2)) /\ Len(t) \in Nat /\ Len(t) = g2.pos[End] - 1
      /\ \A n \in T : t[g2.pos[n]] = <<n, K2[n]>>
  BY InOrderIs
<1>3. Pairs(T, K2) = Pairs(T, K)
  BY DEF Pairs
<1>4. Len(t) = Len(s)
  BY <1>1, <1>2
<1>5. ASSUME NEW i \in 1..Len(t) PROVE t[i] = s[i]
  <2>1. PICK n \in T : g.pos[n] = i /\ s[i] = <<n, K[n]>>
    BY <1>1, <1>4
  <2>2. t[g2.pos[n]] = <<n, K2[n]>>
    BY <1>2
  <2>3. QED
    BY <2>1, <2>2
<1>6. QED
  BY <1>1, <1>2, <1>3, <1>4, <1>5, SeqEqual

(* A new node behind the first a ones is an insertion there.               *)
LEMMA ListAdded ==
  ASSUME NEW T, NEW K, NEW g, NEW s, InOrder(s, T, g, K), NEW n, n \notin T \cup {End},
         NEW K2, NEW g2, NEW t, InOrder(t, T \cup {n}, g2, K2),
         \A m \in T : K2[m] = K[m], NEW a \in Nat, a < g.pos[End], Opened(T, g, a, n, g2)
  PROVE  a \in 0..Len(s) /\ t = InsertAt(s, a + 1, <<n, K2[n]>>)
<1> DEFINE e == <<n, K2[n]>>
           X == Pairs(T \cup {n}, K2)
<1>0. PICK j : j = a + 1
  OBVIOUS
<1> DEFINE r == InsertAt(s, j, e)
<1>1. /\ s \in Seq(Pairs(T, K)) /\ Len(s) \in Nat /\ Len(s) = g.pos[End] - 1
      /\ \A m \in T \cup {End} : g.pos[m] \in Nat
      /\ \A m \in T : s[g.pos[m]] = <<m, K[m]>> /\ 0 < g.pos[m] /\ g.pos[m] < g.pos[End]
  BY InOrderIs
<1>2. /\ t \in Seq(X) /\ Len(t) \in Nat /\ Len(t) = g2.pos[End] - 1
      /\ \A i \in 1..Len(t) : \E m \in T \cup {n} : g2.pos[m] = i /\ t[i] = <<m, K2[m]>>
  BY InOrderIs
<1>3. Pairs(T, K) \subseteq X /\ e \in X
  BY DEF Pairs
<1>4. s \in Seq(X)
  BY <1>1, <1>3, SeqMonotonic
<1>5. a \in 0..Len(s)
  BY <1>1
<1>6. /\ r \in Seq(X) /\ Len(r) = Len(s) + 1 /\ r[a + 1] = e
      /\ \A i \in 1..a : r[i] = s[i]
      /\ \A i \in a + 1..Len(s) : r[i + 1] = s[i]
  <2>1. Inserted(s, X, a, e, r)
    BY <1>0, <1>3, <1>4, <1>5, InsertAtIs
  <2>2. QED
    BY <2>1 DEF Inserted
<1>7. /\ g2.pos[n] = a + 1
      /\ \A m \in T \cup {End} : g2.pos[m] = IF a < g.pos[m] THEN g.pos[m] + 1 ELSE g.pos[m]
  BY DEF Opened
<1> HIDE DEF r, e, X
<1>8. Len(t) = Len(r)
  BY <1>1, <1>2, <1>6, <1>7
<1>9. ASSUME NEW i \in 1..Len(t) PROVE t[i] = r[i]
  <2>1. PICK m \in T \cup {n} : g2.pos[m] = i /\ t[i] = <<m, K2[m]>>
    BY <1>2
  <2>2. CASE m = n
    <3>1. i = a + 1 /\ t[i] = e
      BY <1>7, <2>1, <2>2 DEF e
    <3>2. QED
      BY <1>6, <3>1
  <2>3. CASE m \in T
    <3>1. s[g.pos[m]] = t[i]
      BY <1>1, <2>1, <2>3
    <3>2. PICK p : p = g.pos[m]
      OBVIOUS
    <3>3. p \in Nat /\ 0 < p /\ p <= Len(s) /\ s[p] = t[i]
      BY <1>1, <2>3, <3>1, <3>2
    <3>4. i = IF a < p THEN p + 1 ELSE p
      BY <1>7, <2>1, <2>3, <3>2
    <3>5. CASE a < p
      <4>1. p \in a + 1..Len(s) /\ i = p + 1
        BY <3>3, <3>4, <3>5
      <4>2. QED
        BY <1>6, <3>3, <4>1
    <3>6. CASE ~(a < p)
      <4>1. p \in 1..a /\ i = p
        BY <3>3, <3>4, <3>6
      <4>2. QED
        BY <1>6, <3>3, <4>1
    <3>7. QED
      BY <3>5, <3>6
  <2>4. QED
    BY <2>2, <2>3
<1>10. t = r
  BY <1>2, <1>6, <1>8, <1>9, SeqEqual
<1>11. QED
  BY <1>0, <1>5, <1>10 DEF r, e

(* A node less is a removal of it.                                         *)
LEMMA ListRemoved ==
  ASSUME NEW T, NEW K, NEW g, NEW s, InOrder(s, T, g, K), NEW z \in T, z # End,
         NEW K2, NEW g2, NEW t, InOrder(t, T \ {z}, g2, K2),
         \A m \in T \ {z} : K2[m] = K[m], Closed(T, g, z, g2)
  PROVE  g.pos[z] \in 1..Len(s) /\ t = RemoveAt(s, g.pos[z])
<1> DEFINE X == Pairs(T, K)
<1>0. PICK j : j = g.pos[z]
  OBVIOUS
<1> DEFINE r == RemoveAt(s, j)
<1>1. /\ s \in Seq(X) /\ Len(s) \in Nat /\ Len(s) = g.pos[End] - 1
      /\ \A m \in T \cup {End} : g.pos[m] \in Nat
      /\ \A m \in T : s[g.pos[m]] = <<m, K[m]>> /\ 0 < g.pos[m] /\ g.pos[m] < g.pos[End]
  BY InOrderIs
<1>2. /\ t \in Seq(Pairs(T \ {z}, K2)) /\ Len(t) \in Nat /\ Len(t) = g2.pos[End] - 1
      /\ \A i \in 1..Len(t) : \E m \in T \ {z} : g2.pos[m] = i /\ t[i] = <<m, K2[m]>>
  BY InOrderIs
<1>3. Pairs(T \ {z}, K2) \subseteq X
  BY DEF Pairs
<1>4. t \in Seq(X)
  BY <1>2, <1>3, SeqMonotonic
<1>5. j \in 1..Len(s)
  BY <1>0, <1>1
<1>6. /\ r \in Seq(X) /\ Len(r) = Len(s) - 1
      /\ \A i \in 1..j - 1 : r[i] = s[i]
      /\ \A i \in j + 1..Len(s) : r[i - 1] = s[i]
  BY <1>1, <1>5, RemoveAtIs
<1>7. \A m \in (T \ {z}) \cup {End} : g2.pos[m] = IF j < g.pos[m] THEN g.pos[m] - 1 ELSE g.pos[m]
  BY <1>0 DEF Closed
<1>8. \A m \in T \ {z} : g.pos[m] # j
  BY <1>0 DEF InOrder, Counted
<1> HIDE DEF r, X
<1>9. Len(t) = Len(r)
  BY <1>1, <1>2, <1>5, <1>6, <1>7
<1>10. ASSUME NEW i \in 1..Len(t) PROVE t[i] = r[i]
  <2>1. PICK m \in T \ {z} : g2.pos[m] = i /\ t[i] = <<m, K2[m]>>
    BY <1>2
  <2>2. PICK p : p = g.pos[m]
    OBVIOUS
  <2>3. p \in Nat /\ 0 < p /\ p <= Len(s) /\ s[p] = t[i] /\ p # j
    BY <1>1, <1>8, <2>1, <2>2
  <2>4. i = IF j < p THEN p - 1 ELSE p
    BY <1>7, <2>1, <2>2
  <2>5. CASE j < p
    <3>1. p \in j + 1..Len(s) /\ i = p - 1
      BY <1>5, <2>3, <2>4, <2>5
    <3>2. QED
      BY <1>6, <2>3, <3>1
  <2>6. CASE ~(j < p)
    <3>1. p \in 1..j - 1 /\ i = p
      BY <1>5, <2>3, <2>4, <2>6
    <3>2. QED
      BY <1>6, <2>3, <3>1
  <2>7. QED
    BY <2>5, <2>6
<1>11. t = r
  BY <1>4, <1>6, <1>9, <1>10, SeqEqual
<1>12. QED
  BY <1>0, <1>5, <1>11 DEF r

(* The elements are in order before a step, and after it.                  *)
LEMMA ElementsInOrder ==
  ASSUME NEW T, NEW C, NEW g, Before(T, C, g)
  PROVE  InOrder(Elements, T, g, key)
<1>1. /\ tree \in Trees /\ Shape(tree, T, C, begin) /\ Inorder(tree, T, g) /\ T \subseteq Nodes
  BY InShapeIs
<1>2. Lists(Elements, T, g, key)
  BY <1>1, ElementsAre, ElementsOfIs
<1>3. T \subseteq Places /\ g \in Numberings /\ Counted(T, g) /\ 0 < g.pos[End]
  BY <1>1 DEF Inorder, Places
<1>4. QED
  BY <1>2, <1>3 DEF InOrder

LEMMA ElementsInOrderThen ==
  ASSUME NEW T, NEW g, After(T, g)
  PROVE  InOrder(Elements', T, g, key')
<1>1. PICK C : tree' \in Trees /\ Shape(tree', T, C, begin') /\ Inorder(tree', T, g)
  BY DEF After
<1>2. T \subseteq Nodes
  BY <1>1 DEF Shape, Forest
<1>3. PICK t, K, first, s : t = tree' /\ K = key' /\ first = begin' /\ s = Elements'
  OBVIOUS
<1>4. s = ElementsOf(t, K, first, T)
  BY <1>1, <1>3, ElementsAreThen
<1>5. Lists(s, T, g, K)
  BY <1>1, <1>3, <1>4, ElementsOfIs
<1>6. T \subseteq Places /\ g \in Numberings /\ Counted(T, g) /\ 0 < g.pos[End]
  BY <1>1, <1>2 DEF Inorder, Places
<1>7. InOrder(s, T, g, K)
  BY <1>5, <1>6 DEF InOrder
<1>8. QED
  BY <1>3, <1>7

(* The operators on sequences are the same in the instance.                *)
LEMMA SameOperators ==
  /\ \A S : SS!Cardinality(S) = Cardinality(S)
  /\ \A s, i, e : SS!InsertAt(s, i, e) = InsertAt(s, i, e)
  /\ \A s, i : SS!RemoveAt(s, i) = RemoveAt(s, i)
  /\ \A s : SS!ToSet(s) = {s[i] : i \in DOMAIN s}
<1>1. \A S : SS!Cardinality(S) = Cardinality(S)
  BY DEF SS!Cardinality, Cardinality
<1>2. \A s, i, e : SS!InsertAt(s, i, e) = InsertAt(s, i, e)
  BY DEF SS!InsertAt, InsertAt
<1>3. \A s, i : SS!RemoveAt(s, i) = RemoveAt(s, i)
  BY DEF SS!RemoveAt, RemoveAt
<1>4. \A s : SS!ToSet(s) = {s[i] : i \in DOMAIN s}
  BY DEF SS!ToSet
<1>5. QED
  BY <1>1, <1>2, <1>3, <1>4

(* The elements with a key less than k, and those up to k, are the first   *)
(* ones.                                                                   *)
LEMMA CountIs ==
  ASSUME NEW T, NEW C, NEW g, Before(T, C, g), NEW k \in Keys, NEW s, s = Elements, NEW strict \in BOOLEAN,
         NEW a \in Nat, Splits(T, g, Beyond(strict, k), a)
  PROVE  Cardinality({i \in DOMAIN s : IF strict THEN s[i][2] <= k ELSE s[i][2] < k}) = a
<1> DEFINE S == {i \in DOMAIN s : IF strict THEN s[i][2] <= k ELSE s[i][2] < k}
<1>1. Sorted(T, g) /\ T \subseteq Nodes
  BY InShapeIs
<1>2. \A n \in T : key[n] \in Int /\ k \in Int
  BY <1>1, RBTreeAssumption DEF Sorted
<1>3. InOrder(s, T, g, key)
  BY ElementsInOrder
<1>4. /\ DOMAIN s = 1..Len(s) /\ Len(s) \in Nat /\ Len(s) = g.pos[End] - 1 /\ g.pos[End] \in Nat
      /\ \A i \in 1..Len(s) : \E n \in T : g.pos[n] = i /\ s[i] = <<n, key[n]>>
  BY <1>3, InOrderIs
<1>5. a < g.pos[End] /\ \A n \in T : n \in Beyond(strict, k) <=> a < g.pos[n]
  BY DEF Splits
<1>6. ASSUME NEW i \in DOMAIN s PROVE i \in S <=> i \in 1..a
  <2>1. PICK n \in T : g.pos[n] = i /\ s[i] = <<n, key[n]>>
    BY <1>4
  <2>2. i \in S <=> IF strict THEN key[n] <= k ELSE key[n] < k
    BY <2>1
  <2>3. n \in Beyond(strict, k) <=> IF strict THEN k < key[n] ELSE ~(key[n] < k)
    BY <1>1 DEF Beyond
  <2>4. i \in S <=> ~(n \in Beyond(strict, k))
    BY <1>2, <2>2, <2>3
  <2>5. n \in Beyond(strict, k) <=> a < i
    BY <1>5, <2>1
  <2>6. i \in Nat /\ 1 <= i
    BY <1>4
  <2> HIDE DEF S
  <2>7. QED
    BY <2>4, <2>5, <2>6
<1>7. 1..a \subseteq DOMAIN s
  BY <1>4, <1>5
<1>8. S = 1..a
  <2>1. S \subseteq DOMAIN s
    OBVIOUS
  <2> HIDE DEF S
  <2>2. QED
    BY <1>6, <1>7, <2>1
<1>9. Cardinality(1..a) = a
  <2>1. Cardinality(1..a) = IF 1 > a THEN 0 ELSE a - 1 + 1
    BY FS_Interval
  <2>2. QED
    BY <2>1
<1>10. QED
  BY <1>8, <1>9

(* An insertion of key k goes between the first l and the first u elements *)
(* of s, as near to a place as it may be.                                  *)
GoesBetween(s, k, l, u) ==
  /\ SS!Lower(s, k) = l /\ SS!Upper(s, k) = u
  /\ \A n, j, p, q : p = Nearest(l, u, j) /\ q = p + 1 =>
       SS!WithNear(s, <<n, k>>, j) = InsertAt(s, q, <<n, k>>)

LEMMA WithNearIs ==
  ASSUME NEW T, NEW C, NEW g, Before(T, C, g), NEW k \in Keys, NEW s, s = Elements,
         NEW l \in Nat, Splits(T, g, Beyond(FALSE, k), l), NEW u \in Nat, Splits(T, g, Beyond(TRUE, k), u)
  PROVE  GoesBetween(s, k, l, u)
<1>1. \A strict \in BOOLEAN : \A a \in Nat : Splits(T, g, Beyond(strict, k), a) =>
        Cardinality({i \in DOMAIN s : IF strict THEN s[i][2] <= k ELSE s[i][2] < k}) = a
  BY CountIs
<1>2. Cardinality({i \in DOMAIN s : IF FALSE THEN s[i][2] <= k ELSE s[i][2] < k}) = l
  BY <1>1
<1>3. Cardinality({i \in DOMAIN s : IF TRUE THEN s[i][2] <= k ELSE s[i][2] < k}) = u
  BY <1>1
<1>4. SS!Lower(s, k) = l
  <2>1. {i \in DOMAIN s : s[i][2] < k} = {i \in DOMAIN s : IF FALSE THEN s[i][2] <= k ELSE s[i][2] < k}
    OBVIOUS
  <2>2. QED
    BY <1>2, <2>1, SameOperators DEF SS!Lower
<1>5. SS!Upper(s, k) = u
  <2>1. {i \in DOMAIN s : s[i][2] <= k} = {i \in DOMAIN s : IF TRUE THEN s[i][2] <= k ELSE s[i][2] < k}
    OBVIOUS
  <2>2. QED
    BY <1>3, <2>1, SameOperators DEF SS!Upper
<1>6. ASSUME NEW n, NEW j, NEW p, NEW q, p = Nearest(l, u, j), q = p + 1
      PROVE  SS!WithNear(s, <<n, k>>, j) = InsertAt(s, q, <<n, k>>)
  <2>1. PICK e : e = <<n, k>>
    OBVIOUS
  <2>2. e[2] = k
    BY <2>1
  <2>3. SS!WithNear(s, e, j) = InsertAt(s, q, e)
    BY <1>4, <1>5, <1>6, <2>2, SameOperators DEF SS!WithNear, Nearest
  <2>4. QED
    BY <2>1, <2>3
<1>7. QED
  BY <1>4, <1>5, <1>6 DEF GoesBetween

(* A node that is placed is inserted into the sequence.                    *)
LEMMA PlacedInSequence ==
  ASSUME NEW T, NEW C, NEW g, Before(T, C, g), NEW n, NEW g2, After(T \cup {n}, g2),
         NEW k, NEW a, Placed(T, g, n, k, a, g2), NEW s, s = Elements, NEW q, q = a + 1
  PROVE  Elements' = InsertAt(s, q, <<n, k>>) /\ a \in 0..Len(s) /\ n \in Nodes /\ k \in Keys
<1>1. /\ n \in Nodes /\ n \notin T /\ k \in Keys /\ key'[n] = k
      /\ a \in Nat /\ a < g.pos[End] /\ Opened(T, g, a, n, g2) /\ \A m \in T : key'[m] = key[m]
  BY DEF Placed, SameKeys
<1>2. PICK K, K2, t : K = key /\ K2 = key' /\ t = Elements'
  OBVIOUS
<1>3. InOrder(s, T, g, K)
  BY <1>2, ElementsInOrder
<1>4. InOrder(t, T \cup {n}, g2, K2)
  BY <1>2, ElementsInOrderThen
<1>5. n \notin T \cup {End}
  BY <1>1, RBTreeAssumption
<1>6. \A m \in T : K2[m] = K[m]
  BY <1>1, <1>2
<1>7. a \in 0..Len(s) /\ t = InsertAt(s, a + 1, <<n, K2[n]>>)
  BY <1>1, <1>3, <1>4, <1>5, <1>6, ListAdded
<1>8. QED
  BY <1>1, <1>2, <1>7

(* Where it may be.                                                        *)
LEMMA AddedInSequence ==
  ASSUME NEW T, NEW C, NEW g, Before(T, C, g), NEW T2, NEW g2, After(T2, g2), Added(T, g, T2, g2),
         NEW s, s = Elements, NEW t, t = Elements'
  PROVE  SS!InsertOne(s, t)
<1>1. PICK n, k, a : T2 = T \cup {n} /\ Placed(T, g, n, k, a, g2) /\ Allowed(T, g, k, a)
  BY DEF Added
<1>2. PICK q, e : q = a + 1 /\ e = <<n, k>>
  OBVIOUS
<1>3. t = InsertAt(s, q, e) /\ a \in 0..Len(s) /\ n \in Nodes /\ k \in Keys
  BY <1>1, <1>2, PlacedInSequence
<1>4. PICK l, u : /\ Splits(T, g, Beyond(FALSE, k), l) /\ Splits(T, g, Beyond(TRUE, k), u)
                  /\ l <= a /\ a <= u /\ (unique => l = u)
  BY <1>1 DEF Allowed
<1>5. l \in Nat /\ u \in Nat /\ a \in Nat
  BY <1>1, <1>4 DEF Splits, Placed
<1>6. GoesBetween(s, k, l, u)
  BY <1>3, <1>4, <1>5, WithNearIs
<1>7. a = Nearest(l, u, a)
  BY <1>4, <1>5 DEF Nearest
<1>8. t = SS!WithNear(s, e, a)
  BY <1>2, <1>3, <1>6, <1>7 DEF GoesBetween
<1>9. e \in SS!ToSet(t)
  <2>1. s \in Seq(Pairs(T, key)) /\ Pairs(T, key) \subseteq Pairs(T, key) \cup {e}
    BY ElementsInOrder, InOrderIs
  <2>2. PICK X : X = Pairs(T, key) \cup {e}
    OBVIOUS
  <2>3. s \in Seq(X) /\ e \in X
    BY <2>1, <2>2, SeqMonotonic
  <2>4. Inserted(s, X, a, e, t)
    BY <1>2, <1>3, <2>3, InsertAtIs
  <2>5. t \in Seq(X) /\ Len(t) = Len(s) + 1 /\ t[a + 1] = e
    BY <2>4 DEF Inserted
  <2>6. DOMAIN t = 1..Len(t) /\ Len(s) \in Nat
    BY <2>3, <2>5, LenProperties
  <2>7. a + 1 \in DOMAIN t
    BY <1>3, <1>5, <2>5, <2>6
  <2>8. QED
    BY <2>5, <2>7, SameOperators
<1>10. e \in Nodes \X Keys /\ e[2] = k
  BY <1>2, <1>3
<1>11. unique => SS!Lower(s, e[2]) = SS!Upper(s, e[2])
  BY <1>4, <1>6, <1>10 DEF GoesBetween
<1>12. e \in SS!ToSet(t) \cap (Nodes \X Keys) /\ a \in 0..SS!Len(s)
  BY <1>3, <1>9, <1>10
<1>13. QED
  BY <1>8, <1>11, <1>12 DEF SS!InsertOne

(* A node that leaves the tree is erased from the sequence.                *)
LEMMA RemovedFromSequence ==
  ASSUME NEW T, NEW C, NEW g, Before(T, C, g), NEW T2, NEW g2, After(T2, g2), Removed(T, g, T2, g2),
         NEW s, s = Elements, NEW t, t = Elements'
  PROVE  SS!EraseOne(s, t)
<1>1. PICK z \in T : T2 = T \ {z} /\ (\A m \in T2 : key'[m] = key[m]) /\ Closed(T, g, z, g2)
  BY DEF Removed, SameKeys
<1>2. PICK K, K2, j : K = key /\ K2 = key' /\ j = g.pos[z]
  OBVIOUS
<1>3. InOrder(s, T, g, K)
  BY <1>2, ElementsInOrder
<1>4. InOrder(t, T \ {z}, g2, K2)
  BY <1>1, <1>2, ElementsInOrderThen
<1>5. z # End
  BY InShapeIs, RBTreeAssumption
<1>6. \A m \in T \ {z} : K2[m] = K[m]
  BY <1>1, <1>2
<1>7. g.pos[z] \in 1..Len(s) /\ t = RemoveAt(s, g.pos[z])
  BY <1>1, <1>3, <1>4, <1>5, <1>6, ListRemoved
<1>8. DOMAIN s = 1..Len(s)
  BY <1>3, InOrderIs
<1>9. j \in DOMAIN s /\ t = SS!RemoveAt(s, j)
  BY <1>2, <1>7, <1>8, SameOperators
<1>10. QED
  BY <1>9 DEF SS!EraseOne

(* Elements that stay in place are the same sequence.                      *)
LEMMA UnmovedInSequence ==
  ASSUME NEW T, NEW C, NEW g, Before(T, C, g), NEW T2, NEW g2, After(T2, g2), Unmoved(T, g, T2, g2)
  PROVE  Elements' = Elements
<1>1. T2 = T /\ (\A m \in T : key'[m] = key[m]) /\ \A m \in T \cup {End} : g2.pos[m] = g.pos[m]
  BY DEF Unmoved, SameKeys
<1>2. PICK K, K2, s, t : K = key /\ K2 = key' /\ s = Elements /\ t = Elements'
  OBVIOUS
<1>3. InOrder(s, T, g, K)
  BY <1>2, ElementsInOrder
<1>4. InOrder(t, T, g2, K2)
  BY <1>1, <1>2, ElementsInOrderThen
<1>5. \A m \in T : K2[m] = K[m]
  BY <1>1, <1>2
<1>6. t = s
  BY <1>1, <1>3, <1>4, <1>5, ListUnmoved
<1>7. QED
  BY <1>2, <1>6

(* No nodes, no elements.                                                  *)
LEMMA EmptyInSequence ==
  ASSUME NEW s, NEW g, NEW K, InOrder(s, {}, g, K)
  PROVE  s = <<>>
<1>1. /\ s \in Seq(Pairs({}, K)) /\ Len(s) \in Nat
      /\ \A i \in 1..Len(s) : \E n \in {} : g.pos[n] = i /\ s[i] = <<n, K[n]>>
  BY InOrderIs
<1>2. Len(s) = 0
  BY <1>1
<1>3. QED
  BY <1>1, <1>2, EmptySeq

(* Every step of the tree is a step of the sequence, or none.              *)
LEMMA StepsInSequence == OInv /\ [Next]_vars => [SS!SSNext]_<<Elements, unique>>
<1> SUFFICES ASSUME OInv, [Next]_vars PROVE SS!SSNext \/ UNCHANGED <<Elements, unique>>
  OBVIOUS
<1>1. PICK C, g : Before(Linked, C, g)
  BY OrderNow
<1>2. PICK T2, g2 : After(T2, g2) /\ Stepped(Linked, g, T2, g2)
  BY <1>1, OrderSteps
<1>3. unique' = unique
  BY ProgramStays DEF unique
<1>4. PICK T : T = Linked
  OBVIOUS
<1>5. PICK s, t : s = Elements /\ t = Elements'
  OBVIOUS
<1>6. CASE Unmoved(T, g, T2, g2)
  <2>1. Elements' = Elements
    BY <1>1, <1>2, <1>4, <1>6, UnmovedInSequence
  <2>2. QED
    BY <1>3, <2>1
<1>7. CASE Added(T, g, T2, g2)
  <2>1. SS!InsertOne(s, t)
    BY <1>1, <1>2, <1>4, <1>5, <1>7, AddedInSequence
  <2>2. QED
    BY <1>3, <1>5, <2>1 DEF SS!SSNext
<1>8. CASE Removed(T, g, T2, g2)
  <2>1. SS!EraseOne(s, t)
    BY <1>1, <1>2, <1>4, <1>5, <1>8, RemovedFromSequence
  <2>2. QED
    BY <1>3, <1>5, <2>1 DEF SS!SSNext
<1>9. CASE T2 = {}
  <2>1. PICK K2 : K2 = key'
    OBVIOUS
  <2>2. InOrder(t, {}, g2, K2)
    BY <1>2, <1>5, <1>9, <2>1, ElementsInOrderThen
  <2>3. t = <<>>
    BY <2>2, EmptyInSequence
  <2>4. QED
    BY <1>3, <1>5, <2>3 DEF SS!SSNext
<1>10. QED
  BY <1>2, <1>4, <1>6, <1>7, <1>8, <1>9 DEF Stepped

(* The elements of an empty tree are the empty sequence.                   *)
LEMMA SequenceBegins == Init => SS!SSInit
<1> SUFFICES ASSUME Init PROVE SS!SSInit
  OBVIOUS
<1>1. PICK C, g : Before(Linked, C, g)
  BY OrderBegins, OrderNow
<1>2. PICK s, K, T : s = Elements /\ K = key /\ T = Linked
  OBVIOUS
<1>3. InOrder(s, T, g, K)
  BY <1>1, <1>2, ElementsInOrder
<1>4. T = {}
  <2>1. tree \in Trees /\ Shape(tree, T, C, begin)
    BY <1>1, <1>2, InShapeIs
  <2>2. Root(tree) = Null
    BY DEF Init, Root, Sides
  <2>3. QED
    BY <1>2, <2>1, <2>2, LinkedIs DEF Linked
<1>5. Elements = <<>>
  BY <1>2, <1>3, <1>4, EmptyInSequence
<1>6. unique \in BOOLEAN
  BY RBTreeAssumption DEF Init, unique
<1>7. QED
  BY <1>5, <1>6 DEF SS!SSInit

(* A tree of linked and coloured nodes implements the sorted sequence that *)
(* an associative container promises: every operation is an insertion into *)
(* it, an erasure or the clearing of it, and rebalancing is nothing.       *)
THEOREM TreeImplementsSequence == Spec => ImplementsSortedSequence
<1>1. Init => SS!SSInit
  BY SequenceBegins
<1>2. OInv /\ [Next]_vars => [SS!SSNext]_<<Elements, unique>>
  BY StepsInSequence
<1>3. Spec => []OInv
  BY AlwaysOrdered
<1>4. QED
  BY <1>1, <1>2, <1>3, PTL DEF Spec, ImplementsSortedSequence, SS!SSSpec

(* A node that is created for a key and put behind the first a elements,   *)
(* which is as near to place j as the key may be.                          *)
LEMMA CreatedInSequence ==
  ASSUME NEW T, NEW C, NEW g, Before(T, C, g), NEW k \in Offered, NEW s, s = Elements,
         NEW l \in Nat, Splits(T, g, Beyond(FALSE, k), l), NEW u \in Nat, Splits(T, g, Beyond(TRUE, k), u),
         NEW place, NEW a, Gap(T, g, place, a), NEW j, a = Nearest(l, u, j), Create(k, place)
  PROVE  SS!InsertNear(New(k), k, j)
<1>1. PICK n, q, e : n = New(k) /\ q = a + 1 /\ e = <<n, k>>
  OBVIOUS
<1>2. PICK g2 : After(T \cup {n}, g2) /\ Placed(T, g, n, k, a, g2)
  BY <1>1, CreateOrder
<1>3. k \in Keys
  BY DEF Offered
<1>4. Elements' = InsertAt(s, q, <<n, k>>)
  BY <1>1, <1>2, PlacedInSequence
<1>5. GoesBetween(s, k, l, u)
  BY <1>3, WithNearIs
<1>6. SS!WithNear(s, <<n, k>>, j) = InsertAt(s, q, <<n, k>>)
  BY <1>1, <1>5 DEF GoesBetween
<1>7. QED
  BY <1>1, <1>4, <1>6 DEF SS!InsertNear

(* An element goes where it is asked for.                                  *)
LEMMA WhereAsked ==
  ASSUME OInv, NEW k \in Offered
  PROVE  /\ InsertMulti(k) => SS!Insert(New(k), k)
         /\ \A i \in 0..Len(Elements) :
              InsertMultiNear(IF i = Len(Elements) THEN End ELSE Elements[i + 1][1], k)
                => SS!InsertNear(New(k), k, i)
<1>1. PICK T, C, g : Before(T, C, g)
  BY OrderNow
<1>2. PICK s : s = Elements
  OBVIOUS
<1>3. k \in Keys
  BY DEF Offered
<1>4. PICK l, u : Finds(T, g, k, l, u)
  BY <1>1, <1>3, SearchesFind
<1>5. /\ Splits(T, g, Beyond(FALSE, k), l) /\ Splits(T, g, Beyond(TRUE, k), u) /\ l <= u
      /\ Gap(T, g, FindLeafHigh(k), u)
      /\ \A h \in T \cup {End} : Gap(T, g, FindLeaf(h, k), Nearest(l, u, g.pos[h] - 1))
  BY <1>4 DEF Finds
<1>6. l \in Nat /\ u \in Nat
  BY <1>5 DEF Splits
<1>7. ASSUME InsertMulti(k) PROVE SS!Insert(New(k), k)
  <2>1. Create(k, FindLeafHigh(k))
    BY <1>7 DEF InsertMulti
  <2>2. u = Nearest(l, u, u)
    BY <1>5, <1>6 DEF Nearest
  <2>3. SS!InsertNear(New(k), k, u)
    BY <1>1, <1>2, <1>5, <1>6, <2>1, <2>2, CreatedInSequence
  <2>4. GoesBetween(s, k, l, u)
    BY <1>1, <1>2, <1>3, <1>5, <1>6, WithNearIs
  <2>5. SS!Upper(Elements, k) = u
    BY <1>2, <2>4 DEF GoesBetween
  <2>6. QED
    BY <2>3, <2>5 DEF SS!Insert
<1>8. ASSUME NEW i \in 0..Len(Elements),
             InsertMultiNear(IF i = Len(Elements) THEN End ELSE Elements[i + 1][1], k)
      PROVE  SS!InsertNear(New(k), k, i)
  <2>1. PICK h : h = IF i = Len(Elements) THEN End ELSE Elements[i + 1][1]
    OBVIOUS
  <2>2. Create(k, FindLeaf(h, k))
    BY <1>8, <2>1 DEF InsertMultiNear
  <2>3. InOrder(s, T, g, key)
    BY <1>1, <1>2, ElementsInOrder
  <2>4. /\ Len(s) \in Nat /\ Len(s) = g.pos[End] - 1 /\ g.pos[End] \in Nat
        /\ \A j \in 1..Len(s) : \E n \in T : g.pos[n] = j /\ s[j] = <<n, key[n]>>
    BY <2>3, InOrderIs
  <2>5. i \in Nat /\ i <= Len(s)
    BY <1>2, <2>4
  <2>6. h \in T \cup {End} /\ g.pos[h] = i + 1
    <3>1. CASE i = Len(s)
      <4>1. h = End
        BY <1>2, <2>1, <3>1
      <4>2. QED
        BY <2>4, <3>1, <4>1
    <3>2. CASE i # Len(s)
      <4>1. h = s[i + 1][1] /\ i + 1 \in 1..Len(s)
        BY <1>2, <2>1, <2>4, <2>5, <3>2
      <4>2. PICK n \in T : g.pos[n] = i + 1 /\ s[i + 1] = <<n, key[n]>>
        BY <2>4, <4>1
      <4>3. QED
        BY <4>1, <4>2
    <3>3. QED
      BY <3>1, <3>2
  <2>7. PICK a : a = Nearest(l, u, i)
    OBVIOUS
  <2>8. g.pos[h] - 1 = i
    BY <2>5, <2>6
  <2>9. Gap(T, g, FindLeaf(h, k), a)
    BY <1>5, <2>6, <2>7, <2>8
  <2>10. QED
    BY <1>1, <1>2, <1>5, <1>6, <2>2, <2>7, <2>9, CreatedInSequence
<1>9. QED
  BY <1>7, <1>8

(* insert of a multiset or multimap puts an element behind those with an   *)
(* equal key, and with a hint as close to the hint as it may be.           *)
THEOREM InsertsWhereAsked == Spec => InsertedWhereAsked
<1>1. OInv /\ [Next]_vars =>
        [~unique => \A k \in Offered :
           /\ InsertMulti(k) => SS!Insert(New(k), k)
           /\ \A i \in 0..Len(Elements) :
                InsertMultiNear(IF i = Len(Elements) THEN End ELSE Elements[i + 1][1], k)
                  => SS!InsertNear(New(k), k, i)]_vars
  BY WhereAsked
<1>2. Spec => []OInv
  BY AlwaysOrdered
<1>3. QED
  BY <1>1, <1>2, PTL DEF Spec, InsertedWhereAsked
==============================================================================
