------------------------------ MODULE DebugDbProofs ------------------------------
(***************************************************************************)
(* The database of debug mode for any number of containers and iterators   *)
(* and of threads that make containers, any hash function, and whatever    *)
(* malloc returns: the table finds every container that exists and whose   *)
(* node no failed malloc has cut off, the lists of iterators are exact, and*)
(* the whole implements their ownership, as long as no node is constructed *)
(* with a stale link.                                                      *)
(***************************************************************************)
EXTENDS DebugDb, TLAPS, FiniteSetTheorems, WellFoundedInduction

(* There are finitely many addresses, and a hash is a number.              *)
Limits ==
  /\ IsFiniteSet(Containers)
  /\ HashValues \subseteq Nat
  /\ Null \notin Containers /\ Unregistered \notin Containers /\ Null # Unregistered

-----------------------------------------------------------------------------
(***************************************************************************)
(* Natural numbers and finite orders.                                      *)
(***************************************************************************)
(* A set of numbers has a least one.                                       *)
LEMMA LeastNumber ==
  ASSUME NEW S, S \subseteq Nat, S # {}
  PROVE  \E n \in S : \A m \in S : n <= m
<1>1. PICK n \in S : \A m \in S : ~ (<<m, n>> \in OpToRel(<, Nat))
  BY NatLessThanWellFounded, WFMin
<1>2. \A m \in S : ~ (m < n)
  BY <1>1, Zenon DEF OpToRel
<1>3. QED
  BY <1>2

(* An order is given by its pairs.                                         *)
StrictOrder(R, S) ==
  /\ \A u \in S : <<u, u>> \notin R
  /\ \A u, v \in S : u # v => <<u, v>> \in R \/ <<v, u>> \in R
  /\ \A u, v, w \in S : <<u, v>> \in R /\ <<v, w>> \in R => <<u, w>> \in R

LEMMA SmallerSet ==
  ASSUME NEW S, NEW T, IsFiniteSet(T), S \subseteq T, S # T
  PROVE  Cardinality(S) < Cardinality(T) /\ Cardinality(S) \in Nat /\ Cardinality(T) \in Nat
BY FS_Subset, FS_CardinalityType

(* A finite set that is ordered has a last element, and a first one.       *)
LEMMA LastOfOrder ==
  ASSUME NEW S, IsFiniteSet(S), S # {}, NEW R, StrictOrder(R, S)
  PROVE  \E v \in S : \A u \in S \ {v} : <<u, v>> \in R
<1> DEFINE After(v) == {u \in S : <<v, u>> \in R}
           N == {Cardinality(After(v)) : v \in S}
<1>1. \A v \in S : IsFiniteSet(After(v)) /\ Cardinality(After(v)) \in Nat
  BY FS_Subset, FS_CardinalityType
<1>2. N \subseteq Nat /\ N # {}
  BY <1>1
<1>3. PICK n \in N : \A m \in N : n <= m
  BY <1>2, LeastNumber
<1>4. PICK v \in S : n = Cardinality(After(v))
  OBVIOUS
<1>5. ASSUME NEW u \in S, <<v, u>> \in R PROVE FALSE
  <2>1. After(u) \subseteq After(v) /\ After(u) # After(v)
    BY <1>5 DEF StrictOrder
  <2>2. Cardinality(After(u)) < Cardinality(After(v)) /\ Cardinality(After(u)) \in N
    BY <1>1, <2>1, SmallerSet
  <2>3. n <= Cardinality(After(u)) /\ Cardinality(After(u)) \in Nat /\ n \in Nat
    BY <1>1, <1>2, <1>3, <2>2
  <2> HIDE DEF After, N
  <2>4. QED
    BY <1>4, <2>2, <2>3
<1>6. QED
  BY <1>5 DEF StrictOrder

LEMMA FirstOfOrder ==
  ASSUME NEW S, IsFiniteSet(S), S # {}, NEW R, StrictOrder(R, S)
  PROVE  \E v \in S : \A u \in S \ {v} : <<v, u>> \in R
<1> DEFINE Q == {q \in S \X S : <<q[2], q[1]>> \in R}
<1>1. \A u, v \in S : <<u, v>> \in Q <=> <<v, u>> \in R
  OBVIOUS
<1>2. StrictOrder(Q, S)
  BY <1>1 DEF StrictOrder
<1>3. QED
  BY <1>1, <1>2, LastOfOrder

(* The new number of buckets: more than there were, and at most twice that.*)
LEMMA NextPrimeInRange ==
  ASSUME NEW n \in Nat
  PROVE  NextPrime(n) \in n..2 * n
<1> DEFINE P == {q \in n..2 * n : IsPrime(q)}
<1>1. \E p \in n..2 * n : \A q \in n..2 * n : IsPrime(q) => IsPrime(p) /\ p <= q
  <2>1. CASE P = {}
    BY <2>1, n \in n..2 * n
  <2>2. CASE P # {}
    BY <2>2, LeastNumber, P \subseteq Nat
  <2>3. QED
    BY <2>1, <2>2
<1>2. QED
  BY <1>1 DEF NextPrime

-----------------------------------------------------------------------------
(***************************************************************************)
(* The shape of a table of n buckets bk with links nx for the nodes in S:  *)
(* r gives each node its place in its chain, from 0 on without a gap.      *)
(***************************************************************************)
Together(c, d, n) == HashIn(c, n) = HashIn(d, n)

PlacesExact(S, n, r) ==
  /\ \A c, d \in S : Together(c, d, n) /\ r[c] = r[d] => c = d
  /\ \A c \in S : r[c] > 0 => \E d \in S : Together(c, d, n) /\ r[d] = r[c] - 1

BucketsExact(S, n, bk, r) ==
  /\ \A b \in 0..n - 1 : bk[b] # Null => bk[b] \in S /\ HashIn(bk[b], n) = b /\ r[bk[b]] = 0
  /\ \A c \in S : r[c] = 0 => bk[HashIn(c, n)] = c

LinksExact(S, n, nx, r) ==
  /\ \A c \in S : nx[c] # Null => /\ nx[c] \in S /\ Together(c, nx[c], n)
                                  /\ r[nx[c]] = r[c] + 1
  /\ \A c, d \in S : Together(c, d, n) /\ r[d] = r[c] + 1 => nx[c] = d

Shape(S, n, bk, nx, r) ==
  /\ r \in [Containers -> Nat] /\ n \in Nat /\ (n > 0 \/ S = {})
  /\ PlacesExact(S, n, r) /\ BucketsExact(S, n, bk, r) /\ LinksExact(S, n, nx, r)

LEMMA HashInRange ==
  ASSUME Limits, hash \in [Containers -> HashValues], NEW c \in Containers, NEW n \in Nat, n > 0
  PROVE  HashIn(c, n) \in 0..n - 1
<1>1. hash[c] \in Nat
  BY DEF Limits
<1>2. QED
  BY <1>1 DEF HashIn

(* A function that fits the recursion of a walk is that walk.              *)
LEMMA WalkIs ==
  ASSUME Limits, NEW p, NEW g,
         g = [k \in Steps |-> IF k = 0 THEN p ELSE IF g[k - 1] = Null THEN Null ELSE next[g[k - 1]]]
  PROVE  Walk(p) = g
<1> DEFINE Fits(f) ==
      f = [k \in Steps |-> IF k = 0 THEN p ELSE IF f[k - 1] = Null THEN Null ELSE next[f[k - 1]]]
<1>1. Walk(p) = CHOOSE f : Fits(f)
  BY DEF Walk
<1>2. Fits(Walk(p))
  <2>1. Fits(g)
    OBVIOUS
  <2> HIDE DEF Fits
  <2>2. QED
    BY <1>1, <2>1
<1> DEFINE D == {k \in Steps : Walk(p)[k] # g[k]}
<1>3. Steps \subseteq Nat /\ \A k \in Steps : k > 0 => k - 1 \in Steps
  BY FS_CardinalityType DEF Limits, Steps
<1>4. ASSUME D # {} PROVE FALSE
  <2>1. PICK k \in D : \A j \in D : k <= j
    BY <1>3, <1>4, LeastNumber
  <2>2. k # 0
    BY <1>2
  <2>3. k - 1 \in Steps /\ k - 1 \notin D
    BY <1>3, <2>1, <2>2
  <2>4. Walk(p)[k - 1] = g[k - 1]
    BY <2>3
  <2>5. QED
    BY <1>2, <2>1, <2>2, <2>4
<1>5. DOMAIN Walk(p) = Steps /\ DOMAIN g = Steps
  BY <1>2
<1>6. QED
  BY <1>2, <1>4, <1>5

Indices == 0..size - 1
At(c, b, k, r) == HashIn(c, size) = b /\ r[c] = k

(* A walk along the chain of bucket b meets the nodes of b at their places.*)
LEMMA WalkMeets ==
  ASSUME Limits, NEW S \in SUBSET Containers, NEW r, Shape(S, size, bucket, next, r),
         NEW b \in Indices
  PROVE  \A k \in Steps :
           /\ Walk(bucket[b])[k] \in S \cup {Null}
           /\ Walk(bucket[b])[k] \in S => At(Walk(bucket[b])[k], b, k, r)
           /\ \A c \in S : At(c, b, k, r) => Walk(bucket[b])[k] = c
<1> DEFINE On(k) == {c \in S : HashIn(c, size) = b /\ r[c] = k}
           node(k) == IF On(k) = {} THEN Null ELSE CHOOSE c \in On(k) : TRUE
           g == [k \in Steps |-> node(k)]
<1>1. Steps \subseteq Nat /\ (\A k \in Steps : k > 0 => k - 1 \in Steps) /\ 0 \in Steps
  BY FS_CardinalityType DEF Limits, Steps
<1>2. \A k : On(k) # {} => node(k) \in On(k)
  OBVIOUS
<1>3. \A c, d \in S : HashIn(c, size) = b /\ HashIn(d, size) = b /\ r[c] = r[d] => c = d
  BY DEF Shape, PlacesExact, Together
<1>4. \A k, c : c \in On(k) => node(k) = c
  BY <1>2, <1>3
<1>5. Null \notin S
  BY DEF Limits
<1>6. node(0) = bucket[b]
  BY <1>2, <1>4 DEF Shape, BucketsExact, Indices
<1>7. ASSUME NEW k \in Steps, k > 0
      PROVE  node(k) = IF node(k - 1) = Null THEN Null ELSE next[node(k - 1)]
  <2>0. k \in Nat /\ k - 1 \in Nat /\ r \in [Containers -> Nat]
    BY <1>1, <1>7 DEF Shape
  <2>1. CASE On(k - 1) = {}
    <3>1. On(k) = {}
      BY <2>0, <2>1, <1>7 DEF Shape, PlacesExact, Together
    <3>2. QED
      BY <2>1, <3>1
  <2>2. CASE On(k - 1) # {}
    <3>1. PICK c \in S : c \in On(k - 1) /\ node(k - 1) = c
      BY <1>2, <2>2
    <3>2. HashIn(c, size) = b /\ r[c] + 1 = k /\ c # Null
      BY <2>0, <3>1, <1>5
    <3>3. CASE next[c] = Null
      <4>1. On(k) = {}
        BY <3>2, <3>3, <1>5 DEF Shape, LinksExact, Together
      <4>2. QED
        BY <3>1, <3>2, <3>3, <4>1
    <3>4. CASE next[c] # Null
      <4>1. next[c] \in On(k)
        BY <3>2, <3>4 DEF Shape, LinksExact, Together
      <4>2. node(k) = next[c]
        BY <1>4, <4>1
      <4>3. QED
        BY <3>1, <3>2, <4>2
    <3>5. QED
      BY <3>3, <3>4
  <2>3. QED
    BY <2>1, <2>2
<1>8. g = [k \in Steps |-> IF k = 0 THEN bucket[b]
                           ELSE IF g[k - 1] = Null THEN Null ELSE next[g[k - 1]]]
  <2> HIDE DEF node
  <2>1. \A k \in Steps : node(k) = IF k = 0 THEN bucket[b]
                                   ELSE IF g[k - 1] = Null THEN Null ELSE next[g[k - 1]]
    BY <1>1, <1>6, <1>7
  <2>2. QED
    BY <2>1
<1>9. Walk(bucket[b]) = g
  <2> HIDE DEF g
  <2>1. QED
    BY <1>8, WalkIs
<1>10. \A k \in Steps : /\ node(k) \in S \cup {Null}
                        /\ node(k) \in S => At(node(k), b, k, r)
                        /\ \A c \in S : At(c, b, k, r) => node(k) = c
  BY <1>2, <1>4, <1>5 DEF At
<1>11. QED
  BY <1>9, <1>10

(* No chain is longer than the number of containers.                       *)
LEMMA PlacesInSteps ==
  ASSUME Limits, NEW S \in SUBSET Containers, NEW r \in [Containers -> Nat], NEW n,
         PlacesExact(S, n, r), NEW c \in S
  PROVE  r[c] \in Steps
<1> DEFINE T == {r[d] : d \in S}
           Holes == {k \in 0..r[c] : r[c] - k \notin {r[d] : d \in {e \in S : Together(c, e, n)}}}
<1>1. ASSUME Holes # {} PROVE FALSE
  <2>1. PICK k \in Holes : \A j \in Holes : k <= j
    BY <1>1, LeastNumber, Holes \subseteq Nat
  <2>2. k # 0
    BY <2>1 DEF Together
  <2>3. k - 1 \notin Holes /\ k - 1 \in 0..r[c] /\ k \in 1..r[c]
    BY <2>1, <2>2
  <2>4. PICK e \in S : Together(c, e, n) /\ r[e] = r[c] - (k - 1)
    BY <2>3
  <2>5. PICK d \in S : Together(e, d, n) /\ r[d] = r[e] - 1
    BY <2>3, <2>4 DEF PlacesExact
  <2>6. Together(c, d, n) /\ r[d] = r[c] - k
    BY <2>3, <2>4, <2>5 DEF Together
  <2>7. QED
    BY <2>1, <2>6
<1>2. 0..r[c] \subseteq T
  <2> SUFFICES ASSUME NEW j \in 0..r[c] PROVE j \in T
    OBVIOUS
  <2>1. r[c] - j \in 0..r[c] /\ r[c] - (r[c] - j) = j
    OBVIOUS
  <2>2. QED
    BY <1>1, <2>1
<1>3. IsFiniteSet(S) /\ Cardinality(S) <= Cardinality(Containers) /\ Cardinality(Containers) \in Nat
  BY FS_Subset, FS_CardinalityType DEF Limits
<1>4. IsFiniteSet(T) /\ Cardinality(T) <= Cardinality(S)
  <2> DEFINE f == [d \in S |-> r[d]]
  <2>1. f \in Surjection(S, T)
    BY DEF Surjection
  <2>2. QED
    BY <1>3, <2>1, FS_Surjection
<1>5. Cardinality(0..r[c]) <= Cardinality(T) /\ Cardinality(0..r[c]) = r[c] + 1
  <2> HIDE DEF T
  <2>1. r[c] \in Nat
    OBVIOUS
  <2>2. Cardinality(0..r[c]) = r[c] + 1
    BY <2>1, FS_Interval
  <2>3. QED
    BY <1>2, <1>4, <2>2, FS_Subset
<1>6. Cardinality(S) \in Nat /\ Cardinality(T) \in Nat
  BY <1>3, <1>4, FS_CardinalityType
<1> HIDE DEF T
<1>7. QED
  BY <1>3, <1>4, <1>5, <1>6 DEF Steps

(* The table finds its nodes, and its chains are sound.                    *)
LEMMA FoundByShape ==
  ASSUME Limits, hash \in [Containers -> HashValues], NEW S \in SUBSET Containers, NEW r,
         Shape(S, size, bucket, next, r), NEW c \in S
  PROVE  /\ size > 0 /\ HashIn(c, size) \in 0..size - 1 /\ r[c] \in Steps
         /\ Walk(bucket[HashIn(c, size)])[r[c]] = c
         /\ Found(c)
<1>1. size \in Nat /\ size > 0 /\ HashIn(c, size) \in 0..size - 1
  BY HashInRange DEF Shape
<1>2. r[c] \in Steps
  BY PlacesInSteps DEF Shape
<1>3. PICK b \in Indices : b = HashIn(c, size)
  BY <1>1 DEF Indices
<1>4. Walk(bucket[b])[r[c]] = c
  BY <1>2, <1>3, WalkMeets DEF At
<1>5. QED
  BY <1>1, <1>2, <1>3, <1>4 DEF Found, Meets

(* A table of this shape has no cycle, no strange node and no wrong hash.  *)
LEMMA SoundByShape ==
  ASSUME Limits, NEW r, Kept \subseteq Containers, Shape(Kept, size, bucket, next, r)
  PROVE  ChainsSound
<1>1. ASSUME NEW b \in Indices, NEW k \in Steps, Walk(bucket[b])[k] # Null
      PROVE  /\ Walk(bucket[b])[k] \in Kept
             /\ HashIn(Walk(bucket[b])[k], size) = b
             /\ \A j \in 0..k - 1 : Walk(bucket[b])[j] # Walk(bucket[b])[k]
  <2>1. \A j \in Steps : /\ Walk(bucket[b])[j] \in Kept \cup {Null}
                         /\ Walk(bucket[b])[j] \in Kept => At(Walk(bucket[b])[j], b, j, r)
    BY WalkMeets
  <2>2. k \in Nat /\ \A j \in 0..k - 1 : j \in Steps /\ j # k
    BY FS_CardinalityType DEF Limits, Steps
  <2>3. QED
    BY <1>1, <2>1, <2>2 DEF At
<1>2. QED
  BY <1>1 DEF ChainsSound, Indices

-----------------------------------------------------------------------------
(***************************************************************************)
(* The growth.  The loops visit the nodes bucket by bucket and along each  *)
(* chain; a node comes before those of its new bucket that are visited     *)
(* earlier.                                                                *)
(***************************************************************************)
Place(c, r) == <<HashIn(c, size), r[c]>>
Older(c, d, r) == Before(Place(c, r), Place(d, r))

(* The loops of the growth visit every node of the table, once.            *)
LEMMA VisitsAre ==
  ASSUME Limits, hash \in [Containers -> HashValues], NEW S \in SUBSET Containers, NEW r,
         Shape(S, size, bucket, next, r)
  PROVE  /\ \A c \in S : Place(c, r) \in Visits /\ Visited(Place(c, r)) = c
         /\ \A v \in Visits : Visited(v) \in S /\ Place(Visited(v), r) = v
<1>1. ASSUME NEW c \in S PROVE Place(c, r) \in Visits /\ Visited(Place(c, r)) = c
  <2>1. c # Null
    BY DEF Limits
  <2>2. QED
    BY <2>1, FoundByShape DEF Place, Visits, Visited
<1>2. ASSUME NEW v \in Visits PROVE Visited(v) \in S /\ Place(Visited(v), r) = v
  <2>1. v[1] \in 0..size - 1 /\ v[2] \in Steps /\ v = <<v[1], v[2]>> /\ Visited(v) # Null
    BY DEF Visits, Visited
  <2>2. PICK b \in Indices, k \in Steps : b = v[1] /\ k = v[2]
    BY <2>1 DEF Indices
  <2>3. /\ Walk(bucket[b])[k] \in S \cup {Null}
        /\ Walk(bucket[b])[k] \in S => At(Walk(bucket[b])[k], b, k, r)
    BY WalkMeets
  <2>4. QED
    BY <2>1, <2>2, <2>3 DEF Visited, At, Place
<1>3. QED
  BY <1>1, <1>2

(* The order of the visits is strict.                                      *)
LEMMA OlderIsStrict ==
  ASSUME Limits, hash \in [Containers -> HashValues], NEW S \in SUBSET Containers, NEW r,
         Shape(S, size, bucket, next, r)
  PROVE  /\ \A c \in S : ~ Older(c, c, r)
         /\ \A c, d \in S : c # d => Older(c, d, r) \/ Older(d, c, r)
         /\ \A c, d, e \in S : Older(c, d, r) /\ Older(d, e, r) => Older(c, e, r)
<1>1. \A c \in S : r[c] \in Nat /\ HashIn(c, size) \in Nat
  BY HashInRange DEF Shape
<1>2. \A c, d \in S : HashIn(c, size) = HashIn(d, size) /\ r[c] = r[d] => c = d
  BY DEF Shape, PlacesExact, Together
<1>3. \A c, d \in S : Older(c, d, r) <=>
        \/ HashIn(c, size) < HashIn(d, size)
        \/ HashIn(c, size) = HashIn(d, size) /\ r[c] < r[d]
  BY DEF Older, Before, Place
<1>4. QED
  BY <1>1, <1>2, <1>3

(* The front of a bucket is the node of those moved there that was visited *)
(* last.                                                                   *)
LEMMA FrontIs ==
  ASSUME Limits, hash \in [Containers -> HashValues], NEW S \in SUBSET Containers, NEW r,
         Shape(S, size, bucket, next, r), NEW V \in SUBSET Visits, NEW c \in S,
         Place(c, r) \in V, \A d \in S \ {c} : Place(d, r) \in V => Older(d, c, r)
  PROVE  Latest(V) = Place(c, r) /\ Front(V) = c
<1>1. \A v \in Visits : Visited(v) \in S /\ Place(Visited(v), r) = v
  BY VisitsAre
<1>2. \A u \in V \ {Place(c, r)} : Before(u, Place(c, r))
  BY <1>1 DEF Older
<1>3. \A v \in V : (\A u \in V \ {v} : Before(u, v)) => v = Place(c, r)
  <2> SUFFICES ASSUME NEW v \in V, \A u \in V \ {v} : Before(u, v), v # Place(c, r)
               PROVE  FALSE
    OBVIOUS
  <2>1. Before(v, Place(c, r)) /\ Before(Place(c, r), v)
    BY <1>2
  <2>2. Older(Visited(v), c, r) /\ Older(c, Visited(v), r) /\ Visited(v) \in S
    BY <1>1, <2>1 DEF Older
  <2>3. QED
    BY <2>2, OlderIsStrict
<1>4. Latest(V) = Place(c, r)
  BY <1>2, <1>3 DEF Latest
<1>5. Visited(Place(c, r)) = c
  BY VisitsAre
<1>6. QED
  BY <1>4, <1>5 DEF Front

(* The nodes behind node c after a growth to n buckets, the nodes before it*)
(* and its place: those of its new bucket that were visited later, or      *)
(* earlier.                                                                *)
Later(c, S, n, r) == {d \in S : Together(c, d, n) /\ Older(c, d, r)}
Earlier(c, S, n, r) == {d \in S : Together(c, d, n) /\ Older(d, c, r)}
NewPlaces(S, n, r) ==
  [c \in Containers |-> IF c \in S THEN Cardinality(Later(c, S, n, r)) ELSE 0]

(* Some node of a set of nodes was visited last, and some node first.      *)
LEMMA LastAndFirst ==
  ASSUME Limits, hash \in [Containers -> HashValues], NEW S \in SUBSET Containers, NEW r,
         Shape(S, size, bucket, next, r), NEW T \in SUBSET S, T # {}
  PROVE  /\ \E c \in T : \A d \in T \ {c} : Older(d, c, r)
         /\ \E c \in T : \A d \in T \ {c} : Older(c, d, r)
<1> DEFINE R == {q \in T \X T : Older(q[1], q[2], r)}
<1>1. \A c, d \in T : <<c, d>> \in R <=> Older(c, d, r)
  OBVIOUS
<1>2. StrictOrder(R, T)
  <2> HIDE DEF R
  <2>1. QED
    BY <1>1, OlderIsStrict DEF StrictOrder
<1>3. IsFiniteSet(T)
  <2>1. T \in SUBSET Containers
    OBVIOUS
  <2>2. QED
    BY <2>1, FS_Subset DEF Limits
<1>4. PICK c \in T : \A d \in T \ {c} : <<d, c>> \in R
  BY <1>2, <1>3, LastOfOrder
<1>5. PICK e \in T : \A d \in T \ {e} : <<e, d>> \in R
  BY <1>2, <1>3, FirstOfOrder
<1>6. QED
  BY <1>1, <1>4, <1>5

LEMMA LaterFinite ==
  ASSUME Limits, NEW S \in SUBSET Containers, NEW n, NEW r, NEW c
  PROVE  IsFiniteSet(Later(c, S, n, r)) /\ Cardinality(Later(c, S, n, r)) \in Nat
<1>1. Later(c, S, n, r) \in SUBSET Containers
  BY DEF Later
<1>2. QED
  BY <1>1, FS_Subset, FS_CardinalityType DEF Limits

(* Of two nodes of a bucket, the one visited later has the smaller place.  *)
LEMMA LaterIsSmaller ==
  ASSUME Limits, hash \in [Containers -> HashValues], NEW S \in SUBSET Containers, NEW r,
         Shape(S, size, bucket, next, r), NEW n, NEW c \in S, NEW d \in S,
         Together(c, d, n), Older(c, d, r)
  PROVE  NewPlaces(S, n, r)[d] < NewPlaces(S, n, r)[c]
<1>1. Later(d, S, n, r) \subseteq Later(c, S, n, r) /\ Later(d, S, n, r) # Later(c, S, n, r)
  BY OlderIsStrict DEF Later, Together
<1>2. Cardinality(Later(d, S, n, r)) < Cardinality(Later(c, S, n, r))
  BY <1>1, LaterFinite, SmallerSet
<1>3. c \in Containers /\ d \in Containers
  OBVIOUS
<1>4. QED
  BY <1>2, <1>3 DEF NewPlaces

(* The place of a node is one more than that of the next one visited.      *)
LEMMA NextIsOneMore ==
  ASSUME Limits, hash \in [Containers -> HashValues], NEW S \in SUBSET Containers, NEW r,
         Shape(S, size, bucket, next, r), NEW n, NEW c \in S, NEW d \in S,
         Together(c, d, n), Older(c, d, r),
         \A e \in S : Together(c, e, n) /\ Older(c, e, r) => e = d \/ Older(d, e, r)
  PROVE  NewPlaces(S, n, r)[c] = NewPlaces(S, n, r)[d] + 1
<1>1. Later(c, S, n, r) = Later(d, S, n, r) \cup {d} /\ d \notin Later(d, S, n, r)
  BY OlderIsStrict DEF Later, Together
<1>2. Cardinality(Later(c, S, n, r)) = Cardinality(Later(d, S, n, r)) + 1
  BY <1>1, LaterFinite, FS_AddElement
<1>3. c \in Containers /\ d \in Containers
  OBVIOUS
<1>4. QED
  BY <1>2, <1>3 DEF NewPlaces

(* The places of the nodes in their new buckets are numbered without a gap.*)
LEMMA NewPlacesExact ==
  ASSUME Limits, hash \in [Containers -> HashValues], NEW S \in SUBSET Containers, NEW r,
         Shape(S, size, bucket, next, r), NEW n
  PROVE  NewPlaces(S, n, r) \in [Containers -> Nat] /\ PlacesExact(S, n, NewPlaces(S, n, r))
<1> DEFINE p == NewPlaces(S, n, r)
<1>1. p \in [Containers -> Nat]
  BY LaterFinite DEF NewPlaces
<1>2. ASSUME NEW c \in S, NEW d \in S, Together(c, d, n), p[c] = p[d] PROVE c = d
  <2>1. Together(d, c, n) /\ p[c] \in Nat /\ p[d] \in Nat
    BY <1>1, <1>2 DEF Together
  <2>2. Older(c, d, r) => p[d] < p[c]
    BY <1>2, LaterIsSmaller
  <2>3. Older(d, c, r) => p[c] < p[d]
    BY <2>1, LaterIsSmaller
  <2> HIDE DEF p
  <2>4. ~ Older(c, d, r) /\ ~ Older(d, c, r)
    BY <1>2, <2>1, <2>2, <2>3
  <2>5. QED
    BY <2>4, OlderIsStrict
<1>3. ASSUME NEW c \in S, p[c] > 0
      PROVE  \E d \in S : Together(c, d, n) /\ p[d] = p[c] - 1
  <2>1. Later(c, S, n, r) # {}
    BY <1>3, FS_EmptySet DEF NewPlaces
  <2>2. PICK d \in Later(c, S, n, r) : \A e \in Later(c, S, n, r) \ {d} : Older(d, e, r)
    <3>1. Later(c, S, n, r) \in SUBSET S
      BY DEF Later
    <3>2. QED
      BY <2>1, <3>1, LastAndFirst
  <2>3. d \in S /\ Together(c, d, n) /\ Older(c, d, r)
    BY DEF Later
  <2>4. \A e \in S : Together(c, e, n) /\ Older(c, e, r) => e = d \/ Older(d, e, r)
    BY <2>2 DEF Later
  <2>5. p[c] = p[d] + 1 /\ p[d] \in Nat
    BY <1>1, <2>3, <2>4, NextIsOneMore
  <2>6. QED
    BY <2>3, <2>5
<1>4. QED
  BY <1>1, <1>2, <1>3 DEF PlacesExact

(* After the growth a bucket points to the last of its nodes to be visited.*)
LEMMA RehashBuckets ==
  ASSUME Limits, hash \in [Containers -> HashValues], NEW S \in SUBSET Containers, NEW r,
         Shape(S, size, bucket, next, r), NEW n \in Nat, n > 0
  PROVE  BucketsExact(S, n, Rehash(n).bucket, NewPlaces(S, n, r))
<1> DEFINE p == NewPlaces(S, n, r)
           To(h) == {v \in Visits : HashIn(Visited(v), n) = h}
           In(h) == {c \in S : HashIn(c, n) = h}
<1>1. \A h \in 0..n - 1 : Rehash(n).bucket[h] = Front(To(h))
  BY DEF Rehash
<1>2. ASSUME NEW h, In(h) = {} PROVE Front(To(h)) = Null
  <2>1. To(h) = {}
    BY <1>2, VisitsAre
  <2>2. QED
    BY <2>1 DEF Front
<1>3. ASSUME NEW h, NEW c \in In(h), \A d \in In(h) \ {c} : Older(d, c, r)
      PROVE  Front(To(h)) = c /\ p[c] = 0
  <2>1. To(h) \in SUBSET Visits /\ \A d \in S : Place(d, r) \in To(h) <=> HashIn(d, n) = h
    BY VisitsAre
  <2>2. Front(To(h)) = c
    <3> HIDE DEF To
    <3>1. c \in S /\ Place(c, r) \in To(h)
      BY <2>1
    <3>2. \A d \in S \ {c} : Place(d, r) \in To(h) => Older(d, c, r)
      BY <1>3, <2>1
    <3>3. QED
      BY <2>1, <3>1, <3>2, FrontIs
  <2>3. Later(c, S, n, r) = {}
    BY <1>3, OlderIsStrict DEF Later, Together
  <2>4. QED
    BY <2>2, <2>3, FS_EmptySet DEF NewPlaces
<1>4. ASSUME NEW h, In(h) # {}
      PROVE  \E c \in In(h) : \A d \in In(h) \ {c} : Older(d, c, r)
  <2>1. In(h) \in SUBSET S
    OBVIOUS
  <2> HIDE DEF In
  <2>2. QED
    BY <1>4, <2>1, LastAndFirst
<1>5. ASSUME NEW h \in 0..n - 1, Front(To(h)) # Null
      PROVE  /\ Front(To(h)) \in S /\ HashIn(Front(To(h)), n) = h
             /\ p[Front(To(h))] = 0
  <2>1. PICK c \in In(h) : \A d \in In(h) \ {c} : Older(d, c, r)
    BY <1>2, <1>4, <1>5
  <2>2. QED
    BY <1>3, <2>1
<1>6. ASSUME NEW c \in S, p[c] = 0 PROVE Front(To(HashIn(c, n))) = c
  <2>1. Later(c, S, n, r) = {}
    BY <1>6, LaterFinite, FS_EmptySet DEF NewPlaces
  <2>2. \A d \in In(HashIn(c, n)) \ {c} : Older(d, c, r)
    BY <2>1, OlderIsStrict DEF Later, Together
  <2>3. QED
    BY <1>3, <2>2
<1>7. \A c \in S : HashIn(c, n) \in 0..n - 1
  BY HashInRange
<1> HIDE DEF To, p
<1>8. QED
  BY <1>1, <1>5, <1>6, <1>7 DEF BucketsExact, p

(* After the growth a node points to the one visited before it, of those in*)
(* the bucket.                                                             *)
LEMMA RehashLinks ==
  ASSUME Limits, hash \in [Containers -> HashValues], NEW S \in SUBSET Containers, NEW r,
         Shape(S, size, bucket, next, r), NEW n \in Nat, n > 0
  PROVE  LinksExact(S, n, Rehash(n).next, NewPlaces(S, n, r))
<1> DEFINE p == NewPlaces(S, n, r)
           nx == Rehash(n).next
           To(h) == {v \in Visits : HashIn(Visited(v), n) = h}
           Behind(c) == {u \in To(HashIn(c, n)) : Before(u, Place(c, r))}
<1>1. ASSUME NEW c \in S PROVE nx[c] = Front(Behind(c))
  <2> DEFINE mine == {v \in To(HashIn(c, n)) : Visited(v) = c}
  <2>1. mine = {Place(c, r)}
    BY VisitsAre
  <2>2. mine # {} /\ Latest(mine) = Place(c, r)
    BY <2>1 DEF Latest
  <2>3. c \in Containers
    OBVIOUS
  <2>4. QED
    BY <2>2, <2>3 DEF Rehash
<1>2. ASSUME NEW c \in S
      PROVE  /\ Behind(c) \in SUBSET Visits
             /\ \A d \in S : Place(d, r) \in Behind(c) <=> d \in Earlier(c, S, n, r)
             /\ Behind(c) # {} => Earlier(c, S, n, r) # {}
  BY VisitsAre DEF Earlier, Together, Older
<1>3. ASSUME NEW c \in S, Earlier(c, S, n, r) = {} PROVE nx[c] = Null
  BY <1>1, <1>2, <1>3 DEF Front
<1>4. ASSUME NEW c \in S, NEW d \in Earlier(c, S, n, r),
             \A e \in Earlier(c, S, n, r) \ {d} : Older(e, d, r)
      PROVE  nx[c] = d /\ d \in S /\ Together(c, d, n) /\ p[d] = p[c] + 1
  <2>1. d \in S /\ Together(c, d, n) /\ Together(d, c, n) /\ Older(d, c, r)
    BY DEF Earlier, Together
  <2>2. Front(Behind(c)) = d
    <3> HIDE DEF Behind
    <3>1. Behind(c) \in SUBSET Visits /\ Place(d, r) \in Behind(c)
      BY <1>2, <2>1
    <3>2. \A e \in S \ {d} : Place(e, r) \in Behind(c) => Older(e, d, r)
      BY <1>2, <1>4
    <3>3. QED
      BY <2>1, <3>1, <3>2, FrontIs
  <2>3. \A e \in S : Together(d, e, n) /\ Older(d, e, r) => e = c \/ Older(c, e, r)
    BY <1>4, <2>1, OlderIsStrict DEF Earlier, Together
  <2>4. p[d] = p[c] + 1
    BY <2>1, <2>3, NextIsOneMore
  <2>5. QED
    BY <1>1, <2>1, <2>2, <2>4
<1>5. ASSUME NEW c \in S, Earlier(c, S, n, r) # {}
      PROVE  \E d \in Earlier(c, S, n, r) : \A e \in Earlier(c, S, n, r) \ {d} : Older(e, d, r)
  <2>1. Earlier(c, S, n, r) \in SUBSET S
    BY DEF Earlier
  <2>2. QED
    BY <1>5, <2>1, LastAndFirst
<1>6. ASSUME NEW c \in S, nx[c] # Null
      PROVE  nx[c] \in S /\ Together(c, nx[c], n) /\ p[nx[c]] = p[c] + 1
  <2>1. PICK d \in Earlier(c, S, n, r) : \A e \in Earlier(c, S, n, r) \ {d} : Older(e, d, r)
    BY <1>3, <1>5, <1>6
  <2> HIDE DEF nx, p
  <2>2. QED
    BY <1>4, <2>1
<1>7. ASSUME NEW c \in S, NEW d \in S, Together(c, d, n), p[d] = p[c] + 1
      PROVE  nx[c] = d
  <2>1. p[c] \in Nat /\ p[d] \in Nat /\ PlacesExact(S, n, p)
    BY NewPlacesExact
  <2>2. Older(c, d, r) => p[d] < p[c]
    BY <1>7, LaterIsSmaller
  <2>3. ~ Older(c, d, r) /\ c # d
    <3> HIDE DEF p
    <3>1. QED
      BY <1>7, <2>1, <2>2
  <2>4. d \in Earlier(c, S, n, r)
    BY <1>7, <2>3, OlderIsStrict DEF Earlier
  <2>5. PICK e \in Earlier(c, S, n, r) : \A f \in Earlier(c, S, n, r) \ {e} : Older(f, e, r)
    BY <1>5, <2>4
  <2>6. nx[c] = e /\ e \in S /\ Together(c, e, n) /\ p[e] = p[c] + 1
    BY <1>4, <2>5
  <2> HIDE DEF nx, p
  <2>7. e = d
    BY <1>7, <2>1, <2>6 DEF PlacesExact, Together
  <2>8. QED
    BY <2>6, <2>7
<1> HIDE DEF nx, p
<1>8. LinksExact(S, n, nx, p)
  BY <1>6, <1>7 DEF LinksExact
<1>9. QED
  BY <1>8 DEF nx, p

(* Every node is in its place after the growth, too.                       *)
LEMMA RehashShape ==
  ASSUME Limits, hash \in [Containers -> HashValues], NEW S \in SUBSET Containers, NEW r,
         Shape(S, size, bucket, next, r), NEW n \in Nat, n > 0
  PROVE  Shape(S, n, Rehash(n).bucket, Rehash(n).next, NewPlaces(S, n, r))
BY NewPlacesExact, RehashBuckets, RehashLinks DEF Shape

-----------------------------------------------------------------------------
(***************************************************************************)
(* A node is linked to the front of its bucket, or unlinked.               *)
(***************************************************************************)
LEMMA PushShape ==
  ASSUME Limits, hash \in [Containers -> HashValues], NEW S \in SUBSET Containers, NEW r,
         NEW n \in Nat, n > 0, NEW bk \in [0..n - 1 -> Containers \cup {Null}],
         NEW nx \in [Containers -> Containers \cup {Null}],
         Shape(S, n, bk, nx, r), NEW c \in Containers \ S
  PROVE  \E q : Shape(S \cup {c}, n, [bk EXCEPT ![HashIn(c, n)] = c],
                                     [nx EXCEPT ![c] = bk[HashIn(c, n)]], q)
<1> DEFINE h == HashIn(c, n)
           q == [d \in Containers |-> IF d = c THEN 0
                                      ELSE IF d \in S /\ HashIn(d, n) = h THEN r[d] + 1 ELSE r[d]]
           b2 == [bk EXCEPT ![h] = c]
           n2 == [nx EXCEPT ![c] = bk[h]]
           T == S \cup {c}
<1>1. h \in 0..n - 1 /\ c # Null /\ r \in [Containers -> Nat] /\ \A d \in S : d # Null /\ d # c
  BY HashInRange DEF Limits, Shape
<1>2. q \in [Containers -> Nat] /\ q[c] = 0
  BY <1>1
<1>3. \A d \in S : q[d] = IF HashIn(d, n) = h THEN r[d] + 1 ELSE r[d]
  BY <1>1
<1>4. \A d \in S : d \in Containers /\ r[d] \in Nat
  BY <1>1
<1>5. /\ \A b \in 0..n - 1 : b2[b] = IF b = h THEN c ELSE bk[b]
      /\ \A d \in Containers : n2[d] = IF d = c THEN bk[h] ELSE nx[d]
  BY <1>1
<1>6. \A d \in S : HashIn(d, n) \in 0..n - 1
  BY HashInRange
<1> HIDE DEF q, b2, n2
<1>7. PlacesExact(T, n, q)
  <2>1. \A d, e \in T : Together(d, e, n) /\ q[d] = q[e] => d = e
    BY <1>2, <1>3, <1>4 DEF Shape, PlacesExact, Together
  <2>2. ASSUME NEW d \in T, q[d] > 0
        PROVE  \E e \in T : Together(d, e, n) /\ q[e] = q[d] - 1
    <3>1. d \in S
      BY <1>2, <2>2
    <3>2. CASE HashIn(d, n) = h /\ r[d] = 0
      BY <1>2, <1>3, <3>1, <3>2 DEF Together
    <3>3. CASE r[d] > 0
      <4>1. PICK e \in S : Together(d, e, n) /\ r[e] = r[d] - 1
        BY <3>1, <3>3 DEF Shape, PlacesExact
      <4>2. q[e] = q[d] - 1
        BY <1>3, <1>4, <3>1, <4>1 DEF Together
      <4>3. QED
        BY <4>1, <4>2
    <3>4. QED
      BY <1>3, <1>4, <2>2, <3>1, <3>2, <3>3
  <2>3. QED
    BY <2>1, <2>2 DEF PlacesExact
<1>8. BucketsExact(T, n, b2, q)
  <2>1. ASSUME NEW b \in 0..n - 1, b2[b] # Null
        PROVE  b2[b] \in T /\ HashIn(b2[b], n) = b /\ q[b2[b]] = 0
    <3>1. CASE b = h
      BY <1>2, <1>5, <3>1
    <3>2. CASE b # h
      <4>1. b2[b] = bk[b] /\ bk[b] \in S /\ HashIn(bk[b], n) = b /\ r[bk[b]] = 0
        BY <1>5, <2>1, <3>2 DEF Shape, BucketsExact
      <4>2. QED
        BY <1>3, <3>2, <4>1
    <3>3. QED
      BY <3>1, <3>2
  <2>2. ASSUME NEW d \in T, q[d] = 0 PROVE b2[HashIn(d, n)] = d
    <3>1. CASE d = c
      BY <1>1, <1>5, <3>1
    <3>2. CASE d \in S
      <4>1. HashIn(d, n) # h /\ r[d] = 0
        BY <1>3, <1>4, <2>2, <3>2
      <4>2. bk[HashIn(d, n)] = d
        BY <3>2, <4>1 DEF Shape, BucketsExact
      <4>3. QED
        BY <1>5, <1>6, <3>2, <4>1, <4>2
    <3>3. QED
      BY <3>1, <3>2
  <2>3. QED
    BY <2>1, <2>2 DEF BucketsExact
<1>9. LinksExact(T, n, n2, q)
  <2>1. n2[c] = bk[h] /\ \A d \in S : n2[d] = nx[d]
    BY <1>1, <1>4, <1>5
  <2>2. ASSUME NEW d \in T, n2[d] # Null
        PROVE  n2[d] \in T /\ Together(d, n2[d], n) /\ q[n2[d]] = q[d] + 1
    <3>1. CASE d = c
      <4>1. bk[h] \in S /\ HashIn(bk[h], n) = h /\ r[bk[h]] = 0
        BY <1>1, <2>1, <2>2, <3>1 DEF Shape, BucketsExact
      <4>2. q[bk[h]] = 1
        BY <1>3, <4>1
      <4>3. QED
        BY <1>2, <2>1, <3>1, <4>1, <4>2 DEF Together
    <3>2. CASE d \in S
      <4>1. nx[d] \in S /\ Together(d, nx[d], n) /\ r[nx[d]] = r[d] + 1
        BY <2>1, <2>2, <3>2 DEF Shape, LinksExact
      <4>2. q[nx[d]] = q[d] + 1
        BY <1>3, <1>4, <3>2, <4>1 DEF Together
      <4>3. QED
        BY <2>1, <3>2, <4>1, <4>2
    <3>3. QED
      BY <3>1, <3>2
  <2>3. ASSUME NEW d \in T, NEW e \in T, Together(d, e, n), q[e] = q[d] + 1
        PROVE  n2[d] = e
    <3>1. q[d] \in Nat /\ e \in S
      BY <1>2, <1>4, <2>3
    <3>2. CASE d = c
      <4>1. HashIn(e, n) = h /\ r[e] = 0
        BY <1>2, <1>3, <1>4, <2>3, <3>1, <3>2 DEF Together
      <4>2. QED
        BY <2>1, <3>1, <3>2, <4>1 DEF Shape, BucketsExact
    <3>3. CASE d \in S
      <4>1. r[e] = r[d] + 1
        BY <1>3, <1>4, <2>3, <3>1, <3>3 DEF Together
      <4>2. QED
        BY <2>1, <2>3, <3>1, <3>3, <4>1 DEF Shape, LinksExact
    <3>4. QED
      BY <3>2, <3>3
  <2>4. QED
    BY <2>2, <2>3 DEF LinksExact
<1>10. Shape(T, n, b2, n2, q)
  BY <1>2, <1>7, <1>8, <1>9 DEF Shape
<1>11. QED
  BY <1>10 DEF b2, n2

(* What is unlinked is the node: from its bucket, or from the node before. *)
LEMMA UnlinkIs ==
  ASSUME Limits, hash \in [Containers -> HashValues], NEW S \in SUBSET Containers, NEW r,
         Shape(S, size, bucket, next, r), NEW c \in S, Unlink(c)
  PROVE  \/ /\ r[c] = 0
            /\ bucket' = [bucket EXCEPT ![HashIn(c, size)] = next[c]] /\ next' = next
         \/ \E d \in S : /\ Together(c, d, size) /\ r[c] = r[d] + 1
                         /\ next' = [next EXCEPT ![d] = next[c]] /\ bucket' = bucket
<1>1. PICK b \in Indices : b = HashIn(c, size)
  BY FoundByShape DEF Indices
<1> DEFINE at == Walk(bucket[b])
           k == CHOOSE k \in Steps : at[k] = c /\ \A j \in 0..k - 1 : at[j] # c
<1>2. r[c] \in Steps /\ at[r[c]] = c
  BY <1>1, FoundByShape
<1>3. \A j \in Steps : /\ at[j] \in S => At(at[j], b, j, r)
                       /\ at[j] = c => j = r[c]
                       /\ \A d \in S : At(d, b, j, r) => at[j] = d
  <2>1. \A j \in Steps : /\ at[j] \in S => At(at[j], b, j, r)
                         /\ \A d \in S : At(d, b, j, r) => at[j] = d
    BY WalkMeets
  <2> HIDE DEF at
  <2>2. QED
    BY <2>1 DEF At
<1>4. Steps \subseteq Nat /\ \A i \in Steps : \A j \in 0..i - 1 : j \in Steps /\ j # i
  BY FS_CardinalityType DEF Limits, Steps
<1>5. k = r[c]
  <2> HIDE DEF at
  <2>1. \A j \in 0..r[c] - 1 : at[j] # c
    BY <1>2, <1>3, <1>4
  <2>2. QED
    BY <1>2, <1>3, <2>1
<1>6. IF k = 0 THEN bucket' = [bucket EXCEPT ![b] = next[c]] /\ next' = next
      ELSE next' = [next EXCEPT ![at[k - 1]] = next[c]] /\ bucket' = bucket
  BY <1>1 DEF Unlink
<1> HIDE DEF k
<1>7. CASE r[c] = 0
  BY <1>1, <1>5, <1>6, <1>7
<1>8. CASE r[c] # 0
  <2>1. r[c] \in Nat /\ r[c] - 1 \in Steps
    BY <1>2, <1>4, <1>8 DEF Steps
  <2>2. PICK d \in S : Together(c, d, size) /\ r[d] = r[c] - 1
    BY <1>8, <2>1 DEF Shape, PlacesExact
  <2>3. At(d, b, r[c] - 1, r)
    BY <1>1, <2>2 DEF At, Together
  <2>4. at[r[c] - 1] = d
    BY <1>3, <2>1, <2>3
  <2>5. r[c] = r[d] + 1
    BY <2>1, <2>2
  <2> HIDE DEF at
  <2>6. QED
    BY <1>5, <1>6, <1>8, <2>2, <2>4, <2>5
<1>9. QED
  BY <1>7, <1>8

(* Unlinking one node leaves a table of the same shape for the others.     *)
LEMMA UnlinkShape ==
  ASSUME Limits, hash \in [Containers -> HashValues], NEW S \in SUBSET Containers, NEW r,
         size \in Nat, bucket \in [0..size - 1 -> Containers \cup {Null}],
         next \in [Containers -> Containers \cup {Null}],
         Shape(S, size, bucket, next, r), NEW c \in S, Unlink(c)
  PROVE  \E q : Shape(S \ {c}, size, bucket', next', q)
<1> DEFINE h == HashIn(c, size)
           q == [d \in Containers |->
                   IF d \in S /\ HashIn(d, size) = h /\ r[d] > r[c] THEN r[d] - 1 ELSE r[d]]
           T == S \ {c}
<1>1. /\ h \in 0..size - 1 /\ c # Null /\ r \in [Containers -> Nat]
      /\ \A d \in S : d # Null /\ d \in Containers /\ r[d] \in Nat
  BY FoundByShape DEF Limits, Shape
<1>2. q \in [Containers -> Nat]
  BY <1>1
<1>3. \A d \in S : q[d] = IF HashIn(d, size) = h /\ r[d] > r[c] THEN r[d] - 1 ELSE r[d]
  BY <1>1
<1>4. \A d \in S : HashIn(d, size) \in 0..size - 1
  BY FoundByShape
<1>5. \A d, e \in S : Together(d, e, size) /\ r[d] = r[e] => d = e
  BY DEF Shape, PlacesExact
<1>a. \/ /\ r[c] = 0
         /\ bucket' = [bucket EXCEPT ![h] = next[c]] /\ next' = next
      \/ \E d \in S : /\ Together(c, d, size) /\ r[c] = r[d] + 1
                      /\ next' = [next EXCEPT ![d] = next[c]] /\ bucket' = bucket
  BY UnlinkIs
<1> HIDE DEF q
<1>6. PlacesExact(T, size, q)
  <2>1. ASSUME NEW d \in T, NEW e \in T, Together(d, e, size), q[d] = q[e] PROVE d = e
    <3>1. HashIn(d, size) = h => r[d] # r[c] /\ r[e] # r[c]
      BY <1>5, <2>1 DEF Together
    <3>2. r[d] = r[e]
      BY <1>1, <1>3, <2>1, <3>1 DEF Together
    <3>3. QED
      BY <1>5, <2>1, <3>2
  <2>2. ASSUME NEW d \in T, q[d] > 0
        PROVE  \E e \in T : Together(d, e, size) /\ q[e] = q[d] - 1
    <3>1. r[d] > 0
      BY <1>1, <1>3, <2>2
    <3>2. PICK e \in S : Together(d, e, size) /\ r[e] = r[d] - 1
      BY <3>1 DEF Shape, PlacesExact
    <3>3. CASE e # c
      <4>1. HashIn(d, size) = h => r[d] # r[c] /\ r[e] # r[c]
        BY <1>5, <3>2, <3>3 DEF Together
      <4>2. q[e] = q[d] - 1
        BY <1>1, <1>3, <3>1, <3>2, <4>1 DEF Together
      <4>3. QED
        BY <3>2, <3>3, <4>2
    <3>4. CASE e = c
      <4>1. HashIn(d, size) = h /\ r[d] = r[c] + 1 /\ q[d] = r[c]
        BY <1>1, <1>3, <3>2, <3>4 DEF Together
      <4>2. PICK f \in S : Together(c, f, size) /\ r[f] = r[c] - 1
        BY <2>2, <4>1 DEF Shape, PlacesExact
      <4>3. f # c /\ q[f] = r[c] - 1
        BY <1>1, <1>3, <4>1, <4>2, <2>2 DEF Together
      <4>4. QED
        BY <3>2, <3>4, <4>1, <4>2, <4>3 DEF Together
    <3>5. QED
      BY <3>3, <3>4
  <2>3. QED
    BY <2>1, <2>2 DEF PlacesExact
<1>7. (* what c is followed by takes its place *)
      next[c] # Null => /\ next[c] \in T /\ HashIn(next[c], size) = h
                        /\ r[next[c]] = r[c] + 1 /\ q[next[c]] = r[c]
  <2> SUFFICES ASSUME next[c] # Null
               PROVE  /\ next[c] \in T /\ HashIn(next[c], size) = h
                      /\ r[next[c]] = r[c] + 1 /\ q[next[c]] = r[c]
    OBVIOUS
  <2>1. next[c] \in S /\ HashIn(next[c], size) = h /\ r[next[c]] = r[c] + 1
    BY DEF Shape, LinksExact, Together
  <2>2. PICK e \in S : e = next[c]
    BY <2>1
  <2>3. HashIn(e, size) = h /\ r[e] = r[c] + 1 /\ r[c] \in Nat
    BY <1>1, <2>1, <2>2
  <2>4. q[e] = r[c] /\ e # c
    BY <1>3, <2>3
  <2>5. QED
    BY <2>2, <2>3, <2>4
<1>8. ASSUME NEW d \in T, HashIn(d, size) = h, q[d] = r[c] PROVE next[c] = d
  <2>1. r[d] # r[c]
    BY <1>5, <1>8 DEF Together
  <2>2. r[d] = r[c] + 1
    BY <1>1, <1>3, <1>8, <2>1
  <2>3. QED
    BY <1>8, <2>2 DEF Shape, LinksExact, Together
<1>9. BucketsExact(T, size, bucket', q)
  <2>1. CASE r[c] = 0 /\ bucket' = [bucket EXCEPT ![h] = next[c]]
    <3>1. \A b \in 0..size - 1 : bucket'[b] = IF b = h THEN next[c] ELSE bucket[b]
      BY <2>1
    <3>2. ASSUME NEW b \in 0..size - 1, bucket'[b] # Null
          PROVE  bucket'[b] \in T /\ HashIn(bucket'[b], size) = b /\ q[bucket'[b]] = 0
      <4>1. CASE b = h
        BY <1>7, <2>1, <3>1, <3>2, <4>1
      <4>2. CASE b # h
        <5>1. bucket[b] \in S /\ HashIn(bucket[b], size) = b /\ r[bucket[b]] = 0
          BY <3>1, <3>2, <4>2 DEF Shape, BucketsExact
        <5>2. QED
          BY <1>3, <3>1, <4>2, <5>1
      <4>3. QED
        BY <4>1, <4>2
    <3>3. ASSUME NEW d \in T, q[d] = 0 PROVE bucket'[HashIn(d, size)] = d
      <4>1. CASE HashIn(d, size) = h
        BY <1>1, <1>8, <2>1, <3>1, <3>3, <4>1
      <4>2. CASE HashIn(d, size) # h
        <5>1. r[d] = 0
          BY <1>3, <3>3, <4>2
        <5>2. bucket[HashIn(d, size)] = d
          BY <5>1 DEF Shape, BucketsExact
        <5>3. QED
          BY <1>4, <3>1, <4>2, <5>2
      <4>3. QED
        BY <4>1, <4>2
    <3>4. QED
      BY <3>2, <3>3 DEF BucketsExact
  <2>2. CASE r[c] > 0 /\ bucket' = bucket
    <3>1. ASSUME NEW b \in 0..size - 1, bucket[b] # Null
          PROVE  bucket[b] \in T /\ HashIn(bucket[b], size) = b /\ q[bucket[b]] = 0
      <4>1. bucket[b] \in S /\ HashIn(bucket[b], size) = b /\ r[bucket[b]] = 0
        BY <3>1 DEF Shape, BucketsExact
      <4>2. QED
        BY <1>1, <1>3, <2>2, <4>1
    <3>2. ASSUME NEW d \in T, q[d] = 0 PROVE bucket[HashIn(d, size)] = d
      <4>1. r[d] = 0
        BY <1>1, <1>3, <2>2, <3>2
      <4>2. QED
        BY <4>1 DEF Shape, BucketsExact
    <3>3. QED
      BY <2>2, <3>1, <3>2 DEF BucketsExact
  <2>3. QED
    BY <1>1, <1>a, <2>1, <2>2
<1>10. LinksExact(T, size, next', q)
  <2>1. CASE r[c] = 0 /\ next' = next
    <3>1. ASSUME NEW d \in T, next[d] # Null
          PROVE  next[d] \in T /\ Together(d, next[d], size) /\ q[next[d]] = q[d] + 1
      <4>1. next[d] \in S /\ Together(d, next[d], size) /\ r[next[d]] = r[d] + 1
        BY <3>1 DEF Shape, LinksExact
      <4>2. next[d] # c
        BY <1>1, <2>1, <4>1
      <4>3. HashIn(d, size) = h => r[d] # r[c]
        BY <1>5 DEF Together
      <4>4. ASSUME NEW e \in S, e = next[d] PROVE q[e] = q[d] + 1
        <5>1. HashIn(d, size) = HashIn(e, size) /\ r[e] = r[d] + 1
          BY <4>1, <4>4 DEF Together
        <5>2. r[d] \in Nat /\ r[c] \in Nat
          BY <1>1
        <5>3. QED
          BY <1>3, <2>1, <4>3, <5>1, <5>2
      <4>5. QED
        BY <4>1, <4>2, <4>4
    <3>2. ASSUME NEW d \in T, NEW e \in T, Together(d, e, size), q[e] = q[d] + 1
          PROVE  next[d] = e
      <4>1. HashIn(d, size) = h => r[d] # r[c] /\ r[e] # r[c]
        BY <1>5, <3>2 DEF Together
      <4>2. r[e] = r[d] + 1
        BY <1>1, <1>3, <2>1, <3>2, <4>1 DEF Together
      <4>3. QED
        BY <3>2, <4>2 DEF Shape, LinksExact
    <3>3. QED
      BY <2>1, <3>1, <3>2 DEF LinksExact
  <2>2. ASSUME NEW p \in S, Together(c, p, size), r[c] = r[p] + 1,
               next' = [next EXCEPT ![p] = next[c]]
        PROVE  LinksExact(T, size, next', q)
    <3>1. p # c /\ HashIn(p, size) = h /\ q[p] = r[p]
      BY <1>1, <1>3, <2>2 DEF Together
    <3>2. next'[p] = next[c] /\ \A d \in T \ {p} : next'[d] = next[d]
      BY <1>1, <2>2
    <3>3. ASSUME NEW d \in T, next'[d] # Null
          PROVE  next'[d] \in T /\ Together(d, next'[d], size) /\ q[next'[d]] = q[d] + 1
      <4>1. CASE d = p
        BY <1>7, <2>2, <3>1, <3>2, <3>3, <4>1 DEF Together
      <4>2. CASE d # p
        <5>1. next[d] \in S /\ Together(d, next[d], size) /\ r[next[d]] = r[d] + 1
          BY <3>2, <3>3, <4>2 DEF Shape, LinksExact
        <5>2. HashIn(d, size) = h => r[d] # r[c] /\ r[d] # r[p]
          BY <1>5, <3>1, <4>2 DEF Together
        <5>3. next[d] # c
          BY <1>1, <2>2, <5>1, <5>2 DEF Together
        <5>4. ASSUME NEW e \in S, e = next[d] PROVE q[e] = q[d] + 1
          <6>1. HashIn(d, size) = HashIn(e, size) /\ r[e] = r[d] + 1
            BY <5>1, <5>4 DEF Together
          <6>2. r[d] \in Nat /\ r[c] \in Nat /\ r[p] \in Nat
            BY <1>1
          <6>3. QED
            BY <1>3, <2>2, <5>2, <6>1, <6>2
        <5>5. QED
          BY <3>2, <4>2, <5>1, <5>3, <5>4
      <4>3. QED
        BY <4>1, <4>2
    <3>4. ASSUME NEW d \in T, NEW e \in T, Together(d, e, size), q[e] = q[d] + 1
          PROVE  next'[d] = e
      <4>1. CASE d = p
        BY <1>8, <2>2, <3>1, <3>2, <3>4, <4>1 DEF Together
      <4>2. CASE d # p
        <5>1. HashIn(d, size) = h => r[d] # r[c] /\ r[d] # r[p] /\ r[e] # r[c]
          BY <1>5, <3>1, <3>4, <4>2 DEF Together
        <5>2. r[e] = r[d] + 1
          BY <1>1, <1>3, <2>2, <3>4, <5>1 DEF Together
        <5>3. QED
          BY <3>2, <3>4, <4>2, <5>2 DEF Shape, LinksExact
      <4>3. QED
        BY <4>1, <4>2
    <3>5. QED
      BY <3>3, <3>4 DEF LinksExact
  <2>3. QED
    BY <1>a, <2>1, <2>2
<1>11. Shape(T, size, bucket', next', q)
  BY <1>1, <1>2, <1>6, <1>9, <1>10 DEF Shape
<1>12. QED
  BY <1>11

-----------------------------------------------------------------------------
(***************************************************************************)
(* A bucket is cut off, with every node of its chain.                      *)
(***************************************************************************)
InBucket(S, n, h) == {d \in S : HashIn(d, n) = h}

LEMMA DropShape ==
  ASSUME NEW S \in SUBSET Containers, NEW r, NEW n \in Nat, n > 0,
         NEW bk \in [0..n - 1 -> Containers \cup {Null}], NEW nx,
         Shape(S, n, bk, nx, r), NEW h, Null \notin Containers
  PROVE  Shape(S \ InBucket(S, n, h), n, [bk EXCEPT ![h] = Null], nx, r)
<1> DEFINE T == S \ InBucket(S, n, h)
           b2 == [bk EXCEPT ![h] = Null]
<1>1. \A d \in S : d \in T <=> HashIn(d, n) # h
  BY DEF InBucket
<1>2. \A c, d \in S : Together(c, d, n) => (c \in T <=> d \in T)
  BY <1>1 DEF Together
<1>3. T \subseteq S
  OBVIOUS
<1>4. \A b \in 0..n - 1 : b2[b] = IF b = h THEN Null ELSE bk[b]
  OBVIOUS
<1>5. PlacesExact(T, n, r)
  <2> HIDE DEF T
  <2>1. QED
    BY <1>2, <1>3 DEF Shape, PlacesExact
<1>6. BucketsExact(T, n, b2, r)
  <2>1. \A c \in T : HashIn(c, n) # h /\ c \in S
    BY <1>1
  <2> HIDE DEF T
  <2>2. ASSUME NEW b \in 0..n - 1, b2[b] # Null
        PROVE  b2[b] \in T /\ HashIn(b2[b], n) = b /\ r[b2[b]] = 0
    BY <1>1, <1>4, <2>2 DEF Shape, BucketsExact
  <2>3. ASSUME NEW c \in T, r[c] = 0 PROVE b2[HashIn(c, n)] = c
    <3>1. bk[HashIn(c, n)] = c /\ HashIn(c, n) # h
      BY <2>1, <2>3 DEF Shape, BucketsExact
    <3>2. QED
      BY <3>1
  <2>4. QED
    BY <2>2, <2>3 DEF BucketsExact
<1>7. LinksExact(T, n, nx, r)
  <2> HIDE DEF T
  <2>1. QED
    BY <1>2, <1>3 DEF Shape, LinksExact
<1>8. QED
  BY <1>3, <1>5, <1>6, <1>7 DEF Shape

-----------------------------------------------------------------------------
(***************************************************************************)
(* The inductive invariant.                                                *)
(***************************************************************************)
(* The containers that threads make do not exist yet, and have no iterator;*)
(* each is made by one thread.                                             *)
MakersExact ==
  /\ \A m \in Makers : pc[m] # "idle" => made[m] \in Containers \ live /\ iters[made[m]] = {}
  /\ \A m, n \in Makers : pc[m] # "idle" /\ pc[n] # "idle" /\ made[m] = made[n] => m = n

(* Every node that was not cut off is in its place.                        *)
TableExact == \E r : Shape(Kept, size, bucket, next, r)

IInv == TypeOK /\ RegistrationExact /\ MakersExact /\ TableExact

LEMMA NodesAre ==
  ASSUME Limits, IInv
  PROVE  /\ Nodes \in SUBSET Containers /\ live \subseteq Nodes
         /\ Kept \in SUBSET Containers /\ Kept = Nodes \ lost
         /\ IsFiniteSet(Kept) /\ Cardinality(Kept) \in Nat
         /\ csz \in Nat /\ size \in Nat /\ csz <= size /\ losses \in Nat
<1>1. Nodes \in SUBSET Containers /\ live \subseteq Nodes
  BY DEF IInv, TypeOK, MakersExact, Nodes
<1>2. Kept \in SUBSET Containers /\ Kept = Nodes \ lost
  BY <1>1 DEF Kept
<1>3. IsFiniteSet(Kept) /\ Cardinality(Kept) \in Nat
  BY <1>2, FS_Subset, FS_CardinalityType DEF Limits
<1>4. QED
  BY <1>1, <1>2, <1>3 DEF IInv, TypeOK

(* What is found is a node that was not cut off, and the other way round.  *)
LEMMA FoundExactly ==
  ASSUME Limits, IInv, NEW c \in Containers
  PROVE  Found(c) <=> c \in Kept
<1>1. PICK r : Shape(Kept, size, bucket, next, r)
  BY DEF IInv, TableExact
<1>2. Kept \in SUBSET Containers /\ hash \in [Containers -> HashValues] /\ size \in Nat
  BY NodesAre DEF IInv, TypeOK
<1>3. c \in Kept => Found(c)
  BY <1>1, <1>2, FoundByShape
<1>4. ASSUME Found(c) PROVE c \in Kept
  <2>1. PICK b \in Indices, k \in Steps : Walk(bucket[b])[k] = c
    BY <1>2, <1>4, HashInRange DEF Found, Meets, Indices
  <2>2. Walk(bucket[b])[k] \in Kept \cup {Null}
    BY <1>1, <1>2, WalkMeets
  <2>3. QED
    BY <2>1, <2>2 DEF Limits
<1>5. QED
  BY <1>3, <1>4

(* An iterator, too, is on a list of a container that it can find.         *)
LEMMA InvariantSuffices ==
  ASSUME Limits, IInv
  PROVE  Inv /\ RegistrationExact /\ InternalChecksHold
<1>1. Kept \in SUBSET Containers /\ live \ lost \subseteq Kept /\ live \subseteq Containers
  BY NodesAre DEF IInv, TypeOK
<1>2. PICK r : Shape(Kept, size, bucket, next, r)
  BY DEF IInv, TableExact
<1>3. ChainsSound
  BY <1>1, <1>2, SoundByShape
<1>4. \A c \in live \ lost : Found(c)
  BY <1>1, FoundExactly
<1>5. \A i \in Iterators : itsC[i] \in Containers => i \in iters[itsC[i]]
  BY DEF IInv, RegistrationExact
<1>6. QED
  BY <1>3, <1>4, <1>5 DEF IInv, Inv, InternalChecksHold

(* The table after a growth, if it has to grow.                            *)
LEMMA GrownShape ==
  ASSUME Limits, IInv
  PROVE  /\ Grown.size \in Nat /\ Grown.size > 0 /\ csz + 1 <= Grown.size
         /\ Grown.bucket \in [0..Grown.size - 1 -> Containers \cup {Null}]
         /\ Grown.next \in [Containers -> Containers \cup {Null}]
         /\ \E r : Shape(Kept, Grown.size, Grown.bucket, Grown.next, r)
<1>1. PICK r : Shape(Kept, size, bucket, next, r)
  BY DEF IInv, TableExact
<1>2. Kept \in SUBSET Containers /\ csz \in Nat /\ size \in Nat /\ csz <= size
  BY NodesAre
<1>3. CASE ~ GrowthNeeded
  <2>1. Grown = [size |-> size, bucket |-> bucket, next |-> next]
    BY <1>3 DEF Grown
  <2>2. QED
    BY <1>1, <1>2, <1>3, <2>1 DEF IInv, TypeOK, GrowthNeeded
<1>4. CASE GrowthNeeded
  <2> DEFINE n == NextPrime(2 * size + 1)
             R == Rehash(n)
             q == NewPlaces(Kept, n, r)
  <2>1. Grown = [size |-> n, bucket |-> R.bucket, next |-> R.next]
    BY <1>4 DEF Grown
  <2>2. n \in Nat /\ n >= 2 * size + 1
    BY <1>2, NextPrimeInRange, 2 * size + 1 \in Nat
  <2>3. n > 0 /\ csz + 1 <= n
    BY <1>2, <2>2
  <2>4. hash \in [Containers -> HashValues]
    BY DEF IInv, TypeOK
  <2> HIDE DEF n
  <2>5. Shape(Kept, n, R.bucket, R.next, q)
    BY <1>1, <1>2, <2>2, <2>3, <2>4, RehashShape
  <2>6. R.bucket \in [0..n - 1 -> Containers \cup {Null}]
    <3>1. R.bucket = [h \in 0..n - 1 |-> R.bucket[h]]
      BY DEF Rehash
    <3>2. \A h \in 0..n - 1 : R.bucket[h] \in Containers \cup {Null}
      BY <1>2, <2>5 DEF Shape, BucketsExact
    <3> HIDE DEF R
    <3>3. QED
      BY <3>1, <3>2
  <2>7. R.next \in [Containers -> Containers \cup {Null}]
    <3>1. R.next = [c \in Containers |-> R.next[c]]
      BY DEF Rehash
    <3>2. ASSUME NEW c \in Containers \ Kept PROVE R.next[c] = next[c]
      <4>1. {v \in {u \in Visits : HashIn(Visited(u), n) = HashIn(c, n)} : Visited(v) = c} = {}
        BY <1>1, <1>2, <2>4, VisitsAre
      <4>2. QED
        BY <4>1 DEF Rehash
    <3>3. \A c \in Kept : R.next[c] \in Containers \cup {Null}
      BY <1>2, <2>5 DEF Shape, LinksExact
    <3>4. next \in [Containers -> Containers \cup {Null}]
      BY DEF IInv, TypeOK
    <3> HIDE DEF R
    <3>5. \A c \in Containers : R.next[c] \in Containers \cup {Null}
      BY <3>2, <3>3, <3>4
    <3>6. QED
      BY <3>1, <3>5
  <2> HIDE DEF R, q
  <2>8. QED
    BY <2>1, <2>2, <2>3, <2>5, <2>6, <2>7
<1>5. QED
  BY <1>3, <1>4

LEMMA Initially ==
  ASSUME Limits, Init
  PROVE  IInv
<1>1. Nodes = {} /\ live = {} /\ Kept = {}
  BY DEF Init, Nodes, Kept
<1>2. TypeOK
  <2>1. bucket \in [0..size - 1 -> Containers \cup {Null}]
    BY DEF Init
  <2>2. csz = Cardinality(Kept) + losses /\ csz <= size
    BY <1>1, FS_EmptySet DEF Init
  <2>3. QED
    BY <2>1, <2>2 DEF Init, TypeOK
<1>3. Shape(Kept, size, bucket, next, [c \in Containers |-> 0])
  BY <1>1 DEF Init, Shape, PlacesExact, BucketsExact, LinksExact
<1>4. RegistrationExact /\ MakersExact
  BY DEF Init, RegistrationExact, MakersExact, Limits
<1>5. QED
  BY <1>2, <1>3, <1>4 DEF IInv, TableExact

(* hash does not change, so that a shape for it is one for hash', too.     *)
LEMMA SameHash ==
  ASSUME UNCHANGED hash, NEW S, NEW n, NEW bk, NEW nx, NEW q, S = Kept', n = size',
         bk = bucket', nx = next', Shape(S, n, bk, nx, q)
  PROVE  TableExact'
<1>1. Shape(Kept, size, bucket, next, q)'
  BY DEF Shape, PlacesExact, BucketsExact, LinksExact, Together, HashIn
<1>2. QED
  BY <1>1 DEF TableExact

(* The owner of an iterator is its container, as long as that exists.      *)
LEMMA OwnersAre ==
  ASSUME Limits, IInv, IInv'
  PROVE  /\ Owners = [i \in Iterators |->
                        IF itsC[i] \in live \cup {Unregistered} THEN itsC[i] ELSE Null]
         /\ Owners' = [i \in Iterators |->
                         IF itsC'[i] \in live' \cup {Unregistered} THEN itsC'[i] ELSE Null]
<1>1. \A L, D, o : D \subseteq Containers /\ o \in L \cup D \cup {Null, Unregistered} =>
        (IF o \in D \ L THEN Null ELSE o) = IF o \in L \cup {Unregistered} THEN o ELSE Null
  BY DEF Limits
<1>2. lost \subseteq Containers /\ \A i \in Iterators : itsC[i] \in live \cup lost \cup {Null, Unregistered}
  BY DEF IInv, TypeOK, RegistrationExact
<1>3. lost' \subseteq Containers /\ \A i \in Iterators : itsC'[i] \in live' \cup lost' \cup {Null, Unregistered}
  BY DEF IInv, TypeOK, RegistrationExact
<1>4. QED
  BY <1>1, <1>2, <1>3 DEF Owners

(* Owners do not change when iterators, and the containers that have some, *)
(* do not.                                                                 *)
LEMMA SameOwners ==
  ASSUME Limits, IInv, IInv', UNCHANGED itsC,
         \A i \in Iterators : itsC[i] \in live' <=> itsC[i] \in live
  PROVE  UNCHANGED Owners
BY OwnersAre

LEMMA InsertCKeeps ==
  ASSUME Limits, IInv, NEW m \in Makers, NEW c \in Containers, InsertC(m, c)
  PROVE  IInv'
<1> DEFINE g == Grown
           h == HashIn(c, g.size)
<1>1. /\ pc[m] = "idle" /\ c \notin Nodes /\ iters[c] = {}
      /\ size' = g.size /\ bucket' = [g.bucket EXCEPT ![h] = c]
      /\ next' = [g.next EXCEPT ![c] = g.bucket[h]]
      /\ csz' = csz + 1 /\ lost' = lost \ {c}
      /\ pc' = [pc EXCEPT ![m] = "allocated"] /\ made' = [made EXCEPT ![m] = c]
      /\ UNCHANGED <<hash, iters, itsC, live, link, losses>>
  BY DEF InsertC
<1>2. PICK r : Shape(Kept, g.size, g.bucket, g.next, r)
  BY GrownShape
<1>3. /\ g.size \in Nat /\ g.size > 0 /\ csz + 1 <= g.size
      /\ g.bucket \in [0..g.size - 1 -> Containers \cup {Null}]
      /\ g.next \in [Containers -> Containers \cup {Null}]
  BY GrownShape
<1>4. /\ Nodes \in SUBSET Containers /\ live \subseteq Nodes /\ Kept \in SUBSET Containers
      /\ IsFiniteSet(Kept) /\ Cardinality(Kept) \in Nat /\ Kept = Nodes \ lost /\ losses \in Nat
  BY NodesAre
<1>5. \A n \in Makers : /\ pc'[n] = IF n = m THEN "allocated" ELSE pc[n]
                        /\ made'[n] = IF n = m THEN c ELSE made[n]
  BY <1>1 DEF IInv, TypeOK
<1>6. Nodes' = Nodes \cup {c}
  BY <1>1, <1>5 DEF Nodes
<1>7. Kept' = Kept \cup {c} /\ c \notin Kept
  BY <1>1, <1>4, <1>6 DEF Kept
<1>8. hash \in [Containers -> HashValues] /\ c \in Containers \ Kept
  BY <1>7 DEF IInv, TypeOK
<1> HIDE DEF g
<1>9. h \in 0..g.size - 1
  BY <1>3, HashInRange, <1>8
<1>10. TypeOK'
  <2>1. csz' = Cardinality(Kept') + losses' /\ csz' <= size'
    <3>1. Cardinality(Kept \cup {c}) = Cardinality(Kept) + 1
      BY <1>4, <1>7, FS_AddElement
    <3>2. csz = Cardinality(Kept) + losses
      BY DEF IInv, TypeOK
    <3>3. QED
      BY <1>1, <1>3, <1>4, <1>7, <3>1, <3>2
  <2>2. bucket' \in [0..size' - 1 -> Containers \cup {Null}]
    BY <1>1, <1>3
  <2>3. next' \in [Containers -> Containers \cup {Null}]
    BY <1>1, <1>3, <1>9
  <2>4. size' \in Nat
    BY <1>1, <1>3
  <2>5. pc' \in [Makers -> {"idle", "allocated", "read"}] /\ made' \in [Makers -> Containers \cup {Null}]
    BY <1>1 DEF IInv, TypeOK
  <2>6. QED
    BY <1>1, <2>1, <2>2, <2>3, <2>4, <2>5 DEF IInv, TypeOK
<1>11. TableExact'
  <2>1. \E q : Shape(Kept \cup {c}, g.size, [g.bucket EXCEPT ![h] = c],
                     [g.next EXCEPT ![c] = g.bucket[h]], q)
    BY <1>2, <1>3, <1>4, <1>8, PushShape
  <2>2. PICK q : Shape(Kept', size', bucket', next', q)
    BY <1>1, <1>7, <2>1
  <2>3. QED
    BY <1>1, <2>2, SameHash
<1>12. RegistrationExact'
  <2>1. \A i \in Iterators : itsC[i] # c
    BY <1>1 DEF IInv, RegistrationExact
  <2>2. QED
    BY <1>1, <2>1 DEF IInv, RegistrationExact
<1>13. MakersExact'
  <2>1. \A n \in Makers : pc[n] # "idle" => made[n] # c
    BY <1>1 DEF Nodes
  <2>2. c \notin live
    BY <1>1, <1>4
  <2>3. QED
    BY <1>1, <1>5, <2>1, <2>2 DEF IInv, MakersExact
<1>14. QED
  BY <1>10, <1>11, <1>12, <1>13 DEF IInv

(* The failure cuts off the chain of the bucket, and nothing else.         *)
LEMMA FailToInsertCKeeps ==
  ASSUME Limits, IInv, NEW m \in Makers, NEW c \in Containers, FailToInsertC(m, c)
  PROVE  IInv'
<1> DEFINE g == Grown
           h == HashIn(c, g.size)
           dropped == InBucket(Kept, g.size, h)
<1>1. /\ size' = g.size /\ bucket' = [g.bucket EXCEPT ![h] = Null] /\ next' = g.next
      /\ lost' = lost \cup dropped /\ losses' = losses + Cardinality(dropped)
      /\ UNCHANGED <<hash, csz, iters, itsC, live, pc, made, link>>
  BY DEF FailToInsertC, InBucket
<1>2. PICK r : Shape(Kept, g.size, g.bucket, g.next, r)
  BY GrownShape
<1>3. /\ g.size \in Nat /\ g.size > 0 /\ csz <= g.size
      /\ g.bucket \in [0..g.size - 1 -> Containers \cup {Null}]
      /\ g.next \in [Containers -> Containers \cup {Null}]
  BY GrownShape, NodesAre
<1>4. /\ Kept \in SUBSET Containers /\ IsFiniteSet(Kept) /\ Cardinality(Kept) \in Nat
      /\ Kept = Nodes \ lost /\ losses \in Nat
  BY NodesAre
<1>5. Nodes' = Nodes
  BY <1>1 DEF Nodes
<1>6. Kept' = Kept \ dropped
  BY <1>1, <1>4, <1>5 DEF Kept
<1> HIDE DEF g
<1>7. /\ Cardinality(Kept \ dropped) = Cardinality(Kept) - Cardinality(dropped)
      /\ Cardinality(dropped) \in Nat
  <2>1. IsFiniteSet(dropped) /\ Kept \cap dropped = dropped
    BY <1>4, FS_Subset DEF InBucket
  <2> HIDE DEF dropped
  <2>2. Cardinality(Kept \ dropped) = Cardinality(Kept) - Cardinality(Kept \cap dropped)
    BY <1>4, FS_Difference
  <2>3. Cardinality(dropped) \in Nat
    BY <2>1, FS_CardinalityType
  <2>4. QED
    BY <2>1, <2>2, <2>3
<1>8. TypeOK'
  <2>1. csz' = Cardinality(Kept') + losses' /\ csz' <= size'
    <3>1. csz = Cardinality(Kept) + losses
      BY DEF IInv, TypeOK
    <3> HIDE DEF dropped
    <3>2. QED
      BY <1>1, <1>3, <1>4, <1>6, <1>7, <3>1
  <2>2. bucket' \in [0..size' - 1 -> Containers \cup {Null}] /\ size' \in Nat
    BY <1>1, <1>3
  <2>3. lost' \subseteq Containers /\ losses' \in Nat
    <3>1. dropped \subseteq Containers /\ lost \subseteq Containers
      BY <1>4 DEF IInv, TypeOK, InBucket
    <3> HIDE DEF dropped
    <3>2. QED
      BY <1>1, <1>4, <1>7, <3>1
  <2>4. next' \in [Containers -> Containers \cup {Null}]
    BY <1>1, <1>3
  <2> HIDE DEF dropped
  <2>5. QED
    BY <1>1, <2>1, <2>2, <2>3, <2>4 DEF IInv, TypeOK
<1>9. TableExact'
  <2>1. Null \notin Containers
    BY DEF Limits
  <2>2. Shape(Kept \ dropped, g.size, [g.bucket EXCEPT ![h] = Null], g.next, r)
    BY <1>2, <1>3, <1>4, <2>1, DropShape
  <2>3. Shape(Kept', size', bucket', next', r)
    BY <1>1, <1>6, <2>2
  <2>4. QED
    BY <1>1, <2>3, SameHash
<1>10. RegistrationExact'
  <2>1. lost \subseteq lost'
    BY <1>1
  <2>2. QED
    BY <1>1, <2>1 DEF IInv, RegistrationExact
<1>11. MakersExact'
  BY <1>1 DEF IInv, MakersExact
<1>12. QED
  BY <1>8, <1>9, <1>10, <1>11 DEF IInv

LEMMA ReadNodeKeeps ==
  ASSUME Limits, IInv, NEW m \in Makers, ReadNode(m)
  PROVE  IInv'
<1>1. /\ pc[m] = "allocated" /\ pc' = [pc EXCEPT ![m] = "read"]
      /\ link' = [link EXCEPT ![m] = next[made[m]]]
      /\ UNCHANGED <<hash, size, bucket, next, csz, iters, itsC, live, made, lost, losses>>
  BY DEF ReadNode, table, history
<1>2. made[m] \in Containers
  BY <1>1 DEF IInv, MakersExact
<1>3. \A n \in Makers : pc'[n] = IF n = m THEN "read" ELSE pc[n]
  BY <1>1 DEF IInv, TypeOK
<1>4. Nodes' = Nodes /\ Kept' = Kept
  <2>1. Nodes' = Nodes
    BY <1>1, <1>3 DEF Nodes
  <2>2. QED
    BY <1>1, <2>1 DEF Kept
<1>5. TypeOK'
  <2>1. next[made[m]] \in Containers \cup {Null}
    BY <1>2 DEF IInv, TypeOK
  <2>2. QED
    BY <1>1, <1>4, <2>1 DEF IInv, TypeOK
<1>6. TableExact'
  BY <1>1, <1>4, SameHash DEF IInv, TableExact
<1>7. RegistrationExact' /\ MakersExact'
  BY <1>1, <1>3 DEF IInv, RegistrationExact, MakersExact
<1>8. QED
  BY <1>5, <1>6, <1>7 DEF IInv

(* The node is constructed with what it held already, its link included    *)
(* unless that is stale.                                                   *)
LEMMA ConstructNodeKeeps ==
  ASSUME Limits, IInv, NEW m \in Makers, ConstructNode(m), link[m] = next[made[m]]
  PROVE  /\ IInv' /\ UNCHANGED Owners
         /\ made[m] \in Containers \ live
<1>1. /\ pc[m] = "read" /\ pc' = [pc EXCEPT ![m] = "idle"]
      /\ next' = [next EXCEPT ![made[m]] = link[m]]
      /\ iters' = [iters EXCEPT ![made[m]] = {}]
      /\ live' = live \cup {made[m]}
      /\ made' = [made EXCEPT ![m] = Null] /\ link' = [link EXCEPT ![m] = Null]
      /\ UNCHANGED <<hash, size, bucket, csz, itsC, lost, losses>>
  BY DEF ConstructNode, history
<1>2. made[m] \in Containers \ live /\ iters[made[m]] = {}
  BY <1>1 DEF IInv, MakersExact
<1>3. iters' = iters /\ next' = next
  BY <1>1, <1>2 DEF IInv, TypeOK
<1>4. \A n \in Makers : /\ pc'[n] = IF n = m THEN "idle" ELSE pc[n]
                        /\ n # m => made'[n] = made[n]
  BY <1>1 DEF IInv, TypeOK
<1>5. Nodes' = Nodes
  <2>1. Nodes' \subseteq Nodes
    BY <1>1, <1>4 DEF Nodes
  <2>2. Nodes \subseteq Nodes'
    BY <1>1, <1>4 DEF Nodes
  <2>3. QED
    BY <2>1, <2>2
<1>6. Kept' = Kept
  BY <1>1, <1>5 DEF Kept
<1>7. TypeOK'
  BY <1>1, <1>2, <1>3, <1>6 DEF IInv, TypeOK
<1>8. TableExact'
  BY <1>1, <1>3, <1>6, SameHash DEF IInv, TableExact
<1>9. RegistrationExact'
  BY <1>1, <1>3 DEF IInv, RegistrationExact
<1>10. MakersExact'
  BY <1>1, <1>3, <1>4 DEF IInv, MakersExact
<1>11. IInv'
  BY <1>7, <1>8, <1>9, <1>10 DEF IInv
<1>12. \A i \in Iterators : itsC[i] # made[m]
  BY <1>2 DEF IInv, RegistrationExact
<1>13. QED
  BY <1>1, <1>2, <1>11, <1>12, SameOwners

(* A container that is destroyed is found, so that its iterators lose it   *)
(* and its node is unlinked, or its node was cut off.                      *)
LEMMA EraseCKeeps ==
  ASSUME Limits, IInv, NEW m \in Makers, NEW c \in Containers, EraseC(m, c)
  PROVE  IInv' /\ RG!Destroy(c)
<1>1. /\ c \in live /\ live' = live \ {c}
      /\ UNCHANGED <<hash, size, pc, made, link, lost, losses>>
  BY DEF EraseC, making, history
<1>2. PICK r : Shape(Kept, size, bucket, next, r)
  BY DEF IInv, TableExact
<1>3. /\ Kept \in SUBSET Containers /\ IsFiniteSet(Kept) /\ Cardinality(Kept) \in Nat
      /\ Kept = Nodes \ lost /\ live \subseteq Nodes /\ losses \in Nat
  BY NodesAre
<1>4. Nodes' = Nodes \ {c}
  <2>1. \A n \in Makers : pc[n] # "idle" => made[n] # c
    BY <1>1 DEF IInv, MakersExact
  <2>2. QED
    BY <1>1, <2>1 DEF Nodes
<1>5. Kept' = Kept \ {c}
  BY <1>1, <1>3, <1>4 DEF Kept
<1>6. /\ size \in Nat /\ bucket \in [0..size - 1 -> Containers \cup {Null}]
      /\ next \in [Containers -> Containers \cup {Null}]
      /\ hash \in [Containers -> HashValues] /\ csz = Cardinality(Kept) + losses /\ csz <= size
  BY DEF IInv, TypeOK
<1>7. ASSUME c \in Kept PROVE IInv' /\ \A i \in Iterators : itsC'[i] = IF itsC[i] = c THEN Null ELSE itsC[i]
  <2>1. /\ Unlink(c) /\ itsC' = Orphaned(iters[c])
        /\ iters' = [iters EXCEPT ![c] = {}] /\ csz' = csz - 1
    BY <1>7, FoundExactly DEF EraseC
  <2>2. PICK q : Shape(Kept \ {c}, size, bucket', next', q)
    BY <1>2, <1>3, <1>6, <1>7, <2>1, UnlinkShape
  <2>3. TableExact'
    BY <1>1, <1>5, <2>2, SameHash
  <2>4. csz' = Cardinality(Kept') + losses' /\ csz' <= size'
    <3>1. Cardinality(Kept \ {c}) = Cardinality(Kept) - 1
      BY <1>3, <1>7, FS_RemoveElement
    <3>2. QED
      BY <1>1, <1>3, <1>5, <1>6, <2>1, <3>1
  <2>5. /\ bucket' \in [0..size - 1 -> Containers \cup {Null}]
        /\ next' \in [Containers -> Containers \cup {Null}]
    <3>1. next[c] \in Containers \cup {Null}
      BY <1>6
    <3>2. \/ /\ r[c] = 0
             /\ bucket' = [bucket EXCEPT ![HashIn(c, size)] = next[c]] /\ next' = next
          \/ \E d \in Kept : /\ Together(c, d, size) /\ r[c] = r[d] + 1
                             /\ next' = [next EXCEPT ![d] = next[c]] /\ bucket' = bucket
      BY <1>2, <1>3, <1>6, <1>7, <2>1, UnlinkIs
    <3>3. QED
      BY <1>3, <1>6, <3>1, <3>2
  <2>6. itsC' \in [Iterators -> Containers \cup {Null, Unregistered}]
    BY <2>1 DEF IInv, TypeOK, Orphaned
  <2>7. TypeOK'
    BY <1>1, <2>1, <2>4, <2>5, <2>6 DEF IInv, TypeOK
  <2>8. \A i \in Iterators : itsC'[i] = IF itsC[i] = c THEN Null ELSE itsC[i]
    BY <2>1 DEF IInv, TypeOK, RegistrationExact, Orphaned
  <2>9. RegistrationExact'
    BY <1>1, <2>1, <2>8 DEF IInv, TypeOK, RegistrationExact, Limits
  <2>10. MakersExact'
    BY <1>1, <2>1 DEF IInv, TypeOK, MakersExact
  <2>11. IInv'
    BY <2>3, <2>7, <2>9, <2>10 DEF IInv
  <2>12. QED
    BY <2>8, <2>11
<1>8. ASSUME c \notin Kept PROVE IInv' /\ UNCHANGED itsC
  <2>1. UNCHANGED <<bucket, next, itsC, iters, csz>> /\ c \in lost
    BY <1>1, <1>3, <1>8, FoundExactly DEF EraseC
  <2>2. Kept' = Kept
    BY <1>5, <1>8
  <2>3. TypeOK'
    BY <1>1, <2>1, <2>2 DEF IInv, TypeOK
  <2>4. TableExact'
    BY <1>1, <2>1, <2>2, SameHash DEF IInv, TableExact
  <2>5. RegistrationExact'
    BY <1>1, <2>1 DEF IInv, RegistrationExact
  <2>6. MakersExact'
    BY <1>1, <2>1 DEF IInv, MakersExact
  <2>7. QED
    BY <2>1, <2>3, <2>4, <2>5, <2>6 DEF IInv
<1>9. IInv'
  BY <1>7, <1>8
<1>10. \A i \in Iterators : IF itsC[i] = c THEN itsC'[i] \in {c, Null} ELSE itsC'[i] = itsC[i]
  BY <1>7, <1>8
<1>11. RG!Destroy(c)
  <2>1. Owners = [i \in Iterators |->
                    IF itsC[i] \in live \cup {Unregistered} THEN itsC[i] ELSE Null]
    BY <1>9, OwnersAre
  <2>2. Owners' = [i \in Iterators |->
                     IF itsC'[i] \in live' \cup {Unregistered} THEN itsC'[i] ELSE Null]
    BY <1>9, OwnersAre
  <2>3. c # Unregistered /\ c # Null /\ Null \notin live /\ Unregistered # Null
    BY DEF Limits, IInv, TypeOK
  <2>4. \A i \in Iterators : (IF itsC'[i] \in live' \cup {Unregistered} THEN itsC'[i] ELSE Null)
                             = IF Owners[i] = c THEN Null ELSE Owners[i]
    BY <1>1, <1>10, <2>1, <2>3
  <2>5. Owners' = [i \in Iterators |-> IF Owners[i] = c THEN Null ELSE Owners[i]]
    BY <2>2, <2>4
  <2>6. QED
    BY <1>1, <2>5 DEF RG!Destroy
<1>12. QED
  BY <1>9, <1>11

(***************************************************************************)
(* The operations on iterators leave the table of containers alone, and do *)
(* to the owners of iterators what the abstract registry does.             *)
(***************************************************************************)
Owner == Containers \cup {Null, Unregistered}

(* What the operations need of the invariant.                              *)
LEMMA ListsExact ==
  ASSUME Limits, IInv
  PROVE  /\ itsC \in [Iterators -> Owner] /\ iters \in [Containers -> SUBSET Iterators]
         /\ live \subseteq Containers /\ lost \subseteq Containers
         /\ Null \notin Containers /\ Unregistered \notin Containers /\ Null # Unregistered
         /\ \A i \in Iterators : itsC[i] \in live \cup lost \cup {Null, Unregistered}
         /\ \A i \in Iterators, c \in Containers : i \in iters[c] <=> itsC[i] = c
         /\ \A c \in Containers : iters[c] \subseteq Iterators
<1>1. /\ itsC \in [Iterators -> Owner] /\ iters \in [Containers -> SUBSET Iterators]
      /\ live \subseteq Containers /\ lost \subseteq Containers
  BY DEF IInv, TypeOK, Owner
<1>2. \A i \in Iterators, c \in Containers : i \in iters[c] <=> itsC[i] = c
  BY DEF IInv, RegistrationExact
<1>3. \A i \in Iterators : itsC[i] \in live \cup lost \cup {Null, Unregistered}
  BY <1>1 DEF IInv, RegistrationExact, Owner
<1>4. QED
  BY <1>1, <1>2, <1>3 DEF Limits

(* What an operation may give an iterator for its container: one that      *)
(* exists, none, or what an iterator has already.                          *)
Known == live \cup {Null, Unregistered} \cup {itsC[i] : i \in Iterators}

(* The lists are exact after the step when they say what the owners say.   *)
LEMMA ListsSuffice ==
  ASSUME Limits, IInv, UNCHANGED live, UNCHANGED table, UNCHANGED making,
         itsC' \in [Iterators -> Known], iters' \in [Containers -> SUBSET Iterators],
         \A i \in Iterators, c \in Containers : i \in iters'[c] <=> itsC'[i] = c
  PROVE  IInv'
<1>1. UNCHANGED <<hash, size, bucket, next, csz, live, pc, made, link, lost, losses>>
  BY DEF table, making, history
<1>2. Nodes' = Nodes /\ Kept' = Kept
  BY <1>1 DEF Nodes, Kept
<1>3. Known \subseteq Owner /\ \A o \in Known : o \in Containers => o \in live \cup lost
  BY ListsExact DEF Known, Owner
<1>4. itsC' \in [Iterators -> Containers \cup {Null, Unregistered}]
  BY <1>3 DEF Owner
<1>5. RegistrationExact'
  BY <1>1, <1>3 DEF RegistrationExact
<1>6. TypeOK'
  BY <1>1, <1>2, <1>4 DEF IInv, TypeOK
<1>7. TableExact'
  BY <1>1, <1>2, SameHash DEF IInv, TableExact
<1>8. MakersExact'
  <2>1. \A m \in Makers : pc[m] # "idle" => made[m] \in Containers \ live /\ made[m] \notin Known
    BY ListsExact DEF IInv, MakersExact, Known
  <2>2. \A m \in Makers : pc[m] # "idle" => iters'[made[m]] = {}
    BY <2>1
  <2>3. QED
    BY <1>1, <2>2 DEF IInv, MakersExact
<1>9. QED
  BY <1>5, <1>6, <1>7, <1>8 DEF IInv

(* One iterator has a new owner.                                           *)
LEMMA AssignsOne ==
  ASSUME Limits, IInv, IInv', UNCHANGED live, NEW i \in Iterators, NEW o,
         itsC' = [itsC EXCEPT ![i] = o]
  PROVE  RG!Assign(i)
<1> DEFINE w == IF o \in live \cup {Unregistered} THEN o ELSE Null
<1>1. itsC' = [j \in Iterators |-> IF j = i THEN o ELSE itsC[j]]
  BY ListsExact
<1>2. Owners' = [Owners EXCEPT ![i] = w]
  BY <1>1, OwnersAre
<1>3. w \in live \cup {Null, Unregistered}
  OBVIOUS
<1> HIDE DEF w
<1>4. QED
  BY <1>2, <1>3 DEF RG!Assign

LEMMA InsertIKeeps ==
  ASSUME Limits, IInv, NEW i \in Iterators, InsertI(i)
  PROVE  IInv' /\ RG!Assign(i)
<1>1. /\ itsC[i] = Unregistered /\ itsC' = [itsC EXCEPT ![i] = Null] /\ iters' = iters
      /\ UNCHANGED live /\ UNCHANGED table /\ UNCHANGED making
  BY DEF InsertI
<1>2. itsC' \in [Iterators -> Known]
  BY <1>1, ListsExact DEF Known
<1>3. \A j \in Iterators, c \in Containers : j \in iters'[c] <=> itsC'[j] = c
  BY <1>1, ListsExact
<1>4. IInv'
  BY <1>1, <1>2, <1>3, ListsExact, ListsSuffice
<1>5. QED
  BY <1>1, <1>4, AssignsOne

LEMMA InsertICKeeps ==
  ASSUME Limits, IInv, NEW i \in Iterators, NEW c \in Containers, InsertIC(i, c)
  PROVE  IInv' /\ RG!Assign(i)
<1>1. /\ itsC[i] = Unregistered /\ c \in live
      /\ itsC' = [itsC EXCEPT ![i] = c] /\ iters' = [iters EXCEPT ![c] = @ \cup {i}]
      /\ UNCHANGED live /\ UNCHANGED table /\ UNCHANGED making
  BY DEF InsertIC
<1>2. /\ itsC' \in [Iterators -> Known]
      /\ iters' \in [Containers -> SUBSET Iterators]
  BY <1>1, ListsExact DEF Known
<1>3. \A j \in Iterators, d \in Containers : j \in iters'[d] <=> itsC'[j] = d
  BY <1>1, ListsExact
<1>4. IInv'
  BY <1>1, <1>2, <1>3, ListsSuffice
<1>5. QED
  BY <1>1, <1>4, AssignsOne

LEMMA EraseIKeeps ==
  ASSUME Limits, IInv, NEW i \in Iterators, EraseI(i)
  PROVE  IInv' /\ RG!Assign(i)
<1>1. /\ itsC' = [itsC EXCEPT ![i] = Unregistered]
      /\ iters' = [c \in Containers |-> IF c = itsC[i] THEN iters[c] \ {i} ELSE iters[c]]
      /\ UNCHANGED live /\ UNCHANGED table /\ UNCHANGED making
  BY DEF EraseI
<1>2. /\ itsC' \in [Iterators -> Known]
      /\ iters' \in [Containers -> SUBSET Iterators]
  BY <1>1, ListsExact DEF Known
<1>3. \A j \in Iterators, d \in Containers : j \in iters'[d] <=> itsC'[j] = d
  BY <1>1, ListsExact
<1>4. IInv'
  BY <1>1, <1>2, <1>3, ListsSuffice
<1>5. QED
  BY <1>1, <1>4, AssignsOne

LEMMA IteratorCopyKeeps ==
  ASSUME Limits, IInv, NEW i \in Iterators, NEW j \in Iterators, IteratorCopy(i, j)
  PROVE  IInv' /\ RG!Assign(i)
<1> DEFINE o == Copied(i, j)
<1>1. /\ itsC' = [itsC EXCEPT ![i] = o]
      /\ iters' = [c \in Containers |-> IF c = o THEN iters[c] \cup {i} ELSE iters[c] \ {i}]
      /\ UNCHANGED live /\ UNCHANGED table /\ UNCHANGED making
  BY DEF IteratorCopy
<1>2. o \in {itsC[j], Null, Unregistered}
  BY DEF Copied
<1> HIDE DEF o
<1>3. /\ itsC' \in [Iterators -> Known]
      /\ iters' \in [Containers -> SUBSET Iterators]
  BY <1>1, <1>2, ListsExact DEF Known
<1>4. \A k \in Iterators, d \in Containers : k \in iters'[d] <=> itsC'[k] = d
  BY <1>1, ListsExact
<1>5. IInv'
  BY <1>1, <1>3, <1>4, ListsSuffice
<1>6. QED
  BY <1>1, <1>5, AssignsOne

LEMMA InvalidateKeeps ==
  ASSUME Limits, IInv, NEW c \in Containers, NEW S \in SUBSET Iterators, Invalidate(c, S)
  PROVE  IInv' /\ RG!Invalidate(S)
<1>1. /\ c \in live /\ S \subseteq iters[c]
      /\ itsC' = Orphaned(S) /\ iters' = [iters EXCEPT ![c] = @ \ S]
      /\ UNCHANGED live /\ UNCHANGED table /\ UNCHANGED making
  BY DEF Invalidate
<1>2. itsC' = [i \in Iterators |-> IF i \in S THEN Null ELSE itsC[i]]
  BY <1>1 DEF Orphaned
<1>3. \A i \in S : itsC[i] = c
  BY <1>1, ListsExact
<1>4. /\ itsC' \in [Iterators -> Known]
      /\ iters' \in [Containers -> SUBSET Iterators]
  BY <1>1, <1>2, ListsExact DEF Known
<1>5. \A k \in Iterators, d \in Containers : k \in iters'[d] <=> itsC'[k] = d
  BY <1>1, <1>2, <1>3, ListsExact
<1>6. IInv'
  BY <1>1, <1>4, <1>5, ListsSuffice
<1>7. Owners' = [i \in Iterators |-> IF i \in S THEN Null ELSE Owners[i]]
  BY <1>1, <1>2, <1>6, OwnersAre, ListsExact
<1>8. \A i \in S : Owners[i] \in live
  BY <1>1, <1>3, <1>6, OwnersAre
<1>9. QED
  BY <1>1, <1>6, <1>7, <1>8 DEF RG!Invalidate

LEMMA SpliceKeeps ==
  ASSUME Limits, IInv, NEW c \in Containers, NEW d \in Containers, NEW S \in SUBSET Iterators,
         Splice(c, d, S)
  PROVE  IInv' /\ RG!Invalidate(S)
<1>1. /\ c \in live /\ d \in live /\ c # d /\ S \subseteq iters[d]
      /\ itsC' = [i \in Iterators |-> IF i \in S THEN c ELSE itsC[i]]
      /\ iters' = [iters EXCEPT ![c] = @ \cup S, ![d] = @ \ S]
      /\ UNCHANGED live /\ UNCHANGED table /\ UNCHANGED making
  BY DEF Splice
<1>2. \A i \in S : itsC[i] = d
  BY <1>1, ListsExact
<1>3. itsC' \in [Iterators -> Known]
  BY <1>1, ListsExact DEF Known
<1>4. \A e \in Containers : iters'[e] = IF e = d THEN iters[d] \ S
                                        ELSE IF e = c THEN iters[c] \cup S ELSE iters[e]
  BY <1>1, ListsExact
<1>5. iters' \in [Containers -> SUBSET Iterators]
  BY <1>1, ListsExact
<1>6. \A k \in Iterators, e \in Containers : k \in iters'[e] <=> itsC'[k] = e
  BY <1>1, <1>2, <1>4, ListsExact
<1>7. IInv'
  BY <1>1, <1>3, <1>5, <1>6, ListsSuffice
<1>8. Owners' = [i \in Iterators |-> IF i \in S THEN c ELSE Owners[i]]
  BY <1>1, <1>7, OwnersAre
<1>9. \A i \in S : Owners[i] \in live
  BY <1>1, <1>2, <1>7, OwnersAre
<1>10. QED
  BY <1>1, <1>7, <1>8, <1>9 DEF RG!Invalidate

LEMMA SwapKeeps ==
  ASSUME Limits, IInv, NEW c \in Containers, NEW d \in Containers, Swap(c, d)
  PROVE  IInv' /\ RG!Exchange(c, d)
<1>1. /\ c \in live /\ d \in live
      /\ iters' = [iters EXCEPT ![c] = iters[d], ![d] = iters[c]]
      /\ itsC' = [i \in Iterators |-> CASE i \in iters[d] -> c
                                        [] i \in iters[c] \ iters[d] -> d
                                        [] OTHER -> itsC[i]]
      /\ UNCHANGED live /\ UNCHANGED table /\ UNCHANGED making
  BY DEF Swap
<1>2. \A i \in Iterators : itsC'[i] = IF itsC[i] = d THEN c ELSE IF itsC[i] = c THEN d ELSE itsC[i]
  BY <1>1, ListsExact
<1>3. /\ itsC' \in [Iterators -> Known]
      /\ itsC' = [i \in Iterators |-> IF itsC[i] = d THEN c
                                      ELSE IF itsC[i] = c THEN d ELSE itsC[i]]
  BY <1>1, <1>2, ListsExact DEF Known
<1>4. \A e \in Containers : iters'[e] = IF e = d THEN iters[c]
                                        ELSE IF e = c THEN iters[d] ELSE iters[e]
  BY <1>1, ListsExact
<1>5. iters' \in [Containers -> SUBSET Iterators]
  BY <1>1, ListsExact
<1>6. \A k \in Iterators, e \in Containers : k \in iters'[e] <=> itsC'[k] = e
  BY <1>1, <1>2, <1>4, ListsExact
<1>7. IInv'
  BY <1>1, <1>3, <1>5, <1>6, ListsSuffice
<1>8. Owners' = [i \in Iterators |-> IF itsC'[i] \in live \cup {Unregistered} THEN itsC'[i] ELSE Null]
  BY <1>1, <1>7, OwnersAre
<1>9. \A i \in Iterators : Owners[i] = IF itsC[i] \in live \cup {Unregistered} THEN itsC[i] ELSE Null
  BY <1>7, OwnersAre
<1>10. \A i \in Iterators : (IF itsC'[i] \in live \cup {Unregistered} THEN itsC'[i] ELSE Null)
                            = IF Owners[i] = c THEN d ELSE IF Owners[i] = d THEN c ELSE Owners[i]
  BY <1>1, <1>2, <1>9 DEF Limits
<1>11. Owners' = [i \in Iterators |-> CASE Owners[i] = c -> d [] Owners[i] = d -> c
                                        [] OTHER -> Owners[i]]
  BY <1>8, <1>10
<1>12. QED
  BY <1>1, <1>7, <1>11 DEF RG!Exchange

LEMMA NextKeeps ==
  ASSUME Limits, IInv, [Next]_vars, [~StaleLink]_vars
  PROVE  IInv' /\ [RG!RGNext]_<<live, Owners>>
<1>1. ASSUME NEW m \in Makers, NEW c \in Containers, InsertC(m, c)
      PROVE  IInv' /\ UNCHANGED <<live, Owners>>
  <2>1. IInv' /\ UNCHANGED <<live, itsC>>
    BY <1>1, InsertCKeeps DEF InsertC
  <2>2. QED
    BY <2>1, SameOwners
<1>2. ASSUME NEW m \in Makers, NEW c \in Containers, FailToInsertC(m, c)
      PROVE  IInv' /\ UNCHANGED <<live, Owners>>
  <2>1. IInv' /\ UNCHANGED <<live, itsC>>
    BY <1>2, FailToInsertCKeeps DEF FailToInsertC
  <2>2. QED
    BY <2>1, SameOwners
<1>3. ASSUME NEW m \in Makers, ReadNode(m)
      PROVE  IInv' /\ UNCHANGED <<live, Owners>>
  <2>1. IInv' /\ UNCHANGED <<live, itsC>>
    BY <1>3, ReadNodeKeeps DEF ReadNode
  <2>2. QED
    BY <2>1, SameOwners
<1>4. ASSUME NEW m \in Makers, ConstructNode(m)
      PROVE  IInv' /\ \E c \in Containers : RG!Make(c)
  <2>1. pc[m] = "read" /\ pc' = [pc EXCEPT ![m] = "idle"] /\ live' = live \cup {made[m]}
    BY <1>4 DEF ConstructNode
  <2>2. vars' # vars
    BY <2>1 DEF vars, IInv, TypeOK
  <2>3. link[m] = next[made[m]]
    BY <1>4, <2>2 DEF StaleLink
  <2>4. IInv' /\ UNCHANGED Owners /\ made[m] \in Containers \ live
    BY <1>4, <2>3, ConstructNodeKeeps
  <2>5. QED
    BY <2>1, <2>4 DEF RG!Make
<1>5. ASSUME NEW m \in Makers, NEW c \in Containers, EraseC(m, c)
      PROVE  IInv' /\ RG!Destroy(c)
  BY <1>5, EraseCKeeps
<1>6. ASSUME NEW i \in Iterators, InsertI(i) \/ EraseI(i)
      PROVE  IInv' /\ RG!Assign(i)
  BY <1>6, InsertIKeeps, EraseIKeeps
<1>7. ASSUME NEW i \in Iterators, NEW c \in Containers, InsertIC(i, c)
      PROVE  IInv' /\ RG!Assign(i)
  BY <1>7, InsertICKeeps
<1>8. ASSUME NEW i \in Iterators, NEW j \in Iterators, IteratorCopy(i, j)
      PROVE  IInv' /\ RG!Assign(i)
  BY <1>8, IteratorCopyKeeps
<1>9. ASSUME NEW c \in Containers, NEW S \in SUBSET Iterators, Invalidate(c, S)
      PROVE  IInv' /\ RG!Invalidate(S)
  BY <1>9, InvalidateKeeps
<1>10. ASSUME NEW c \in Containers, NEW d \in Containers, NEW S \in SUBSET Iterators, Splice(c, d, S)
       PROVE  IInv' /\ RG!Invalidate(S)
  BY <1>10, SpliceKeeps
<1>11. ASSUME NEW c \in Containers, NEW d \in Containers, Swap(c, d)
       PROVE  IInv' /\ RG!Exchange(c, d)
  BY <1>11, SwapKeeps
<1>12. CASE UNCHANGED vars
  <2>1. UNCHANGED <<hash, size, bucket, next, csz, iters, itsC, live, pc, made, link, lost, losses>>
    BY <1>12 DEF vars, history
  <2>2. UNCHANGED table /\ UNCHANGED making
    BY <2>1 DEF table, making, history
  <2>3. itsC' \in [Iterators -> Known] /\ iters' = iters
    BY <2>1, ListsExact DEF Known
  <2>4. IInv'
    BY <2>1, <2>2, <2>3, ListsExact, ListsSuffice
  <2>5. QED
    BY <2>1, <2>4, SameOwners
<1>13. QED
  BY <1>1, <1>2, <1>3, <1>4, <1>5, <1>6, <1>7, <1>8, <1>9, <1>10, <1>11, <1>12
     DEF Next, RG!RGNext

-----------------------------------------------------------------------------
(* The inductive invariant.                                                *)
THEOREM Invariance ==
  ASSUME Limits
  PROVE  Spec /\ [][~StaleLink]_vars => []IInv
<1>1. Init => IInv
  BY Initially
<1>2. IInv /\ [Next]_vars /\ [~StaleLink]_vars => IInv'
  BY NextKeeps
<1>3. QED
  BY <1>1, <1>2, PTL DEF Spec

(* The table and the lists, however many threads make and destroy          *)
(* containers and whichever malloc fails: as long as no node is constructed*)
(* with a link that another thread has changed since it was read, no chain *)
(* has a cycle or a node of a container that is gone or of another hash,   *)
(* every container that exists is found unless a failed malloc has cut its *)
(* chain off, and an iterator is on the list of its container and on no    *)
(* other.                                                                  *)
THEOREM TablesAreExact ==
  ASSUME Limits
  PROVE  Spec /\ [][~StaleLink]_vars => [](Inv /\ RegistrationExact /\ InternalChecksHold)
<1>1. IInv => Inv /\ RegistrationExact /\ InternalChecksHold
  BY InvariantSuffices
<1>2. QED
  BY <1>1, Invariance, PTL

-----------------------------------------------------------------------------
(* What a thread has read of the node it makes, while it is the only one   *)
(* that makes containers.                                                  *)
LinksFresh ==
  /\ pc \in [Makers -> {"idle", "allocated", "read"}] /\ link \in [Makers -> Containers \cup {Null}]
  /\ \A m \in Makers : pc[m] = "read" => link[m] = next[made[m]]

LEMMA LinksStayFresh ==
  ASSUME \A m, n \in Makers : m = n, LinksFresh, IInv, [Next]_vars
  PROVE  LinksFresh' /\ [~StaleLink]_vars
<1>1. ~StaleLink
  BY DEF StaleLink, ConstructNode, LinksFresh
<1>2. ASSUME NEW m \in Makers, NEW c \in Containers, InsertC(m, c) \/ FailToInsertC(m, c) \/ EraseC(m, c)
      PROVE  LinksFresh'
  <2>1. \A n \in Makers : pc'[n] # "read"
    BY <1>2 DEF InsertC, FailToInsertC, EraseC, making, LinksFresh
  <2>2. pc' \in [Makers -> {"idle", "allocated", "read"}] /\ link' = link
    BY <1>2 DEF InsertC, FailToInsertC, EraseC, making, LinksFresh
  <2>3. QED
    BY <2>1, <2>2 DEF LinksFresh
<1>3. ASSUME NEW m \in Makers, ReadNode(m) PROVE LinksFresh'
  <2>1. made[m] \in Containers /\ next \in [Containers -> Containers \cup {Null}]
    BY <1>3 DEF ReadNode, IInv, MakersExact, TypeOK
  <2>2. QED
    BY <1>3, <2>1 DEF ReadNode, table, LinksFresh
<1>4. ASSUME NEW m \in Makers, ConstructNode(m) PROVE LinksFresh'
  <2>1. \A n \in Makers : pc'[n] # "read"
    BY <1>4 DEF ConstructNode, LinksFresh
  <2>2. QED
    BY <1>4, <2>1 DEF ConstructNode, LinksFresh
<1>5. ASSUME UNCHANGED <<next, pc, made, link>> PROVE LinksFresh'
  BY <1>5 DEF LinksFresh
<1>6. CASE UNCHANGED vars
  BY <1>6, <1>5, <1>1 DEF vars
<1>7. ASSUME NEW i \in Iterators, InsertI(i) \/ EraseI(i) PROVE LinksFresh'
  BY <1>5, <1>7 DEF InsertI, EraseI, table, making
<1>8. ASSUME NEW i \in Iterators, NEW c \in Containers, InsertIC(i, c) PROVE LinksFresh'
  BY <1>5, <1>8 DEF InsertIC, table, making
<1>9. ASSUME NEW i \in Iterators, NEW j \in Iterators, IteratorCopy(i, j) PROVE LinksFresh'
  BY <1>5, <1>9 DEF IteratorCopy, table, making
<1>10. ASSUME NEW c \in Containers, NEW S \in SUBSET Iterators, Invalidate(c, S) PROVE LinksFresh'
  BY <1>5, <1>10 DEF Invalidate, table, making
<1>11. ASSUME NEW c \in Containers, NEW d \in Containers, NEW S \in SUBSET Iterators, Splice(c, d, S)
       PROVE  LinksFresh'
  BY <1>5, <1>11 DEF Splice, table, making
<1>12. ASSUME NEW c \in Containers, NEW d \in Containers, Swap(c, d) PROVE LinksFresh'
  BY <1>5, <1>12 DEF Swap, table, making
<1>13. QED
  BY <1>1, <1>2, <1>3, <1>4, <1>6, <1>7, <1>8, <1>9, <1>10, <1>11, <1>12 DEF Next

(* Where one thread makes and destroys all containers, no link is stale.   *)
THEOREM OneMakerIsExact ==
  ASSUME Limits, \A m, n \in Makers : m = n
  PROVE  Spec => [](Inv /\ RegistrationExact /\ InternalChecksHold)
<1>1. Init => IInv /\ LinksFresh
  BY Initially DEF Init, LinksFresh
<1>2. IInv /\ LinksFresh /\ [Next]_vars => IInv' /\ LinksFresh'
  BY LinksStayFresh, NextKeeps
<1>3. IInv => Inv /\ RegistrationExact /\ InternalChecksHold
  BY InvariantSuffices
<1>4. QED
  BY <1>1, <1>2, <1>3, PTL DEF Spec
==============================================================================
