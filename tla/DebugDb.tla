-------------------------------- MODULE DebugDb --------------------------------
(***************************************************************************)
(* The database of debug mode, __libcpp_db (src/include/__debug,           *)
(* src/src/debug.cpp): a hash table of the containers that exist, each     *)
(* with the list of its iterators, and a table of the iterators, each with *)
(* its container.                                                          *)
(*                                                                         *)
(* Every member function is one critical section of the global mutex, but  *)
(* __insert_c<_Cont> goes on after it: it constructs the node in place     *)
(* with what it reads from the node, and the mutex is free by then.  The   *)
(* table of containers is modelled link by link, the table of iterators as *)
(* a function.                                                             *)
(***************************************************************************)
EXTENDS Naturals, FiniteSets

CONSTANTS
  Containers, Iterators,    (* addresses                                   *)
  Makers,                   (* the threads that make and destroy containers*)
  HashValues,               (* the values that hash<void*> may have        *)
  FailsAt,                  (* the buckets for which malloc of a node may  *)
                            (* return null: "empty", "chain"               *)
  MaxCount,                 (* a bound on __csz_, which lost nodes raise   *)
  Null,                     (* the null pointer                            *)
  Unregistered              (* an iterator without a node                  *)

VARIABLES
  hash,       (* hash<void*>, one of the possible functions                *)
  size,       (* __cend_ - __cbeg_                                         *)
  bucket,     (* __cbeg_[0 .. size - 1]                                    *)
  next,       (* __next_ of the node of each container                     *)
  csz,        (* __csz_                                                    *)
  iters,      (* [beg_, end_) of the node of each container                *)
  itsC,       (* __c_ of the node of each iterator                         *)
  live,       (* the containers whose constructor registered them          *)
  pc,         (* where each maker is in __insert_c<_Cont>                  *)
  made,       (* ... the container it makes                                *)
  link,       (* ... and the __n->__next_ it has read                      *)
  lost,       (* history: the containers whose node a failed malloc cut off*)
  losses      (* history: the number of nodes cut off until now            *)

history == <<lost, losses>>
vars == <<hash, size, bucket, next, csz, iters, itsC, live, pc, made, link, history>>
table  == <<hash, size, bucket, next, csz, history>>
making == <<pc, made, link>>

(* The containers with a node, constructed or not.                         *)
Nodes == live \cup {made[m] : m \in {n \in Makers : pc[n] # "idle"}}

(* ... and those of them whose node can be reached.                        *)
Kept == Nodes \ lost

Init ==
  /\ hash \in [Containers -> HashValues]
  /\ size = 0 /\ bucket = <<>> /\ csz = 0
  /\ next = [c \in Containers |-> Null]
  /\ iters = [c \in Containers |-> {}]
  /\ itsC = [i \in Iterators |-> Unregistered]
  /\ live = {}
  /\ pc = [m \in Makers |-> "idle"]
  /\ made = [m \in Makers |-> Null]
  /\ link = [m \in Makers |-> Null]
  /\ lost = {} /\ losses = 0
-----------------------------------------------------------------------------
(***************************************************************************)
(* The table of containers.                                                *)
(***************************************************************************)
Steps == 0..Cardinality(Containers)

(* The nodes that a walk from pointer p meets, and null from its end on.   *)
(* No chain is longer than the number of containers unless it has a cycle. *)
Walk(p) ==
  LET at[k \in Steps] == IF k = 0 THEN p
                         ELSE IF at[k - 1] = Null THEN Null ELSE next[at[k - 1]]
  IN  at

Meets(p, c) == \E k \in Steps : Walk(p)[k] = c

HashIn(c, n) == hash[c] % n

(* The walk of __find_c, __insert_ic, swap and the others reaches c.       *)
Found(c) == size > 0 /\ Meets(bucket[HashIn(c, size)], c)

IsPrime(n) == n > 1 /\ \A d \in 2..n - 1 : n % d # 0

NextPrime(n) == CHOOSE p \in n..2 * n : \A q \in n..2 * n : IsPrime(q) => IsPrime(p) /\ p <= q

(* The visits of the nodes by the loops of the growth: the bucket, and the *)
(* place in its chain.                                                     *)
Visits == {v \in (0..size - 1) \X Steps : Walk(bucket[v[1]])[v[2]] # Null}
Visited(v) == Walk(bucket[v[1]])[v[2]]

Before(u, v) == u[1] < v[1] \/ (u[1] = v[1] /\ u[2] < v[2])
Latest(V) == CHOOSE v \in V : \A u \in V \ {v} : Before(u, v)

(* The node at the front of a bucket to which the nodes of V were moved.   *)
Front(V) == IF V = {} THEN Null ELSE Visited(Latest(V))

(* Mutant: q->__next_ is read after it has been written, so that only the  *)
(* first node of each bucket is moved.                                     *)
RehashLosesChains(n) ==
  LET To(h) == {v \in Visits : v[2] = 0 /\ HashIn(Visited(v), n) = h}
  IN  [bucket |-> [h \in 0..n - 1 |-> Front(To(h))],
       next   |-> [c \in Containers |->
                     LET mine == {v \in To(HashIn(c, n)) : Visited(v) = c}
                     IN  IF mine = {} THEN next[c]
                         ELSE Front({u \in To(HashIn(c, n)) : Before(u, Latest(mine))})]]

(* A table as __insert_c finds it after the growth, if it has to grow:     *)
(* node by node, each to the front of its new bucket.                      *)
Rehash(n) ==
  LET To(h) == {v \in Visits : HashIn(Visited(v), n) = h}
  IN  [bucket |-> [h \in 0..n - 1 |-> Front(To(h))],
       next   |-> [c \in Containers |->
                     LET mine == {v \in To(HashIn(c, n)) : Visited(v) = c}
                     IN  IF mine = {} THEN next[c]
                         ELSE Front({u \in To(HashIn(c, n)) : Before(u, Latest(mine))})]]

GrowthNeeded == csz + 1 > size

Grown ==
  IF GrowthNeeded
  THEN LET n == NextPrime(2 * size + 1)
       IN  [size |-> n, bucket |-> Rehash(n).bucket, next |-> Rehash(n).next]
  ELSE [size |-> size, bucket |-> bucket, next |-> next]

(* Mutant: the bucket is computed before the table grows.                  *)
InsertCStaleHash(m, c) ==
  /\ pc[m] = "idle" /\ c \notin Nodes /\ csz < MaxCount
  /\ LET g == Grown
         h == HashIn(c, IF size = 0 THEN g.size ELSE size)
     IN  /\ size' = g.size
         /\ bucket' = [g.bucket EXCEPT ![h] = c]
         /\ next' = [g.next EXCEPT ![c] = g.bucket[h]]
  /\ csz' = csz + 1
  /\ pc' = [pc EXCEPT ![m] = "allocated"]
  /\ made' = [made EXCEPT ![m] = c]
  /\ lost' = lost \ {c}
  /\ UNCHANGED <<hash, iters, itsC, live, link, losses>>

(* The untyped __insert_c: a node that has only __c_ and __next_ is linked.*)
InsertC(m, c) ==
  /\ pc[m] = "idle" /\ c \notin Nodes /\ csz < MaxCount
  /\ iters[c] = {}    (* a bound: see FailToInsertC *)
  /\ LET g == Grown
         h == HashIn(c, g.size)
     IN  /\ size' = g.size
         /\ bucket' = [g.bucket EXCEPT ![h] = c]
         /\ next' = [g.next EXCEPT ![c] = g.bucket[h]]
  /\ csz' = csz + 1
  /\ pc' = [pc EXCEPT ![m] = "allocated"]
  /\ made' = [made EXCEPT ![m] = c]
  /\ lost' = lost \ {c}
  /\ UNCHANGED <<hash, iters, itsC, live, link, losses>>

(* The same when malloc returns null: the bucket is null too, and          *)
(* bad_alloc is thrown.  The nodes of the bucket are out of reach from then*)
(* on, and __csz_ counts them for ever.  Their containers live and are     *)
(* destroyed; their addresses are not used again while such a node has     *)
(* iterators, because a node goes by the name of its container here.       *)
FailToInsertC(m, c) ==
  /\ pc[m] = "idle" /\ c \notin Nodes /\ csz < MaxCount
  /\ LET g == Grown
         h == HashIn(c, g.size)
         dropped == {d \in Kept : HashIn(d, g.size) = h}
     IN  /\ (IF g.bucket[h] = Null THEN "empty" ELSE "chain") \in FailsAt
         /\ size' = g.size
         /\ bucket' = [g.bucket EXCEPT ![h] = Null]
         /\ next' = g.next
         /\ lost' = lost \cup dropped
         /\ losses' = losses + Cardinality(dropped)
  /\ UNCHANGED <<hash, csz, iters, itsC, live, pc, made, link>>

(* The arguments of the constructor of _C_node, without the mutex.         *)
ReadNode(m) ==
  /\ pc[m] = "allocated"
  /\ link' = [link EXCEPT ![m] = next[made[m]]]
  /\ pc' = [pc EXCEPT ![m] = "read"]
  /\ UNCHANGED <<iters, itsC, live, made>> /\ UNCHANGED table

(* The constructor, without the mutex.                                     *)
ConstructNode(m) ==
  /\ pc[m] = "read"
  /\ next' = [next EXCEPT ![made[m]] = link[m]]
  /\ iters' = [iters EXCEPT ![made[m]] = {}]
  /\ live' = live \cup {made[m]}
  /\ pc' = [pc EXCEPT ![m] = "idle"]
  /\ made' = [made EXCEPT ![m] = Null]
  /\ link' = [link EXCEPT ![m] = Null]
  /\ UNCHANGED <<hash, size, bucket, csz, itsC, history>>

(* The same when the link has become stale since ReadNode.                 *)
StaleLink == \E m \in Makers : ConstructNode(m) /\ link[m] # next[made[m]]

(* The chain without the node of c: what points to c is made to point      *)
(* behind it.                                                              *)
Unlink(c) ==
  LET b  == HashIn(c, size)
      at == Walk(bucket[b])
      k  == CHOOSE k \in Steps : at[k] = c /\ \A j \in 0..k - 1 : at[j] # c
  IN  IF k = 0
      THEN bucket' = [bucket EXCEPT ![b] = next[c]] /\ UNCHANGED next
      ELSE next' = [next EXCEPT ![at[k - 1]] = next[c]] /\ UNCHANGED bucket

Orphaned(S) == [i \in Iterators |-> IF i \in S THEN Null ELSE itsC[i]]

(* Mutant: the iterators keep a pointer to the freed node.                 *)
EraseCKeepsIterators(m, c) ==
  /\ pc[m] = "idle" /\ c \in live
  /\ live' = live \ {c}
  /\ Found(c) /\ Unlink(c)
  /\ iters' = [iters EXCEPT ![c] = {}]
  /\ csz' = csz - 1
  /\ UNCHANGED <<hash, size, itsC, history>> /\ UNCHANGED making

(* __erase_c, from the destructor of the container.                        *)
EraseC(m, c) ==
  /\ pc[m] = "idle" /\ c \in live
  /\ live' = live \ {c}
  /\ \/ /\ Found(c) /\ Unlink(c)
        /\ itsC' = Orphaned(iters[c])
        /\ iters' = [iters EXCEPT ![c] = {}]
        /\ csz' = csz - 1
     \/ ~Found(c) /\ UNCHANGED <<bucket, next, itsC, iters, csz>>
  /\ UNCHANGED <<hash, size, history>> /\ UNCHANGED making
-----------------------------------------------------------------------------
(***************************************************************************)
(* The iterators.                                                          *)
(***************************************************************************)
(* __insert_i: an iterator of no container.                                *)
InsertI(i) ==
  /\ itsC[i] = Unregistered
  /\ itsC' = [itsC EXCEPT ![i] = Null]
  /\ UNCHANGED <<iters, live>> /\ UNCHANGED table /\ UNCHANGED making

(* __insert_ic.                                                            *)
InsertIC(i, c) ==
  /\ itsC[i] = Unregistered /\ c \in live
  /\ Found(c)
  /\ itsC' = [itsC EXCEPT ![i] = c]
  /\ iters' = [iters EXCEPT ![c] = @ \cup {i}]
  /\ UNCHANGED live /\ UNCHANGED table /\ UNCHANGED making

EraseI(i) ==
  /\ itsC[i] # Unregistered
  /\ itsC' = [itsC EXCEPT ![i] = Unregistered]
  /\ iters' = [c \in Containers |-> IF c = itsC[i] THEN iters[c] \ {i} ELSE iters[c]]
  /\ UNCHANGED live /\ UNCHANGED table /\ UNCHANGED making

(* What __iterator_copy gives iterator i: a copy of an iterator that is    *)
(* not known leaves i without a container, or unknown.                     *)
Copied(i, j) ==
  IF itsC[j] # Unregistered THEN itsC[j]
  ELSE IF itsC[i] # Unregistered THEN Null ELSE Unregistered

(* Mutant: i stays on the list of its old container.                       *)
IteratorCopyKeepsOld(i, j) ==
  /\ itsC' = [itsC EXCEPT ![i] = Copied(i, j)]
  /\ iters' = [c \in Containers |-> IF c = Copied(i, j) THEN iters[c] \cup {i} ELSE iters[c]]
  /\ UNCHANGED live /\ UNCHANGED table /\ UNCHANGED making

(* __iterator_copy: i takes the place of a copy of j.                      *)
IteratorCopy(i, j) ==
  /\ itsC' = [itsC EXCEPT ![i] = Copied(i, j)]
  /\ iters' = [c \in Containers |->
                 IF c = Copied(i, j) THEN iters[c] \cup {i} ELSE iters[c] \ {i}]
  /\ UNCHANGED live /\ UNCHANGED table /\ UNCHANGED making

(* The iterators in S leave container c: __invalidate_all with all of      *)
(* them, or an operation of the container, such as list::erase, with some. *)
Invalidate(c, S) ==
  /\ c \in live /\ Found(c)
  /\ S # {} /\ S \subseteq iters[c]
  /\ itsC' = Orphaned(S)
  /\ iters' = [iters EXCEPT ![c] = @ \ S]
  /\ UNCHANGED live /\ UNCHANGED table /\ UNCHANGED making

(* list::splice: the iterators in S go from list d to list c.              *)
Splice(c, d, S) ==
  /\ {c, d} \subseteq live /\ c # d /\ Found(c) /\ Found(d)
  /\ S # {} /\ S \subseteq iters[d]
  /\ itsC' = [i \in Iterators |-> IF i \in S THEN c ELSE itsC[i]]
  /\ iters' = [iters EXCEPT ![c] = @ \cup S, ![d] = @ \ S]
  /\ UNCHANGED live /\ UNCHANGED table /\ UNCHANGED making

(* Mutant: the lists are exchanged, their iterators are not told.          *)
SwapListsOnly(c, d) ==
  /\ {c, d} \subseteq live /\ Found(c) /\ Found(d)
  /\ iters' = [iters EXCEPT ![c] = iters[d], ![d] = iters[c]]
  /\ UNCHANGED <<itsC, live>> /\ UNCHANGED table /\ UNCHANGED making

(* swap: the lists are exchanged and their iterators pointed anew.         *)
Swap(c, d) ==
  /\ {c, d} \subseteq live /\ Found(c) /\ Found(d)
  /\ iters' = [iters EXCEPT ![c] = iters[d], ![d] = iters[c]]
  /\ itsC' = [i \in Iterators |-> CASE i \in iters[d] -> c
                                    [] i \in iters[c] \ iters[d] -> d
                                    [] OTHER -> itsC[i]]
  /\ UNCHANGED live /\ UNCHANGED table /\ UNCHANGED making
-----------------------------------------------------------------------------
Next ==
  \/ \E m \in Makers :
       \/ \E c \in Containers : InsertC(m, c) \/ FailToInsertC(m, c) \/ EraseC(m, c)
       \/ ReadNode(m) \/ ConstructNode(m)
  \/ \E i \in Iterators : InsertI(i) \/ EraseI(i)
  \/ \E i \in Iterators, c \in Containers : InsertIC(i, c)
  \/ \E i, j \in Iterators : IteratorCopy(i, j)
  \/ \E c \in Containers, S \in SUBSET Iterators : Invalidate(c, S)
  \/ \E c, d \in Containers, S \in SUBSET Iterators : Splice(c, d, S)
  \/ \E c, d \in Containers : Swap(c, d)

Spec == Init /\ [][Next]_vars
-----------------------------------------------------------------------------
TypeOK ==
  /\ hash \in [Containers -> HashValues]
  /\ size \in Nat /\ bucket \in [0..size - 1 -> Containers \cup {Null}]
  /\ next \in [Containers -> Containers \cup {Null}]
  /\ csz = Cardinality(Kept) + losses /\ csz <= size
  /\ iters \in [Containers -> SUBSET Iterators]
  /\ itsC \in [Iterators -> Containers \cup {Null, Unregistered}]
  /\ live \subseteq Containers
  /\ pc \in [Makers -> {"idle", "allocated", "read"}]
  /\ made \in [Makers -> Containers \cup {Null}]
  /\ link \in [Makers -> Containers \cup {Null}]
  /\ lost \subseteq Containers /\ losses \in Nat

(* Chains have no cycle and do not meet, and every node on a chain is one  *)
(* of a container that exists, on the chain of its hash: no walk reads a   *)
(* freed node.  A node that was cut off does not come back.                *)
ChainsSound == \A b \in 0..size - 1, k \in Steps :
  LET at == Walk(bucket[b])
  IN  at[k] # Null => /\ at[k] \in Kept /\ HashIn(at[k], size) = b
                      /\ \A j \in 0..k - 1 : at[j] # at[k]

(* The table is sound.                                                     *)
Inv == TypeOK /\ ChainsSound

(* An iterator is on the list of its container and on no other, and the    *)
(* container is a live one, or one whose node a failed malloc has cut off, *)
(* so that its destructor did not reach the iterators.                     *)
RegistrationExact == \A i \in Iterators, c \in Containers :
  /\ i \in iters[c] <=> itsC[i] = c
  /\ itsC[i] = c => c \in live \cup lost

(* The "internal logic error"s of debug.cpp do not happen: a container     *)
(* that exists is found, unless a failed malloc has cut its node off; an   *)
(* iterator is on the list of its container.                               *)
InternalChecksHold ==
  /\ \A c \in live \ lost : Found(c)
  /\ \A i \in Iterators : itsC[i] \in Containers => i \in iters[itsC[i]]

(* The owners of the iterators; those that were left with the node of a    *)
(* container that is gone have none.                                       *)
Owners == [i \in Iterators |-> IF itsC[i] \in lost \ live THEN Null ELSE itsC[i]]

RG == INSTANCE Registry WITH owner <- Owners, Unowned <- Null

(* The tables and lists implement the ownership of iterators: whatever     *)
(* happens to a container happens to all of its iterators and no other.    *)
ImplementsRegistry == RG!RGSpec
==============================================================================
