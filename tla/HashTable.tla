------------------------------- MODULE HashTable -------------------------------
(***************************************************************************)
(* The hash table of unordered_set, unordered_map and the multi forms      *)
(* (src/include/__hash_table): one list of nodes, in which those of a      *)
(* bucket stand together, and for each bucket a pointer to the node before *)
(* its first.  A call is one action, as no other thread and no call of the *)
(* program can see the inside of it; a hash or a comparison that throws    *)
(* does so before anything is linked, except in __rehash.                  *)
(***************************************************************************)
EXTENDS Integers, Sequences, SequencesExt, FiniteSets, FiniteSetsExt

CONSTANTS
  Nodes, Keys,
  Tags,           (* numbers that tell equal elements apart                *)
  Tables,         (* the containers; also the name of their node __p1_     *)
  Null,
  Programs,       (* what may be done with the containers: see below       *)
  Lists,          (* the lists of elements that are assigned               *)
  MaxDropped      (* bound: the nodes that an assignment loses             *)

VARIABLES
  program,    (* how many nodes there may be, which containers there are,  *)
              (* their hash functions, what max_load_factor() is set to    *)
              (* (<<n, d>> is n / d), the arguments of rehash(), and the   *)
              (* lists that are assigned                                   *)
  tables,     (* what the containers and their nodes hold, see Init        *)
  unique,     (* the containers are not multisets or multimaps             *)
  dropped,    (* history: the nodes that an assignment let go of           *)
  found       (* what equal_range() finds, of each container and key       *)

hvars == <<program, tables, unique, dropped, found>>

(* What a free node holds does not matter.                                 *)
AnyValue == <<CHOOSE k \in Keys : TRUE, CHOOSE tag \in Tags : TRUE>>

(* next is __next_, value and hash are __value_ and __hash_ of the nodes;  *)
(* the others are bucket_list_, size(), max_load_factor() and              *)
(* hash_function() of the containers.                                      *)
Init ==
  /\ program \in Programs
  /\ \E hashers \in [Tables -> program.hashers] :
       tables = [next   |-> [n \in Nodes \cup Tables |-> Null],
                 value  |-> [n \in Nodes |-> AnyValue],
                 hash   |-> [n \in Nodes |-> 0],
                 bucket |-> [t \in Tables |-> <<>>],
                 size   |-> [t \in Tables |-> 0],
                 load   |-> [t \in Tables |-> <<1, 1>>],
                 hasher |-> hashers]
  /\ unique \in BOOLEAN
  /\ dropped = {}
  /\ found = [t \in Tables |-> [k \in Keys |-> <<>>]]
-----------------------------------------------------------------------------
(* s is a value of tables throughout.                                      *)
BucketCount(s, t) == Len(s.bucket[t])

KeyOf(s, n) == s.value[n][1]

(* The bucket of a hash, from 1.                                           *)
ConstrainHash(hash, bc) == (hash % bc) + 1
BucketOf(s, t, n) == ConstrainHash(s.hash[n], BucketCount(s, t))

(* n is another node of the bucket b.                                      *)
InBucket(s, t, n, b) == n # Null /\ BucketOf(s, t, n) = b

(* The nodes from n on.                                                    *)
RECURSIVE ChainFrom(_, _)
ChainFrom(s, n) == IF n = Null THEN <<>> ELSE <<n>> \o ChainFrom(s, s.next[n])
Chain(s, t) == ChainFrom(s, s.next[t])

(* Where a walk from n over nodes of S ends.                               *)
RECURSIVE LastIn(_, _, _)
LastIn(s, n, S) == IF s.next[n] \in S THEN LastIn(s, s.next[n], S) ELSE n

RECURSIVE FindFrom(_, _, _, _)
FindFrom(s, t, n, k) ==
  LET hash == s.hasher[t][k]
  IN  IF n = Null \/ BucketOf(s, t, n) # ConstrainHash(hash, BucketCount(s, t)) THEN Null
      ELSE IF s.hash[n] = hash /\ KeyOf(s, n) = k THEN n
      ELSE FindFrom(s, t, s.next[n], k)

Find(s, t, k) ==
  IF BucketCount(s, t) = 0 THEN Null
  ELSE LET p == s.bucket[t][ConstrainHash(s.hasher[t][k], BucketCount(s, t))]
       IN  IF p = Null THEN Null ELSE FindFrom(s, t, s.next[p], k)

(* __equal_range_multi, and __count_multi: from find() on as long as the   *)
(* keys are equal.                                                         *)
EqualRange(s, t, k) ==
  LET nodes == IF Find(s, t, k) = Null THEN <<>> ELSE ChainFrom(s, Find(s, t, k))
      other == SelectInSeq(nodes, LAMBDA n : KeyOf(s, n) # k)
  IN  IF other = 0 THEN nodes ELSE SubSeq(nodes, 1, other - 1)
-----------------------------------------------------------------------------
(***************************************************************************)
(* Rehashing.                                                              *)
(***************************************************************************)
IsPrime(n) == n >= 2 /\ \A d \in 2..n - 1 : n % d # 0
NextPrime(n) ==
  IF n = 0 THEN 0
  ELSE CHOOSE p \in n..2 * n + 1 : IsPrime(p) /\ \A q \in n..p - 1 : ~IsPrime(q)

Powers == {2 ^ i : i \in 0..8}
IsHashPower2(bc) == bc > 2 /\ bc \in Powers
NextHashPower2(n) == IF n < 2 THEN n ELSE Min({p \in Powers : p >= n})

(* The buckets that size elements need at a load of at most n / d.         *)
Needed(size, load) == (size * load[2] + load[1] - 1) \div load[1]

(* Mutant: only the first of the equal nodes moves.                        *)
MoveGroupOneByOne(s, t, pp, cp) ==
  LET bp == s.bucket[t][BucketOf(s, t, cp)]
      s1 == [s EXCEPT !.next[pp] = s.next[cp]]
      s2 == [s1 EXCEPT !.next[cp] = s1.next[bp]]
  IN  [s2 EXCEPT !.next[bp] = cp]

(* Equal nodes from cp on, which a bucket before has, go to its beginning. *)
MoveGroup(s, t, pp, cp) ==
  LET np == LastIn(s, cp, {n \in Nodes : KeyOf(s, n) = KeyOf(s, cp)})
      bp == s.bucket[t][BucketOf(s, t, cp)]
      s1 == [s EXCEPT !.next[pp] = s.next[np]]
      s2 == [s1 EXCEPT !.next[np] = s1.next[bp]]
  IN  [s2 EXCEPT !.next[bp] = cp]

(* The loop of __rehash: pp is the last node in its place, of bucket b.    *)
RECURSIVE Redistribute(_, _, _, _)
Redistribute(s, t, pp, b) ==
  LET cp == s.next[pp]
      c  == BucketOf(s, t, cp)
  IN  IF cp = Null THEN s
      ELSE IF c = b THEN Redistribute(s, t, cp, b)
      ELSE IF s.bucket[t][c] = Null
           THEN Redistribute([s EXCEPT !.bucket[t][c] = pp], t, cp, c)
      ELSE Redistribute(MoveGroup(s, t, pp, cp), t, pp, b)

(* __rehash.                                                               *)
NewBuckets(s, t, n) ==
  LET s1 == [s EXCEPT !.bucket[t] = [i \in 1..n |-> Null]]
      cp == s.next[t]
  IN  IF n = 0 \/ cp = Null THEN s1
      ELSE LET b == BucketOf(s1, t, cp)
           IN  Redistribute([s1 EXCEPT !.bucket[t][b] = t], t, cp, b)

Rehashed(s, t, wanted) ==
  LET n     == IF wanted = 1 THEN 2
               ELSE IF wanted \in Powers \cup {0} THEN wanted ELSE NextPrime(wanted)
      bc    == BucketCount(s, t)
      least == IF IsHashPower2(bc) THEN NextHashPower2(Needed(s.size[t], s.load[t]))
               ELSE NextPrime(Needed(s.size[t], s.load[t]))
      fewer == Max({n, least})
  IN  IF n > bc THEN NewBuckets(s, t, n)
      ELSE IF n < bc /\ fewer < bc THEN NewBuckets(s, t, fewer)
      ELSE s

(* Room for one more element.                                              *)
Grown(s, t) ==
  LET bc   == BucketCount(s, t)
      more == s.size[t] + 1
  IN  IF bc = 0 \/ more * s.load[t][2] > bc * s.load[t][1]
      THEN Rehashed(s, t, Max({2 * bc + (IF IsHashPower2(bc) THEN 0 ELSE 1),
                               Needed(more, s.load[t])}))
      ELSE s
-----------------------------------------------------------------------------
(***************************************************************************)
(* Linking and unlinking.                                                  *)
(***************************************************************************)
(* n follows p.                                                            *)
Link(s, t, p, n) == [s EXCEPT !.next[n] = s.next[p], !.next[p] = n, !.size[t] = @ + 1]

(* n follows p and is in front of another bucket.                          *)
LinkBefore(s, t, p, n) ==
  LET x == s.next[p]
  IN  IF x = Null \/ InBucket(s, t, x, BucketOf(s, t, n)) THEN Link(s, t, p, n)
      ELSE [Link(s, t, p, n) EXCEPT !.bucket[t][BucketOf(s, t, x)] = n]

(* n is the first node of its bucket, and of the list.                     *)
LinkFirst(s, t, n) == LinkBefore([s EXCEPT !.bucket[t][BucketOf(s, t, n)] = t], t, t, n)

(* __node_insert_unique, where there is no node of the key.                *)
InsertFront(s, t, n) ==
  LET s1 == Grown(s, t)
      pn == s1.bucket[t][BucketOf(s1, t, n)]
  IN  IF pn = Null THEN LinkFirst(s1, t, n) ELSE Link(s1, t, pn, n)

(* __node_insert_multi: behind the equal nodes, or behind the bucket.      *)
InsertBehind(s, t, n) ==
  LET s1   == Grown(s, t)
      b    == BucketOf(s1, t, n)
      pn   == s1.bucket[t][b]
      same == {x \in Nodes : s1.hash[x] = s1.hash[n] /\ KeyOf(s1, x) = KeyOf(s1, n)}
      near == {x \in Nodes : InBucket(s1, t, x, b)}
      p    == LastIn(s1, LastIn(s1, pn, near \ same), near \cap same)
  IN  IF pn = Null THEN LinkFirst(s1, t, n) ELSE LinkBefore(s1, t, p, n)

(* __node_insert_multi with a hint p that is equal.                        *)
InsertAtHint(s, t, p, n) ==
  LET s1 == Grown([s EXCEPT !.hash[n] = s.hash[p]], t)
  IN  Link(s1, t, LastIn(s1, s1.bucket[t][BucketOf(s1, t, n)], Nodes \ {p}), n)

(* remove().                                                               *)
Unlinked(s, t, cn) ==
  LET b  == BucketOf(s, t, cn)
      pn == LastIn(s, s.bucket[t][b], Nodes \ {cn})
      x  == s.next[cn]
      alone == (pn = t \/ ~InBucket(s, t, pn, b)) /\ ~InBucket(s, t, x, b)
      s1 == IF alone THEN [s EXCEPT !.bucket[t][b] = Null] ELSE s
      s2 == IF x = Null \/ InBucket(s, t, x, b) THEN s1
            ELSE [s1 EXCEPT !.bucket[t][BucketOf(s, t, x)] = pn]
  IN  [s2 EXCEPT !.next[pn] = x, !.next[cn] = Null, !.size[t] = @ - 1]
-----------------------------------------------------------------------------
(***************************************************************************)
(* The operations.                                                         *)
(***************************************************************************)
Linked(t) == ToSet(Chain(tables, t))
Allocated == UNION {Linked(t) : t \in Tables} \cup dropped
Free == Nodes \ Allocated
Room == program.nodes - Cardinality(Allocated)

(* Which free node an allocation returns makes no difference.              *)
New == CHOOSE n \in Free : TRUE

Constructed(s, t, n, e) == [s EXCEPT !.value[n] = e, !.hash[n] = s.hasher[t][e[1]]]

(* The program gives a new element a tag that no equal one has.            *)
NewTag(t, k) ==
  Min(Tags \ {tables.value[n][2] : n \in {m \in Linked(t) : KeyOf(tables, m) = k}})

(* A node of freed memory.                                                 *)
Deleted(s, N) ==
  [s EXCEPT !.next = [n \in DOMAIN s.next |-> IF n \in N THEN Null ELSE s.next[n]],
            !.value = [n \in Nodes |-> IF n \in N THEN AnyValue ELSE s.value[n]],
            !.hash = [n \in Nodes |-> IF n \in N THEN 0 ELSE s.hash[n]]]

(* __emplace_unique_key_args: a key that is there changes nothing.         *)
InsertUnique(t, k) ==
  /\ unique /\ Room > 0
  /\ Find(tables, t, k) = Null
  /\ tables' = InsertFront(Constructed(tables, t, New, <<k, NewTag(t, k)>>), t, New)
  /\ UNCHANGED <<program, unique, dropped>>

(* __emplace_multi, and __emplace_hint_multi with a hint that is not equal.*)
InsertMulti(t, k) ==
  /\ ~unique /\ Room > 0
  /\ tables' = InsertBehind(Constructed(tables, t, New, <<k, NewTag(t, k)>>), t, New)
  /\ UNCHANGED <<program, unique, dropped>>

InsertMultiNear(t, p) ==
  /\ ~unique /\ Room > 0
  /\ p \in Linked(t)
  /\ LET k == KeyOf(tables, p)
     IN  tables' = InsertAtHint(Constructed(tables, t, New, <<k, NewTag(t, k)>>), t, p, New)
  /\ UNCHANGED <<program, unique, dropped>>

(* erase(iterator).                                                        *)
Erase(t, n) ==
  /\ n \in Linked(t)
  /\ tables' = Deleted(Unlinked(tables, t, n), {n})
  /\ UNCHANGED <<program, unique, dropped>>

(* __erase_unique and __erase_multi.                                       *)
EraseKey(t, k) ==
  LET nodes == EqualRange(tables, t, k)
  IN  /\ nodes # <<>>
      /\ tables' = Deleted(FoldLeft(LAMBDA s, n : Unlinked(s, t, n), tables, nodes), ToSet(nodes))
      /\ UNCHANGED <<program, unique, dropped>>

(* clear().                                                                *)
Cleared(s, t) ==
  IF s.size[t] = 0 THEN s
  ELSE Deleted([s EXCEPT !.next[t] = Null, !.size[t] = 0,
                         !.bucket[t] = [i \in DOMAIN @ |-> Null]],
               ToSet(Chain(s, t)))

Clear(t) ==
  /\ tables' = Cleared(tables, t)
  /\ UNCHANGED <<program, unique, dropped>>

(* rehash(), and reserve().                                                *)
Rehash(t, n) ==
  /\ tables' = Rehashed(tables, t, n)
  /\ UNCHANGED <<program, unique, dropped>>

(* max_load_factor(): not less than the load there is.                     *)
SetMaxLoadFactor(t, load) ==
  LET now == <<tables.size[t], BucketCount(tables, t)>>
  IN  /\ tables' = [tables EXCEPT !.load[t] =
                      IF now[1] * load[2] > load[1] * now[2] THEN now ELSE load]
      /\ UNCHANGED <<program, unique, dropped>>

(* Mutant: the first bucket goes on pointing at the old container.         *)
FixFirstForgotten(s, t) == s

(* The node before a list is a part of its container: after the list has   *)
(* changed hands, its first bucket has to point at the new one.            *)
FixFirst(s, t) ==
  IF s.size[t] = 0 THEN s ELSE [s EXCEPT !.bucket[t][BucketOf(s, t, s.next[t])] = t]

(* swap().                                                                 *)
Swap(t, u) ==
  /\ tables' =
       LET Exchanged(f) == [f EXCEPT ![t] = f[u], ![u] = f[t]]
           s == [tables EXCEPT !.next = Exchanged(@), !.bucket = Exchanged(@), !.size = Exchanged(@),
                               !.load = Exchanged(@), !.hasher = Exchanged(@)]
       IN  FixFirst(FixFirst(s, t), u)
  /\ UNCHANGED <<program, unique, dropped>>

(* __move_assign, with equal allocators.                                   *)
MoveAssign(t, u) ==
  /\ tables' =
       LET s1 == Cleared(tables, t)
           s2 == [s1 EXCEPT !.bucket[t] = s1.bucket[u], !.bucket[u] = <<>>,
                            !.size[t] = s1.size[u], !.load[t] = s1.load[u],
                            !.hasher[t] = s1.hasher[u], !.next[t] = s1.next[u]]
       IN  IF s2.size[t] = 0 THEN s2
           ELSE [FixFirst(s2, t) EXCEPT !.next[u] = Null, !.size[u] = 0]
  /\ UNCHANGED <<program, unique, dropped>>

(* One element of an assignment: it goes into a node of the cache as long  *)
(* as there are any.  __node_insert_unique does not link the node of a key *)
(* that is there, and nobody frees it.                                     *)
Place(a, t, e, once) ==
  LET n    == IF a.cache = <<>> THEN CHOOSE m \in a.free : TRUE ELSE Head(a.cache)
      s    == Constructed(a.tables, t, n, e)
      rest == IF a.cache = <<>> THEN [a EXCEPT !.free = @ \ {n}] ELSE [a EXCEPT !.cache = Tail(@)]
  IN  IF ~once THEN [rest EXCEPT !.tables = InsertBehind(s, t, n)]
      ELSE IF Find(a.tables, t, e[1]) = Null THEN [rest EXCEPT !.tables = InsertFront(s, t, n)]
      ELSE IF a.cache = <<>> THEN a
      ELSE [rest EXCEPT !.dropped = @ \cup {n}, !.tables = Deleted(@, {n})]

(* __assign_unique and __assign_multi.  When something throws on the way,  *)
(* the table holds what was assigned up to then: the rest of the cache is  *)
(* freed, as after a shorter list.                                         *)
Assigned(s, t, list, once) ==
  LET detached == [s EXCEPT !.next[t] = Null, !.size[t] = 0,
                            !.bucket[t] = [i \in DOMAIN @ |-> Null]]
      a == FoldLeft(LAMBDA b, e : Place(b, t, e, once),
                    [tables |-> detached, cache |-> Chain(s, t), free |-> Free, dropped |-> dropped],
                    list)
  IN  [a EXCEPT !.tables = Deleted(@, ToSet(a.cache))]

AssignList(t, list) ==
  LET a == Assigned(tables, t, list, unique)
  IN  /\ Len(list) <= Room + tables.size[t]
      /\ Cardinality(a.dropped) <= MaxDropped
      /\ tables' = a.tables /\ dropped' = a.dropped
      /\ UNCHANGED <<program, unique>>

Values(s, nodes) == [i \in DOMAIN nodes |-> s.value[nodes[i]]]

(* operator=: a copy of u.                                                 *)
CopyAssign(t, u) ==
  LET list == Values(tables, Chain(tables, u))
      s    == [tables EXCEPT !.hasher[t] = tables.hasher[u], !.load[t] = tables.load[u]]
  IN  /\ Len(list) <= Room + tables.size[t]
      /\ tables' = Assigned(s, t, list, FALSE).tables
      /\ UNCHANGED <<program, unique, dropped>>

Step ==
  \E t \in program.tables :
    \/ \E k \in Keys : InsertUnique(t, k) \/ InsertMulti(t, k) \/ EraseKey(t, k)
    \/ \E n \in Nodes : InsertMultiNear(t, n) \/ Erase(t, n)
    \/ Clear(t)
    \/ \E n \in program.counts : Rehash(t, n)
    \/ \E load \in program.loads : SetMaxLoadFactor(t, load)
    \/ \E list \in program.lists : AssignList(t, list)
    \/ \E u \in program.tables \ {t} : Swap(t, u) \/ MoveAssign(t, u) \/ CopyAssign(t, u)

Next ==
  /\ Step
  /\ found' = [t \in Tables |-> [k \in Keys |-> Values(tables', EqualRange(tables', t, k))]]

Spec == Init /\ [][Next]_hvars
-----------------------------------------------------------------------------
(* Each bucket points at the node before the first of its own, which stand *)
(* together, or is empty; size() counts the nodes; each has the hash of    *)
(* its key; and the load is within max_load_factor().  No node is in two   *)
(* containers.                                                             *)
BucketsExact ==
  \A t \in Tables :
    LET s     == tables
        nodes == Chain(s, t)
        list  == <<t>> \o nodes
        Of(i) == BucketOf(s, t, nodes[i])
        First(b) == SelectInSeq(nodes, LAMBDA n : BucketOf(s, t, n) = b)
    IN  /\ s.size[t] = Len(nodes)
        /\ nodes # <<>> => BucketCount(s, t) > 0
        /\ \A b \in DOMAIN s.bucket[t] :
              s.bucket[t][b] = IF First(b) = 0 THEN Null ELSE list[First(b)]
        /\ \A i, j \in DOMAIN nodes :
              i <= j /\ Of(i) = Of(j) => \A m \in i..j : Of(m) = Of(i)
        /\ \A n \in ToSet(nodes) : s.hash[n] = s.hasher[t][KeyOf(s, n)]
        /\ s.size[t] * s.load[t][2] <= BucketCount(s, t) * s.load[t][1]
        /\ \A u \in Tables \ {t} : ToSet(nodes) \cap ToSet(Chain(s, u)) = {}

EG == INSTANCE EqualGroups WITH groups <- found

(* What equal_range() finds of each key are the elements of that key that  *)
(* were inserted and not erased, in their order, through every rehash,     *)
(* swap and assignment.                                                    *)
ImplementsEqualGroups == EG!EGSpec
==============================================================================
