--------------------------- MODULE SharedCountProofs ---------------------------
(***************************************************************************)
(* The control block is safe for any number of threads and references: the *)
(* counts are exact, nothing is touched after it is freed, and the object  *)
(* and the block are destroyed once and in time.                           *)
(***************************************************************************)
EXTENDS SharedCount, FiniteSetTheorems, TLAPS

Dropping(t) == pc[t] \in {"weakLoad", "weakDec"}

(* A weak reference that is being destroyed belongs to one thread, and     *)
(* each such thread has one.                                               *)
DropsMatch ==
  /\ \A t \in Threads : Dropping(t) => kind[ref[t]] = "dropping"
  /\ \A t, u \in Threads : Dropping(t) /\ Dropping(u) /\ ref[t] = ref[u] => t = u
  /\ \A r \in References : kind[r] = "dropping" => \E t \in Threads : Dropping(t) /\ ref[t] = r

(* The weak reference a lock() reads stays, and its result is its own.     *)
LocksMatch ==
  /\ \A t \in Threads : pc[t] = "cas" =>
       /\ ref[t] \in Handles /\ kind[ref[t]] = "weak"
       /\ out[t] \in Handles /\ kind[out[t]] = "pending"
       /\ seen[t] \in Nat
  /\ \A t, u \in Threads : pc[t] = "cas" /\ pc[u] = "cas" /\ out[t] = out[u] => t = u
  /\ \A h \in Handles : kind[h] = "pending" => \E t \in Threads : pc[t] = "cas" /\ out[t] = h

(* The owners' weak reference outlives them, and the object's own weak     *)
(* reference goes before it.                                               *)
GroupInPhase ==
  /\ kind[Group] \in {"none", "weak", "dropping"}
  /\ kind[Self] \in {"none", "weak", "dropping"}
  /\ object = "alive" => kind[Group] = "weak" /\ kind[Self] # "dropping"
  /\ object = "dead" => kind[Self] # "weak"
  /\ object = "dead" /\ kind[Group] = "weak" => kind[Self] = "dropping"
  /\ kind[Self] = "dropping" => kind[Group] = "weak"

OneDestroyer ==
  /\ Shared # {} => object = "alive"
  /\ \A t \in Threads : pc[t] = "destroy" => Shared = {} /\ object = "alive"
  /\ \A t, u \in Threads : pc[t] = "destroy" /\ pc[u] = "destroy" => t = u
  /\ object = "alive" /\ Shared = {} => \E t \in Threads : pc[t] = "destroy"

OneFreer ==
  /\ \A t \in Threads : pc[t] = "free" => WeakRefs = {} /\ block = "live"
  /\ \A t, u \in Threads : pc[t] = "free" /\ pc[u] = "free" => t = u
  /\ block = "freed" => WeakRefs = {}
  /\ WeakRefs = {} /\ block = "live" => \E t \in Threads : pc[t] = "free"

IInv ==
  /\ TypeOK /\ CountsExact
  /\ DropsMatch /\ LocksMatch /\ GroupInPhase /\ OneDestroyer /\ OneFreer

-----------------------------------------------------------------------------
LEMMA SetsFinite ==
  ASSUME TypeOK
  PROVE  /\ IsFiniteSet(Shared) /\ Cardinality(Shared) \in Nat
         /\ IsFiniteSet(WeakRefs) /\ Cardinality(WeakRefs) \in Nat
         /\ Cardinality(Shared) = 0 <=> Shared = {}
         /\ Cardinality(WeakRefs) = 0 <=> WeakRefs = {}
<1>1. IsFiniteSet(Handles \cup {Group}) /\ IsFiniteSet((Handles \cup {Group}) \cup {Self})
  BY FS_AddElement, SharedCountAssumption
<1>2. Shared \subseteq Handles /\ WeakRefs \subseteq ((Handles \cup {Group}) \cup {Self})
  BY DEF Shared, WeakRefs, References
<1>3. IsFiniteSet(Shared) /\ IsFiniteSet(WeakRefs)
  BY <1>1, <1>2, FS_Subset, SharedCountAssumption
<1>4. QED
  BY <1>3, FS_CardinalityType, FS_EmptySet

LEMMA EmptyCount == Cardinality({}) = 0
BY FS_EmptySet

(* One reference more, or one less.                                        *)
LEMMA Counting ==
  ASSUME TypeOK, NEW r
  PROVE  /\ r \notin Shared => Cardinality(Shared \cup {r}) = Cardinality(Shared) + 1
         /\ r \in Shared => Cardinality(Shared \ {r}) = Cardinality(Shared) - 1
         /\ r \notin WeakRefs => Cardinality(WeakRefs \cup {r}) = Cardinality(WeakRefs) + 1
         /\ r \in WeakRefs => Cardinality(WeakRefs \ {r}) = Cardinality(WeakRefs) - 1
BY SetsFinite, FS_AddElement, FS_RemoveElement

(* The only weak reference, counted.                                       *)
LEMMA LastWeak ==
  ASSUME TypeOK, NEW r \in WeakRefs, Cardinality(WeakRefs) = 1
  PROVE  WeakRefs = {r}
<1>1. IsFiniteSet(WeakRefs)
  BY SetsFinite
<1>2. IsFiniteSet(WeakRefs \ {r}) /\ Cardinality(WeakRefs \ {r}) = 0
  BY <1>1, FS_RemoveElement
<1>3. QED
  BY <1>2, FS_EmptySet

(* The sets of counted references after one of them has changed its kind.  *)
LEMMA KindChange ==
  ASSUME TypeOK, NEW r \in References, NEW k \in Kinds, kind' = [kind EXCEPT ![r] = k]
  PROVE  /\ Shared' = IF k = "shared" /\ r \in Handles THEN Shared \cup {r} ELSE Shared \ {r}
         /\ WeakRefs' = IF k \in {"weak", "dropping"} THEN WeakRefs \cup {r} ELSE WeakRefs \ {r}
         /\ kind'[r] = k
         /\ \A q \in References \ {r} : kind'[q] = kind[q]
         /\ kind' \in [References -> Kinds]
BY DEF TypeOK, Shared, WeakRefs, References

LEMMA Moved ==
  ASSUME TypeOK, NEW t \in Threads, NEW label \in Labels, Goto(t, label)
  PROVE  /\ pc'[t] = label
         /\ \A u \in Threads \ {t} : pc'[u] = pc[u]
         /\ pc' \in [Threads -> Labels]
BY DEF TypeOK, Goto

LEMMA SameKinds ==
  ASSUME kind' = kind
  PROVE  Shared' = Shared /\ WeakRefs' = WeakRefs
BY DEF Shared, WeakRefs

-----------------------------------------------------------------------------
LEMMA CopySharedKeeps ==
  ASSUME IInv, NEW t \in Threads, NEW h \in Handles, NEW new \in Handles, CopyShared(t, h, new)
  PROVE  IInv'
<1> USE DEF References
<1>1. /\ kind' = [kind EXCEPT ![new] = "shared"] /\ kind[new] = "none" /\ kind[h] = "shared"
      /\ sharedOwners' = sharedOwners + 1
      /\ UNCHANGED <<weakOwners, object, block, pc, ref, out, seen>>
  BY DEF CopyShared
<1>2. /\ Shared' = Shared \cup {new} /\ new \notin Shared /\ h \in Shared
      /\ WeakRefs' = WeakRefs
      /\ kind'[new] = "shared" /\ \A q \in References \ {new} : kind'[q] = kind[q]
      /\ kind' \in [References -> Kinds]
  BY <1>1, KindChange DEF Kinds, Shared, WeakRefs, IInv
<1>3. CountsExact'
  <2>1. sharedOwners = Cardinality(Shared) - 1 /\ Cardinality(Shared) \in Nat
    BY SetsFinite DEF IInv, CountsExact
  <2>2. Cardinality(Shared') = Cardinality(Shared) + 1
    BY <1>2, Counting DEF IInv
  <2>3. sharedOwners' = Cardinality(Shared') - 1
    BY <1>1, <2>1, <2>2
  <2>4. QED
    BY <1>1, <1>2, <2>3 DEF IInv, CountsExact
<1>4. TypeOK'
  BY <1>1, <1>2 DEF IInv, TypeOK
<1>5. DropsMatch'
  BY <1>1, <1>2 DEF IInv, TypeOK, DropsMatch, Dropping
<1>6. LocksMatch'
  BY <1>1, <1>2 DEF IInv, TypeOK, LocksMatch
<1>7. GroupInPhase' /\ OneDestroyer' /\ OneFreer'
  BY <1>1, <1>2, SharedCountAssumption DEF IInv, GroupInPhase, OneDestroyer, OneFreer
<1>8. QED
  BY <1>3, <1>4, <1>5, <1>6, <1>7 DEF IInv

LEMMA MakeWeakKeeps ==
  ASSUME IInv, NEW t \in Threads, NEW h \in Handles, NEW new \in Handles, MakeWeak(t, h, new)
  PROVE  IInv'
<1> USE DEF References
<1>1. /\ kind' = [kind EXCEPT ![new] = "weak"] /\ kind[new] = "none"
      /\ kind[h] \in {"shared", "weak"}
      /\ weakOwners' = weakOwners + 1
      /\ UNCHANGED <<sharedOwners, object, block, pc, ref, out, seen>>
  BY DEF MakeWeak
<1>2. /\ Shared' = Shared
      /\ WeakRefs' = WeakRefs \cup {new} /\ new \notin WeakRefs
      /\ kind'[new] = "weak" /\ \A q \in References \ {new} : kind'[q] = kind[q]
      /\ kind' \in [References -> Kinds]
  BY <1>1, KindChange DEF Kinds, Shared, WeakRefs, IInv
<1>3. WeakRefs # {} /\ block = "live" /\ \A u \in Threads : pc[u] # "free"
  <2>1. WeakRefs # {}
    BY <1>1 DEF IInv, OneDestroyer, GroupInPhase, Shared, WeakRefs
  <2>2. QED
    BY <2>1 DEF IInv, TypeOK, OneFreer
<1>4. CountsExact'
  <2>1. weakOwners = Cardinality(WeakRefs) - 1 /\ Cardinality(WeakRefs) \in Nat
    BY <1>3, SetsFinite DEF IInv, CountsExact
  <2>2. Cardinality(WeakRefs') = Cardinality(WeakRefs) + 1
    BY <1>2, Counting DEF IInv
  <2>3. weakOwners' = Cardinality(WeakRefs') - 1
    BY <1>1, <2>1, <2>2
  <2>4. QED
    BY <1>1, <1>2, <2>3 DEF IInv, CountsExact
<1>5. TypeOK'
  BY <1>1, <1>2 DEF IInv, TypeOK
<1>6. DropsMatch'
  BY <1>1, <1>2 DEF IInv, TypeOK, DropsMatch, Dropping
<1>7. LocksMatch'
  BY <1>1, <1>2 DEF IInv, TypeOK, LocksMatch
<1>8. GroupInPhase' /\ OneDestroyer' /\ OneFreer'
  BY <1>1, <1>2, <1>3, SharedCountAssumption DEF IInv, GroupInPhase, OneDestroyer, OneFreer
<1>9. QED
  BY <1>4, <1>5, <1>6, <1>7, <1>8 DEF IInv

LEMMA LockLoadKeeps ==
  ASSUME IInv, NEW t \in Threads, NEW h \in Handles, NEW new \in Handles, LockLoad(t, h, new)
  PROVE  IInv'
<1> USE DEF References
<1>1. /\ kind' = [kind EXCEPT ![new] = "pending"] /\ kind[new] = "none" /\ kind[h] = "weak"
      /\ seen' = [seen EXCEPT ![t] = sharedOwners] /\ sharedOwners # -1
      /\ ref' = [ref EXCEPT ![t] = h] /\ out' = [out EXCEPT ![t] = new]
      /\ pc[t] = "idle" /\ Goto(t, "cas")
      /\ UNCHANGED <<sharedOwners, weakOwners, object, block>>
  BY DEF LockLoad
<1>2. /\ Shared' = Shared /\ WeakRefs' = WeakRefs
      /\ kind'[new] = "pending" /\ \A q \in References \ {new} : kind'[q] = kind[q]
      /\ kind' \in [References -> Kinds]
  BY <1>1, KindChange DEF Kinds, Shared, WeakRefs, IInv
<1>3. /\ pc'[t] = "cas" /\ pc' \in [Threads -> Labels]
      /\ \A u \in Threads \ {t} : pc'[u] = pc[u]
  BY <1>1, Moved DEF IInv, Labels
<1>4. CountsExact'
  BY <1>1, <1>2 DEF IInv, CountsExact
<1>5. TypeOK'
  <2>1. sharedOwners \in Nat /\ sharedOwners \in Int
    BY <1>1 DEF IInv, TypeOK
  <2>2. QED
    BY <1>1, <1>2, <1>3, <2>1 DEF IInv, TypeOK
<1>6. DropsMatch'
  BY <1>1, <1>2, <1>3 DEF IInv, TypeOK, DropsMatch, Dropping
<1>7. LocksMatch'
  BY <1>1, <1>2, <1>3 DEF IInv, TypeOK, LocksMatch
<1>8. GroupInPhase' /\ OneDestroyer' /\ OneFreer'
  BY <1>1, <1>2, <1>3, SharedCountAssumption DEF IInv, GroupInPhase, OneDestroyer, OneFreer
<1>9. QED
  BY <1>4, <1>5, <1>6, <1>7, <1>8 DEF IInv

LEMMA LockCasKeeps ==
  ASSUME IInv, NEW t \in Threads, LockCas(t)
  PROVE  IInv'
<1> USE DEF References
<1>1. /\ pc[t] = "cas" /\ ref[t] \in Handles /\ out[t] \in Handles
      /\ kind[ref[t]] = "weak" /\ kind[out[t]] = "pending" /\ seen[t] \in Nat
      /\ UNCHANGED <<weakOwners, object, block, ref, out>>
  BY DEF LockCas, IInv, LocksMatch
<1>2. CASE sharedOwners = seen[t]
  <2>1. /\ sharedOwners' = sharedOwners + 1 /\ UNCHANGED seen
        /\ kind' = [kind EXCEPT ![out[t]] = "shared"] /\ Goto(t, "idle")
    BY <1>2 DEF LockCas
  <2>2. /\ Shared' = Shared \cup {out[t]} /\ out[t] \notin Shared
        /\ WeakRefs' = WeakRefs
        /\ kind'[out[t]] = "shared" /\ \A q \in References \ {out[t]} : kind'[q] = kind[q]
        /\ kind' \in [References -> Kinds]
    BY <1>1, <2>1, KindChange DEF Kinds, Shared, WeakRefs, IInv
  <2>3. /\ pc'[t] = "idle" /\ pc' \in [Threads -> Labels]
        /\ \A u \in Threads \ {t} : pc'[u] = pc[u]
    BY <2>1, Moved DEF IInv, Labels
  <2>4. sharedOwners = Cardinality(Shared) - 1 /\ Cardinality(Shared) \in Nat
        /\ sharedOwners \in Nat
    BY <1>1, <1>2, SetsFinite DEF IInv, CountsExact
  <2>5. Shared # {}
    BY <2>4, SetsFinite DEF IInv
  <2>6. sharedOwners' = Cardinality(Shared') - 1
    <3>1. Cardinality(Shared') = Cardinality(Shared) + 1
      BY <2>2, Counting DEF IInv
    <3>2. QED
      BY <2>1, <2>4, <3>1
  <2>7. CountsExact'
    BY <1>1, <2>2, <2>6 DEF IInv, CountsExact
  <2>8. TypeOK'
    BY <1>1, <2>1, <2>2, <2>3, <2>4 DEF IInv, TypeOK
  <2>9. DropsMatch'
    BY <1>1, <2>1, <2>2, <2>3 DEF IInv, TypeOK, DropsMatch, Dropping
  <2>10. LocksMatch'
    BY <1>1, <2>1, <2>2, <2>3 DEF IInv, TypeOK, LocksMatch
  <2>11. GroupInPhase' /\ OneDestroyer' /\ OneFreer'
    BY <1>1, <2>1, <2>2, <2>3, <2>5, SharedCountAssumption
    DEF IInv, GroupInPhase, OneDestroyer, OneFreer
  <2>12. QED
    BY <2>7, <2>8, <2>9, <2>10, <2>11 DEF IInv
<1>3. CASE sharedOwners # seen[t] /\ sharedOwners # -1
  <2>1. seen' = [seen EXCEPT ![t] = sharedOwners] /\ UNCHANGED <<sharedOwners, kind, pc>>
    BY <1>3 DEF LockCas
  <2>2. Shared' = Shared /\ WeakRefs' = WeakRefs
    BY <2>1, SameKinds
  <2>3. sharedOwners \in Nat /\ sharedOwners \in Int
    BY <1>3 DEF IInv, TypeOK
  <2>4. TypeOK' /\ CountsExact'
    BY <1>1, <2>1, <2>2, <2>3 DEF IInv, TypeOK, CountsExact
  <2>5. LocksMatch'
    BY <1>1, <2>1, <2>3 DEF IInv, TypeOK, LocksMatch
  <2>6. DropsMatch' /\ GroupInPhase' /\ OneDestroyer' /\ OneFreer'
    BY <1>1, <2>1, <2>2 DEF IInv, DropsMatch, Dropping, GroupInPhase, OneDestroyer, OneFreer
  <2>7. QED
    BY <2>4, <2>5, <2>6 DEF IInv
<1>4. CASE sharedOwners # seen[t] /\ sharedOwners = -1
  <2>1. /\ UNCHANGED <<sharedOwners, seen>>
        /\ kind' = [kind EXCEPT ![out[t]] = "none"] /\ Goto(t, "idle")
    BY <1>4 DEF LockCas
  <2>2. /\ Shared' = Shared /\ WeakRefs' = WeakRefs
        /\ kind'[out[t]] = "none" /\ \A q \in References \ {out[t]} : kind'[q] = kind[q]
        /\ kind' \in [References -> Kinds]
    BY <1>1, <2>1, KindChange DEF Kinds, Shared, WeakRefs, IInv
  <2>3. /\ pc'[t] = "idle" /\ pc' \in [Threads -> Labels]
        /\ \A u \in Threads \ {t} : pc'[u] = pc[u]
    BY <2>1, Moved DEF IInv, Labels
  <2>4. TypeOK' /\ CountsExact'
    BY <1>1, <2>1, <2>2, <2>3 DEF IInv, TypeOK, CountsExact
  <2>5. DropsMatch'
    BY <1>1, <2>1, <2>2, <2>3 DEF IInv, TypeOK, DropsMatch, Dropping
  <2>6. LocksMatch'
    BY <1>1, <2>1, <2>2, <2>3 DEF IInv, TypeOK, LocksMatch
  <2>7. GroupInPhase' /\ OneDestroyer' /\ OneFreer'
    BY <1>1, <2>1, <2>2, <2>3, SharedCountAssumption
    DEF IInv, GroupInPhase, OneDestroyer, OneFreer
  <2>8. QED
    BY <2>4, <2>5, <2>6, <2>7 DEF IInv
<1>5. QED
  BY <1>2, <1>3, <1>4

LEMMA ReleaseSharedKeeps ==
  ASSUME IInv, NEW t \in Threads, NEW h \in Handles, ReleaseShared(t, h)
  PROVE  IInv'
<1> USE DEF References
<1>1. /\ pc[t] = "idle" /\ kind[h] = "shared"
      /\ kind' = [kind EXCEPT ![h] = "none"]
      /\ sharedOwners' = sharedOwners - 1
      /\ Goto(t, IF sharedOwners' = -1 THEN "destroy" ELSE "idle")
      /\ UNCHANGED <<weakOwners, object, block, ref, out, seen>>
  BY DEF ReleaseShared
<1>2. /\ Shared' = Shared \ {h} /\ h \in Shared
      /\ WeakRefs' = WeakRefs
      /\ kind'[h] = "none" /\ \A q \in References \ {h} : kind'[q] = kind[q]
      /\ kind' \in [References -> Kinds]
  BY <1>1, KindChange DEF Kinds, Shared, WeakRefs, IInv
<1>3. /\ pc'[t] = (IF sharedOwners' = -1 THEN "destroy" ELSE "idle")
      /\ pc' \in [Threads -> Labels]
      /\ \A u \in Threads \ {t} : pc'[u] = pc[u]
  BY <1>1, Moved DEF IInv, Labels
<1>4. /\ sharedOwners = Cardinality(Shared) - 1 /\ Cardinality(Shared) \in Nat
      /\ Cardinality(Shared') = Cardinality(Shared) - 1 /\ Cardinality(Shared) # 0
      /\ IsFiniteSet(Shared')
  BY <1>2, Counting, SetsFinite, FS_RemoveElement DEF IInv, CountsExact
<1>5. /\ sharedOwners' = Cardinality(Shared') - 1
      /\ sharedOwners' \in Nat \cup {-1}
  BY <1>1, <1>4
<1>6. sharedOwners' = -1 <=> Shared' = {}
  <2>1. Cardinality(Shared') = 0 <=> Shared' = {}
    BY <1>4, FS_EmptySet
  <2>2. QED
    BY <2>1, <1>4, <1>5
<1>7. CountsExact'
  BY <1>1, <1>2, <1>5 DEF IInv, CountsExact
<1>8. TypeOK'
  BY <1>1, <1>2, <1>3, <1>5 DEF IInv, TypeOK
<1>9. DropsMatch'
  BY <1>1, <1>2, <1>3 DEF IInv, TypeOK, DropsMatch, Dropping
<1>10. LocksMatch'
  BY <1>1, <1>2, <1>3 DEF IInv, TypeOK, LocksMatch
<1>11. OneDestroyer'
  BY <1>1, <1>2, <1>3, <1>6 DEF IInv, OneDestroyer
<1>12. GroupInPhase' /\ OneFreer'
  BY <1>1, <1>2, <1>3, SharedCountAssumption DEF IInv, GroupInPhase, OneFreer
<1>13. QED
  BY <1>7, <1>8, <1>9, <1>10, <1>11, <1>12 DEF IInv

LEMMA DestroyObjectKeeps ==
  ASSUME IInv, NEW t \in Threads, DestroyObject(t)
  PROVE  IInv'
<1> USE DEF References
<1> DEFINE r == IF kind[Self] = "weak" THEN Self ELSE Group
<1>1. /\ pc[t] = "destroy" /\ object' = "dead"
      /\ kind' = [kind EXCEPT ![r] = "dropping"]
      /\ ref' = [ref EXCEPT ![t] = r] /\ Goto(t, "weakLoad")
      /\ UNCHANGED <<sharedOwners, weakOwners, block, out, seen>>
  BY DEF DestroyObject, BeginReleaseWeak
<1>2. /\ object = "alive" /\ Shared = {} /\ kind[Group] = "weak"
      /\ kind[Self] \in {"none", "weak"} /\ kind[r] = "weak"
  BY <1>1 DEF IInv, OneDestroyer, GroupInPhase
<1>3. r \in {Group, Self} /\ (kind[Self] = "weak" => r = Self) /\ (kind[Self] # "weak" => r = Group)
  OBVIOUS
<1> HIDE DEF r
<1>4. /\ Shared' = Shared /\ WeakRefs' = WeakRefs
      /\ kind'[r] = "dropping" /\ \A q \in References \ {r} : kind'[q] = kind[q]
      /\ kind' \in [References -> Kinds]
  BY <1>1, <1>2, <1>3, KindChange, SharedCountAssumption DEF Kinds, Shared, WeakRefs, IInv
<1>5. /\ pc'[t] = "weakLoad" /\ pc' \in [Threads -> Labels]
      /\ \A u \in Threads \ {t} : pc'[u] = pc[u]
  BY <1>1, Moved DEF IInv, Labels
<1>6. TypeOK' /\ CountsExact'
  BY <1>1, <1>3, <1>4, <1>5 DEF IInv, TypeOK, CountsExact
<1>7. DropsMatch'
  BY <1>1, <1>2, <1>3, <1>4, <1>5 DEF IInv, TypeOK, DropsMatch, Dropping
<1>8. LocksMatch'
  BY <1>1, <1>3, <1>4, <1>5, SharedCountAssumption DEF IInv, TypeOK, LocksMatch
<1>9. OneDestroyer' /\ OneFreer'
  BY <1>1, <1>2, <1>4, <1>5 DEF IInv, OneDestroyer, OneFreer
<1>10. GroupInPhase'
  BY <1>1, <1>2, <1>3, <1>4, SharedCountAssumption DEF IInv, GroupInPhase
<1>11. QED
  BY <1>6, <1>7, <1>8, <1>9, <1>10 DEF IInv

LEMMA ReleaseWeakKeeps ==
  ASSUME IInv, NEW t \in Threads, NEW h \in Handles, ReleaseWeak(t, h)
  PROVE  IInv'
<1> USE DEF References
<1>1. /\ pc[t] = "idle" /\ kind[h] = "weak" /\ ~InUse(h)
      /\ kind' = [kind EXCEPT ![h] = "dropping"]
      /\ ref' = [ref EXCEPT ![t] = h] /\ Goto(t, "weakLoad")
      /\ UNCHANGED <<sharedOwners, weakOwners, object, block, out, seen>>
  BY DEF ReleaseWeak, BeginReleaseWeak
<1>2. /\ Shared' = Shared /\ WeakRefs' = WeakRefs /\ h \in WeakRefs
      /\ kind'[h] = "dropping" /\ \A q \in References \ {h} : kind'[q] = kind[q]
      /\ kind' \in [References -> Kinds]
  BY <1>1, KindChange DEF Kinds, Shared, WeakRefs, IInv
<1>3. /\ pc'[t] = "weakLoad" /\ pc' \in [Threads -> Labels]
      /\ \A u \in Threads \ {t} : pc'[u] = pc[u]
  BY <1>1, Moved DEF IInv, Labels
<1>4. TypeOK' /\ CountsExact'
  BY <1>1, <1>2, <1>3 DEF IInv, TypeOK, CountsExact
<1>5. DropsMatch'
  BY <1>1, <1>2, <1>3 DEF IInv, TypeOK, DropsMatch, Dropping
<1>6. LocksMatch'
  BY <1>1, <1>2, <1>3 DEF IInv, TypeOK, LocksMatch, InUse
<1>7. OneDestroyer' /\ OneFreer'
  BY <1>1, <1>2, <1>3 DEF IInv, OneDestroyer, OneFreer
<1>8. GroupInPhase'
  BY <1>1, <1>2, SharedCountAssumption DEF IInv, GroupInPhase
<1>9. QED
  BY <1>4, <1>5, <1>6, <1>7, <1>8 DEF IInv

(* The block is going to be freed: the last weak reference is uncounted.   *)
LEMMA LastWeakGone ==
  ASSUME IInv, NEW t \in Threads, Dropping(t), WeakRefs = {ref[t]},
         kind' = [kind EXCEPT ![ref[t]] = "none"], Goto(t, "free"),
         weakOwners' \in Nat \cup {-1},
         UNCHANGED <<sharedOwners, object, block, ref, out, seen>>
  PROVE  IInv'
<1> USE DEF References
<1>1. kind[ref[t]] = "dropping" /\ ref[t] \in References
  BY DEF IInv, DropsMatch, TypeOK
<1>2. /\ Shared' = Shared /\ WeakRefs' = {}
      /\ kind'[ref[t]] = "none" /\ \A q \in References \ {ref[t]} : kind'[q] = kind[q]
      /\ kind' \in [References -> Kinds]
  BY <1>1, KindChange DEF Kinds, Shared, IInv
<1>3. /\ pc'[t] = "free" /\ pc' \in [Threads -> Labels]
      /\ \A u \in Threads \ {t} : pc'[u] = pc[u]
  BY Moved DEF IInv, Labels
<1>4. /\ \A q \in References \ {ref[t]} : kind[q] \notin {"weak", "dropping"}
      /\ block = "live" /\ \A u \in Threads : pc[u] # "free"
  BY DEF WeakRefs, IInv, OneFreer, TypeOK
<1>5. TypeOK' /\ CountsExact'
  BY <1>2, <1>3 DEF IInv, TypeOK, CountsExact
<1>6. DropsMatch'
  BY <1>1, <1>2, <1>3, <1>4 DEF IInv, TypeOK, DropsMatch, Dropping
<1>7. LocksMatch'
  BY <1>1, <1>2, <1>3, <1>4 DEF IInv, TypeOK, LocksMatch, Dropping
<1>8. OneDestroyer'
  BY <1>2, <1>3 DEF IInv, OneDestroyer, Dropping
<1>9. OneFreer'
  BY <1>2, <1>3, <1>4 DEF IInv, OneFreer
<1>10. GroupInPhase'
  BY <1>1, <1>2, <1>4, SharedCountAssumption DEF IInv, GroupInPhase
<1>11. QED
  BY <1>5, <1>6, <1>7, <1>8, <1>9, <1>10 DEF IInv

LEMMA WeakLoadKeeps ==
  ASSUME IInv, NEW t \in Threads, WeakLoad(t)
  PROVE  IInv'
<1>1. /\ Dropping(t) /\ pc[t] = "weakLoad"
      /\ UNCHANGED <<sharedOwners, weakOwners, object, block, ref, out, seen>>
  BY DEF WeakLoad, Dropping
<1>2. ref[t] \in WeakRefs
  BY <1>1 DEF WeakRefs, IInv, DropsMatch, TypeOK
<1>3. CASE weakOwners = 0
  <2>1. Cardinality(WeakRefs) = 1
    BY <1>2, <1>3, SetsFinite DEF IInv, CountsExact
  <2>2. WeakRefs = {ref[t]}
    BY <1>2, <2>1, LastWeak DEF IInv
  <2>3. weakOwners' \in Nat \cup {-1}
    BY <1>1 DEF IInv, TypeOK
  <2>4. QED
    BY <1>1, <1>3, <2>2, <2>3, LastWeakGone DEF WeakLoad
<1>4. CASE weakOwners # 0
  <2>1. UNCHANGED kind /\ Goto(t, "weakDec")
    BY <1>4 DEF WeakLoad
  <2>2. Shared' = Shared /\ WeakRefs' = WeakRefs
    BY <2>1, SameKinds
  <2>3. /\ pc'[t] = "weakDec" /\ pc' \in [Threads -> Labels]
        /\ \A u \in Threads \ {t} : pc'[u] = pc[u]
    BY <2>1, Moved DEF IInv, Labels
  <2>4. TypeOK' /\ CountsExact'
    BY <1>1, <2>1, <2>2, <2>3 DEF IInv, TypeOK, CountsExact
  <2>5. DropsMatch'
    BY <1>1, <2>1, <2>3 DEF IInv, TypeOK, DropsMatch, Dropping
  <2>6. LocksMatch' /\ OneDestroyer' /\ OneFreer' /\ GroupInPhase'
    BY <1>1, <2>1, <2>2, <2>3 DEF IInv, LocksMatch, OneDestroyer, OneFreer, GroupInPhase
  <2>7. QED
    BY <2>4, <2>5, <2>6 DEF IInv
<1>5. QED
  BY <1>3, <1>4

LEMMA WeakDecrementKeeps ==
  ASSUME IInv, NEW t \in Threads, WeakDecrement(t)
  PROVE  IInv'
<1> USE DEF References
<1>1. /\ Dropping(t) /\ pc[t] = "weakDec" /\ kind[ref[t]] = "dropping"
      /\ ref[t] \in References /\ ref[t] \in WeakRefs
      /\ weakOwners' = weakOwners - 1
      /\ UNCHANGED <<sharedOwners, object, block, out, seen>>
  BY DEF WeakDecrement, Dropping, WeakRefs, IInv, DropsMatch, TypeOK
<1>2. /\ weakOwners = Cardinality(WeakRefs) - 1 /\ Cardinality(WeakRefs) \in Nat
      /\ Cardinality(WeakRefs) # 0
  BY <1>1, SetsFinite DEF IInv, CountsExact
<1>3. weakOwners' \in Nat \cup {-1} /\ (weakOwners' = -1 <=> Cardinality(WeakRefs) = 1)
  BY <1>1, <1>2
<1>4. CASE weakOwners' = -1
  <2>1. WeakRefs = {ref[t]}
    BY <1>1, <1>3, <1>4, LastWeak DEF IInv
  <2>2. QED
    BY <1>1, <1>3, <1>4, <2>1, LastWeakGone DEF WeakDecrement
<1>5. CASE weakOwners' # -1 /\ ref[t] = Self
  <2>1. /\ kind' = [kind EXCEPT ![Self] = "none", ![Group] = "dropping"]
        /\ ref' = [ref EXCEPT ![t] = Group] /\ Goto(t, "weakLoad")
    BY <1>5 DEF WeakDecrement, EndReleaseWeak
  <2>2. kind[Self] = "dropping" /\ kind[Group] = "weak" /\ object = "dead"
    BY <1>1, <1>5 DEF IInv, GroupInPhase, TypeOK
  <2>3. /\ Shared' = Shared /\ WeakRefs' = WeakRefs \ {Self}
        /\ kind'[Self] = "none" /\ kind'[Group] = "dropping" /\ Group \in WeakRefs'
        /\ \A q \in Handles : kind'[q] = kind[q]
        /\ kind' \in [References -> Kinds]
    BY <2>1, <2>2, SharedCountAssumption DEF Shared, WeakRefs, Kinds, IInv, TypeOK
  <2>4. /\ pc'[t] = "weakLoad" /\ pc' \in [Threads -> Labels]
        /\ \A u \in Threads \ {t} : pc'[u] = pc[u]
    BY <2>1, Moved DEF IInv, Labels
  <2>5. weakOwners' = Cardinality(WeakRefs') - 1
    <3>1. Cardinality(WeakRefs \ {Self}) = Cardinality(WeakRefs) - 1
      BY <1>1, <1>5, Counting DEF IInv
    <3>2. QED
      BY <1>1, <1>2, <2>3, <3>1
  <2>6. TypeOK' /\ CountsExact'
    BY <1>1, <1>3, <2>1, <2>3, <2>4, <2>5 DEF IInv, TypeOK, CountsExact
  <2>7. DropsMatch'
    BY <1>1, <1>5, <2>1, <2>2, <2>3, <2>4, SharedCountAssumption
    DEF IInv, TypeOK, DropsMatch, Dropping
  <2>8. LocksMatch'
    BY <1>1, <2>1, <2>3, <2>4 DEF IInv, TypeOK, LocksMatch
  <2>9. OneDestroyer' /\ OneFreer' /\ GroupInPhase'
    BY <1>1, <1>2, <2>2, <2>3, <2>4 DEF IInv, OneDestroyer, OneFreer, GroupInPhase
  <2>10. QED
    BY <2>6, <2>7, <2>8, <2>9 DEF IInv
<1>6. CASE weakOwners' # -1 /\ ref[t] # Self
  <2>1. kind' = [kind EXCEPT ![ref[t]] = "none"] /\ Goto(t, "idle") /\ UNCHANGED ref
    BY <1>6 DEF WeakDecrement, EndReleaseWeak
  <2>2. /\ Shared' = Shared /\ WeakRefs' = WeakRefs \ {ref[t]}
        /\ kind'[ref[t]] = "none" /\ \A q \in References \ {ref[t]} : kind'[q] = kind[q]
        /\ kind' \in [References -> Kinds]
    BY <1>1, <2>1, KindChange DEF Kinds, Shared, IInv
  <2>3. /\ pc'[t] = "idle" /\ pc' \in [Threads -> Labels]
        /\ \A u \in Threads \ {t} : pc'[u] = pc[u]
    BY <2>1, Moved DEF IInv, Labels
  <2>4. weakOwners' = Cardinality(WeakRefs') - 1
    <3>1. Cardinality(WeakRefs \ {ref[t]}) = Cardinality(WeakRefs) - 1
      BY <1>1, Counting DEF IInv
    <3>2. QED
      BY <1>1, <1>2, <2>2, <3>1
  <2>5. WeakRefs' # {}
    BY <1>6, <2>4, EmptyCount
  <2>6. TypeOK' /\ CountsExact'
    BY <1>1, <1>3, <2>1, <2>2, <2>3, <2>4 DEF IInv, TypeOK, CountsExact
  <2>7. DropsMatch'
    BY <1>1, <2>1, <2>2, <2>3 DEF IInv, TypeOK, DropsMatch, Dropping
  <2>8. LocksMatch'
    BY <1>1, <2>1, <2>2, <2>3 DEF IInv, TypeOK, LocksMatch
  <2>9. OneDestroyer' /\ OneFreer'
    BY <1>1, <2>2, <2>3, <2>5 DEF IInv, OneDestroyer, OneFreer
  <2>10. GroupInPhase'
    BY <1>1, <1>6, <2>2, SharedCountAssumption DEF IInv, GroupInPhase
  <2>11. QED
    BY <2>6, <2>7, <2>8, <2>9, <2>10 DEF IInv
<1>7. QED
  BY <1>4, <1>5, <1>6

LEMMA FreeBlockKeeps ==
  ASSUME IInv, NEW t \in Threads, FreeBlock(t)
  PROVE  IInv'
<1>1. /\ pc[t] = "free" /\ block' = "freed" /\ Goto(t, "idle")
      /\ UNCHANGED <<sharedOwners, weakOwners, object, kind, ref, out, seen>>
  BY DEF FreeBlock
<1>2. Shared' = Shared /\ WeakRefs' = WeakRefs /\ WeakRefs = {}
  BY <1>1, SameKinds DEF IInv, OneFreer
<1>3. /\ pc'[t] = "idle" /\ pc' \in [Threads -> Labels]
      /\ \A u \in Threads \ {t} : pc'[u] = pc[u]
  BY <1>1, Moved DEF IInv, Labels
<1>4. TypeOK' /\ CountsExact'
  BY <1>1, <1>2, <1>3 DEF IInv, TypeOK, CountsExact
<1>5. DropsMatch'
  BY <1>1, <1>3 DEF IInv, TypeOK, DropsMatch, Dropping
<1>6. LocksMatch' /\ OneDestroyer' /\ OneFreer' /\ GroupInPhase'
  BY <1>1, <1>2, <1>3 DEF IInv, LocksMatch, OneDestroyer, OneFreer, GroupInPhase
<1>7. QED
  BY <1>4, <1>5, <1>6 DEF IInv

-------------------------------------------------------------------------------
LEMMA InitIInv == Init => IInv
<1> SUFFICES ASSUME Init PROVE IInv
  OBVIOUS
<1> USE SharedCountAssumption DEF References
<1>1. PICK first \in Handles, self \in {"none", "weak"} :
        /\ kind = [r \in References |-> CASE r = first -> "shared"
                                       [] r = Group -> "weak"
                                       [] r = Self  -> self
                                       [] OTHER     -> "none"]
        /\ weakOwners = IF self = "weak" THEN 1 ELSE 0
  BY DEF Init
<1>2. /\ kind[first] = "shared" /\ kind[Group] = "weak" /\ kind[Self] = self
      /\ \A h \in Handles \ {first} : kind[h] = "none"
      /\ kind \in [References -> Kinds]
  BY <1>1 DEF Kinds
<1>3. Shared = {first}
  BY <1>2 DEF Shared
<1>4. WeakRefs = IF self = "weak" THEN {Group, Self} ELSE {Group}
  BY <1>2 DEF WeakRefs
<1>5. /\ Cardinality({first}) = 1 /\ Cardinality({Group}) = 1 /\ IsFiniteSet({Group})
  BY FS_Singleton
<1>6. Cardinality({Group} \cup {Self}) = 2
  <2>1. Self \notin {Group}
    OBVIOUS
  <2>2. Cardinality({Group} \cup {Self}) = 1 + 1
    BY <1>5, <2>1, FS_AddElement
  <2>3. QED
    BY <2>2
<1>7. {Group} \cup {Self} = {Group, Self}
  OBVIOUS
<1>8. CountsExact
  BY <1>1, <1>3, <1>4, <1>5, <1>6, <1>7 DEF Init, CountsExact
<1>9. TypeOK
  <2>1. 0 \in Nat \cup {-1} /\ 1 \in Nat \cup {-1} /\ 0 \in Int
    OBVIOUS
  <2>2. QED
    BY <1>1, <1>2, <2>1 DEF Init, TypeOK, Labels
<1>10. DropsMatch
  BY <1>1, <1>2 DEF Init, DropsMatch, Dropping
<1>11. LocksMatch
  BY <1>1, <1>2 DEF Init, LocksMatch
<1>12. GroupInPhase /\ OneDestroyer /\ OneFreer
  BY <1>1, <1>2, <1>3, <1>4 DEF Init, GroupInPhase, OneDestroyer, OneFreer
<1>13. QED
  BY <1>8, <1>9, <1>10, <1>11, <1>12 DEF IInv

LEMMA StepIInv == IInv /\ [Next]_vars => IInv'
<1> SUFFICES ASSUME IInv, [Next]_vars PROVE IInv'
  OBVIOUS
<1>1. CASE UNCHANGED vars
  BY <1>1, SameKinds DEF vars, IInv, TypeOK, CountsExact, DropsMatch, Dropping, LocksMatch,
     GroupInPhase, OneDestroyer, OneFreer
<1>2. CASE Next
  BY <1>2, CopySharedKeeps, MakeWeakKeeps, LockLoadKeeps, LockCasKeeps, ReleaseSharedKeeps,
     DestroyObjectKeeps, ReleaseWeakKeeps, WeakLoadKeeps, WeakDecrementKeeps, FreeBlockKeeps
  DEF Next
<1>3. QED
  BY <1>1, <1>2

(* The strengthened invariant of the control block.                        *)
THEOREM Invariance == Spec => []IInv
BY InitIInv, StepIInv, PTL DEF Spec

(* The counts stay at -1 or above and every thread is where the code can   *)
(* be.                                                                     *)
THEOREM TypeCorrect == Spec => []TypeOK
<1>1. IInv => TypeOK
  BY DEF IInv
<1>2. QED
  BY <1>1, Invariance, PTL

(* Each count is one less than the references it counts.                   *)
THEOREM CountsAreExact == Spec => []CountsExact
<1>1. IInv => CountsExact
  BY DEF IInv
<1>2. QED
  BY <1>1, Invariance, PTL

(* No call, and no reference, ever has a block that has been freed: the    *)
(* answer to the question in the comment of __release_weak.                *)
THEOREM NothingUsedAfterFree == Spec => []NoUseAfterFree
<1>1. IInv => NoUseAfterFree
  <2> SUFFICES ASSUME IInv PROVE NoUseAfterFree
    OBVIOUS
  <2> USE DEF References
  <2>1. block = "live" \/ WeakRefs = {}
    BY DEF IInv, OneFreer, TypeOK
  <2>2. Shared # {} => object = "alive"
    BY DEF IInv, OneDestroyer
  <2>3. object = "alive" => Group \in WeakRefs
    BY DEF IInv, GroupInPhase, WeakRefs
  <2>4. ASSUME NEW t \in Threads, pc[t] = "cas" PROVE ref[t] \in WeakRefs
    BY <2>4 DEF IInv, LocksMatch, WeakRefs
  <2>5. ASSUME NEW t \in Threads, pc[t] # "idle" PROVE block = "live"
    <3>1. CASE pc[t] = "cas"
      BY <2>1, <2>4, <3>1
    <3>2. CASE pc[t] = "destroy"
      BY <2>1, <2>3, <3>2 DEF IInv, OneDestroyer
    <3>3. CASE Dropping(t)
      <4>1. ref[t] \in WeakRefs
        BY <3>3 DEF IInv, DropsMatch, TypeOK, WeakRefs
      <4>2. QED
        BY <2>1, <4>1
    <3>4. CASE pc[t] = "free"
      BY <3>4 DEF IInv, OneFreer
    <3>5. QED
      BY <2>5, <3>1, <3>2, <3>3, <3>4 DEF IInv, TypeOK, Labels, Dropping
  <2>6. ASSUME NEW r \in References, kind[r] # "none" PROVE block = "live"
    <3>1. CASE kind[r] \in {"weak", "dropping"}
      BY <2>1, <3>1 DEF WeakRefs
    <3>2. CASE kind[r] \in {"shared", "pending"}
      <4>1. r \in Handles
        BY <3>2 DEF IInv, GroupInPhase
      <4>2. CASE kind[r] = "shared"
        BY <2>1, <2>2, <2>3, <4>1, <4>2 DEF Shared
      <4>3. CASE kind[r] = "pending"
        BY <2>1, <2>4, <4>1, <4>3 DEF IInv, LocksMatch
      <4>4. QED
        BY <3>2, <4>2, <4>3
    <3>3. QED
      BY <2>6, <3>1, <3>2 DEF IInv, TypeOK, Kinds
  <2>7. QED
    BY <2>2, <2>5, <2>6 DEF NoUseAfterFree
<1>2. QED
  BY <1>1, Invariance, PTL

(* At most one thread runs the destructor of the object, and at most one   *)
(* frees the block.                                                        *)
THEOREM OneThreadDestroys == Spec => []DestroyedByOne
<1>1. IInv => DestroyedByOne
  BY DEF IInv, OneDestroyer, OneFreer, DestroyedByOne
<1>2. QED
  BY <1>1, Invariance, PTL

(* When all references are gone and all calls have returned, the object is *)
(* dead and the block is freed.                                            *)
THEOREM NothingLeaks == Spec => []NoLeak
<1>1. IInv => NoLeak
  <2> SUFFICES ASSUME IInv, \A r \in Handles : kind[r] = "none",
                      \A t \in Threads : pc[t] = "idle"
               PROVE  object = "dead" /\ block = "freed"
    BY DEF NoLeak
  <2>1. Shared = {} /\ object = "dead"
    BY DEF Shared, IInv, OneDestroyer, TypeOK
  <2>2. \A r \in References : kind[r] # "dropping"
    BY DEF IInv, DropsMatch, Dropping
  <2>3. kind[Self] = "none" /\ kind[Group] = "none"
    BY <2>1, <2>2 DEF IInv, GroupInPhase, References
  <2>4. WeakRefs = {}
    BY <2>3 DEF WeakRefs, References
  <2>5. QED
    BY <2>1, <2>4 DEF IInv, OneFreer, TypeOK
<1>2. QED
  BY <1>1, Invariance, PTL

-------------------------------------------------------------------------------
(* No step gives an expired object an owner again.                         *)
THEOREM NothingRevived == Spec => NoResurrection
<1>1. ASSUME IInv, [Next]_vars, sharedOwners = -1 PROVE sharedOwners' = -1
  <2>1. Shared = {}
    BY <1>1, SetsFinite DEF IInv, CountsExact
  <2>2. ASSUME NEW t \in Threads, LockCas(t) PROVE sharedOwners' = sharedOwners
    <3>0. seen[t] \in Nat
      BY <1>1, <2>2 DEF LockCas, LocksMatch, IInv
    <3>1. seen[t] # -1
      BY <3>0
    <3>2. QED
      BY <1>1, <2>2, <3>1 DEF LockCas
  <2>3. ASSUME NEW t \in Threads, NEW h \in Handles PROVE kind[h] # "shared"
    BY <2>1 DEF Shared
  <2>4. sharedOwners' = sharedOwners
    BY <1>1, <2>2, <2>3 DEF Next, vars, CopyShared, MakeWeak, LockLoad, ReleaseShared,
       ReleaseWeak, DestroyObject, WeakLoad, WeakDecrement, FreeBlock
  <2>5. QED
    BY <1>1, <2>4
<1>2. IInv /\ [Next]_vars => [sharedOwners = -1 => sharedOwners' = -1]_vars
  BY <1>1
<1>3. QED
  BY <1>2, Invariance, PTL DEF Spec, NoResurrection

AbstractStutter == Shared' = Shared /\ WeakRefs' = WeakRefs /\ object' = object /\ block' = block

(* Taking a weak reference off the books is an Unwatch.                    *)
LEMMA UnwatchRefines ==
  ASSUME IInv, NEW t \in Threads, Dropping(t),
         Shared' = Shared, WeakRefs' = WeakRefs \ {ref[t]}, UNCHANGED <<object, block>>
  PROVE  SO!SONext
<1>1. ref[t] \in WeakRefs /\ ref[t] \in References
  BY DEF IInv, DropsMatch, TypeOK, WeakRefs
<1>2. SO!Unwatch(ref[t])
  BY <1>1 DEF SO!Unwatch
<1>3. QED
  BY <1>1, <1>2 DEF SO!SONext

LEMMA StepRefines == IInv /\ [Next]_vars => [SO!SONext]_(SO!soVars)
<1> SUFFICES ASSUME IInv, [Next]_vars PROVE SO!SONext \/ AbstractStutter
  BY DEF SO!soVars, AbstractStutter
<1> USE DEF References
<1>1. CASE UNCHANGED vars
  BY <1>1, SameKinds DEF vars, AbstractStutter
<1>2. ASSUME NEW t \in Threads, NEW h \in Handles, NEW new \in Handles, CopyShared(t, h, new)
      PROVE  SO!SONext
  <2>1. /\ Shared' = Shared \cup {new} /\ new \notin Shared /\ h \in Shared
        /\ WeakRefs' = WeakRefs /\ new \notin WeakRefs
    BY <1>2, KindChange DEF CopyShared, Kinds, Shared, WeakRefs, IInv
  <2>2. SO!Own(new)
    BY <1>2, <2>1 DEF SO!Own, CopyShared
  <2>3. QED
    BY <2>2 DEF SO!SONext
<1>3. ASSUME NEW t \in Threads, NEW h \in Handles, NEW new \in Handles, MakeWeak(t, h, new)
      PROVE  SO!SONext
  <2>1. /\ Shared' = Shared /\ new \notin Shared /\ h \in Shared \cup WeakRefs
        /\ WeakRefs' = WeakRefs \cup {new} /\ new \notin WeakRefs
    BY <1>3, KindChange DEF MakeWeak, Kinds, Shared, WeakRefs, IInv
  <2>2. SO!Watch(new)
    BY <1>3, <2>1 DEF SO!Watch, MakeWeak
  <2>3. QED
    BY <2>2 DEF SO!SONext
<1>4. ASSUME NEW t \in Threads, NEW h \in Handles, NEW new \in Handles, LockLoad(t, h, new)
      PROVE  AbstractStutter
  BY <1>4, KindChange DEF LockLoad, Kinds, Shared, WeakRefs, IInv, AbstractStutter
<1>5. ASSUME NEW t \in Threads, LockCas(t)
      PROVE  SO!SONext \/ AbstractStutter
  <2>1. /\ out[t] \in Handles /\ kind[out[t]] = "pending" /\ seen[t] \in Nat
        /\ UNCHANGED <<object, block>>
    BY <1>5 DEF LockCas, IInv, LocksMatch
  <2>2. CASE sharedOwners = seen[t]
    <3>1. kind' = [kind EXCEPT ![out[t]] = "shared"]
      BY <1>5, <2>2 DEF LockCas
    <3>2. /\ Shared' = Shared \cup {out[t]} /\ out[t] \notin Shared
          /\ WeakRefs' = WeakRefs /\ out[t] \notin WeakRefs
      BY <2>1, <3>1, KindChange DEF Kinds, Shared, WeakRefs, IInv
    <3>3. Shared # {}
      BY <2>1, <2>2, EmptyCount DEF IInv, CountsExact
    <3>4. SO!Own(out[t])
      BY <2>1, <3>2, <3>3 DEF SO!Own
    <3>5. QED
      BY <2>1, <3>4 DEF SO!SONext
  <2>3. CASE UNCHANGED kind
    BY <2>1, <2>3, SameKinds DEF AbstractStutter
  <2>4. CASE kind' = [kind EXCEPT ![out[t]] = "none"]
    BY <2>1, <2>4, KindChange DEF Kinds, Shared, WeakRefs, IInv, AbstractStutter
  <2>5. QED
    BY <1>5, <2>2, <2>3, <2>4 DEF LockCas
<1>6. ASSUME NEW t \in Threads, NEW h \in Handles, ReleaseShared(t, h)
      PROVE  SO!SONext
  <2>1. Shared' = Shared \ {h} /\ h \in Shared /\ WeakRefs' = WeakRefs
    BY <1>6, KindChange DEF ReleaseShared, Kinds, Shared, WeakRefs, IInv
  <2>2. SO!Disown(h)
    BY <1>6, <2>1 DEF SO!Disown, ReleaseShared
  <2>3. QED
    BY <2>2 DEF SO!SONext
<1>7. ASSUME NEW t \in Threads, DestroyObject(t) PROVE SO!SONext
  <2>1. Shared = {} /\ object = "alive" /\ kind[Group] = "weak"
    BY <1>7 DEF DestroyObject, IInv, OneDestroyer, GroupInPhase
  <2>2. PICK r \in {Group, Self} : kind[r] = "weak" /\ kind' = [kind EXCEPT ![r] = "dropping"]
    BY <1>7, <2>1 DEF DestroyObject, BeginReleaseWeak
  <2>3. Shared' = Shared /\ WeakRefs' = WeakRefs
    BY <2>2, KindChange, SharedCountAssumption DEF Kinds, Shared, WeakRefs, IInv
  <2>4. SO!Destroy
    BY <1>7, <2>1, <2>3 DEF DestroyObject, SO!Destroy
  <2>5. QED
    BY <2>4 DEF SO!SONext
<1>8. ASSUME NEW t \in Threads, NEW h \in Handles, ReleaseWeak(t, h) PROVE AbstractStutter
  BY <1>8, KindChange DEF ReleaseWeak, BeginReleaseWeak, Kinds, Shared, WeakRefs, IInv, AbstractStutter
<1>9. ASSUME NEW t \in Threads, WeakLoad(t) PROVE SO!SONext \/ AbstractStutter
  <2>1. Dropping(t) /\ kind[ref[t]] = "dropping" /\ ref[t] \in References /\ UNCHANGED <<object, block>>
    BY <1>9 DEF WeakLoad, Dropping, IInv, DropsMatch, TypeOK
  <2>2. CASE UNCHANGED kind
    BY <2>1, <2>2, SameKinds DEF AbstractStutter
  <2>3. CASE kind' = [kind EXCEPT ![ref[t]] = "none"]
    <3>1. Shared' = Shared /\ WeakRefs' = WeakRefs \ {ref[t]}
      BY <2>1, <2>3, KindChange DEF Kinds, Shared, IInv
    <3>2. QED
      BY <2>1, <3>1, UnwatchRefines
  <2>4. QED
    BY <1>9, <2>2, <2>3 DEF WeakLoad
<1>10. ASSUME NEW t \in Threads, WeakDecrement(t) PROVE SO!SONext
  <2>1. Dropping(t) /\ kind[ref[t]] = "dropping" /\ ref[t] \in References /\ UNCHANGED <<object, block>>
    BY <1>10 DEF WeakDecrement, Dropping, IInv, DropsMatch, TypeOK
  <2>2. CASE kind' = [kind EXCEPT ![ref[t]] = "none"]
    <3>1. Shared' = Shared /\ WeakRefs' = WeakRefs \ {ref[t]}
      BY <2>1, <2>2, KindChange DEF Kinds, Shared, IInv
    <3>2. QED
      BY <2>1, <3>1, UnwatchRefines
  <2>3. CASE ref[t] = Self /\ kind' = [kind EXCEPT ![Self] = "none", ![Group] = "dropping"]
    <3>1. kind[Group] = "weak"
      BY <2>1, <2>3 DEF IInv, GroupInPhase
    <3>2. Shared' = Shared /\ WeakRefs' = WeakRefs \ {ref[t]}
      BY <2>1, <2>3, <3>1, SharedCountAssumption DEF Shared, WeakRefs, IInv, TypeOK
    <3>3. QED
      BY <2>1, <3>2, UnwatchRefines
  <2>4. QED
    BY <1>10, <2>2, <2>3 DEF WeakDecrement, EndReleaseWeak
<1>11. ASSUME NEW t \in Threads, FreeBlock(t) PROVE SO!SONext
  <2>1. WeakRefs = {} /\ block = "live"
    BY <1>11 DEF FreeBlock, IInv, OneFreer
  <2>2. object = "dead" /\ Shared = {}
    BY <2>1 DEF WeakRefs, IInv, TypeOK, GroupInPhase, OneDestroyer
  <2>3. Shared' = Shared /\ WeakRefs' = WeakRefs
    BY <1>11, SameKinds DEF FreeBlock
  <2>4. SO!Free
    BY <1>11, <2>1, <2>2, <2>3 DEF FreeBlock, SO!Free
  <2>5. QED
    BY <2>4 DEF SO!SONext
<1>12. QED
  BY <1>1, <1>2, <1>3, <1>4, <1>5, <1>6, <1>7, <1>8, <1>9, <1>10, <1>11 DEF Next

(* The counts, the exchange loop of lock() and the fast path of            *)
(* __release_weak implement shared ownership.                              *)
THEOREM Refinement == Spec => ImplementsOwnership
<1>1. Init => SO!SOInit
  <2> SUFFICES ASSUME Init PROVE SO!SOInit
    OBVIOUS
  <2>1. PICK first \in Handles : \E self \in {"none", "weak"} :
          kind = [r \in References |-> CASE r = first -> "shared"
                                        [] r = Group -> "weak"
                                        [] r = Self  -> self
                                        [] OTHER     -> "none"]
    BY DEF Init
  <2>2. Shared = {first} /\ first \in References
    BY <2>1, SharedCountAssumption DEF Shared, References
  <2>3. WeakRefs \in SUBSET References /\ WeakRefs \cap Shared = {}
    BY DEF Shared, WeakRefs
  <2>4. QED
    BY <2>2, <2>3 DEF Init, SO!SOInit
<1>2. QED
  BY <1>1, StepRefines, Invariance, PTL DEF Spec, ImplementsOwnership, SO!SOSpec

===============================================================================
