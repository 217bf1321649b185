------------------------------ MODULE SharedCount ------------------------------
(***************************************************************************)
(* The control block of shared_ptr and weak_ptr: __shared_weak_count in    *)
(* src/include/memory and src/src/memory.cpp.                              *)
(*                                                                         *)
(* Threads copy, lock and destroy the references to one object.  The only  *)
(* accesses to shared memory are the atomic operations on the two counts,  *)
(* so each is an action.  Both counts are one less than what they count.   *)
(* The owners together hold one weak reference, Group; an object derived   *)
(* from enable_shared_from_this holds another one to itself, Self.         *)
(***************************************************************************)
EXTENDS Integers, FiniteSets, TLC

CONSTANTS
  Threads,
  Handles,     (* the shared_ptr and weak_ptr objects the threads use      *)
  Group,       (* the weak reference of all the owners                     *)
  Self         (* __weak_this_ of enable_shared_from_this                  *)

References == Handles \cup {Group, Self}

ASSUME SharedCountAssumption ==
  /\ IsFiniteSet(Handles) /\ Handles # {}
  /\ Group \notin Handles /\ Self \notin Handles /\ Group # Self

VARIABLES
  sharedOwners,   (* __shared_owners_                                      *)
  weakOwners,     (* __shared_weak_owners_                                 *)
  object,         (* "alive" until its destructor has begun                *)
  block,          (* "live" until the control block is deallocated         *)
  kind,           (* what each reference is                                *)
  pc,             (* where each thread is                                  *)
  ref,            (* the reference that the call of a thread is about      *)
  out,            (* the shared_ptr that its lock() is to fill             *)
  seen            (* object_owners, the local variable of its lock()       *)

vars == <<sharedOwners, weakOwners, object, block, kind, pc, ref, out, seen>>

(* "dropping" is a weak reference whose destructor has begun and whose     *)
(* count is still there; "pending" is the result of a lock() under way.    *)
Kinds  == {"none", "shared", "weak", "dropping", "pending"}
Labels == {"idle", "cas", "destroy", "weakLoad", "weakDec", "free"}

Shared   == {r \in Handles : kind[r] = "shared"}
WeakRefs == {r \in References : kind[r] \in {"weak", "dropping"}}

Goto(t, label) == pc' = [pc EXCEPT ![t] = label]

(* A reference is destroyed by one thread while no other thread reads it.  *)
InUse(h) == \E t \in Threads : pc[t] = "cas" /\ ref[t] = h

(* make_shared, or the constructor from a pointer, has returned its first  *)
(* owner; __enable_weak_this has set __weak_this_ if the object has one.   *)
Init ==
  /\ sharedOwners = 0
  /\ object = "alive" /\ block = "live"
  /\ \E first \in Handles, self \in {"none", "weak"} :
       /\ kind = [r \in References |->
                    CASE r = first -> "shared"
                      [] r = Group -> "weak"
                      [] r = Self  -> self
                      [] OTHER     -> "none"]
       /\ weakOwners = IF self = "weak" THEN 1 ELSE 0
  /\ pc = [t \in Threads |-> "idle"]
  /\ ref = [t \in Threads |-> Group]
  /\ out = [t \in Threads |-> Group]
  /\ seen = [t \in Threads |-> 0]
-----------------------------------------------------------------------------
(* shared_ptr(const shared_ptr&): __add_shared.                            *)
CopyShared(t, h, new) ==
  /\ pc[t] = "idle"
  /\ kind[h] = "shared" /\ kind[new] = "none"
  /\ sharedOwners' = sharedOwners + 1
  /\ kind' = [kind EXCEPT ![new] = "shared"]
  /\ UNCHANGED <<weakOwners, object, block, pc, ref, out, seen>>

(* Mutant: the reference is copied and not counted.                        *)
MakeWeakUncounted(t, h, new) ==
  /\ pc[t] = "idle"
  /\ kind[h] \in {"shared", "weak"} /\ kind[new] = "none"
  /\ kind' = [kind EXCEPT ![new] = "weak"]
  /\ UNCHANGED <<sharedOwners, weakOwners, object, block, pc, ref, out, seen>>

(* weak_ptr(const shared_ptr&), weak_ptr(const weak_ptr&): __add_weak.     *)
MakeWeak(t, h, new) ==
  /\ pc[t] = "idle"
  /\ kind[h] \in {"shared", "weak"} /\ kind[new] = "none"
  /\ weakOwners' = weakOwners + 1
  /\ kind' = [kind EXCEPT ![new] = "weak"]
  /\ UNCHANGED <<sharedOwners, object, block, pc, ref, out, seen>>

(* weak_ptr::lock() and shared_ptr(const weak_ptr&): the load before the   *)
(* loop.  A count of -1 makes it return a null pointer.                    *)
LockLoad(t, h, new) ==
  /\ pc[t] = "idle"
  /\ kind[h] = "weak" /\ kind[new] = "none"
  /\ sharedOwners # -1
  /\ seen' = [seen EXCEPT ![t] = sharedOwners]
  /\ kind' = [kind EXCEPT ![new] = "pending"]
  /\ ref' = [ref EXCEPT ![t] = h] /\ out' = [out EXCEPT ![t] = new]
  /\ Goto(t, "cas")
  /\ UNCHANGED <<sharedOwners, weakOwners, object, block>>

(* Mutant: the loop does not test for -1 again after a failed exchange.    *)
LockIgnoresExpiry(t) ==
  /\ pc[t] = "cas"
  /\ \/ /\ sharedOwners = seen[t]
        /\ sharedOwners' = seen[t] + 1
        /\ kind' = [kind EXCEPT ![out[t]] = "shared"]
        /\ Goto(t, "idle")
        /\ UNCHANGED seen
     \/ /\ sharedOwners # seen[t]
        /\ seen' = [seen EXCEPT ![t] = sharedOwners]
        /\ UNCHANGED <<sharedOwners, kind, pc>>
  /\ UNCHANGED <<weakOwners, object, block, ref, out>>

(* One turn of the loop: the exchange succeeds, or it fails and reads the  *)
(* count again.                                                            *)
LockCas(t) ==
  /\ pc[t] = "cas"
  /\ \/ /\ sharedOwners = seen[t]
        /\ sharedOwners' = seen[t] + 1
        /\ kind' = [kind EXCEPT ![out[t]] = "shared"]
        /\ Goto(t, "idle")
        /\ UNCHANGED seen
     \/ /\ sharedOwners # seen[t] /\ sharedOwners # -1
        /\ seen' = [seen EXCEPT ![t] = sharedOwners]
        /\ UNCHANGED <<sharedOwners, kind, pc>>
     \/ /\ sharedOwners # seen[t] /\ sharedOwners = -1
        /\ kind' = [kind EXCEPT ![out[t]] = "none"]
        /\ Goto(t, "idle")
        /\ UNCHANGED <<sharedOwners, seen>>
  /\ UNCHANGED <<weakOwners, object, block, ref, out>>

(* ~shared_ptr: __release_shared, whose caller destroys the object if the  *)
(* decrement brought the count to -1.                                      *)
ReleaseShared(t, h) ==
  /\ pc[t] = "idle"
  /\ kind[h] = "shared"
  /\ sharedOwners' = sharedOwners - 1
  /\ kind' = [kind EXCEPT ![h] = "none"]
  /\ Goto(t, IF sharedOwners' = -1 THEN "destroy" ELSE "idle")
  /\ UNCHANGED <<weakOwners, object, block, ref, out, seen>>

(* __release_weak() begins for reference r.                                *)
BeginReleaseWeak(t, r) ==
  /\ kind' = [kind EXCEPT ![r] = "dropping"]
  /\ ref' = [ref EXCEPT ![t] = r]
  /\ Goto(t, "weakLoad")

(* ... and has returned without freeing the block: the destructor of the   *)
(* object, if it was running, ends and the owners' reference goes next.    *)
EndReleaseWeak(t) ==
  IF ref[t] = Self
    THEN /\ kind' = [kind EXCEPT ![Self] = "none", ![Group] = "dropping"]
         /\ ref' = [ref EXCEPT ![t] = Group]
         /\ Goto(t, "weakLoad")
    ELSE /\ kind' = [kind EXCEPT ![ref[t]] = "none"]
         /\ Goto(t, "idle")
         /\ UNCHANGED ref

(* Mutant: __release_weak() is not called.                                 *)
DestroyObjectOnly(t) ==
  /\ pc[t] = "destroy"
  /\ object' = "dead"
  /\ Goto(t, "idle")
  /\ UNCHANGED <<sharedOwners, weakOwners, block, kind, ref, out, seen>>

(* __on_zero_shared(): the destructor runs, which destroys __weak_this_ if *)
(* the object has one; then __release_shared() calls __release_weak().     *)
DestroyObject(t) ==
  /\ pc[t] = "destroy"
  /\ object' = "dead"
  /\ BeginReleaseWeak(t, IF kind[Self] = "weak" THEN Self ELSE Group)
  /\ UNCHANGED <<sharedOwners, weakOwners, block, out, seen>>

(* ~weak_ptr.                                                              *)
ReleaseWeak(t, h) ==
  /\ pc[t] = "idle"
  /\ kind[h] = "weak" /\ ~InUse(h)
  /\ BeginReleaseWeak(t, h)
  /\ UNCHANGED <<sharedOwners, weakOwners, object, block, out, seen>>

(* Mutant: the fast path takes a count of 1 for the last reference.        *)
WeakLoadUnbiased(t) ==
  /\ pc[t] = "weakLoad"
  /\ IF weakOwners <= 1
       THEN kind' = [kind EXCEPT ![ref[t]] = "none"] /\ Goto(t, "free")
       ELSE UNCHANGED kind /\ Goto(t, "weakDec")
  /\ UNCHANGED <<sharedOwners, weakOwners, object, block, ref, out, seen>>

(* The acquire load: a 0 says that no other reference exists, and the      *)
(* count is not even decremented.                                          *)
WeakLoad(t) ==
  /\ pc[t] = "weakLoad"
  /\ IF weakOwners = 0
       THEN kind' = [kind EXCEPT ![ref[t]] = "none"] /\ Goto(t, "free")
       ELSE UNCHANGED kind /\ Goto(t, "weakDec")
  /\ UNCHANGED <<sharedOwners, weakOwners, object, block, ref, out, seen>>

WeakDecrement(t) ==
  /\ pc[t] = "weakDec"
  /\ weakOwners' = weakOwners - 1
  /\ IF weakOwners' = -1
       THEN kind' = [kind EXCEPT ![ref[t]] = "none"] /\ Goto(t, "free") /\ UNCHANGED ref
       ELSE EndReleaseWeak(t)
  /\ UNCHANGED <<sharedOwners, object, block, out, seen>>

(* __on_zero_shared_weak(): the block is deallocated.                      *)
FreeBlock(t) ==
  /\ pc[t] = "free"
  /\ block' = "freed"
  /\ Goto(t, "idle")
  /\ UNCHANGED <<sharedOwners, weakOwners, object, kind, ref, out, seen>>

Next == \E t \in Threads :
  \/ \E h, new \in Handles :
       CopyShared(t, h, new) \/ MakeWeak(t, h, new) \/ LockLoad(t, h, new)
  \/ \E h \in Handles : ReleaseShared(t, h) \/ ReleaseWeak(t, h)
  \/ LockCas(t) \/ DestroyObject(t) \/ WeakLoad(t) \/ WeakDecrement(t) \/ FreeBlock(t)

Spec == Init /\ [][Next]_vars
-----------------------------------------------------------------------------
TypeOK ==
  /\ sharedOwners \in Nat \cup {-1}
  /\ weakOwners \in Nat \cup {-1}
  /\ object \in {"alive", "dead"}
  /\ block \in {"live", "freed"}
  /\ kind \in [References -> Kinds]
  /\ pc \in [Threads -> Labels]
  /\ ref \in [Threads -> References]
  /\ out \in [Threads -> References]
  /\ seen \in [Threads -> Int]

(* Both counts are exact, so a thread that reads "last" in one of them is  *)
(* the last: the reasoning of the comment in __release_weak.               *)
CountsExact ==
  /\ sharedOwners = Cardinality(Shared) - 1
  /\ WeakRefs # {} => weakOwners = Cardinality(WeakRefs) - 1

(* An owner always has a live object.  A call that is going to touch the   *)
(* control block, its own deallocation included, finds it allocated: the   *)
(* fast path of __release_weak never frees it under another thread, nor    *)
(* under the destructor of an object that holds __weak_this_.              *)
NoUseAfterFree ==
  /\ Shared # {} => object = "alive"
  /\ \A t \in Threads : pc[t] # "idle" => block = "live"
  /\ \A r \in References : kind[r] # "none" => block = "live"

(* The object is destroyed by one thread, and so is the block.             *)
DestroyedByOne ==
  \A t, u \in Threads : pc[t] = pc[u] /\ pc[t] \in {"destroy", "free"} => t = u

(* When the last reference is gone and every call has returned, nothing    *)
(* is left behind.                                                         *)
NoLeak ==
  (\A r \in Handles : kind[r] = "none") /\ (\A t \in Threads : pc[t] = "idle")
    => object = "dead" /\ block = "freed"

(* An expired object stays expired: lock() revives nothing.                *)
NoResurrection == [][sharedOwners = -1 => sharedOwners' = -1]_vars

SO == INSTANCE SharedOwnership WITH
        owners <- Shared, watchers <- WeakRefs

(* The counts, the exchange loop and the fast path implement shared        *)
(* ownership: destruction and deallocation happen once and in time.        *)
ImplementsOwnership == SO!SOSpec
-----------------------------------------------------------------------------
(* For TLC: no thread and no handle is told from another.                  *)
Symmetry == Permutations(Threads) \cup Permutations(Handles)
==============================================================================
