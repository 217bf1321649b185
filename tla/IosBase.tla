-------------------------------- MODULE IosBase --------------------------------
(***************************************************************************)
(* The storage of ios_base (src/ios.cpp): the arrays that iword(), pword() *)
(* and register_callback() grow with realloc, and that copyfmt(), move()   *)
(* and swap() pass on.  The two arrays of the callbacks, which have one    *)
(* size, are one array here, and a block of memory is a number.  Any       *)
(* allocation may fail; where the code then writes through a null pointer  *)
(* what happens is undefined, and the program ends.                        *)
(***************************************************************************)
EXTENDS Integers, FiniteSets, FiniteSetsExt

CONSTANTS
  Streams,
  Indices,     \* bound: the indices given to iword() and pword()
  MaxCallbacks,\* bound: callbacks in one stream
  MaxCalls     \* bound: calls of the program

VARIABLES
  array,       \* __iarray_, __parray_, __fn_ of each stream, with size and capacity
  bad,         \* badbit of __rdstate_
  strict,      \* badbit of __exceptions_
  state,       \* "live" or "dead"
  heap,        \* the blocks that are allocated
  copy,        \* the copyfmt() in progress
  misused,     \* a block was freed twice
  overwritten, \* the array over which null was stored, and which was then written
  wrote,       \* what the program has stored through iword(), as it sees it
  read,        \* what the last iword() found, and what the program expected
  calls

vars == <<array, bad, strict, state, heap, copy, misused, overwritten, wrote, read, calls>>

Kinds == {"fn", "iarray", "parray"}
Null == 0
Empty == [block |-> Null, size |-> 0, cap |-> 0, slot |-> [i \in {} |-> 0]]
NoCopy == [to |-> "none"]
Unknown == -2
(* What malloc() returns is not cleared.                                  *)
Junk == -1

Fresh == CHOOSE b \in 1..(Cardinality(heap) + 1) : b \notin heap
Freed(b) == IF b = Null THEN heap ELSE heap \ {b}
DoubleFree(b) == b # Null /\ b \notin heap

(* The two capacities are those of the same type but in pword().           *)
IosNewCap(req, current) == Max({2 * current, req})

(* An array with room for req elements, the new ones of value v.           *)
(* Mutant: the first new element is not cleared.                           *)
GrownPastFirst(a, newcap, v) ==
  [a EXCEPT !.block = Fresh, !.cap = newcap,
            !.slot = [i \in 0..(newcap - 1) |->
                        IF i < a.size THEN a.slot[i] ELSE IF i = a.size THEN Junk ELSE v]]
Grown(a, newcap, v) ==
  [a EXCEPT !.block = Fresh, !.cap = newcap,
            !.slot = [i \in 0..(newcap - 1) |-> IF i < a.size THEN a.slot[i] ELSE v]]

Call(s) ==
  /\ calls < MaxCalls /\ calls' = calls + 1
  /\ state[s] = "live" /\ copy = NoCopy /\ overwritten = {}

-----------------------------------------------------------------------------
Init ==
  /\ array = [s \in Streams |-> [k \in Kinds |-> Empty]]
  /\ bad = [s \in Streams |-> FALSE]
  /\ \E throws \in BOOLEAN : strict = [s \in Streams |-> throws]
  /\ state = [s \in Streams |-> "live"]
  /\ heap = {} /\ copy = NoCopy /\ misused = FALSE /\ overwritten = {}
  /\ wrote = [s \in Streams |-> [i \in Indices |-> 0]]
  /\ read = [found |-> 0, expected |-> 0]
  /\ calls = 0

(* iword(i): the reference is read, then v is stored through it.           *)
IWord(s, i, v) ==
  LET a == array[s]["iarray"]
      grows == i + 1 > a.cap
      b == IF grows THEN Grown(a, IosNewCap(i + 1, a.cap), 0) ELSE a
  IN
  /\ Call(s)
  /\ array' = [array EXCEPT ![s]["iarray"] =
                 [b EXCEPT !.size = Max({a.size, i + 1}), !.slot[i] = v]]
  /\ heap' = IF grows THEN Freed(a.block) \cup {b.block} ELSE heap
  /\ misused' = (misused \/ (grows /\ DoubleFree(a.block)))
  /\ read' = [found |-> b.slot[i], expected |-> wrote[s][i]]
  /\ wrote' = [wrote EXCEPT ![s][i] = v]
  /\ UNCHANGED <<bad, strict, state, copy, overwritten>>

PWord(s, i) ==
  LET a == array[s]["parray"]
      grows == i + 1 > a.cap
      b == IF grows THEN Grown(a, IosNewCap(i + 1, array[s]["iarray"].cap), 0) ELSE a
  IN
  /\ Call(s)
  /\ array' = [array EXCEPT ![s]["parray"] = [b EXCEPT !.size = Max({a.size, i + 1})]]
  /\ heap' = IF grows THEN Freed(a.block) \cup {b.block} ELSE heap
  /\ misused' = (misused \/ (grows /\ DoubleFree(a.block)))
  /\ UNCHANGED <<bad, strict, state, copy, wrote, read, overwritten>>

(* realloc fails: badbit, and a static dummy is returned or failure thrown.*)
WordFails(s, i, k) ==
  /\ Call(s)
  /\ i + 1 > array[s][k].cap
  /\ bad' = [bad EXCEPT ![s] = TRUE]
  /\ UNCHANGED <<array, strict, state, heap, copy, misused, wrote, read, overwritten>>

RegisterCallback(s, f) ==
  LET a == array[s]["fn"]
      grows == a.size + 1 > a.cap
      b == IF grows THEN Grown(a, IosNewCap(a.size + 1, a.cap), Junk) ELSE a
  IN
  /\ Call(s)
  /\ a.size < MaxCallbacks
  /\ array' = [array EXCEPT ![s]["fn"] = [b EXCEPT !.slot[a.size] = f, !.size = a.size + 1]]
  /\ heap' = IF grows THEN Freed(a.block) \cup {b.block} ELSE heap
  /\ misused' = (misused \/ (grows /\ DoubleFree(a.block)))
  /\ UNCHANGED <<bad, strict, state, copy, wrote, read, overwritten>>

(* setstate(badbit), if badbit is in exceptions(), throws before a null    *)
(* pointer is stored over the array ...                                    *)
RegisterNeedsRoom(s) ==
  /\ Call(s)
  /\ array[s]["fn"].size + 1 > array[s]["fn"].cap
  /\ array[s]["fn"].size < MaxCallbacks
  /\ bad' = [bad EXCEPT ![s] = TRUE]

(* Mutant: it throws when the pointer has been stored.                     *)
RegisterFailsStored(s) ==
  /\ RegisterNeedsRoom(s)
  /\ strict[s]
  /\ array' = [array EXCEPT ![s]["fn"].block = Null]
  /\ UNCHANGED <<strict, state, heap, copy, misused, wrote, read, overwritten>>
RegisterFails(s) ==
  /\ RegisterNeedsRoom(s)
  /\ strict[s]
  /\ UNCHANGED <<array, strict, state, heap, copy, misused, wrote, read, overwritten>>

(* ... and otherwise, which is the default, one is, and written through:   *)
(* the old array, which realloc() leaves, has no owner any more.           *)
RegisterOverwrites(s) ==
  LET a == array[s]["fn"] IN
  /\ RegisterNeedsRoom(s)
  /\ ~strict[s]
  /\ array' = [array EXCEPT ![s]["fn"].block = Null, ![s]["fn"].cap = IosNewCap(a.size + 1, a.cap)]
  /\ overwritten' = {a.block}
  /\ UNCHANGED <<strict, state, heap, copy, misused, wrote, read>>
-----------------------------------------------------------------------------
(* copyfmt() acquires an array where its own is too small, one at a time.  *)
Needs(to, from) == {k \in Kinds : array[to][k].cap < array[from][k].size}

BeginCopyfmt(to, from) ==
  /\ Call(to)
  /\ to # from /\ state[from] = "live"
  /\ copy' = [to |-> to, from |-> from, new |-> [k \in {} |-> 0]]
  /\ UNCHANGED <<array, bad, strict, state, heap, misused, wrote, read, overwritten>>

(* In the order of the source.                                             *)
NextNeed ==
  CHOOSE k \in Needs(copy.to, copy.from) \ DOMAIN copy.new :
    \A j \in Needs(copy.to, copy.from) \ DOMAIN copy.new :
      CASE k = "fn" -> TRUE [] k = "iarray" -> j # "fn" [] k = "parray" -> j = "parray"

Acquire ==
  /\ copy # NoCopy
  /\ Needs(copy.to, copy.from) \ DOMAIN copy.new # {}
  /\ copy' = [copy EXCEPT !.new = [k \in DOMAIN copy.new \cup {NextNeed} |->
                IF k = NextNeed THEN Fresh ELSE copy.new[k]]]
  /\ heap' = heap \cup {Fresh}
  /\ UNCHANGED <<array, bad, strict, state, misused, wrote, read, calls, overwritten>>

(* Mutant: what was acquired before is lost.                               *)
AcquireFailsLeaking ==
  /\ copy # NoCopy
  /\ Needs(copy.to, copy.from) \ DOMAIN copy.new # {}
  /\ copy' = NoCopy
  /\ UNCHANGED <<array, bad, strict, state, heap, misused, wrote, read, calls, overwritten>>
(* bad_alloc: the unique_ptrs give back what was acquired.                 *)
AcquireFails ==
  /\ copy # NoCopy
  /\ Needs(copy.to, copy.from) \ DOMAIN copy.new # {}
  /\ heap' = heap \ {copy.new[k] : k \in DOMAIN copy.new}
  /\ copy' = NoCopy
  /\ UNCHANGED <<array, bad, strict, state, misused, wrote, read, calls, overwritten>>

(* The elements are copied; the slots behind them stay.                    *)
Copied(k) ==
  LET to == array[copy.to][k]
      from == array[copy.from][k]
      base == IF k \in DOMAIN copy.new
              THEN [block |-> copy.new[k], cap |-> from.size,
                    slot |-> [i \in 0..(from.size - 1) |-> Junk]]
              ELSE to
  IN [block |-> base.block, cap |-> base.cap, size |-> from.size,
      slot |-> [i \in DOMAIN base.slot |-> IF i < from.size THEN from.slot[i] ELSE base.slot[i]]]

(* Then exceptions(rhs.exceptions()), which throws if badbit is set.       *)
Commit ==
  LET old == {array[copy.to][k].block : k \in DOMAIN copy.new} \ {Null} IN
  /\ copy # NoCopy
  /\ Needs(copy.to, copy.from) \subseteq DOMAIN copy.new
  /\ array' = [array EXCEPT ![copy.to] = [k \in Kinds |-> Copied(k)]]
  /\ heap' = heap \ old
  /\ misused' = (misused \/ ~(old \subseteq heap))
  /\ wrote' = [wrote EXCEPT ![copy.to] = [i \in Indices |->
                 IF i < array[copy.from]["iarray"].size THEN wrote[copy.from][i] ELSE Unknown]]
  /\ strict' = [strict EXCEPT ![copy.to] = strict[copy.from]]
  /\ copy' = NoCopy
  /\ UNCHANGED <<bad, state, read, calls, overwritten>>
-----------------------------------------------------------------------------
(* The destructor.                                                         *)
Destroy(s) ==
  LET mine == {array[s][k].block : k \in Kinds} \ {Null} IN
  /\ Call(s)
  /\ state' = [state EXCEPT ![s] = "dead"]
  /\ heap' = heap \ mine
  /\ misused' = (misused \/ ~(mine \subseteq heap))
  /\ array' = [array EXCEPT ![s] = [k \in Kinds |-> Empty]]
  /\ UNCHANGED <<bad, strict, copy, wrote, read, overwritten>>

(* A move constructor: the other stream, destroyed, is constructed from s. *)
Move(to, from) ==
  /\ Call(from)
  /\ state[to] = "dead"
  /\ state' = [state EXCEPT ![to] = "live"]
  /\ array' = [array EXCEPT ![to] = array[from], ![from] = [k \in Kinds |-> Empty]]
  /\ bad' = [bad EXCEPT ![to] = bad[from]]
  /\ strict' = [strict EXCEPT ![to] = strict[from]]
  /\ wrote' = [wrote EXCEPT ![to] = wrote[from], ![from] = [i \in Indices |-> 0]]
  /\ UNCHANGED <<heap, copy, misused, read, overwritten>>

Swap(s, t) ==
  /\ Call(s)
  /\ s # t /\ state[t] = "live"
  /\ array' = [array EXCEPT ![s] = array[t], ![t] = array[s]]
  /\ bad' = [bad EXCEPT ![s] = bad[t], ![t] = bad[s]]
  /\ strict' = [strict EXCEPT ![s] = strict[t], ![t] = strict[s]]
  /\ wrote' = [wrote EXCEPT ![s] = wrote[t], ![t] = wrote[s]]
  /\ UNCHANGED <<state, heap, copy, misused, read, overwritten>>

(* clear(): a stream without a buffer, here one that was moved, is left    *)
(* out; the bit of interest is badbit.                                     *)
Clear(s) ==
  /\ Call(s)
  /\ bad[s]
  /\ bad' = [bad EXCEPT ![s] = FALSE]
  /\ UNCHANGED <<array, strict, state, heap, copy, misused, wrote, read, overwritten>>

Next ==
  \/ \E s \in Streams :
       \/ \E i \in Indices : \/ \E v \in 0..1 : IWord(s, i, v)
                                 \/ PWord(s, i)
                                 \/ \E k \in {"iarray", "parray"} : WordFails(s, i, k)
       \/ RegisterCallback(s, 1)
       \/ RegisterFails(s) \/ RegisterOverwrites(s)
       \/ Destroy(s)
       \/ Clear(s)
       \/ \E t \in Streams : BeginCopyfmt(s, t) \/ Move(s, t) \/ Swap(s, t)
  \/ Acquire \/ AcquireFails \/ Commit

Spec == Init /\ [][Next]_vars
-----------------------------------------------------------------------------
Owned ==
  ({array[s][k].block : s \in Streams, k \in Kinds} \ {Null}) \cup
  (IF copy = NoCopy THEN {} ELSE {copy.new[k] : k \in DOMAIN copy.new})
Owners ==
  {<<s, k>> \in Streams \X Kinds : array[s][k].block # Null}

(* Every block has one owner, an array of one stream or the copyfmt() in   *)
(* progress: nothing is freed twice or used after it is freed, and if an   *)
(* allocation fails nothing is lost either, but for the array of callbacks *)
(* over which register_callback() has stored a null pointer: it stays      *)
(* allocated and is nobody's.                                              *)
BlocksOwned ==
  /\ ~misused
  /\ heap = Owned \cup (overwritten \ {Null})
  /\ Owned \cap overwritten \subseteq {Null}
  /\ Cardinality(Owned) =
       Cardinality(Owners) + (IF copy = NoCopy THEN 0 ELSE Cardinality(DOMAIN copy.new))

(* iword(i) finds what the program last stored at i in this stream or in   *)
(* the one its format was copied from, moved or exchanged with, 0 if       *)
(* nothing; except in a slot that copyfmt() has cut off.  No callback is   *)
(* called from memory that was not written.                                *)
SlotsExact ==
  /\ read.expected # Unknown => read.found = read.expected
  /\ \A s \in Streams : \A i \in 0..(array[s]["fn"].size - 1) : array[s]["fn"].slot[i] = 1
================================================================================
