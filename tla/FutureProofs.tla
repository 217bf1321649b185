------------------------------ MODULE FutureProofs ------------------------------
(***************************************************************************)
(* The shared state for any number of threads: it outlives every call on   *)
(* it, whoever is blocked can still be answered, nobody who cannot report  *)
(* it meets a second result, and the whole implements a result that is     *)
(* stored once.                                                            *)
(***************************************************************************)
EXTENDS Future, TLAPS, FiniteSetTheorems

(* Who can be there follows from the class of the state.                   *)
Sources ==
  /\ Promise \in owners \/ owners \cap Producers # {} => kind = "promise"
  /\ Maker \in owners \/ worker # "none" => kind = "async"
  /\ "deferred" \in bits => kind = "deferred"

(* A call of a producer has the promise, or the list of its thread.        *)
ProducerCalls == \A p \in Producers :
  /\ pc[p] \in ProducerLabels
  /\ pc[p] \in {"attaching", "breaking", "releasing"} => Promise \in owners
  /\ pc[p] = "exiting" => p \in owners /\ Ready
  /\ pc[p] = "exited" => p \notin owners

(* A call of a consumer has the reference of its future or that of async().*)
WithFuture == {"receiving", "attaching", "handing", "waiting", "waitingUntil", "executing"}
InAsync == {"creating", "attach", "attaching", "handing"}

ConsumerCalls == \A c \in Consumers :
  /\ pc[c] \in ConsumerLabels
  /\ pc[c] \in WithFuture => c \in owners
  /\ pc[c] \in InAsync => Maker \in owners
  /\ pc[c] \in {"creating", "attach"} => owners = {Maker}
  /\ pc[c] = "creating" => worker = "none"
  /\ pc[c] = "joining" => owners = {} /\ kind = "async"
  /\ pc[c] \in {"waiting", "waitingUntil", "executing"} => "deferred" \notin bits
  /\ pc[c] = "executing" => kind = "deferred" /\ ~HasValue

(* The calls that one thread at a time is in.                              *)
Exclusive == {"creating", "attach", "attaching", "handing", "executing", "joining"}
OneAtATime ==
  /\ \A p, q \in Producers :
       {pc[p], pc[q]} \subseteq {"attaching", "breaking", "releasing"} => p = q
  /\ \A c, d \in Consumers : {pc[c], pc[d]} \subseteq Exclusive => c = d

(* Where the result is to come from, and who has stored it.                *)
Results ==
  /\ worker = "done" => Ready
  /\ kind = "async" /\ worker # "done" => ~HasValue
  /\ "deferred" \in bits => ~HasValue
  /\ kind = "deferred" => \/ Ready \/ "deferred" \in bits
                          \/ \E c \in Consumers : pc[c] = "executing"
  /\ owners \cap Producers # {} => HasValue
  /\ kind = "promise" /\ Promise \notin owners => HasValue \/ owners = {}
  /\ \A p \in Producers : /\ pc[p] = "breaking" => ~HasValue
                          /\ pc[p] = "releasing" => HasValue \/ owners = {Promise}

IInv ==
  /\ TypeOK /\ Sources /\ ProducerCalls /\ ConsumerCalls /\ OneAtATime
  /\ Results /\ ResultExact /\ NoLostWakeup /\ NoUseAfterFree
-----------------------------------------------------------------------------
(* A promise that is the only owner has no future.                         *)
LEMMA OnlyThePromise ==
  ASSUME TypeOK, Promise \in owners, ~(Cardinality(owners) > 1)
  PROVE  owners = {Promise}
<1>1. IsFiniteSet(Threads \cup {Promise})
  BY FutureAssumption, FS_AddElement DEF Threads
<1>2. IsFiniteSet(References)
  BY <1>1, FS_AddElement, References = (Threads \cup {Promise}) \cup {Maker} DEF References
<1>3. IsFiniteSet(owners)
  BY <1>2, FS_Subset DEF TypeOK
<1>4. Cardinality(owners \ {Promise}) = Cardinality(owners) - 1 /\ Cardinality(owners) \in Nat
  BY <1>3, FS_RemoveElement, FS_CardinalityType
<1>5. Cardinality(owners \ {Promise}) \in Nat /\ IsFiniteSet(owners \ {Promise})
  BY <1>3, FS_RemoveElement, FS_CardinalityType
<1>6. owners \ {Promise} = {}
  BY <1>4, <1>5, FS_EmptySet
<1>7. QED
  BY <1>6

(* Who releases the last reference, or joins the thread of async after     *)
(* that, is the only thread in a call.                                     *)
LEMMA NobodyElseInside ==
  ASSUME IInv, NEW t \in Threads,
         \/ owners = {t}
         \/ owners = {Promise} /\ t \in Producers /\ pc[t] = "releasing"
         \/ owners = {} /\ t \in Consumers /\ pc[t] = "joining"
  PROVE  \A u \in Threads \ {t} : pc[u] \in {"idle", "exited"}
<1>1. Maker \notin owners
  BY FutureAssumption DEF Threads
<1>2. \A p \in Producers \ {t} : pc[p] \in {"idle", "exited"}
  BY FutureAssumption DEF IInv, Threads, ProducerCalls, OneAtATime, ProducerLabels
<1>3. \A c \in Consumers \ {t} : pc[c] \in {"idle", "exited"}
  BY <1>1, FutureAssumption
     DEF IInv, Threads, ConsumerCalls, ConsumerLabels, WithFuture, InAsync, OneAtATime,
         Exclusive
<1>4. QED
  BY <1>2, <1>3 DEF Threads

-----------------------------------------------------------------------------
(***************************************************************************)
(* The steps keep the invariant.                                           *)
(***************************************************************************)
LEMMA SetValueKeeps ==
  ASSUME IInv, NEW p \in Producers, SetValue(p)
  PROVE  IInv'
<1>1. TypeOK'
  BY DEF IInv, SetValue, TypeOK, Publish, Bits
<1>2. Sources'
  BY DEF IInv, SetValue, Sources, Publish
<1>3. ProducerCalls'
  BY DEF IInv, SetValue, ProducerCalls, Publish, Ready
<1>4. ConsumerCalls'
  BY DEF IInv, SetValue, ConsumerCalls, Sources, Publish, PromiseUsable
<1>5. OneAtATime'
  BY DEF IInv, SetValue, OneAtATime
<1>6. Results'
  BY DEF IInv, SetValue, Results, Sources, Publish, PromiseUsable
<1>7. ResultExact'
  BY DEF IInv, SetValue, ResultExact, Publish, Ready, HasValue
<1>8. NoLostWakeup'
  BY DEF IInv, SetValue, NoLostWakeup, Publish
<1>9. NoUseAfterFree'
  BY DEF IInv, SetValue, NoUseAfterFree
<1>10. QED
  BY <1>1, <1>2, <1>3, <1>4, <1>5, <1>6, <1>7, <1>8, <1>9 DEF IInv

LEMMA SetExceptionKeeps ==
  ASSUME IInv, NEW p \in Producers, SetException(p)
  PROVE  IInv'
<1>1. TypeOK'
  BY DEF IInv, SetException, TypeOK, Publish, Bits
<1>2. Sources'
  BY DEF IInv, SetException, Sources, Publish
<1>3. ProducerCalls'
  BY DEF IInv, SetException, ProducerCalls, Publish, Ready
<1>4. ConsumerCalls'
  BY DEF IInv, SetException, ConsumerCalls, Sources, Publish, PromiseUsable
<1>5. OneAtATime'
  BY DEF IInv, SetException, OneAtATime
<1>6. Results'
  BY DEF IInv, SetException, Results, Sources, Publish, PromiseUsable
<1>7. ResultExact'
  BY DEF IInv, SetException, ResultExact, Publish, Ready, HasValue
<1>8. NoLostWakeup'
  BY DEF IInv, SetException, NoLostWakeup, Publish
<1>9. NoUseAfterFree'
  BY DEF IInv, SetException, NoUseAfterFree
<1>10. QED
  BY <1>1, <1>2, <1>3, <1>4, <1>5, <1>6, <1>7, <1>8, <1>9 DEF IInv

LEMMA StoreForThreadExitKeeps ==
  ASSUME IInv, NEW p \in Producers, StoreForThreadExit(p)
  PROVE  IInv'
<1>1. TypeOK'
  <2>1. owners \cap Producers = {}
    BY DEF StoreForThreadExit, IInv, Results
  <2>2. owners' \in SUBSET References /\ bits' \in SUBSET Bits /\ exception' \in BOOLEAN
    BY DEF StoreForThreadExit, IInv, TypeOK, References, Threads, Bits
  <2>3. QED
    BY <2>1, <2>2 DEF StoreForThreadExit, IInv, TypeOK
<1>2. Sources'
  BY FutureAssumption DEF IInv, StoreForThreadExit, Sources, PromiseUsable
<1>3. ProducerCalls'
  BY DEF IInv, StoreForThreadExit, ProducerCalls, Ready
<1>4. ConsumerCalls'
  BY DEF IInv, StoreForThreadExit, ConsumerCalls, Sources, PromiseUsable
<1>5. OneAtATime'
  BY DEF IInv, StoreForThreadExit, OneAtATime
<1>6. Results'
  BY DEF IInv, StoreForThreadExit, Results, Sources, PromiseUsable, HasValue
<1>7. ResultExact'
  BY DEF IInv, StoreForThreadExit, ResultExact, HasValue
<1>8. NoLostWakeup'
  BY DEF IInv, StoreForThreadExit, NoLostWakeup, Ready
<1>9. NoUseAfterFree'
  BY DEF IInv, StoreForThreadExit, NoUseAfterFree, PromiseUsable
<1>10. QED
  BY <1>1, <1>2, <1>3, <1>4, <1>5, <1>6, <1>7, <1>8, <1>9 DEF IInv

LEMMA GetFutureKeeps ==
  ASSUME IInv, NEW p \in Producers, NEW c \in Consumers, GetFuture(p, c)
  PROVE  IInv'
<1>1. TypeOK'
  BY FutureAssumption DEF IInv, GetFuture, TypeOK, Threads, References, ConsumerLabels
<1>2. Sources'
  BY FutureAssumption DEF IInv, GetFuture, Sources
<1>3. ProducerCalls'
  BY FutureAssumption
     DEF IInv, GetFuture, ProducerCalls, TypeOK, PromiseUsable, Ready, Threads,
         ProducerLabels
<1>4. ConsumerCalls'
  BY FutureAssumption
     DEF IInv, GetFuture, ConsumerCalls, TypeOK, PromiseUsable, HasValue, Threads,
         ConsumerLabels, InAsync
<1>5. OneAtATime'
  BY DEF IInv, GetFuture, OneAtATime, ConsumerCalls, Sources, TypeOK, PromiseUsable,
         Threads, InAsync, Exclusive
<1>6. Results'
  BY FutureAssumption
     DEF IInv, GetFuture, Results, TypeOK, PromiseUsable, Ready, HasValue,
           Threads
<1>7. ResultExact'
  BY DEF IInv, GetFuture, ResultExact, TypeOK, Ready, HasValue, Threads
<1>8. NoLostWakeup'
  BY DEF IInv, GetFuture, NoLostWakeup, Ready
<1>9. NoUseAfterFree'
  BY DEF IInv, GetFuture, NoUseAfterFree, PromiseUsable
<1>10. QED
  BY <1>1, <1>2, <1>3, <1>4, <1>5, <1>6, <1>7, <1>8, <1>9 DEF IInv

LEMMA SetFutureAttachedKeeps ==
  ASSUME IInv, NEW p \in Producers, SetFutureAttached(p)
  PROVE  IInv'
<1>1. TypeOK'
  BY DEF IInv, SetFutureAttached, TypeOK, Threads, Bits, ConsumerLabels
<1>2. Sources'
  BY DEF IInv, SetFutureAttached, Sources
<1>3. ProducerCalls'
  BY DEF IInv, SetFutureAttached, ProducerCalls, Ready, Threads, ProducerLabels
<1>4. ConsumerCalls'
  BY DEF IInv, SetFutureAttached, ConsumerCalls, HasValue, Threads, ConsumerLabels,
         WithFuture, InAsync
<1>5. OneAtATime'
  BY DEF IInv, SetFutureAttached, OneAtATime, Threads, Exclusive
<1>6. Results'
  BY DEF IInv, SetFutureAttached, Results, Ready, HasValue, Threads
<1>7. ResultExact'
  BY DEF IInv, SetFutureAttached, ResultExact, Ready, HasValue, Threads
<1>8. NoLostWakeup'
  BY DEF IInv, SetFutureAttached, NoLostWakeup, Ready
<1>9. NoUseAfterFree'
  BY DEF IInv, SetFutureAttached, NoUseAfterFree
<1>10. QED
  BY <1>1, <1>2, <1>3, <1>4, <1>5, <1>6, <1>7, <1>8, <1>9 DEF IInv

LEMMA BeginDestroyPromiseKeeps ==
  ASSUME IInv, NEW p \in Producers, BeginDestroyPromise(p)
  PROVE  IInv'
<1>1. TypeOK'
  BY DEF IInv, BeginDestroyPromise, TypeOK, Goto, Threads, ProducerLabels
<1>2. Sources'
  BY DEF IInv, BeginDestroyPromise, Sources
<1>3. ProducerCalls'
  BY DEF IInv, BeginDestroyPromise, ProducerCalls, Goto, PromiseUsable, Ready,
         ProducerLabels
<1>4. ConsumerCalls'
  BY FutureAssumption DEF IInv, BeginDestroyPromise, ConsumerCalls, Goto, HasValue
<1>5. OneAtATime'
  BY DEF IInv, BeginDestroyPromise, OneAtATime, Goto, PromiseUsable, Exclusive
<1>6. Results'
  <2>1. HasValue \/ Cardinality(owners) > 1 =>
          pc' = [pc EXCEPT ![p] = IF HasValue THEN "releasing" ELSE "breaking"]
    BY DEF BeginDestroyPromise, Goto
  <2>2. QED
    BY OnlyThePromise, <2>1
       DEF BeginDestroyPromise, IInv, TypeOK, Results, Goto, PromiseUsable, Ready, HasValue,
           Threads
<1>7. ResultExact'
  BY DEF IInv, BeginDestroyPromise, ResultExact, Goto, Ready, HasValue
<1>8. NoLostWakeup'
  BY DEF IInv, BeginDestroyPromise, NoLostWakeup, Ready
<1>9. NoUseAfterFree'
  BY DEF IInv, BeginDestroyPromise, NoUseAfterFree, PromiseUsable
<1>10. QED
  BY <1>1, <1>2, <1>3, <1>4, <1>5, <1>6, <1>7, <1>8, <1>9 DEF IInv

LEMMA BreakPromiseKeeps ==
  ASSUME IInv, NEW p \in Producers, BreakPromise(p)
  PROVE  IInv'
<1>1. TypeOK'
  BY DEF IInv, BreakPromise, TypeOK, Goto, Publish, Threads, Bits, ProducerLabels
<1>2. Sources'
  BY DEF IInv, BreakPromise, Sources, Publish
<1>3. ProducerCalls'
  BY DEF IInv, BreakPromise, ProducerCalls, Goto, Publish, Ready, ProducerLabels
<1>4. ConsumerCalls'
  BY DEF IInv, BreakPromise, ConsumerCalls, ProducerCalls, Sources, Goto, Publish,
         ConsumerLabels
<1>5. OneAtATime'
  BY DEF IInv, BreakPromise, OneAtATime, Goto, Exclusive
<1>6. Results'
  BY DEF IInv, BreakPromise, Results, OneAtATime, ProducerCalls, Sources, TypeOK,
         Goto, Publish, HasValue, Threads
<1>7. ResultExact'
  BY DEF IInv, BreakPromise, ResultExact, Publish, Ready, HasValue
<1>8. NoLostWakeup'
  BY DEF IInv, BreakPromise, NoLostWakeup, Publish
<1>9. NoUseAfterFree'
  BY DEF IInv, BreakPromise, NoUseAfterFree, Threads
<1>10. QED
  BY <1>1, <1>2, <1>3, <1>4, <1>5, <1>6, <1>7, <1>8, <1>9 DEF IInv

LEMMA EndDestroyPromiseKeeps ==
  ASSUME IInv, NEW p \in Producers, EndDestroyPromise(p)
  PROVE  IInv'
<1>0. /\ Promise \in owners /\ kind = "promise" /\ pc[p] = "releasing"
      /\ owners' = owners \ {Promise} /\ pc' = [pc EXCEPT ![p] = "idle"]
      /\ deleted' = IF owners' = {} THEN TRUE ELSE deleted
      /\ UNCHANGED <<kind, bits, exception, blocked, worker>>
  BY DEF EndDestroyPromise, Release, Goto, IInv, ProducerCalls, Sources
<1>1. TypeOK'
  BY <1>0, FutureAssumption
     DEF IInv, TypeOK, References, Threads, ProducerLabels, ConsumerLabels
<1>2. Sources'
  BY DEF IInv, EndDestroyPromise, Sources, Release
<1>3. ProducerCalls'
  BY FutureAssumption
     DEF IInv, EndDestroyPromise, ProducerCalls, OneAtATime, Sources, TypeOK, Goto,
         Release, Ready, Threads, ProducerLabels
<1>4. ConsumerCalls'
  BY FutureAssumption
     DEF IInv, EndDestroyPromise, ConsumerCalls, TypeOK, Goto, Release, HasValue,
         Threads
<1>5. OneAtATime'
  BY DEF IInv, EndDestroyPromise, OneAtATime, ProducerCalls, Sources, TypeOK, Goto,
         Release, Threads, Exclusive
<1>6. Results'
  BY DEF IInv, EndDestroyPromise, Results, OneAtATime, TypeOK, Goto, Release, Ready,
         HasValue, Threads
<1>7. ResultExact'
  BY FutureAssumption
     DEF IInv, EndDestroyPromise, ResultExact, TypeOK, Goto, Release, Ready,
         HasValue, References
<1>8. NoLostWakeup'
  BY DEF IInv, EndDestroyPromise, NoLostWakeup, Ready
<1>9. NoUseAfterFree'
  <2>1. CASE owners # {Promise}
    BY <1>0, <2>1 DEF IInv, NoUseAfterFree, TypeOK, Threads
  <2>2. CASE owners = {Promise}
    <3>1. \A t \in Threads \ {p} : pc[t] \in {"idle", "exited"}
      BY <2>2, <1>0, NobodyElseInside DEF Threads
    <3>2. QED
      BY <1>0, <2>2, <3>1 DEF IInv, NoUseAfterFree, Sources, TypeOK, Threads
  <2>3. QED
    BY <2>1, <2>2
<1>10. QED
  BY <1>1, <1>2, <1>3, <1>4, <1>5, <1>6, <1>7, <1>8, <1>9 DEF IInv

LEMMA ExitThreadKeeps ==
  ASSUME IInv, NEW p \in Producers, ExitThread(p)
  PROVE  IInv'
<1>1. TypeOK'
  <2>1. \E label \in {"exiting", "exited"} : pc' = [pc EXCEPT ![p] = label]
    BY DEF ExitThread, Goto
  <2>2. blocked' \subseteq blocked /\ bits' \in SUBSET Bits /\ p \notin Consumers
    BY FutureAssumption DEF ExitThread, Publish, IInv, TypeOK, Bits
  <2>3. QED
    BY <2>1, <2>2 DEF ExitThread, IInv, TypeOK, Threads, ProducerLabels
<1>2. Sources'
  BY DEF IInv, ExitThread, Sources, Publish
<1>3. ProducerCalls'
  BY DEF IInv, ExitThread, ProducerCalls, TypeOK, Goto, Publish, Ready, Threads,
         ProducerLabels
<1>4. ConsumerCalls'
  BY FutureAssumption
     DEF IInv, ExitThread, ConsumerCalls, TypeOK, Goto, Publish, HasValue, Threads
<1>5. OneAtATime'
  BY DEF IInv, ExitThread, OneAtATime, TypeOK, Goto, Threads, Exclusive
<1>6. Results'
  BY DEF IInv, ExitThread, Results, TypeOK, Goto, Publish, Ready, HasValue, Threads
<1>7. ResultExact'
  BY DEF IInv, ExitThread, ResultExact, Results, TypeOK, Goto, Publish, Ready,
         HasValue, Threads
<1>8. NoLostWakeup'
  BY DEF IInv, ExitThread, NoLostWakeup, Publish, Ready
<1>9. NoUseAfterFree'
  BY DEF IInv, ExitThread, NoUseAfterFree, TypeOK, Goto
<1>10. QED
  BY <1>1, <1>2, <1>3, <1>4, <1>5, <1>6, <1>7, <1>8, <1>9 DEF IInv

LEMMA ReleaseAtExitKeeps ==
  ASSUME IInv, NEW p \in Producers, ReleaseAtExit(p)
  PROVE  IInv'
<1>0. /\ p \in owners /\ kind = "promise" /\ pc[p] = "exiting"
      /\ owners' = owners \ {p} /\ pc' = [pc EXCEPT ![p] = "exited"]
      /\ deleted' = IF owners' = {} THEN TRUE ELSE deleted
      /\ UNCHANGED <<kind, bits, exception, blocked, worker>>
  BY DEF ReleaseAtExit, Release, Goto, IInv, ProducerCalls, Sources
<1>1. TypeOK'
  BY <1>0, FutureAssumption
     DEF IInv, TypeOK, References, Threads, ProducerLabels, ConsumerLabels
<1>2. Sources'
  BY DEF IInv, ReleaseAtExit, Sources, Release
<1>3. ProducerCalls'
  BY FutureAssumption
     DEF IInv, ReleaseAtExit, ProducerCalls, Sources, TypeOK, Goto, Release,
         Threads, ProducerLabels
<1>4. ConsumerCalls'
  BY DEF IInv, ReleaseAtExit, ConsumerCalls, Sources, TypeOK, Goto, Release,
         HasValue, Threads, ConsumerLabels
<1>5. OneAtATime'
  BY DEF IInv, ReleaseAtExit, OneAtATime, ProducerCalls, Sources, TypeOK, Goto,
         Release, Threads, Exclusive
<1>6. Results'
  BY DEF IInv, ReleaseAtExit, Results, TypeOK, Goto, Release, Ready, HasValue,
         Threads
<1>7. ResultExact'
  BY DEF IInv, ReleaseAtExit, ResultExact, TypeOK, Goto, Release, Ready, HasValue,
         Threads
<1>8. NoLostWakeup'
  BY DEF IInv, ReleaseAtExit, NoLostWakeup, Ready
<1>9. NoUseAfterFree'
  <2>1. CASE owners # {p}
    BY <1>0, <2>1 DEF IInv, NoUseAfterFree, TypeOK, Threads
  <2>2. CASE owners = {p}
    <3>1. \A t \in Threads \ {p} : pc[t] \in {"idle", "exited"}
      BY <2>2, <1>0, NobodyElseInside DEF Threads
    <3>2. QED
      BY <1>0, <2>2, <3>1 DEF IInv, NoUseAfterFree, Sources, TypeOK, Threads
  <2>3. QED
    BY <2>1, <2>2
<1>10. QED
  BY <1>1, <1>2, <1>3, <1>4, <1>5, <1>6, <1>7, <1>8, <1>9 DEF IInv

LEMMA StartThreadKeeps ==
  ASSUME IInv, NEW c \in Consumers, StartThread(c)
  PROVE  IInv'
<1>1. TypeOK'
  BY DEF IInv, StartThread, TypeOK, Goto, Threads, ConsumerLabels
<1>2. Sources'
  BY DEF IInv, StartThread, Sources, ConsumerCalls
<1>3. ProducerCalls'
  BY DEF IInv, StartThread, ProducerCalls, Goto, Ready, ProducerLabels
<1>4. ConsumerCalls'
  BY DEF IInv, StartThread, ConsumerCalls, OneAtATime, TypeOK, Goto, Threads,
         ConsumerLabels, WithFuture, Exclusive
<1>5. OneAtATime'
  BY DEF IInv, StartThread, OneAtATime, Goto, Exclusive
<1>6. Results'
  BY DEF IInv, StartThread, Results, ConsumerCalls, Goto, Ready, HasValue
<1>7. ResultExact'
  BY DEF IInv, StartThread, ResultExact, Goto, Ready, HasValue
<1>8. NoLostWakeup'
  BY DEF IInv, StartThread, NoLostWakeup, Ready
<1>9. NoUseAfterFree'
  BY DEF IInv, StartThread, NoUseAfterFree, Threads
<1>10. QED
  BY <1>1, <1>2, <1>3, <1>4, <1>5, <1>6, <1>7, <1>8, <1>9 DEF IInv

LEMMA FailToStartThreadKeeps ==
  ASSUME IInv, NEW c \in Consumers, FailToStartThread(c)
  PROVE  IInv'
<1>1. TypeOK'
  BY DEF IInv, FailToStartThread, TypeOK, ConsumerCalls, Sources, Goto, Release,
         Threads, ConsumerLabels
<1>2. Sources'
  BY DEF IInv, FailToStartThread, Sources, Release
<1>3. ProducerCalls'
  BY DEF IInv, FailToStartThread, ProducerCalls, Sources, TypeOK, Goto, Release,
         Ready, Threads, ProducerLabels
<1>4. ConsumerCalls'
  BY FutureAssumption
     DEF IInv, FailToStartThread, ConsumerCalls, OneAtATime, TypeOK, Goto, Release,
         Threads, ConsumerLabels, WithFuture, InAsync, Exclusive
<1>5. OneAtATime'
  BY DEF IInv, FailToStartThread, OneAtATime, TypeOK, Goto, Release, Threads,
         Exclusive
<1>6. Results'
  BY DEF IInv, FailToStartThread, Results, Sources, TypeOK, Goto, Release, Ready,
         HasValue, Threads
<1>7. ResultExact'
  BY DEF IInv, FailToStartThread, ResultExact, Sources, TypeOK, Goto, Release,
         Ready, HasValue, Threads
<1>8. NoLostWakeup'
  BY DEF IInv, FailToStartThread, NoLostWakeup, Ready
<1>9. NoUseAfterFree'
  <2>1. owners = {Maker} /\ kind = "async" /\ pc[c] = "creating"
    BY DEF FailToStartThread, IInv, ConsumerCalls, Sources, InAsync
  <2>2. UNCHANGED deleted /\ ~deleted
    BY <2>1 DEF FailToStartThread, Release, IInv, NoUseAfterFree
  <2>3. QED
    BY <2>2 DEF NoUseAfterFree
<1>10. QED
  BY <1>1, <1>2, <1>3, <1>4, <1>5, <1>6, <1>7, <1>8, <1>9 DEF IInv

LEMMA MakeFutureKeeps ==
  ASSUME IInv, NEW c \in Consumers, MakeFuture(c)
  PROVE  IInv'
<1>1. TypeOK'
  BY DEF IInv, MakeFuture, TypeOK, ProducerCalls, Goto, Threads, References,
         ProducerLabels
<1>2. Sources'
  BY FutureAssumption DEF IInv, MakeFuture, Sources
<1>3. ProducerCalls'
  BY DEF IInv, MakeFuture, ProducerCalls, Goto, Ready, ProducerLabels
<1>4. ConsumerCalls'
  BY DEF IInv, MakeFuture, ConsumerCalls, OneAtATime, TypeOK, Goto, Threads,
         ConsumerLabels, Exclusive
<1>5. OneAtATime'
  BY DEF IInv, MakeFuture, OneAtATime, ProducerCalls, Goto, ProducerLabels,
         Exclusive
<1>6. Results'
  BY DEF IInv, MakeFuture, Results, ConsumerCalls, ProducerCalls, Sources, Goto,
         Ready, HasValue, ProducerLabels
<1>7. ResultExact'
  BY DEF IInv, MakeFuture, ResultExact, Goto, Ready, HasValue
<1>8. NoLostWakeup'
  BY DEF IInv, MakeFuture, NoLostWakeup, Ready
<1>9. NoUseAfterFree'
  BY DEF IInv, MakeFuture, NoUseAfterFree, Threads
<1>10. QED
  BY <1>1, <1>2, <1>3, <1>4, <1>5, <1>6, <1>7, <1>8, <1>9 DEF IInv

LEMMA AttachFutureKeeps ==
  ASSUME IInv, NEW c \in Consumers, AttachFuture(c)
  PROVE  IInv'
<1>1. TypeOK'
  BY DEF IInv, AttachFuture, TypeOK, Goto, Threads, Bits, ConsumerLabels
<1>2. Sources'
  BY DEF IInv, AttachFuture, Sources
<1>3. ProducerCalls'
  BY DEF IInv, AttachFuture, ProducerCalls, ConsumerCalls, Sources, Goto, InAsync
<1>4. ConsumerCalls'
  BY DEF IInv, AttachFuture, ConsumerCalls, Goto, HasValue, ConsumerLabels,
         WithFuture, InAsync
<1>5. OneAtATime'
  BY DEF IInv, AttachFuture, OneAtATime, Goto, Exclusive
<1>6. Results'
  BY DEF IInv, AttachFuture, Results, Goto, Ready, HasValue
<1>7. ResultExact'
  BY DEF IInv, AttachFuture, ResultExact, Goto, Ready, HasValue
<1>8. NoLostWakeup'
  BY DEF IInv, AttachFuture, NoLostWakeup, Ready
<1>9. NoUseAfterFree'
  BY DEF IInv, AttachFuture, NoUseAfterFree, Threads
<1>10. QED
  BY <1>1, <1>2, <1>3, <1>4, <1>5, <1>6, <1>7, <1>8, <1>9 DEF IInv

LEMMA HandFutureOverKeeps ==
  ASSUME IInv, NEW c \in Consumers, HandFutureOver(c)
  PROVE  IInv'
<1>1. TypeOK'
  BY DEF IInv, HandFutureOver, TypeOK, ConsumerCalls, Sources, Goto, Release,
         Threads, ConsumerLabels, InAsync
<1>2. Sources'
  BY DEF IInv, HandFutureOver, Sources, Release
<1>3. ProducerCalls'
  BY DEF IInv, HandFutureOver, ProducerCalls, Sources, TypeOK, Goto, Release, Ready,
         Threads, ProducerLabels
<1>4. ConsumerCalls'
  BY FutureAssumption
     DEF IInv, HandFutureOver, ConsumerCalls, OneAtATime, TypeOK, Goto, Release,
         Threads, ConsumerLabels, WithFuture, InAsync, Exclusive
<1>5. OneAtATime'
  BY DEF IInv, HandFutureOver, OneAtATime, TypeOK, Goto, Release, Threads, Exclusive
<1>6. Results'
  BY DEF IInv, HandFutureOver, Results, Sources, TypeOK, Goto, Release, Ready,
         HasValue, Threads
<1>7. ResultExact'
  BY DEF IInv, HandFutureOver, ResultExact, Sources, TypeOK, Goto, Release, Ready,
         HasValue, Threads
<1>8. NoLostWakeup'
  BY DEF IInv, HandFutureOver, NoLostWakeup, Ready
<1>9. NoUseAfterFree'
  <2>1. Maker \in owners /\ kind = "async" /\ pc[c] = "handing"
    BY DEF HandFutureOver, IInv, ConsumerCalls, Sources, InAsync
  <2>2. UNCHANGED deleted /\ ~deleted
    BY <2>1 DEF HandFutureOver, Release, IInv, NoUseAfterFree
  <2>3. QED
    BY <2>2 DEF NoUseAfterFree
<1>10. QED
  BY <1>1, <1>2, <1>3, <1>4, <1>5, <1>6, <1>7, <1>8, <1>9 DEF IInv

LEMMA ShareFutureKeeps ==
  ASSUME IInv, NEW c \in Consumers, NEW d \in Consumers, ShareFuture(c, d)
  PROVE  IInv'
<1>1. TypeOK'
  BY FutureAssumption DEF IInv, ShareFuture, TypeOK, Threads, References
<1>2. Sources'
  BY FutureAssumption DEF IInv, ShareFuture, Sources
<1>3. ProducerCalls'
  BY DEF IInv, ShareFuture, ProducerCalls, Ready
<1>4. ConsumerCalls'
  BY FutureAssumption DEF IInv, ShareFuture, ConsumerCalls, HasValue
<1>5. OneAtATime'
  BY DEF IInv, ShareFuture, OneAtATime
<1>6. Results'
  BY FutureAssumption DEF IInv, ShareFuture, Results, Ready, HasValue
<1>7. ResultExact'
  BY DEF IInv, ShareFuture, ResultExact, Ready, HasValue
<1>8. NoLostWakeup'
  BY DEF IInv, ShareFuture, NoLostWakeup, Ready
<1>9. NoUseAfterFree'
  BY DEF IInv, ShareFuture, NoUseAfterFree
<1>10. QED
  BY <1>1, <1>2, <1>3, <1>4, <1>5, <1>6, <1>7, <1>8, <1>9 DEF IInv

LEMMA WaitKeeps ==
  ASSUME IInv, NEW c \in Consumers, Wait(c)
  PROVE  IInv'
<1>1. TypeOK'
  <2>1. CASE "deferred" \in bits
    BY <2>1 DEF Wait, Goto, IInv, TypeOK, Threads, ConsumerLabels
  <2>2. CASE "deferred" \notin bits
    BY <2>2 DEF Wait, Goto, IInv, TypeOK, Threads, ConsumerLabels
  <2>3. QED
    BY <2>1, <2>2
<1>2. Sources'
  BY DEF IInv, Wait, Sources
<1>3. ProducerCalls'
  BY FutureAssumption DEF IInv, Wait, ProducerCalls, TypeOK, Goto, Threads
<1>4. ConsumerCalls'
  BY DEF IInv, Wait, ConsumerCalls, Results, Sources, TypeOK, Goto, HasValue,
         Threads, ConsumerLabels, InAsync
<1>5. OneAtATime'
  BY DEF IInv, Wait, OneAtATime, ConsumerCalls, Sources, TypeOK, Goto, Threads,
         InAsync, Exclusive
<1>6. Results'
  BY DEF IInv, Wait, Results, TypeOK, Goto, HasValue, Threads
<1>7. ResultExact'
  BY DEF IInv, Wait, ResultExact, TypeOK, Goto, Ready, HasValue, Threads
<1>8. NoLostWakeup'
  BY DEF IInv, Wait, NoLostWakeup, Ready
<1>9. NoUseAfterFree'
  BY DEF IInv, Wait, NoUseAfterFree
<1>10. QED
  BY <1>1, <1>2, <1>3, <1>4, <1>5, <1>6, <1>7, <1>8, <1>9 DEF IInv

LEMMA WaitUntilKeeps ==
  ASSUME IInv, NEW c \in Consumers, WaitUntil(c)
  PROVE  IInv'
<1>1. TypeOK'
  BY DEF IInv, WaitUntil, TypeOK, Goto, Threads, ConsumerLabels
<1>2. Sources'
  BY DEF IInv, WaitUntil, Sources
<1>3. ProducerCalls'
  BY FutureAssumption DEF IInv, WaitUntil, ProducerCalls, Goto
<1>4. ConsumerCalls'
  BY DEF IInv, WaitUntil, ConsumerCalls, Goto, HasValue, ConsumerLabels, InAsync
<1>5. OneAtATime'
  BY DEF IInv, WaitUntil, OneAtATime, Goto, Exclusive
<1>6. Results'
  BY DEF IInv, WaitUntil, Results, Goto, HasValue
<1>7. ResultExact'
  BY DEF IInv, WaitUntil, ResultExact, Goto, Ready, HasValue
<1>8. NoLostWakeup'
  BY DEF IInv, WaitUntil, NoLostWakeup, Ready
<1>9. NoUseAfterFree'
  BY DEF IInv, WaitUntil, NoUseAfterFree
<1>10. QED
  BY <1>1, <1>2, <1>3, <1>4, <1>5, <1>6, <1>7, <1>8, <1>9 DEF IInv

LEMMA TimeOutKeeps ==
  ASSUME IInv, NEW c \in Consumers, TimeOut(c)
  PROVE  IInv'
<1>1. TypeOK'
  BY DEF IInv, TimeOut, TypeOK, Goto, Threads, ConsumerLabels
<1>2. Sources'
  BY DEF IInv, TimeOut, Sources
<1>3. ProducerCalls'
  BY DEF IInv, TimeOut, ProducerCalls, Goto, Ready, ProducerLabels
<1>4. ConsumerCalls'
  BY DEF IInv, TimeOut, ConsumerCalls, Goto, HasValue, ConsumerLabels, WithFuture,
         InAsync
<1>5. OneAtATime'
  BY DEF IInv, TimeOut, OneAtATime, Goto, Exclusive
<1>6. Results'
  BY DEF IInv, TimeOut, Results, Goto, Ready, HasValue
<1>7. ResultExact'
  BY DEF IInv, TimeOut, ResultExact, Goto, Ready, HasValue
<1>8. NoLostWakeup'
  BY DEF IInv, TimeOut, NoLostWakeup, Ready
<1>9. NoUseAfterFree'
  BY DEF IInv, TimeOut, NoUseAfterFree, Threads
<1>10. QED
  BY <1>1, <1>2, <1>3, <1>4, <1>5, <1>6, <1>7, <1>8, <1>9 DEF IInv

LEMMA AwakeKeeps ==
  ASSUME IInv, NEW c \in Consumers, Awake(c)
  PROVE  IInv'
<1>1. TypeOK'
  BY DEF IInv, Awake, TypeOK, Goto, Threads, ConsumerLabels
<1>2. Sources'
  BY DEF IInv, Awake, Sources
<1>3. ProducerCalls'
  BY DEF IInv, Awake, ProducerCalls, TypeOK, Goto, Ready, Threads, ProducerLabels
<1>4. ConsumerCalls'
  BY DEF IInv, Awake, ConsumerCalls, TypeOK, Goto, HasValue, Threads,
         ConsumerLabels, WithFuture, InAsync
<1>5. OneAtATime'
  BY DEF IInv, Awake, OneAtATime, TypeOK, Goto, Threads, Exclusive
<1>6. Results'
  BY DEF IInv, Awake, Results, TypeOK, Goto, Ready, HasValue, Threads
<1>7. ResultExact'
  BY DEF IInv, Awake, ResultExact, Ready, HasValue
<1>8. NoLostWakeup'
  BY DEF IInv, Awake, NoLostWakeup, Ready
<1>9. NoUseAfterFree'
  BY DEF IInv, Awake, NoUseAfterFree, Threads
<1>10. QED
  BY <1>1, <1>2, <1>3, <1>4, <1>5, <1>6, <1>7, <1>8, <1>9 DEF IInv

LEMMA ExecuteKeeps ==
  ASSUME IInv, NEW c \in Consumers, Execute(c)
  PROVE  IInv'
<1>1. TypeOK'
  <2>1. bits' \in SUBSET Bits /\ exception' \in BOOLEAN /\ blocked' = {}
    BY DEF Execute, Publish, IInv, TypeOK, Bits
  <2>2. QED
    BY <2>1 DEF Execute, Goto, IInv, TypeOK, Threads, ConsumerLabels
<1>2. Sources'
  BY DEF IInv, Execute, Sources, Publish
<1>3. ProducerCalls'
  BY DEF IInv, Execute, ProducerCalls, Goto, Publish, Ready, ProducerLabels
<1>4. ConsumerCalls'
  BY DEF IInv, Execute, ConsumerCalls, OneAtATime, TypeOK, Goto, Publish, Threads,
         ConsumerLabels, WithFuture, InAsync, Exclusive
<1>5. OneAtATime'
  BY DEF IInv, Execute, OneAtATime, Goto, Exclusive
<1>6. Results'
  BY DEF IInv, Execute, Results, ConsumerCalls, ProducerCalls, Sources, Goto,
         Publish, Ready
<1>7. ResultExact'
  BY DEF IInv, Execute, ResultExact, Publish, Ready, HasValue
<1>8. NoLostWakeup'
  BY DEF IInv, Execute, NoLostWakeup, Publish
<1>9. NoUseAfterFree'
  BY DEF IInv, Execute, NoUseAfterFree, Threads
<1>10. QED
  BY <1>1, <1>2, <1>3, <1>4, <1>5, <1>6, <1>7, <1>8, <1>9 DEF IInv

LEMMA DropFutureKeeps ==
  ASSUME IInv, NEW c \in Consumers, DropFuture(c)
  PROVE  IInv'
<1>1. TypeOK'
  <2>1. \E label \in {"idle", "joining"} : pc' = [pc EXCEPT ![c] = label]
    BY DEF DropFuture, Release, Goto
  <2>2. c \notin blocked
    BY DEF DropFuture, IInv, TypeOK
  <2>3. QED
    BY <2>1, <2>2 DEF DropFuture, Release, IInv, TypeOK, Threads, ConsumerLabels
<1>2. Sources'
  BY DEF IInv, DropFuture, Sources, Release
<1>3. ProducerCalls'
  BY FutureAssumption
     DEF IInv, DropFuture, ProducerCalls, TypeOK, Goto, Release, Ready, Threads
<1>4. ConsumerCalls'
  BY FutureAssumption
     DEF IInv, DropFuture, ConsumerCalls, TypeOK, Goto, Release, HasValue, Threads,
         ConsumerLabels, WithFuture, InAsync
<1>5. OneAtATime'
  BY FutureAssumption
     DEF IInv, DropFuture, OneAtATime, ConsumerCalls, TypeOK, Goto, Release,
         Threads, InAsync, Exclusive
<1>6. Results'
  BY FutureAssumption
     DEF IInv, DropFuture, Results, TypeOK, Goto, Release, Ready, HasValue, Threads
<1>7. ResultExact'
  BY FutureAssumption
     DEF IInv, DropFuture, ResultExact, TypeOK, Goto, Release, Ready, HasValue
<1>8. NoLostWakeup'
  BY DEF IInv, DropFuture, NoLostWakeup, Ready
<1>9. NoUseAfterFree'
  <2>1. c \in owners /\ pc[c] = "idle" /\ owners' = owners \ {c}
    BY DEF DropFuture, Release
  <2>2. CASE owners = {c}
    <3>1. \A t \in Threads \ {c} : pc[t] \in {"idle", "exited"}
      BY <2>2, NobodyElseInside DEF Threads
    <3>2. QED
      BY <2>1, <2>2, <3>1, FutureAssumption
         DEF DropFuture, Release, Goto, IInv, NoUseAfterFree, Sources, TypeOK, Threads
  <2>3. CASE owners # {c}
    BY <2>1, <2>3 DEF DropFuture, Release, IInv, NoUseAfterFree
  <2>4. QED
    BY <2>2, <2>3
<1>10. QED
  BY <1>1, <1>2, <1>3, <1>4, <1>5, <1>6, <1>7, <1>8, <1>9 DEF IInv

LEMMA JoinKeeps ==
  ASSUME IInv, NEW c \in Consumers, Join(c)
  PROVE  IInv'
<1>1. TypeOK'
  <2>1. CASE Ready
    BY <2>1 DEF Join, Goto, IInv, TypeOK, Threads, ConsumerLabels
  <2>2. CASE ~Ready
    BY <2>2 DEF Join, IInv, TypeOK
  <2>3. QED
    BY <2>1, <2>2
<1>2. Sources'
  BY DEF IInv, Join, Sources
<1>3. ProducerCalls'
  BY DEF IInv, Join, ProducerCalls, TypeOK, Goto, Ready, Threads, ProducerLabels
<1>4. ConsumerCalls'
  BY DEF IInv, Join, ConsumerCalls, TypeOK, Goto, Threads, ConsumerLabels,
         WithFuture, InAsync
<1>5. OneAtATime'
  BY DEF IInv, Join, OneAtATime, TypeOK, Goto, Threads, Exclusive
<1>6. Results'
  BY DEF IInv, Join, Results, TypeOK, Goto, Ready, HasValue, Threads
<1>7. ResultExact'
  BY DEF IInv, Join, ResultExact, Ready, HasValue
<1>8. NoLostWakeup'
  BY DEF IInv, Join, NoLostWakeup, Ready
<1>9. NoUseAfterFree'
  <2>1. pc[c] = "joining" /\ owners = {} /\ UNCHANGED <<owners, worker>>
    BY DEF Join, IInv, ConsumerCalls
  <2>2. \A t \in Threads \ {c} : pc[t] \in {"idle", "exited"}
    BY <2>1, NobodyElseInside DEF Threads
  <2>3. CASE ~Ready
    BY <2>3 DEF Join, IInv, NoUseAfterFree
  <2>4. CASE Ready
    <3>1. worker # "running"
      BY <2>4, <2>1 DEF IInv, Results, ResultExact, ConsumerCalls
    <3>2. QED
      BY <2>1, <2>2, <2>4, <3>1 DEF Join, Goto, IInv, TypeOK, NoUseAfterFree, Threads
  <2>5. QED
    BY <2>3, <2>4
<1>10. QED
  BY <1>1, <1>2, <1>3, <1>4, <1>5, <1>6, <1>7, <1>8, <1>9 DEF IInv

LEMMA SpuriousWakeupKeeps ==
  ASSUME IInv, NEW c \in Consumers, SpuriousWakeup(c)
  PROVE  IInv'
<1>1. TypeOK'
  BY DEF IInv, SpuriousWakeup, TypeOK
<1>2. Sources'
  BY DEF IInv, SpuriousWakeup, Sources
<1>3. ProducerCalls'
  BY DEF IInv, SpuriousWakeup, ProducerCalls, Ready
<1>4. ConsumerCalls'
  BY DEF IInv, SpuriousWakeup, ConsumerCalls, HasValue
<1>5. OneAtATime'
  BY DEF IInv, SpuriousWakeup, OneAtATime
<1>6. Results'
  BY DEF IInv, SpuriousWakeup, Results, Ready, HasValue
<1>7. ResultExact'
  BY DEF IInv, SpuriousWakeup, ResultExact, Ready, HasValue
<1>8. NoLostWakeup'
  BY DEF IInv, SpuriousWakeup, NoLostWakeup, Ready
<1>9. NoUseAfterFree'
  BY DEF IInv, SpuriousWakeup, NoUseAfterFree
<1>10. QED
  BY <1>1, <1>2, <1>3, <1>4, <1>5, <1>6, <1>7, <1>8, <1>9 DEF IInv

LEMMA RunWorkerKeeps ==
  ASSUME IInv, RunWorker
  PROVE  IInv'
<1>1. TypeOK'
  <2>1. bits' \in SUBSET Bits /\ exception' \in BOOLEAN /\ blocked' = {}
    BY DEF RunWorker, Publish, IInv, TypeOK, Bits
  <2>2. QED
    BY <2>1 DEF RunWorker, IInv, TypeOK
<1>2. Sources'
  BY DEF IInv, RunWorker, Sources, Publish
<1>3. ProducerCalls'
  BY DEF IInv, RunWorker, ProducerCalls, Publish, Ready
<1>4. ConsumerCalls'
  BY DEF IInv, RunWorker, ConsumerCalls, Sources, Publish
<1>5. OneAtATime'
  BY DEF IInv, RunWorker, OneAtATime
<1>6. Results'
  BY DEF IInv, RunWorker, Results, ProducerCalls, Sources, Publish, Ready
<1>7. ResultExact'
  BY DEF IInv, RunWorker, ResultExact, Publish, Ready, HasValue
<1>8. NoLostWakeup'
  BY DEF IInv, RunWorker, NoLostWakeup, Publish
<1>9. NoUseAfterFree'
  BY DEF IInv, RunWorker, NoUseAfterFree
<1>10. QED
  BY <1>1, <1>2, <1>3, <1>4, <1>5, <1>6, <1>7, <1>8, <1>9 DEF IInv
-----------------------------------------------------------------------------
LEMMA InitIInv == Init => IInv
<1> SUFFICES ASSUME Init PROVE IInv
  OBVIOUS
<1> USE FutureAssumption DEF Init
<1>1. /\ \A p \in Producers : pc[p] = "idle"
      /\ \A c \in Consumers : pc[c] \in {"idle", "creating"}
      /\ \A c, d \in Consumers : pc[c] = "creating" /\ pc[d] = "creating" => c = d
      /\ \A c \in Consumers : pc[c] = "creating" => kind = "async" /\ owners = {Maker}
  BY DEF Threads
<1>2. owners \cap Producers = {}
  OBVIOUS
<1>3. TypeOK
  BY <1>2 DEF TypeOK, Threads, References, Kinds, Bits, ProducerLabels, ConsumerLabels
<1>4. Sources /\ Results /\ ResultExact
  BY <1>1, <1>2 DEF Sources, Results, ResultExact, Ready, HasValue
<1>5. ProducerCalls /\ ConsumerCalls /\ OneAtATime
  BY <1>1 DEF ProducerCalls, ConsumerCalls, OneAtATime, ProducerLabels, ConsumerLabels,
              WithFuture, InAsync, Exclusive
<1>6. NoLostWakeup /\ NoUseAfterFree
  BY DEF NoLostWakeup, NoUseAfterFree
<1>7. QED
  BY <1>3, <1>4, <1>5, <1>6 DEF IInv

LEMMA StepIInv ==
  ASSUME IInv, [Next]_vars
  PROVE  IInv'
<1>1. CASE UNCHANGED vars
  BY <1>1 DEF vars, IInv, TypeOK, Sources, ProducerCalls, ConsumerCalls, OneAtATime, Results,
              ResultExact, NoLostWakeup, NoUseAfterFree, Ready, HasValue
<1>2. ASSUME NEW p \in Producers, ProducerStep(p) PROVE IInv'
  BY <1>2, SetValueKeeps, SetExceptionKeeps, StoreForThreadExitKeeps, GetFutureKeeps,
     SetFutureAttachedKeeps, BeginDestroyPromiseKeeps, BreakPromiseKeeps,
     EndDestroyPromiseKeeps, ExitThreadKeeps, ReleaseAtExitKeeps
     DEF ProducerStep
<1>3. ASSUME NEW c \in Consumers, ConsumerStep(c) PROVE IInv'
  BY <1>3, StartThreadKeeps, FailToStartThreadKeeps, MakeFutureKeeps, AttachFutureKeeps,
     HandFutureOverKeeps, ShareFutureKeeps, WaitKeeps, WaitUntilKeeps, TimeOutKeeps,
     AwakeKeeps, ExecuteKeeps, DropFutureKeeps, JoinKeeps, SpuriousWakeupKeeps
     DEF ConsumerStep
<1>4. QED
  BY <1>1, <1>2, <1>3, RunWorkerKeeps DEF Next

(* The inductive invariant.                                               *)
THEOREM Invariance == Spec => []IInv
<1>1. IInv /\ [Next]_vars => IInv'
  BY StepIInv
<1>2. QED
  BY <1>1, InitIInv, PTL DEF Spec

(* The bits, the result and the waiters agree: a result is there before it *)
(* is ready, it is one, it waits for the exit of one thread at most, and   *)
(* nobody is blocked once it is ready.                                     *)
THEOREM BitsResultAndWaitersAgree == Spec => []Inv
<1>1. IInv => Inv
  BY DEF IInv, Inv
<1>2. QED
  BY <1>1, Invariance, PTL

(* No call uses the shared state after the release that deletes it, nor    *)
(* does the thread of async, which holds no reference, nor a thread that   *)
(* exits with the state on its list.                                       *)
THEOREM StateOutlivesItsCalls == Spec => []NoUseAfterFree
<1>1. IInv => NoUseAfterFree
  BY DEF IInv
<1>2. QED
  BY <1>1, Invariance, PTL

(* A thread is blocked only while somebody has the result to deliver.      *)
THEOREM BlockedHaveAnAnswerer == Spec => []SomebodyWillAnswer
<1>1. ASSUME IInv PROVE SomebodyWillAnswer
  <2> SUFFICES ASSUME NEW c \in blocked, Promise \notin owners, owners \cap Producers = {},
                      worker # "running", \A d \in Consumers : pc[d] # "executing"
               PROVE  NeverStarted
    BY DEF SomebodyWillAnswer
  <2>1. ~Ready
    BY <1>1 DEF IInv, NoLostWakeup
  <2>2. ~HasValue
    BY <1>1, <2>1 DEF IInv, ResultExact
  <2>3. c \in Consumers /\ pc[c] \in {"waiting", "waitingUntil", "joining"}
    BY <1>1 DEF IInv, TypeOK
  <2>4. kind # "promise"
    BY <1>1, <2>2, <2>3 DEF IInv, Results, ConsumerCalls, WithFuture
  <2>5. kind # "deferred"
    BY <1>1, <2>1, <2>3 DEF IInv, Results, ConsumerCalls
  <2>6. kind = "async"
    BY <1>1, <2>4, <2>5 DEF IInv, TypeOK, Kinds
  <2>7. worker = "none"
    BY <1>1, <2>1 DEF IInv, Results, TypeOK
  <2>8. QED
    BY <2>6, <2>7 DEF NeverStarted
<1>2. QED
  BY <1>1, Invariance, PTL

(* ~promise(), the thread of async and a deferred function, which cannot   *)
(* report a future_error, find no result in the state.                     *)
THEOREM NoSecondResult == Spec => []StoreNeverRefused
<1>1. ASSUME IInv PROVE StoreNeverRefused
  <2>1. worker = "running" => ~HasValue
    BY <1>1 DEF IInv, Results, Sources
  <2>2. \A p \in Producers : pc[p] \in {"breaking", "executing"} => ~HasValue
    BY <1>1 DEF IInv, Results, ProducerCalls, ProducerLabels
  <2>3. \A c \in Consumers : pc[c] \in {"breaking", "executing"} => ~HasValue
    BY <1>1 DEF IInv, ConsumerCalls, ConsumerLabels
  <2>4. \A c, d \in Consumers : pc[c] = "executing" /\ pc[d] = "executing" => c = d
    BY <1>1 DEF IInv, OneAtATime, Exclusive
  <2>5. QED
    BY <2>1, <2>2, <2>3, <2>4 DEF StoreNeverRefused, Threads
<1>2. QED
  BY <1>1, Invariance, PTL
-----------------------------------------------------------------------------
(***************************************************************************)
(* The refinement.                                                         *)
(***************************************************************************)
Result == CASE exception -> "error" [] ~exception /\ HasValue -> "value" [] OTHER -> "none"
Asking == {c \in Consumers : pc[c] \in {"waiting", "executing"}}

LEMMA InitRefines == Init => OS!OSInit
<1> SUFFICES ASSUME Init PROVE OS!OSInit
  OBVIOUS
<1>1. exception = FALSE /\ ~HasValue /\ ~Ready
  BY DEF Init, HasValue, Ready
<1>2. \A c \in Consumers : pc[c] \notin {"waiting", "executing"}
  BY DEF Init, Threads
<1>3. QED
  BY <1>1, <1>2 DEF OS!OSInit

(* Nothing that an asker could see changes.                                *)
LEMMA StutterRefines ==
  ASSUME UNCHANGED <<Result, Ready, Asking>>
  PROVE  UNCHANGED OS!osVars
BY DEF OS!osVars, Result, Asking

(* A result is stored, and visible at once or later.                       *)
LEMMA StoreRefines ==
  ASSUME Result = "none", Result' \in {"value", "error"}, UNCHANGED Asking
  PROVE  OS!OSNext
<1>1. Ready' \in BOOLEAN
  BY DEF Ready
<1>2. OS!Store
  BY <1>1 DEF OS!Store, Result, Asking
<1>3. QED
  BY <1>2 DEF OS!OSNext

LEMMA PublishRefines ==
  ASSUME Result # "none", ~Ready, Ready', UNCHANGED <<Result, Asking>>
  PROVE  OS!OSNext
<1>1. OS!Publish
  BY DEF OS!Publish, Result, Asking, Ready
<1>2. QED
  BY <1>1 DEF OS!OSNext

LEMMA AskRefines ==
  ASSUME NEW c \in Consumers, c \notin Asking, Asking' = Asking \cup {c},
      UNCHANGED <<Result, Ready>>
  PROVE  OS!OSNext
<1>1. OS!Ask(c)
  BY DEF OS!Ask, Result, Asking
<1>2. QED
  BY <1>1 DEF OS!OSNext

LEMMA AnswerRefines ==
  ASSUME NEW c \in Asking, Ready, Asking' = Asking \ {c}, UNCHANGED <<Result, Ready>>
  PROVE  OS!OSNext
<1>1. OS!Answer(c) /\ c \in Consumers
  BY DEF OS!Answer, Result, Asking
<1>2. QED
  BY <1>1 DEF OS!OSNext

LEMMA AnswerItselfRefines ==
  ASSUME NEW c \in Asking, Result = "none", Result' \in {"value", "error"}, Ready',
         Asking' = Asking \ {c}
  PROVE  OS!OSNext
<1>1. OS!AnswerItself(c) /\ c \in Consumers
  BY DEF OS!AnswerItself, Result, Asking, Ready
<1>2. QED
  BY <1>1 DEF OS!OSNext

-----------------------------------------------------------------------------
(* The steps.                                                              *)
SomeoneStores == \E p \in Producers :
  SetValue(p) \/ SetException(p) \/ StoreForThreadExit(p) \/ BreakPromise(p)

LEMMA StoresRefine ==
  ASSUME IInv, SomeoneStores \/ RunWorker
  PROVE  OS!OSNext
<1>1. Result = "none" /\ Result' \in {"value", "error"}
  BY DEF IInv, ResultExact, TypeOK, SomeoneStores, SetValue, SetException,
      StoreForThreadExit, BreakPromise, RunWorker,
         Publish, Result, HasValue
<1>2. UNCHANGED Asking
  BY FutureAssumption DEF SomeoneStores, SetValue, SetException, StoreForThreadExit,
      BreakPromise, RunWorker, Goto, Asking, IInv, TypeOK, Threads
<1>3. QED
  BY <1>1, <1>2, StoreRefines

LEMMA ExecuteRefines ==
  ASSUME IInv, NEW c \in Consumers, Execute(c)
  PROVE  OS!OSNext
<1>1. Result = "none" /\ Result' \in {"value", "error"} /\ Ready'
  BY DEF IInv, ResultExact, TypeOK, Execute, Publish, Result, HasValue, Ready
<1>2. c \in Asking /\ Asking' = Asking \ {c}
  BY DEF Execute, Goto, Asking, IInv, TypeOK, Threads
<1>3. QED
  BY <1>1, <1>2, AnswerItselfRefines

LEMMA ExitThreadRefines ==
  ASSUME IInv, NEW p \in Producers, ExitThread(p)
  PROVE  OS!OSNext \/ UNCHANGED OS!osVars
<1>1. UNCHANGED <<Result, Asking>>
  BY FutureAssumption DEF ExitThread, Publish, Goto, Result, HasValue, Asking, IInv,
      TypeOK, Threads
<1>2. CASE ~Ready /\ p \in owners
  <2>1. Result # "none" /\ Ready'
    BY <1>2 DEF ExitThread, Publish, IInv, Results, Result, Ready, HasValue
  <2>2. QED
    BY <1>1, <1>2, <2>1, PublishRefines
<1>3. CASE Ready \/ p \notin owners
  <2>1. Ready' = Ready
    BY <1>3 DEF ExitThread, Publish, Ready
  <2>2. QED
    BY <1>1, <2>1, StutterRefines
<1>4. QED
  BY <1>2, <1>3

LEMMA WaitRefines ==
  ASSUME IInv, NEW c \in Consumers, Wait(c)
  PROVE  OS!OSNext
<1>1. UNCHANGED <<Result, Ready>>
  BY DEF Wait, Result, HasValue, Ready
<1>2. c \notin Asking /\ Asking' = Asking \cup {c}
  BY DEF Wait, Goto, Asking, IInv, TypeOK, Threads
<1>3. QED
  BY <1>1, <1>2, AskRefines

LEMMA AwakeRefines ==
  ASSUME IInv, NEW c \in Consumers, Awake(c)
  PROVE  OS!OSNext \/ UNCHANGED OS!osVars
<1>1. UNCHANGED <<Result, Ready>>
  BY DEF Awake, Result, HasValue, Ready
<1>2. CASE Ready /\ pc[c] = "waiting"
  <2>1. c \in Asking /\ Asking' = Asking \ {c}
    BY <1>2 DEF Awake, Goto, Asking, IInv, TypeOK, Threads
  <2>2. QED
    BY <1>1, <1>2, <2>1, AnswerRefines
<1>3. CASE ~(Ready /\ pc[c] = "waiting")
  <2>1. UNCHANGED Asking
    BY <1>3 DEF Awake, Goto, Asking, IInv, TypeOK, Threads
  <2>2. QED
    BY <1>1, <2>1, StutterRefines
<1>4. QED
  BY <1>2, <1>3

(* The other steps of a producer, and of a consumer.                       *)
ProducerMoves(p) ==
  \/ \E c \in Consumers : GetFuture(p, c)
  \/ SetFutureAttached(p) \/ BeginDestroyPromise(p) \/ EndDestroyPromise(p) \/ ReleaseAtExit(p)

ConsumerMoves(c) ==
  \/ StartThread(c) \/ FailToStartThread(c) \/ MakeFuture(c) \/ AttachFuture(c)
  \/ HandFutureOver(c) \/ (\E d \in Consumers : ShareFuture(c, d)) \/ WaitUntil(c) \/ TimeOut(c)
  \/ DropFuture(c) \/ Join(c) \/ SpuriousWakeup(c)

LEMMA MovesRefine ==
  ASSUME IInv,
      (\E p \in Producers : ProducerMoves(p)) \/ (\E c \in Consumers : ConsumerMoves(c))
  PROVE  UNCHANGED OS!osVars
<1>1. UNCHANGED <<Result, Ready>>
  BY DEF ProducerMoves, ConsumerMoves, GetFuture, SetFutureAttached, BeginDestroyPromise,
      EndDestroyPromise, ReleaseAtExit,
    StartThread, FailToStartThread, MakeFuture, AttachFuture, HandFutureOver,
    ShareFuture, WaitUntil, TimeOut, DropFuture,
    Join, SpuriousWakeup, Result, HasValue, Ready
<1>2. ASSUME NEW p \in Producers, ProducerMoves(p)
      PROVE UNCHANGED Asking
  <2>1. CASE EndDestroyPromise(p) \/ ReleaseAtExit(p)
    BY <2>1, FutureAssumption DEF EndDestroyPromise, ReleaseAtExit, Release, Goto,
        Asking, IInv, TypeOK, Threads
  <2>2. CASE SetFutureAttached(p)
    BY <2>2, FutureAssumption DEF SetFutureAttached, Asking, IInv, TypeOK, Threads
  <2>3. CASE BeginDestroyPromise(p)
    BY <2>3, FutureAssumption DEF BeginDestroyPromise, Goto, Asking, IInv, TypeOK, Threads
  <2>4. ASSUME NEW c \in Consumers, GetFuture(p, c)
        PROVE UNCHANGED Asking
    BY <2>4, FutureAssumption DEF GetFuture, Asking, IInv, TypeOK, Threads
  <2>5. QED
    BY <1>2, <2>1, <2>2, <2>3, <2>4 DEF ProducerMoves
<1>3. ASSUME NEW c \in Consumers, ConsumerMoves(c)
      PROVE UNCHANGED Asking
  <2>1. CASE UNCHANGED pc
    BY <2>1 DEF Asking
  <2>2. CASE ~UNCHANGED pc
    <3>1. /\ pc[c] \notin {"waiting", "executing"}
          /\ \E label \in {"attach", "attaching", "handing", "idle", "joining",
                            "waitingUntil"} : Goto(c, label)
      BY <1>3, <2>2 DEF ConsumerMoves, StartThread, FailToStartThread, MakeFuture,
          AttachFuture, HandFutureOver, ShareFuture, WaitUntil, TimeOut, DropFuture,
          Join, SpuriousWakeup, Release
    <3>2. QED
      BY <3>1 DEF Goto, Asking, IInv, TypeOK, Threads
  <2>3. QED
    BY <2>1, <2>2
<1>4. QED
  BY <1>1, <1>2, <1>3, StutterRefines

LEMMA StepRefines ==
  ASSUME IInv, [Next]_vars
  PROVE  OS!OSNext \/ UNCHANGED OS!osVars
<1>1. CASE UNCHANGED vars
  BY <1>1, StutterRefines DEF vars, Result, Ready, HasValue, Asking
<1>2. CASE Next
  BY <1>2, StoresRefine, ExecuteRefines, ExitThreadRefines, WaitRefines, AwakeRefines,
      MovesRefine DEF Next, ProducerStep, ConsumerStep, SomeoneStores, ProducerMoves,
      ConsumerMoves
<1>3. QED
  BY <1>1, <1>2

(* The bits, the mutex and the condition variable implement a result that *)
(* is stored once and read only when it is there, for any number of        *)
(* threads and whichever class the state is of.                            *)
THEOREM Refinement == Spec => ImplementsOneShot
<1>1. IInv /\ [Next]_vars => [OS!OSNext]_(OS!osVars)
  BY StepRefines
<1>2. QED
  BY <1>1, InitRefines, Invariance, PTL DEF Spec, ImplementsOneShot, OS!OSSpec
==============================================================================
