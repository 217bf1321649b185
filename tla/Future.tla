--------------------------------- MODULE Future ---------------------------------
(***************************************************************************)
(* The state that a promise, a deferred function or an async thread shares *)
(* with the futures of its result: __assoc_sub_state and the classes       *)
(* derived from it (src/include/future, src/src/future.cpp), and the list  *)
(* a thread keeps of the results to publish when it exits                  *)
(* (src/src/thread.cpp).                                                   *)
(*                                                                         *)
(* A critical section of __mut_ is one action, cut where it waits.  Adding *)
(* and releasing a reference, and the reads that promise and future make   *)
(* without the mutex, are actions too.  The count of references is exact   *)
(* (see SharedCount), so here it is the set of those who hold one.         *)
(***************************************************************************)
EXTENDS Naturals, FiniteSets

CONSTANTS
  Producers,     (* the threads that use the promise, and then exit        *)
  Consumers,     (* the threads that hold futures                          *)
  Promise,       (* the reference of the promise object                    *)
  Maker          (* the reference of __h in __make_async_assoc_state       *)

ASSUME FutureAssumption ==
  /\ Producers \cap Consumers = {} /\ IsFiniteSet(Producers \cup Consumers)
  /\ Promise \notin Producers \cup Consumers
  /\ Maker \notin Producers \cup Consumers /\ Promise # Maker

Threads    == Producers \cup Consumers
References == Threads \cup {Promise, Maker}

VARIABLES
  kind,       (* which class the state is of                               *)
  bits,       (* __state_: "constructed", "attached", "ready", "deferred"  *)
  exception,  (* __exception_ is not null                                  *)
  owners,     (* who holds a reference: a producer stands for its list of  *)
              (* states to make ready, a consumer for its future           *)
  deleted,    (* the state has been deleted                                *)
  blocked,    (* the threads blocked in __cv_                              *)
  worker,     (* the thread of async, which holds no reference             *)
  pc          (* where each thread is                                      *)

vars == <<kind, bits, exception, owners, deleted, blocked, worker, pc>>

Kinds == {"promise", "deferred", "async"}
Bits  == {"constructed", "attached", "ready", "deferred"}

ProducerLabels == {"idle", "attaching", "breaking", "releasing", "exiting", "exited"}
ConsumerLabels == {"idle", "receiving", "creating", "attach", "attaching", "handing",
                   "waiting", "waitingUntil", "executing", "joining"}

Ready    == "ready" \in bits
HasValue == "constructed" \in bits \/ exception

Goto(t, label) == pc' = [pc EXCEPT ![t] = label]

(* The promise is not under destruction.                                   *)
PromiseUsable ==
  /\ Promise \in owners
  /\ \A p \in Producers : pc[p] \notin {"breaking", "releasing"}

(* A promise has been made; or async() has made its state, and in the      *)
(* deferred case its future too.                                           *)
Init ==
  /\ exception = FALSE /\ deleted = FALSE
  /\ blocked = {} /\ worker = "none"
  /\ kind \in Kinds
  /\ \/ /\ kind = "promise" /\ bits = {} /\ owners = {Promise}
        /\ pc = [t \in Threads |-> "idle"]
     \/ \E c \in Consumers :
          /\ kind = "deferred" /\ bits = {"deferred", "attached"} /\ owners = {c}
          /\ pc = [t \in Threads |-> "idle"]
     \/ \E c \in Consumers :
          /\ kind = "async" /\ bits = {} /\ owners = {Maker}
          /\ pc = [t \in Threads |-> IF t = c THEN "creating" ELSE "idle"]
-----------------------------------------------------------------------------
(* The end of every set_value and set_exception: ready, notify_all.        *)
Publish(result) ==
  /\ bits' = bits \cup result \cup {"ready"}
  /\ blocked' = {}

(* Mutant: the state of an async thread is deleted like any other.         *)
ReleaseNoJoin(t, ref, next) ==
  /\ owners' = owners \ {ref}
  /\ Goto(t, next)
  /\ deleted' = (owners' = {})

(* __release_shared() and then label next: the last reference deletes the  *)
(* state, that of async after a wait() for its thread.                     *)
Release(t, ref, next) ==
  /\ owners' = owners \ {ref}
  /\ \/ owners' # {} /\ Goto(t, next) /\ UNCHANGED deleted
     \/ owners' = {} /\ kind # "async" /\ Goto(t, next) /\ deleted' = TRUE
     \/ owners' = {} /\ kind = "async" /\ Goto(t, "joining") /\ UNCHANGED deleted
-----------------------------------------------------------------------------
(***************************************************************************)
(* The promise.                                                            *)
(***************************************************************************)
SetValue(p) ==
  /\ PromiseUsable /\ pc[p] = "idle"
  /\ ~HasValue
  /\ Publish({"constructed"})
  /\ UNCHANGED <<kind, exception, owners, deleted, worker, pc>>

(* Mutant: nobody is woken.                                                *)
SetExceptionSilently(p) ==
  /\ PromiseUsable /\ pc[p] = "idle"
  /\ ~HasValue
  /\ exception' = TRUE
  /\ bits' = bits \cup {"ready"}
  /\ UNCHANGED <<kind, owners, deleted, blocked, worker, pc>>

SetException(p) ==
  /\ PromiseUsable /\ pc[p] = "idle"
  /\ ~HasValue
  /\ exception' = TRUE
  /\ Publish({})
  /\ UNCHANGED <<kind, owners, deleted, worker, pc>>

(* Mutant: the state is not put on the list of the thread.                 *)
StoreForNobody(p) ==
  /\ PromiseUsable /\ pc[p] = "idle"
  /\ ~HasValue
  /\ \/ bits' = bits \cup {"constructed"} /\ UNCHANGED exception
     \/ exception' = TRUE /\ UNCHANGED bits
  /\ UNCHANGED <<kind, owners, deleted, blocked, worker, pc>>

(* set_value_at_thread_exit, set_exception_at_thread_exit.                 *)
StoreForThreadExit(p) ==
  /\ PromiseUsable /\ pc[p] = "idle"
  /\ ~HasValue
  /\ \/ bits' = bits \cup {"constructed"} /\ UNCHANGED exception
     \/ exception' = TRUE /\ UNCHANGED bits
  /\ owners' = owners \cup {p}
  /\ UNCHANGED <<kind, deleted, blocked, worker, pc>>

(* get_future() for consumer c: the constructor of future looks for an     *)
(* earlier one and adds its reference, without the mutex.  Two threads do  *)
(* not call get_future of one promise at a time.                           *)
GetFuture(p, c) ==
  /\ PromiseUsable /\ pc[p] = "idle"
  /\ \A q \in Producers : pc[q] # "attaching"
  /\ "attached" \notin bits
  /\ c \notin owners /\ pc[c] = "idle"
  /\ owners' = owners \cup {c}
  /\ pc' = [pc EXCEPT ![p] = "attaching", ![c] = "receiving"]
  /\ UNCHANGED <<kind, bits, exception, deleted, blocked, worker>>

(* ... and sets its bit with the mutex, whatever was stored meanwhile.     *)
SetFutureAttached(p) ==
  /\ p \in Producers /\ pc[p] = "attaching"
  /\ bits' = bits \cup {"attached"}
  /\ pc' = [t \in Threads |-> IF t = p \/ pc[t] = "receiving" THEN "idle" ELSE pc[t]]
  /\ UNCHANGED <<kind, exception, owners, deleted, blocked, worker>>

(* Mutant: a result that is there already is not looked for.               *)
BeginDestroyAlwaysBreaks(p) ==
  /\ PromiseUsable /\ \A q \in Producers : pc[q] # "attaching"
  /\ pc[p] = "idle"
  /\ Goto(p, IF Cardinality(owners) > 1 THEN "breaking" ELSE "releasing")
  /\ UNCHANGED <<kind, bits, exception, owners, deleted, blocked, worker>>

(* Mutant: a future has to be there twice for the promise to be broken.    *)
BeginDestroyNeverBreaks(p) ==
  /\ PromiseUsable /\ \A q \in Producers : pc[q] # "attaching"
  /\ pc[p] = "idle"
  /\ Goto(p, IF ~HasValue /\ Cardinality(owners) > 2 THEN "breaking" ELSE "releasing")
  /\ UNCHANGED <<kind, bits, exception, owners, deleted, blocked, worker>>

(* ~promise(): what it reads, it reads without the mutex.                  *)
BeginDestroyPromise(p) ==
  /\ PromiseUsable /\ \A q \in Producers : pc[q] # "attaching"
  /\ pc[p] = "idle"
  /\ Goto(p, IF ~HasValue /\ Cardinality(owners) > 1 THEN "breaking" ELSE "releasing")
  /\ UNCHANGED <<kind, bits, exception, owners, deleted, blocked, worker>>

(* broken_promise is stored for the futures that are left.                 *)
BreakPromise(p) ==
  /\ pc[p] = "breaking"
  /\ ~HasValue
  /\ exception' = TRUE
  /\ Publish({})
  /\ Goto(p, "releasing")
  /\ UNCHANGED <<kind, owners, deleted, worker>>

EndDestroyPromise(p) ==
  /\ pc[p] = "releasing"
  /\ Release(p, Promise, "idle")
  /\ UNCHANGED <<kind, bits, exception, blocked, worker>>

(* The thread exits, and ~__thread_struct_imp goes through its list.  The  *)
(* last producer to exit has destroyed the promise.                        *)
ExitThread(p) ==
  /\ pc[p] = "idle"
  /\ Promise \in owners => \E q \in Producers \ {p} : pc[q] \notin {"exiting", "exited"}
  /\ \/ /\ p \in owners
        /\ Publish({})
        /\ Goto(p, "exiting")
     \/ /\ p \notin owners
        /\ Goto(p, "exited")
        /\ UNCHANGED <<bits, blocked>>
  /\ UNCHANGED <<kind, exception, owners, deleted, worker>>

ReleaseAtExit(p) ==
  /\ pc[p] = "exiting"
  /\ Release(p, p, "exited")
  /\ UNCHANGED <<kind, bits, exception, blocked, worker>>
-----------------------------------------------------------------------------
(***************************************************************************)
(* async with launch::async.                                               *)
(***************************************************************************)
StartThread(c) ==
  /\ pc[c] = "creating"
  /\ worker' = "running"
  /\ Goto(c, "attach")
  /\ UNCHANGED <<kind, bits, exception, owners, deleted, blocked>>

(* The constructor of thread throws, and __h releases its reference.       *)
FailToStartThread(c) ==
  /\ pc[c] = "creating"
  /\ Release(c, Maker, "idle")
  /\ UNCHANGED <<kind, bits, exception, blocked, worker>>

(* The constructor of future, while the thread may have begun or ended.    *)
MakeFuture(c) ==
  /\ pc[c] = "attach"
  /\ owners' = owners \cup {c}
  /\ Goto(c, "attaching")
  /\ UNCHANGED <<kind, bits, exception, deleted, blocked, worker>>

AttachFuture(c) ==
  /\ c \in Consumers /\ pc[c] = "attaching"
  /\ bits' = bits \cup {"attached"}
  /\ Goto(c, "handing")
  /\ UNCHANGED <<kind, exception, owners, deleted, blocked, worker>>

HandFutureOver(c) ==
  /\ pc[c] = "handing"
  /\ Release(c, Maker, "idle")
  /\ UNCHANGED <<kind, bits, exception, blocked, worker>>

(* __execute() of the async state: the function returns or throws, and the *)
(* thread does not look at the state again.                                *)
RunWorker ==
  /\ worker = "running"
  /\ ~HasValue
  /\ \/ Publish({"constructed"}) /\ UNCHANGED exception
     \/ Publish({}) /\ exception' = TRUE
  /\ worker' = "done"
  /\ UNCHANGED <<kind, owners, deleted, pc>>
-----------------------------------------------------------------------------
(***************************************************************************)
(* The futures.                                                            *)
(***************************************************************************)
ShareFuture(c, d) ==
  /\ c \in owners /\ pc[c] = "idle"
  /\ d \notin owners /\ pc[d] = "idle"
  /\ owners' = owners \cup {d}
  /\ UNCHANGED <<kind, bits, exception, deleted, blocked, worker, pc>>

(* wait(), and the wait of get().                                          *)
Wait(c) ==
  /\ c \in owners /\ pc[c] = "idle"
  /\ ~Ready
  /\ \/ /\ "deferred" \in bits
        /\ bits' = bits \ {"deferred"}
        /\ Goto(c, "executing")
        /\ UNCHANGED blocked
     \/ /\ "deferred" \notin bits
        /\ blocked' = blocked \cup {c}
        /\ Goto(c, "waiting")
        /\ UNCHANGED bits
  /\ UNCHANGED <<kind, exception, owners, deleted, worker>>

(* wait_for() and wait_until() do not run a deferred function.             *)
WaitUntil(c) ==
  /\ c \in owners /\ pc[c] = "idle"
  /\ "deferred" \notin bits /\ ~Ready
  /\ blocked' = blocked \cup {c}
  /\ Goto(c, "waitingUntil")
  /\ UNCHANGED <<kind, bits, exception, owners, deleted, worker>>

(* The deadline of wait_until() passes.                                    *)
TimeOut(c) ==
  /\ pc[c] = "waitingUntil"
  /\ blocked' = blocked \ {c}
  /\ Goto(c, "idle")
  /\ UNCHANGED <<kind, bits, exception, owners, deleted, worker>>

(* Mutant: an if in the place of the while of __sub_wait().                *)
AwakeNoLoop(c) ==
  /\ pc[c] \in {"waiting", "waitingUntil"} /\ c \notin blocked
  /\ Goto(c, "idle")
  /\ UNCHANGED <<kind, bits, exception, owners, deleted, blocked, worker>>

Awake(c) ==
  /\ pc[c] \in {"waiting", "waitingUntil"} /\ c \notin blocked
  /\ \/ Ready /\ Goto(c, "idle") /\ UNCHANGED blocked
     \/ ~Ready /\ blocked' = blocked \cup {c} /\ UNCHANGED pc
  /\ UNCHANGED <<kind, bits, exception, owners, deleted, worker>>

(* __execute() of the deferred state, in the thread that waits first.      *)
Execute(c) ==
  /\ pc[c] = "executing"
  /\ ~HasValue
  /\ \/ Publish({"constructed"}) /\ UNCHANGED exception
     \/ Publish({}) /\ exception' = TRUE
  /\ Goto(c, "idle")
  /\ UNCHANGED <<kind, owners, deleted, worker>>

(* ~future(), or the end of get().                                         *)
DropFuture(c) ==
  /\ c \in owners /\ pc[c] = "idle"
  /\ Release(c, c, "idle")
  /\ UNCHANGED <<kind, bits, exception, blocked, worker>>

(* __on_zero_shared() of the async state: wait(), then delete.             *)
Join(t) ==
  /\ pc[t] = "joining" /\ t \notin blocked
  /\ \/ Ready /\ deleted' = TRUE /\ Goto(t, "idle") /\ UNCHANGED blocked
     \/ ~Ready /\ blocked' = blocked \cup {t} /\ UNCHANGED <<deleted, pc>>
  /\ UNCHANGED <<kind, bits, exception, owners, worker>>

SpuriousWakeup(t) ==
  /\ t \in blocked
  /\ blocked' = blocked \ {t}
  /\ UNCHANGED <<kind, bits, exception, owners, deleted, worker, pc>>
-----------------------------------------------------------------------------
ProducerStep(p) ==
  \/ SetValue(p) \/ SetException(p) \/ StoreForThreadExit(p)
  \/ \E c \in Consumers : GetFuture(p, c)
  \/ SetFutureAttached(p)
  \/ BeginDestroyPromise(p) \/ BreakPromise(p) \/ EndDestroyPromise(p)
  \/ ExitThread(p) \/ ReleaseAtExit(p)

ConsumerStep(c) ==
  \/ StartThread(c) \/ FailToStartThread(c)
  \/ MakeFuture(c) \/ AttachFuture(c) \/ HandFutureOver(c)
  \/ \E d \in Consumers : ShareFuture(c, d)
  \/ Wait(c) \/ WaitUntil(c) \/ TimeOut(c) \/ Awake(c) \/ Execute(c)
  \/ DropFuture(c) \/ Join(c) \/ SpuriousWakeup(c)

Next ==
  \/ \E p \in Producers : ProducerStep(p)
  \/ \E c \in Consumers : ConsumerStep(c)
  \/ RunWorker

Spec == Init /\ [][Next]_vars

(***************************************************************************)
(* Threads in a call run and functions end; the promise is destroyed some  *)
(* day, and the threads that used it exit.                                 *)
(***************************************************************************)
Fairness ==
  /\ \A p \in Producers :
       /\ WF_vars(SetFutureAttached(p) \/ BreakPromise(p) \/ EndDestroyPromise(p))
       /\ WF_vars(ExitThread(p)) /\ WF_vars(ReleaseAtExit(p))
  /\ WF_vars(\E p \in Producers : BeginDestroyPromise(p))
  /\ \A c \in Consumers :
       WF_vars(StartThread(c) \/ MakeFuture(c) \/ AttachFuture(c) \/ HandFutureOver(c)
                 \/ Awake(c) \/ Execute(c) \/ Join(c))
  /\ WF_vars(RunWorker)

FairSpec == Spec /\ Fairness
-----------------------------------------------------------------------------
TypeOK ==
  /\ kind \in Kinds /\ bits \in SUBSET Bits
  /\ exception \in BOOLEAN /\ deleted \in BOOLEAN
  /\ owners \in SUBSET References
  /\ worker \in {"none", "running", "done"}
  /\ pc \in [Threads -> ProducerLabels \cup ConsumerLabels]
  /\ blocked \subseteq {c \in Consumers : pc[c] \in {"waiting", "waitingUntil", "joining"}}
  /\ \A p, q \in owners \cap Producers : p = q

(* What is ready is one result, a value or an exception.  A result that is *)
(* stored and not ready is on the list of one thread, which has yet to     *)
(* exit: promise, get_future, deferred and async make no other.            *)
ResultExact ==
  /\ ~("constructed" \in bits /\ exception)
  /\ Ready => HasValue
  /\ HasValue /\ ~Ready => \E p \in owners \cap Producers : pc[p] \notin {"exiting", "exited"}

(* The state outlives every call on it, also the thread of async, which    *)
(* holds no reference, and the thread that exits.                          *)
NoUseAfterFree ==
  deleted => /\ owners = {}
             /\ worker # "running"
             /\ \A t \in Threads : pc[t] \in {"idle", "exited"}

(* Nobody is blocked once the result is ready.                             *)
NoLostWakeup == blocked # {} => ~Ready

(* The bits, the result and the waiters agree.                             *)
Inv == TypeOK /\ ResultExact /\ NoLostWakeup

(* The state of an async thread that could not be started.                 *)
NeverStarted == kind = "async" /\ worker = "none"

(* Somebody can still answer a thread that is blocked: the promise, or the *)
(* thread that has a result on its list, or the thread of async, or the    *)
(* consumer that runs the deferred function.                               *)
SomebodyWillAnswer ==
  blocked # {} => \/ Promise \in owners
                  \/ owners \cap Producers # {}
                  \/ worker = "running"
                  \/ \E c \in Consumers : pc[c] = "executing"
                  \/ NeverStarted

(* Whoever stores a result without a way to report a failure finds none    *)
(* there: ~promise(), the async thread, and the deferred function, which   *)
(* no two consumers of a shared_future run.  future_error would terminate  *)
(* the program.                                                            *)
StoreNeverRefused ==
  /\ worker = "running" => ~HasValue
  /\ \A t \in Threads : pc[t] \in {"breaking", "executing"} => ~HasValue
  /\ \A c, d \in Consumers : pc[c] = "executing" /\ pc[d] = "executing" => c = d

OS == INSTANCE OneShot WITH
        Askers  <- Consumers,
        result  <- CASE exception -> "error" [] ~exception /\ HasValue -> "value" [] OTHER -> "none",
        visible <- Ready,
        asking  <- {c \in Consumers : pc[c] \in {"waiting", "executing"}}

(* The bits, the mutex and the condition variable implement a result that  *)
(* is stored once and read only when it is there.                          *)
ImplementsOneShot == OS!OSSpec

(* Nobody waits for ever: the result of a promise comes with set_value,    *)
(* with the exit of a thread or with the destruction of the promise.       *)
EveryWaitEnds == \A c \in Consumers :
  /\ pc[c] = "waiting" ~> pc[c] = "idle"
  /\ pc[c] = "joining" /\ ~NeverStarted ~> pc[c] = "idle"

(* async() with any policy returns a future: test async.pass.cpp calls it  *)
(* with no policy, with launch::async and with both.                       *)
AsyncReturns == \A c \in Consumers : pc[c] = "creating" ~> pc[c] = "idle"
==============================================================================
