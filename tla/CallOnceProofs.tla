---------------------------- MODULE CallOnceProofs ----------------------------
(***************************************************************************)
(* call_once for any number of threads, flags and exceptions: the function *)
(* of a flag runs once, nobody returns before it has, and the condition    *)
(* variable that all flags share loses no wakeup.                          *)
(***************************************************************************)
EXTENDS CallOnce, TLAPS

(* What each thread in a call knows of its flag.                           *)
Stages == \A t \in Threads :
  /\ pc[t] \in {"func", "threw"} => flag[t] \notin finished
  /\ pc[t] \in {"ran", "broadcast"} => flag[t] \in finished
  /\ pc[t] = "fast" => state[flag[t]] = Done

IInv == TypeOK /\ FlagExact /\ Stages /\ NoLostWakeup

-----------------------------------------------------------------------------
LEMMA InitIInv == Init => IInv
<1> SUFFICES ASSUME Init PROVE IInv
  OBVIOUS
<1>1. TypeOK
  BY CallOnceAssumption DEF Init, TypeOK, Labels, Executing, Fresh, Running, Done
<1>2. FlagExact
  BY DEF Init, FlagExact, Runners, Executing, Fresh, Running, Done
<1>3. Stages /\ NoLostWakeup
  BY DEF Init, Stages, NoLostWakeup
<1>4. QED
  BY <1>1, <1>2, <1>3 DEF IInv

(* While a thread runs the function of a flag, its word is 1 and nobody    *)
(* else runs it.                                                           *)
LEMMA RunnerAlone ==
  ASSUME FlagExact, TypeOK, NEW t \in Threads, pc[t] \in Executing
  PROVE  /\ flag[t] \in Flags
         /\ state[flag[t]] = Running
         /\ \A u \in Threads : pc[u] \in Executing /\ flag[u] = flag[t] => u = t
<1>1. flag[t] \in Flags
  BY DEF TypeOK
<1>2. t \in Runners(flag[t])
  BY DEF Runners
<1>3. QED
  BY <1>1, <1>2 DEF FlagExact, Runners

LEMMA CallKeeps ==
  ASSUME IInv, NEW t \in Threads, NEW f \in Flags, Call(t, f)
  PROVE  IInv'
<1> USE DEF IInv, Call, Goto
<1>1. TypeOK'
  BY DEF TypeOK, Labels, Executing
<1>2. \A g \in Flags : Runners(g)' = Runners(g)
  BY DEF Runners, Executing, TypeOK
<1>3. FlagExact'
  BY <1>2 DEF FlagExact
<1>4. Stages'
  BY DEF Stages, TypeOK
<1>5. NoLostWakeup'
  BY DEF NoLostWakeup, Broadcasters, TypeOK
<1>6. QED
  BY <1>1, <1>3, <1>4, <1>5

LEMMA FastReturnKeeps ==
  ASSUME IInv, NEW t \in Threads, FastReturn(t)
  PROVE  IInv'
<1> USE DEF IInv, FastReturn, Goto
<1>1. TypeOK'
  BY DEF TypeOK, Labels, Executing
<1>2. \A g \in Flags : Runners(g)' = Runners(g)
  BY DEF Runners, Executing, TypeOK
<1>3. FlagExact'
  BY <1>2 DEF FlagExact
<1>4. Stages'
  BY DEF Stages, TypeOK
<1>5. NoLostWakeup'
  BY DEF NoLostWakeup, Broadcasters, TypeOK
<1>6. QED
  BY <1>1, <1>3, <1>4, <1>5

LEMMA EnterKeeps ==
  ASSUME IInv, NEW t \in Threads, Enter(t)
  PROVE  IInv'
<1> USE DEF IInv
<1>1. flag[t] \in Flags /\ pc[t] = "slow" /\ t \notin waiting
  BY DEF Enter, TypeOK
<1>2. CASE /\ state[flag[t]] = Running
           /\ waiting' = waiting \cup {t}
           /\ UNCHANGED <<state, pc, flag, finished, throws>>
  <2>1. TypeOK' /\ Stages'
    BY <1>1, <1>2 DEF TypeOK, Stages
  <2>2. FlagExact'
    BY <1>2 DEF FlagExact, Runners
  <2>3. NoLostWakeup'
    BY <1>1, <1>2 DEF NoLostWakeup, Broadcasters
  <2>4. QED
    BY <2>1, <2>2, <2>3
<1>3. CASE /\ state[flag[t]] = Fresh
           /\ state' = [state EXCEPT ![flag[t]] = Running]
           /\ pc' = [pc EXCEPT ![t] = "func"]
           /\ UNCHANGED <<waiting, flag, finished, throws>>
  <2>1. TypeOK'
    BY <1>1, <1>3 DEF TypeOK, Labels, Executing
  <2>2. Runners(flag[t]) = {} /\ flag[t] \notin finished
    BY <1>1, <1>3 DEF FlagExact, Fresh, Running
  <2>3. /\ Runners(flag[t])' = {t}
        /\ \A g \in Flags \ {flag[t]} : Runners(g)' = Runners(g)
    BY <1>1, <1>3, <2>2 DEF Runners, Executing, TypeOK
  <2>4. FlagExact'
    BY <1>1, <1>3, <2>3 DEF FlagExact, TypeOK, Fresh, Running, Done
  <2>5. Stages'
    BY <1>1, <1>3, <2>2 DEF Stages, TypeOK, Fresh, Done
  <2>6. NoLostWakeup'
    BY <1>1, <1>3 DEF NoLostWakeup, Broadcasters, TypeOK, Fresh, Running
  <2>7. QED
    BY <2>1, <2>4, <2>5, <2>6
<1>4. CASE /\ state[flag[t]] = Done
           /\ pc' = [pc EXCEPT ![t] = "idle"]
           /\ UNCHANGED <<state, waiting, flag, finished, throws>>
  <2>1. TypeOK'
    BY <1>1, <1>4 DEF TypeOK, Labels, Executing
  <2>2. \A g \in Flags : Runners(g)' = Runners(g)
    BY <1>1, <1>4 DEF Runners, Executing, TypeOK
  <2>3. FlagExact'
    BY <1>4, <2>2 DEF FlagExact
  <2>4. Stages' /\ NoLostWakeup'
    BY <1>1, <1>4 DEF Stages, NoLostWakeup, Broadcasters, TypeOK
  <2>5. QED
    BY <2>1, <2>3, <2>4
<1>5. QED
  BY <1>2, <1>3, <1>4 DEF Enter, Goto

(* func returns or throws, still as the only runner of its flag.           *)
LEMMA FuncEndsKeeps ==
  ASSUME IInv, NEW t \in Threads, FuncReturns(t) \/ FuncThrows(t)
  PROVE  IInv'
<1> USE DEF IInv
<1>1. pc[t] = "func" /\ flag[t] \in Flags /\ UNCHANGED <<state, waiting, flag>>
  BY DEF FuncReturns, FuncThrows, TypeOK
<1>2. PICK label \in {"ran", "threw"} : pc' = [pc EXCEPT ![t] = label]
  BY DEF FuncReturns, FuncThrows, Goto
<1>3. /\ state[flag[t]] = Running
      /\ \A u \in Threads : pc[u] \in Executing /\ flag[u] = flag[t] => u = t
  BY <1>1, RunnerAlone DEF Executing
<1>4. \A g \in Flags : Runners(g)' = Runners(g)
  BY <1>1, <1>2 DEF Runners, Executing, TypeOK
<1>5. throws' \in [Flags -> 0..MaxThrows]
  <2>1. CASE throws' = throws
    BY <2>1 DEF TypeOK
  <2>2. CASE throws[flag[t]] < MaxThrows /\ throws' = [throws EXCEPT ![flag[t]] = @ + 1]
    <3>1. throws[flag[t]] + 1 \in 0..MaxThrows
      BY <1>1, <2>2, CallOnceAssumption DEF TypeOK
    <3>2. QED
      BY <2>2, <3>1 DEF TypeOK
  <2>3. QED
    BY <2>1, <2>2 DEF FuncReturns, FuncThrows
<1>6. TypeOK'
  BY <1>1, <1>2, <1>5 DEF TypeOK, Labels, Executing, FuncReturns, FuncThrows
<1>7. FlagExact'
  BY <1>1, <1>3, <1>4 DEF FlagExact, FuncReturns, FuncThrows, Fresh, Running, Done
<1>8. Stages'
  <2>1. \A u \in Threads \ {t} : flag[u] = flag[t] => pc[u] \notin {"func", "threw"}
    BY <1>3 DEF Executing
  <2>2. QED
    BY <1>1, <2>1 DEF Stages, FuncReturns, FuncThrows, Goto, TypeOK
<1>9. NoLostWakeup'
  BY <1>1, <1>2 DEF NoLostWakeup, Broadcasters, TypeOK
<1>10. QED
  BY <1>6, <1>7, <1>8, <1>9

(* The word is written again, and the broadcast is still to come.          *)
LEMMA StoreKeeps ==
  ASSUME IInv, NEW t \in Threads, pc[t] \in Executing, NEW label, NEW word,
         \/ label = "broadcast" /\ word = Done /\ flag[t] \in finished
         \/ label = "rebroadcast" /\ word = Fresh /\ flag[t] \notin finished,
         pc' = [pc EXCEPT ![t] = label], state' = [state EXCEPT ![flag[t]] = word],
         UNCHANGED <<waiting, flag, finished, throws>>
  PROVE  IInv'
<1> USE DEF IInv
<1>1. flag[t] \in Flags
  BY DEF TypeOK
<1>2. /\ state[flag[t]] = Running
      /\ \A u \in Threads : pc[u] \in Executing /\ flag[u] = flag[t] => u = t
  BY <1>1, RunnerAlone
<1>4. word \in {Fresh, Done}
  OBVIOUS
<1>5. TypeOK'
  BY <1>1, <1>4 DEF TypeOK, Labels, Executing
<1>6. /\ Runners(flag[t])' = {}
      /\ \A g \in Flags \ {flag[t]} : Runners(g)' = Runners(g)
  BY <1>1, <1>2 DEF Runners, Executing, TypeOK
<1>7. FlagExact'
  BY <1>1, <1>6 DEF FlagExact, TypeOK, Fresh, Running, Done
<1>8. Stages'
  <2>1. \A u \in Threads : pc[u] = "fast" => flag[u] # flag[t]
    BY <1>2 DEF Stages, Running, Done
  <2>2. QED
    BY <1>1, <2>1 DEF Stages, TypeOK
<1>9. NoLostWakeup'
  BY <1>1 DEF NoLostWakeup, Broadcasters, TypeOK
<1>10. QED
  BY <1>5, <1>7, <1>8, <1>9

LEMMA StoreDoneKeeps ==
  ASSUME IInv, NEW t \in Threads, StoreDone(t)
  PROVE  IInv'
<1>1. pc[t] \in Executing /\ flag[t] \in finished
  BY DEF StoreDone, Executing, IInv, Stages
<1>2. QED
  BY <1>1, StoreKeeps DEF StoreDone, Goto

LEMMA ResetKeeps ==
  ASSUME IInv, NEW t \in Threads, Reset(t)
  PROVE  IInv'
<1>1. pc[t] \in Executing /\ flag[t] \notin finished
  BY DEF Reset, Executing, IInv, Stages
<1>2. QED
  BY <1>1, StoreKeeps DEF Reset, Goto

LEMMA BroadcastKeeps ==
  ASSUME IInv, NEW t \in Threads, Broadcast(t)
  PROVE  IInv'
<1> USE DEF IInv, Broadcast, Broadcasters, Goto
<1>1. TypeOK'
  BY DEF TypeOK, Labels, Executing
<1>2. \A g \in Flags : Runners(g)' = Runners(g)
  BY DEF Runners, Executing, TypeOK
<1>3. FlagExact'
  BY <1>2 DEF FlagExact
<1>4. Stages' /\ NoLostWakeup'
  BY DEF Stages, NoLostWakeup, TypeOK
<1>5. QED
  BY <1>1, <1>3, <1>4

LEMMA SpuriousWakeupKeeps ==
  ASSUME IInv, NEW t \in Threads, SpuriousWakeup(t)
  PROVE  IInv'
<1>1. \A g \in Flags : Runners(g)' = Runners(g)
  BY DEF SpuriousWakeup, Runners
<1>2. TypeOK' /\ FlagExact' /\ Stages' /\ NoLostWakeup'
  BY <1>1 DEF IInv, SpuriousWakeup, TypeOK, FlagExact, Stages, NoLostWakeup, Broadcasters
<1>3. QED
  BY <1>2 DEF IInv

LEMMA StepIInv == IInv /\ [Next]_vars => IInv'
<1> SUFFICES ASSUME IInv, [Next]_vars PROVE IInv'
  OBVIOUS
<1>1. CASE UNCHANGED vars
  BY <1>1 DEF vars, IInv, TypeOK, FlagExact, Runners, Stages, NoLostWakeup, Broadcasters
<1>2. CASE Next
  BY <1>2, CallKeeps, FastReturnKeeps, EnterKeeps, FuncEndsKeeps, StoreDoneKeeps,
     ResetKeeps, BroadcastKeeps, SpuriousWakeupKeeps DEF Next
<1>3. QED
  BY <1>1, <1>2

(* The inductive invariant.                                                *)
THEOREM Invariance == Spec => []IInv
<1>1. QED
  BY InitIInv, StepIInv, PTL DEF Spec

(* Every word is 0, 1 or ~0, and the exceptions stay within their bound.   *)
THEOREM TypeCorrect == Spec => []TypeOK
<1>1. IInv => TypeOK
  BY DEF IInv
<1>2. QED
  BY <1>1, Invariance, PTL

(* The word of a flag tells whether its function runs, has run or is to be *)
(* run, also after an exception.                                           *)
THEOREM FlagsAreExact == Spec => []FlagExact
<1>1. IInv => FlagExact
  BY DEF IInv
<1>2. QED
  BY <1>1, Invariance, PTL

(* The waiters of one flag are woken whatever the other flags do.          *)
THEOREM NoWakeupIsLost == Spec => []NoLostWakeup
<1>1. IInv => NoLostWakeup
  BY DEF IInv
<1>2. QED
  BY <1>1, Invariance, PTL
-----------------------------------------------------------------------------
Stutter == /\ CallsAt(Labels \ {"idle"})' = CallsAt(Labels \ {"idle"})
           /\ CallsAt({"func"})' = CallsAt({"func"})
           /\ CallsAt({"threw", "rebroadcast"})' = CallsAt({"threw", "rebroadcast"})
           /\ finished' = finished

(* A thread that goes from one label to another within its call changes    *)
(* nothing but its own membership.                                         *)
LEMMA Moves ==
  ASSUME TypeOK, NEW t \in Threads, NEW label, NEW labels, pc' = [pc EXCEPT ![t] = label],
         UNCHANGED flag
  PROVE  /\ <<t, flag[t]>> \in CallsAt(labels) <=> pc[t] \in labels
         /\ CallsAt(labels)' = IF label \in labels
                                 THEN CallsAt(labels) \cup {<<t, flag[t]>>}
                                 ELSE CallsAt(labels) \ {<<t, flag[t]>>}
<1>1. flag[t] \in Flags
  BY DEF TypeOK
<1>2. <<t, flag[t]>> \in CallsAt(labels) <=> pc[t] \in labels
  BY <1>1 DEF CallsAt
<1>3. ASSUME NEW c \in Threads \X Flags, c # <<t, flag[t]>>
      PROVE  c \in CallsAt(labels)' <=> c \in CallsAt(labels)
  <2>1. PICK u \in Threads, g \in Flags : c = <<u, g>>
    BY <1>3
  <2>2. CASE u = t
    BY <1>1, <1>3, <2>1, <2>2 DEF CallsAt, TypeOK
  <2>3. CASE u # t
    BY <2>1, <2>3 DEF CallsAt, TypeOK
  <2>4. QED
    BY <2>2, <2>3
<1>4. <<t, flag[t]>> \in CallsAt(labels)' <=> label \in labels
  BY <1>1 DEF CallsAt, TypeOK
<1>5. CallsAt(labels) \subseteq Threads \X Flags /\ CallsAt(labels)' \subseteq Threads \X Flags
  BY DEF CallsAt
<1>6. <<t, flag[t]>> \in Threads \X Flags
  BY <1>1
<1>7. CASE label \in labels
  BY <1>2, <1>3, <1>4, <1>5, <1>6, <1>7
<1>8. CASE label \notin labels
  BY <1>2, <1>3, <1>4, <1>5, <1>6, <1>8
<1>9. QED
  BY <1>2, <1>7, <1>8

LEMMA Stays ==
  ASSUME TypeOK, NEW t \in Threads, NEW label, NEW labels, pc' = [pc EXCEPT ![t] = label],
         UNCHANGED flag, pc[t] \in labels <=> label \in labels
  PROVE  CallsAt(labels)' = CallsAt(labels)
<1>1. CASE label \in labels
  <2>1. CallsAt(labels)' = CallsAt(labels) \cup {<<t, flag[t]>>}
    BY <1>1, Moves
  <2>2. <<t, flag[t]>> \in CallsAt(labels)
    BY <1>1, Moves
  <2>3. QED
    BY <2>1, <2>2
<1>2. CASE label \notin labels
  <2>1. CallsAt(labels)' = CallsAt(labels) \ {<<t, flag[t]>>}
    BY <1>2, Moves
  <2>2. <<t, flag[t]>> \notin CallsAt(labels)
    BY <1>2, Moves
  <2>3. QED
    BY <2>1, <2>2
<1>3. QED
  BY <1>1, <1>2

LEMMA Joins ==
  ASSUME TypeOK, NEW t \in Threads, NEW label, NEW labels, pc' = [pc EXCEPT ![t] = label],
         UNCHANGED flag, label \in labels
  PROVE  CallsAt(labels)' = CallsAt(labels) \cup {<<t, flag[t]>>}
BY Moves

LEMMA Leaves ==
  ASSUME TypeOK, NEW t \in Threads, NEW label, NEW labels, pc' = [pc EXCEPT ![t] = label],
         UNCHANGED flag, label \notin labels
  PROVE  CallsAt(labels)' = CallsAt(labels) \ {<<t, flag[t]>>}
BY Moves

LEMMA Here ==
  ASSUME TypeOK, NEW t \in Threads, NEW labels
  PROVE  <<t, flag[t]>> \in CallsAt(labels) <=> pc[t] \in labels
BY DEF CallsAt, TypeOK

LEMMA StepRefines == IInv /\ [Next]_vars => [O!OnceNext]_(O!onceVars)
<1> SUFFICES ASSUME IInv, [Next]_vars PROVE O!OnceNext \/ Stutter
  BY DEF O!onceVars, Stutter
<1> DEFINE Calls == CallsAt(Labels \ {"idle"})
           Active == CallsAt({"func"})
           Failed == CallsAt({"threw", "rebroadcast"})
<1>1. CASE UNCHANGED vars
  BY <1>1 DEF vars, Stutter, CallsAt
<1>2. ASSUME NEW t \in Threads, NEW f \in Flags, Call(t, f) PROVE O!OnceNext
  <2>1. ASSUME NEW labels
        PROVE  /\ \A g \in Flags : "idle" \notin labels => <<t, g>> \notin CallsAt(labels)
               /\ "idle" \notin labels /\ pc'[t] \notin labels => CallsAt(labels)' = CallsAt(labels)
               /\ "idle" \notin labels /\ pc'[t] \in labels
                    => CallsAt(labels)' = CallsAt(labels) \cup {<<t, f>>}
    BY <1>2 DEF Call, Goto, CallsAt, IInv, TypeOK
  <2>2. pc'[t] \in {"slow", "fast"} /\ finished' = finished
    BY <1>2 DEF Call, Goto, IInv, TypeOK
  <2>3. Calls' = Calls \cup {<<t, f>>} /\ \A g \in Flags : <<t, g>> \notin Calls
    BY <2>1, <2>2 DEF Labels
  <2>4. Active' = Active /\ Failed' = Failed
    BY <2>1, <2>2
  <2>5. O!Enter(t, f)
    BY <2>2, <2>3, <2>4 DEF O!Enter
  <2>6. QED
    BY <2>5 DEF O!OnceNext
<1>3. ASSUME NEW t \in Threads, NEW label \in Labels \ {"idle"},
             pc[t] # "idle", pc' = [pc EXCEPT ![t] = label], UNCHANGED <<flag, finished>>,
             pc[t] = "func" <=> label = "func",
             pc[t] \in {"threw", "rebroadcast"} <=> label \in {"threw", "rebroadcast"}
      PROVE  Stutter
  <2>1. pc[t] \in Labels
    BY DEF IInv, TypeOK
  <2>2. Calls' = Calls
    BY <1>3, <2>1, Stays, Joins, Leaves, Here DEF IInv
  <2>3. Active' = Active
    BY <1>3, Stays, Joins, Leaves, Here DEF IInv
  <2>4. Failed' = Failed
    BY <1>3, Stays, Joins, Leaves, Here DEF IInv
  <2>5. QED
    BY <1>3, <2>2, <2>3, <2>4 DEF Stutter
<1>4. ASSUME NEW t \in Threads, pc' = [pc EXCEPT ![t] = "idle"],
             pc[t] \notin {"idle", "func"}, UNCHANGED <<flag, finished>>,
             flag[t] \in finished \/ pc[t] \in {"threw", "rebroadcast"}
      PROVE  O!OnceNext
  <2>1. pc[t] \in Labels /\ flag[t] \in Flags
    BY DEF IInv, TypeOK
  <2>2. <<t, flag[t]>> \in Calls /\ Calls' = Calls \ {<<t, flag[t]>>}
    BY <1>4, <2>1, Stays, Joins, Leaves, Here DEF IInv
  <2>3. <<t, flag[t]>> \notin Active /\ Active' = Active
    BY <1>4, Stays, Joins, Leaves, Here DEF IInv
  <2>4. Failed' = Failed \ {<<t, flag[t]>>}
    BY <1>4, Leaves, "idle" \notin {"threw", "rebroadcast"} DEF IInv
  <2>0. <<t, flag[t]>> \in Failed <=> pc[t] \in {"threw", "rebroadcast"}
    BY Here DEF IInv
  <2>5. O!Leave(t, flag[t])
    BY <1>4, <2>0, <2>2, <2>3, <2>4 DEF O!Leave
  <2>6. QED
    BY <2>1, <2>5 DEF O!OnceNext
<1>5. ASSUME NEW t \in Threads, FastReturn(t) PROVE O!OnceNext
  <2>1. flag[t] \in finished
    BY <1>5 DEF FastReturn, IInv, Stages, FlagExact, TypeOK
  <2>2. QED
    BY <1>4, <1>5, <2>1 DEF FastReturn, Goto
<1>6. ASSUME NEW t \in Threads, Enter(t) PROVE O!OnceNext \/ Stutter
  <2>1. flag[t] \in Flags /\ pc[t] = "slow" /\ UNCHANGED <<flag, finished>>
    BY <1>6 DEF Enter, IInv, TypeOK
  <2>2. CASE UNCHANGED pc
    BY <2>1, <2>2 DEF Stutter, CallsAt
  <2>3. CASE state[flag[t]] = Done /\ pc' = [pc EXCEPT ![t] = "idle"]
    <3>1. flag[t] \in finished
      BY <2>1, <2>3 DEF IInv, FlagExact
    <3>2. QED
      BY <1>4, <2>1, <2>3, <3>1
  <2>4. CASE state[flag[t]] = Fresh /\ pc' = [pc EXCEPT ![t] = "func"]
    <3>1. Runners(flag[t]) = {} /\ flag[t] \notin finished
      BY <2>1, <2>4 DEF IInv, FlagExact, Fresh, Running
    <3>2. \A u \in Threads : <<u, flag[t]>> \notin Active
      BY <2>1, <3>1 DEF Runners, Executing, CallsAt
    <3>3. <<t, flag[t]>> \in Calls /\ Calls' = Calls
      BY <2>1, <2>4, Stays, Joins, Leaves, Here DEF IInv, Labels, Executing
    <3>4. Active' = Active \cup {<<t, flag[t]>>}
      BY <2>1, <2>4, Stays, Joins, Leaves, Here DEF IInv
    <3>5. <<t, flag[t]>> \notin Failed /\ Failed' = Failed
      <4>1. <<t, flag[t]>> \notin Failed
        BY <2>1, Here DEF IInv
      <4>2. Failed' = Failed
        BY <2>1, <2>4, Stays DEF IInv
      <4>3. QED
        BY <4>1, <4>2
    <3>6. O!Start(t, flag[t])
      BY <2>1, <3>1, <3>2, <3>3, <3>4, <3>5 DEF O!Start
    <3>7. QED
      BY <2>1, <3>6 DEF O!OnceNext
  <2>5. QED
    BY <1>6, <2>2, <2>3, <2>4 DEF Enter, Goto
<1>7. ASSUME NEW t \in Threads, FuncReturns(t) PROVE O!OnceNext
  <2>1. /\ flag[t] \in Flags /\ pc[t] = "func" /\ UNCHANGED flag
        /\ pc' = [pc EXCEPT ![t] = "ran"] /\ finished' = finished \cup {flag[t]}
    BY <1>7 DEF FuncReturns, Goto, IInv, TypeOK
  <2>2. Calls' = Calls
    BY <2>1, Stays, Joins, Leaves, Here DEF IInv, Labels, Executing
  <2>0. <<t, flag[t]>> \in Active
    BY <2>1, Here DEF IInv
  <2>3. Active' = Active \ {<<t, flag[t]>>}
    BY <2>1, Leaves, "ran" \notin {"func"} DEF IInv
  <2>4. Failed' = Failed
    BY <2>1, Stays, Joins, Leaves, Here DEF IInv
  <2>5. O!Finish(t, flag[t])
    BY <2>0, <2>1, <2>2, <2>3, <2>4 DEF O!Finish
  <2>6. QED
    BY <2>1, <2>5 DEF O!OnceNext
<1>8. ASSUME NEW t \in Threads, FuncThrows(t) PROVE O!OnceNext
  <2>1. /\ flag[t] \in Flags /\ pc[t] = "func" /\ UNCHANGED <<flag, finished>>
        /\ pc' = [pc EXCEPT ![t] = "threw"]
    BY <1>8 DEF FuncThrows, Goto, IInv, TypeOK
  <2>2. Calls' = Calls
    BY <2>1, Stays, Joins, Leaves, Here DEF IInv, Labels, Executing
  <2>0. <<t, flag[t]>> \in Active
    BY <2>1, Here DEF IInv
  <2>3. Active' = Active \ {<<t, flag[t]>>}
    BY <2>1, Leaves, "threw" \notin {"func"} DEF IInv
  <2>4. Failed' = Failed \cup {<<t, flag[t]>>}
    BY <2>1, Stays, Joins, Leaves, Here DEF IInv
  <2>5. O!Fail(t, flag[t])
    BY <2>0, <2>1, <2>2, <2>3, <2>4 DEF O!Fail
  <2>6. QED
    BY <2>1, <2>5 DEF O!OnceNext
<1>9. ASSUME NEW t \in Threads, StoreDone(t) \/ Reset(t) PROVE Stutter
  <2>1. CASE StoreDone(t)
    BY <1>3, <2>1 DEF StoreDone, Goto, Labels, Executing
  <2>2. CASE Reset(t)
    BY <1>3, <2>2 DEF Reset, Goto, Labels, Executing
  <2>3. QED
    BY <1>9, <2>1, <2>2
<1>10. ASSUME NEW t \in Threads, Broadcast(t) PROVE O!OnceNext
  <2>1. pc[t] = "rebroadcast" \/ flag[t] \in finished
    BY <1>10 DEF Broadcast, Broadcasters, IInv, Stages
  <2>2. QED
    BY <1>4, <1>10, <2>1 DEF Broadcast, Broadcasters, Goto
<1>11. ASSUME NEW t \in Threads, SpuriousWakeup(t) PROVE Stutter
  BY <1>11 DEF SpuriousWakeup, Stutter, CallsAt
<1>12. QED
  BY <1>1, <1>2, <1>5, <1>6, <1>7, <1>8, <1>9, <1>10, <1>11 DEF Next

(* The word, the mutex and the shared condition variable implement what    *)
(* call_once promises.                                                     *)
THEOREM Refinement == Spec => ImplementsOnce
<1>1. Init => O!OnceInit
  BY DEF Init, O!OnceInit, CallsAt
<1>2. QED
  BY <1>1, StepRefines, Invariance, PTL DEF Spec, ImplementsOnce, O!OnceSpec
==============================================================================
