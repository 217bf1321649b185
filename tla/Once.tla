---------------------------------- MODULE Once ----------------------------------
(***************************************************************************)
(* What call_once promises: of all the calls with one flag exactly one     *)
(* runs its function to the end, a call whose function throws leaves the   *)
(* flag to another one, and the others return only after the function.     *)
(***************************************************************************)
CONSTANTS Threads, Flags

VARIABLES
  calls,      (* the calls under way, <<thread, flag>>                     *)
  active,     (* those of them that are running the function               *)
  failed,     (* those whose function has thrown                           *)
  finished    (* the flags whose function has returned                     *)

onceVars == <<calls, active, failed, finished>>

OnceInit == calls = {} /\ active = {} /\ failed = {} /\ finished = {}

Enter(t, f) ==
  /\ \A g \in Flags : <<t, g>> \notin calls
  /\ calls' = calls \cup {<<t, f>>}
  /\ UNCHANGED <<active, failed, finished>>

Start(t, f) ==
  /\ <<t, f>> \in calls \ failed /\ f \notin finished
  /\ \A u \in Threads : <<u, f>> \notin active
  /\ active' = active \cup {<<t, f>>}
  /\ UNCHANGED <<calls, failed, finished>>

Finish(t, f) ==
  /\ <<t, f>> \in active
  /\ active' = active \ {<<t, f>>}
  /\ finished' = finished \cup {f}
  /\ UNCHANGED <<calls, failed>>

Fail(t, f) ==
  /\ <<t, f>> \in active
  /\ active' = active \ {<<t, f>>}
  /\ failed' = failed \cup {<<t, f>>}
  /\ UNCHANGED <<calls, finished>>

(* A call ends when the function has run, or with its own exception.       *)
Leave(t, f) ==
  /\ <<t, f>> \in calls \ active
  /\ f \in finished \/ <<t, f>> \in failed
  /\ calls' = calls \ {<<t, f>>}
  /\ failed' = failed \ {<<t, f>>}
  /\ UNCHANGED <<active, finished>>

OnceNext == \E t \in Threads, f \in Flags :
  Enter(t, f) \/ Start(t, f) \/ Finish(t, f) \/ Fail(t, f) \/ Leave(t, f)

OnceSpec == OnceInit /\ [][OnceNext]_onceVars
==============================================================================
