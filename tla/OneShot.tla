-------------------------------- MODULE OneShot --------------------------------
(***************************************************************************)
(* What a promise and its futures are together: a result that is stored    *)
(* once and then, at once or later, becomes visible; whoever asks for it   *)
(* gets an answer only when it is visible.                                 *)
(***************************************************************************)
CONSTANT Askers

VARIABLES
  result,     (* "none", "value" or "error"                                *)
  visible,    (* the result may be read                                    *)
  asking      (* those that wait for it without a deadline                 *)

osVars == <<result, visible, asking>>

OSInit == result = "none" /\ visible = FALSE /\ asking = {}

Store ==
  /\ result = "none"
  /\ result' \in {"value", "error"}
  /\ visible' \in BOOLEAN
  /\ UNCHANGED asking

Publish ==
  /\ result # "none" /\ ~visible
  /\ visible' = TRUE
  /\ UNCHANGED <<result, asking>>

Ask(c) ==
  /\ c \notin asking
  /\ asking' = asking \cup {c}
  /\ UNCHANGED <<result, visible>>

Answer(c) ==
  /\ c \in asking /\ visible
  /\ asking' = asking \ {c}
  /\ UNCHANGED <<result, visible>>

(* The asker is also the one that finds the result: a deferred function.   *)
AnswerItself(c) ==
  /\ c \in asking /\ result = "none"
  /\ result' \in {"value", "error"} /\ visible' = TRUE
  /\ asking' = asking \ {c}

OSNext == Store \/ Publish \/ \E c \in Askers : Ask(c) \/ Answer(c) \/ AnswerItself(c)

OSSpec == OSInit /\ [][OSNext]_osVars
==============================================================================
