----------------------------- MODULE MCWideCodecvt -----------------------------
EXTENDS WideCodecvt, TLC

(* One locale with characters of two bytes, and one of three.              *)
MCEncodings ==
  [C |-> 0 :> <<0>> @@ 97 :> <<97>>,
   utf8 |-> 0 :> <<0>> @@ 97 :> <<97>> @@ 233 :> <<195, 169>> @@ 39529 :> <<233, 169, 169>>]
================================================================================
