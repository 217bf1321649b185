------------------------------ MODULE WideCodecvt ------------------------------
(***************************************************************************)
(* codecvt<wchar_t, char, mbstate_t> of src/locale.cpp: the functions of   *)
(* the C library convert text up to its next null, do_out and do_in go     *)
(* from null to null.  Characters and bytes are numbers, 0 is the null;    *)
(* what mbstate_t keeps is the beginning of a character.                   *)
(***************************************************************************)
EXTENDS Integers, Sequences, SequencesExt, FiniteSetsExt

CONSTANTS
  Encodings,   \* of a locale, by its name: the bytes of each character it has
  Characters,  \* the characters written
  Bytes,       \* the bytes read
  MaxText, MaxBytes, Rooms

VARIABLES request, answer

wvars == <<request, answer>>

Null == 0
Encoding(name) == Encodings[name]
Written(name, text) == FlattenSeq([i \in DOMAIN text |-> Encoding(name)[text[i]]])

(* fend: how much of it there is up to the next null.                      *)
UpToNull(s, from) ==
  LET nulls == {i \in (from + 1)..Len(s) : s[i] = Null}
  IN IF nulls = {} THEN Len(s) ELSE Min(nulls) - 1
-----------------------------------------------------------------------------
(* wcsnrtombs_l: as many characters as fit, up to one that has no bytes.   *)
Wcsnrtombs(name, chunk, room) ==
  LET has(k) == \A i \in 1..k : chunk[i] \in DOMAIN Encoding(name)
      fits(k) == Len(Written(name, SubSeq(chunk, 1, k))) <= room
      taken == Max({k \in 0..Len(chunk) : has(k) /\ fits(k)})
      bytes == Written(name, SubSeq(chunk, 1, taken))
  IN [taken |-> taken, bytes |-> bytes,
      illegal |-> taken < Len(chunk) /\ Len(bytes) < room /\ ~has(taken + 1)]

(* mbrtowc_l and mbrlen_l: the character that the kept bytes begin, how    *)
(* many bytes it has taken of b, and what is kept.                         *)
Mbrtowc(name, kept, b) ==
  LET front(k) == kept \o SubSeq(b, 1, k)
      whole == {k \in 1..Len(b) : \E c \in DOMAIN Encoding(name) : Encoding(name)[c] = front(k)}
      begun == \E c \in DOMAIN Encoding(name) : IsPrefix(front(Len(b)), Encoding(name)[c])
  IN CASE whole # {} ->
            [n |-> Min(whole), kept |-> <<>>,
             char |-> CHOOSE c \in DOMAIN Encoding(name) : Encoding(name)[c] = front(Min(whole))]
       [] whole = {} /\ begun -> [n |-> -2, kept |-> front(Len(b))]
       [] whole = {} /\ ~begun -> [n |-> -1, kept |-> kept]

(* mbsnrtowcs_l: a character that is not all there is kept, and one that   *)
(* is none is left where it is.                                            *)
RECURSIVE Mbsnrtowcs(_, _, _, _)
Mbsnrtowcs(name, kept, b, room) ==
  IF b = <<>> \/ room = 0 THEN [chars |-> <<>>, rest |-> b, kept |-> kept, illegal |-> FALSE]
  ELSE LET one == Mbrtowc(name, kept, b)
       IN CASE one.n = -1 -> [chars |-> <<>>, rest |-> b, kept |-> kept, illegal |-> TRUE]
            [] one.n = -2 -> [chars |-> <<>>, rest |-> <<>>, kept |-> one.kept, illegal |-> FALSE]
            [] one.n > 0 ->
                 LET more == Mbsnrtowcs(name, <<>>, SubSeq(b, one.n + 1, Len(b)), room - 1)
                 IN [more EXCEPT !.chars = <<one.char>> \o @]
-----------------------------------------------------------------------------
(* do_out: s is how much has been taken, what has been written, and        *)
(* whether a null has taken the place of a character in front of it (which *)
(* is not in the code).                                                    *)
Ending(s, text) == [s EXCEPT !.result = IF s.taken = Len(text) THEN "ok" ELSE "partial"]

RECURSIVE OutLoop(_, _, _, _)
OutLoop(name, text, room, s) ==
  IF s.taken = Len(text) \/ Len(s.given) = room THEN Ending(s, text)
  ELSE LET fend == UpToNull(text, s.begun)
           out == Wcsnrtombs(name, SubSeq(text, s.taken + 1, fend), room - Len(s.given))
           then == [s EXCEPT !.taken = @ + out.taken, !.given = @ \o out.bytes]
       IN CASE out.illegal -> [then EXCEPT !.result = "error"]
            [] ~out.illegal /\ out.bytes = <<>> -> [then EXCEPT !.result = "partial"]
            [] OTHER ->
                 IF Len(then.given) = room THEN Ending(then, text)
                 ELSE IF fend = Len(text) THEN OutLoop(name, text, room, then)
                 ELSE OutLoop(name, text, room,
                        [then EXCEPT !.taken = @ + 1, !.given = Append(@, Null),
                                     !.begun = then.taken + 1,
                                     !.skipped = @ \/ then.taken # fend])
DoOut(name, text, room) ==
  OutLoop(name, text, room,
          [taken |-> 0, given |-> <<>>, begun |-> 0, skipped |-> FALSE, result |-> "none"])

(* do_in: what is no character ends it, as if there were no room.          *)
RECURSIVE InLoop(_, _, _, _)
InLoop(name, bytes, room, s) ==
  IF s.taken = Len(bytes) \/ Len(s.given) = room THEN Ending(s, bytes)
  ELSE LET fend == UpToNull(bytes, s.taken)
           in == Mbsnrtowcs(name, s.kept, SubSeq(bytes, s.taken + 1, fend), room - Len(s.given))
           then == [s EXCEPT !.taken = fend - Len(in.rest), !.given = @ \o in.chars,
                             !.kept = in.kept]
       IN IF in.illegal \/ Len(then.given) = room \/ fend = Len(bytes) THEN Ending(then, bytes)
          ELSE IF then.kept # <<>> THEN [then EXCEPT !.result = "error"]
          ELSE InLoop(name, bytes, room, [then EXCEPT !.taken = @ + 1, !.given = Append(@, Null)])
DoIn(name, kept, bytes, room) ==
  InLoop(name, bytes, room, [taken |-> 0, given |-> <<>>, kept |-> kept, result |-> "none"])

(* do_length: the bytes of at most mx characters, of those that are whole. *)
(* Mutant: a null is no character.                                         *)
RECURSIVE LengthUpToNull(_, _, _, _)
LengthUpToNull(name, kept, bytes, mx) ==
  LET one == Mbrtowc(name, kept, bytes)
  IN IF mx = 0 \/ bytes = <<>> \/ bytes[1] = Null \/ one.n < 0 THEN 0
     ELSE one.n + LengthUpToNull(name, one.kept, SubSeq(bytes, one.n + 1, Len(bytes)), mx - 1)
RECURSIVE DoLength(_, _, _, _)
DoLength(name, kept, bytes, mx) ==
  IF mx = 0 \/ bytes = <<>> THEN 0
  ELSE LET one == Mbrtowc(name, kept, bytes)
       IN IF one.n < 0 THEN 0
          ELSE one.n + DoLength(name, one.kept, SubSeq(bytes, one.n + 1, Len(bytes)), mx - 1)

(* do_max_length and do_encoding; do_unshift is the null without itself.   *)
MaxLength(name) == Max({Len(Encoding(name)[c]) : c \in DOMAIN Encoding(name)})
FixedWidth(name) == IF MaxLength(name) = 1 THEN 1 ELSE 0
Unshift(name) == Front(Encoding(name)[Null])
-----------------------------------------------------------------------------
(* The facet of a locale there is; the caller has the text converted in as *)
(* many calls as it takes, until one of them gets nowhere.                 *)
Init ==
  /\ \/ request \in [op : {"out"}, name : DOMAIN Encodings, all : BoundedSeq(Characters, MaxText)]
     \/ request \in [op : {"in"}, name : DOMAIN Encodings, all : BoundedSeq(Bytes, MaxBytes)]
  /\ answer = [taken |-> 0, given |-> <<>>, kept |-> <<>>, result |-> "none", skipped |-> FALSE,
               counted |-> 0, converted |-> 0]

Remaining == SubSeq(request.all, answer.taken + 1, Len(request.all))
Going == answer.result \in {"none", "ok", "partial"} /\ Remaining # <<>>

Out ==
  /\ request.op = "out" /\ Going
  /\ \E room \in Rooms :
       \E s \in {DoOut(request.name, Remaining, room)} :
         answer' = [answer EXCEPT
           !.taken = @ + s.taken, !.given = @ \o s.given, !.skipped = @ \/ s.skipped,
           !.result = IF s.result = "partial" /\ s.taken = 0 THEN "stalled" ELSE s.result]
  /\ UNCHANGED request

In ==
  /\ request.op = "in" /\ Going
  /\ \E available \in 1..Len(Remaining), room \in Rooms :
       \E bytes \in {SubSeq(Remaining, 1, available)} :
         \E s \in {DoIn(request.name, answer.kept, bytes, room)} :
           answer' = [answer EXCEPT
             !.taken = @ + s.taken, !.given = @ \o s.given, !.kept = s.kept,
             !.result = IF s.result = "partial" /\ s.taken = 0 THEN "stalled" ELSE s.result,
             !.converted = IF s.given = <<>> THEN 0 ELSE s.taken - Len(s.kept),
             !.counted = DoLength(request.name, answer.kept, bytes, Len(s.given))]
  /\ UNCHANGED request

Close ==
  /\ request.op = "out" /\ ~Going /\ answer.result # "closed"
  /\ answer' = [answer EXCEPT !.given = @ \o Unshift(request.name), !.result = "closed"]
  /\ UNCHANGED request

Next == Out \/ In \/ Close

Spec == Init /\ [][Next]_wvars
-----------------------------------------------------------------------------
(* What has been taken is what has been given, in the bytes of the locale: *)
(* nothing is lost, doubled or changed between two calls, at a null or in  *)
(* front of what cannot be converted, and do_in stops for nothing else;    *)
(* what an encoding of one byte to a character says of positions is true.  *)
(* Not once do_out has put a null where a character had no room.           *)
StreamExact ==
  LET taken == SubSeq(request.all, 1, answer.taken)
  IN /\ (request.op = "out" /\ ~answer.skipped) =>
          /\ answer.given = Written(request.name, taken)
          /\ answer.result = "error" =>
               request.all[answer.taken + 1] \notin DOMAIN Encoding(request.name)
     /\ request.op = "in" =>
          /\ Written(request.name, answer.given) \o answer.kept = taken
          /\ answer.result = "error" => answer.kept # <<>>
          /\ answer.result = "stalled" => Mbrtowc(request.name, answer.kept, Remaining).n = -1
     /\ FixedWidth(request.name) = 1 => Len(answer.given) = answer.taken

(* do_length says how many bytes do_in takes for the characters it gives,  *)
(* but for the beginning of another one.                                   *)
LengthAgrees ==
  request.op = "in" => answer.counted = answer.converted

(* "loop over all null-terminated sequences in frm": do_out writes a null  *)
(* where the text has one, and never in the place of a character that had  *)
(* no room.                                                                *)
NothingSkipped == ~answer.skipped
================================================================================
