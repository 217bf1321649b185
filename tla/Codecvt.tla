------------------------------- MODULE Codecvt --------------------------------
(***************************************************************************)
(* The Unicode conversions of src/locale.cpp.  A writer converts a text of *)
(* code units with out(), a reader converts the bytes with in(), each in   *)
(* as many calls and with as much room as it likes; or the bytes come, one *)
(* at a time, from a file that no writer made.                             *)
(*                                                                         *)
(* An operator named for a function of the source is one turn of that      *)
(* function's loop: what it does with the first character of its argument. *)
(***************************************************************************)
EXTENDS Integers, Sequences, SequencesExt

CONSTANTS
  Facets,      \* the facets in use, of those defined below
  Maxcodes,    \* values of the template parameter Maxcode
  Headers,     \* values of the mode: header generated and consumed, or not
  Units,       \* the code units a text is made of
  MaxText,     \* bound: the length of a text
  FileBytes(_),\* the bytes a file in the encoding of a facet is made of
  MaxBytes,    \* bound: the bytes of a file
  Rooms        \* how much room the caller gives a call

VARIABLES
  facet,       \* the facet in use
  maxcode,     \* its _Maxcode_
  header,      \* whether its _Mode_ has generate_header and consume_header
  source,      \* where the bytes come from: "writer" or "file"
  text,        \* what the writer has to convert
  taken,       \* how many units of the text out() has taken
  sent,        \* the bytes so far
  used,        \* how many of them in() has used
  got,         \* the code units in() has stored
  last         \* the last call and what it returned

vars == <<facet, maxcode, header, source, text, taken, sent, used, got, last>>

-----------------------------------------------------------------------------
(* One character of one side, as a number of units of the other.           *)
Stop(result) == [result |-> result, used |-> 0, units |-> <<>>]
Step(n, units) == [result |-> "ok", used |-> n, units |-> units]

IsSurrogate(c) == c \in 55296..57343          \* 0xD800 - 0xDFFF
IsLead(c) == c \in 55296..56319               \* 0xD800 - 0xDBFF
IsTrail(c) == c \in 56320..57343              \* 0xDC00 - 0xDFFF
(* Mutant: the planes are not counted from 1.                             *)
LeadOfPlane(c) == 55296 + (c \div 65536) * 64 + ((c % 65536) \div 1024)
LeadOf(c) == 55296 + ((c \div 65536) - 1) * 64 + ((c % 65536) \div 1024)
TrailOf(c) == 56320 + (c % 1024)
Joined(lead, trail) ==
  (((lead % 1024) \div 64) + 1) * 65536 + (lead % 64) * 1024 + (trail % 1024)

(* The bytes of a character, and those of a 16-bit unit in either order.   *)
Continuation(n) == 128 + (n % 64)
Utf8Bytes(c) ==
  CASE c < 128 -> <<c>>
    [] c \in 128..2047 -> <<192 + (c \div 64), Continuation(c)>>
    [] c \in 2048..65535 ->
         <<224 + (c \div 4096), Continuation(c \div 64), Continuation(c)>>
    [] OTHER -> <<240 + (c \div 262144), Continuation(c \div 4096),
                  Continuation(c \div 64), Continuation(c)>>
BigEndian(u) == <<u \div 256, u % 256>>
LittleEndian(u) == <<u % 256, u \div 256>>

Fitting(bytes, n, room) ==
  IF Len(bytes) > room THEN Stop("partial") ELSE Step(n, bytes)

-----------------------------------------------------------------------------
(* out(): the first unit of s, which is not empty.                         *)
Utf16ToUtf8(s, room, max) ==
  LET wc1 == s[1] IN
  CASE wc1 > max -> Stop("error")
    [] wc1 <= max /\ ~IsSurrogate(wc1) -> Fitting(Utf8Bytes(wc1), 1, room)
    [] wc1 <= max /\ IsTrail(wc1) -> Stop("error")
    [] wc1 <= max /\ IsLead(wc1) ->
         CASE Len(s) < 2 -> Stop("partial")
           [] Len(s) >= 2 /\ ~IsTrail(s[2]) -> Stop("error")
           [] Len(s) >= 2 /\ IsTrail(s[2]) ->
                IF room < 4 THEN Stop("partial")
                ELSE IF Joined(wc1, s[2]) > max THEN Stop("error")
                ELSE Step(2, Utf8Bytes(Joined(wc1, s[2])))

(* The same for units of 32 bits, which are cut to 16.                     *)
Utf16ToUtf8Wide(s, room, max) ==
  Utf16ToUtf8([i \in DOMAIN s |-> s[i] % 65536], room, max)

Ucs4ToUtf8(s, room, max) ==
  IF IsSurrogate(s[1]) \/ s[1] > max THEN Stop("error")
  ELSE Fitting(Utf8Bytes(s[1]), 1, room)

Ucs2ToUtf8(s, room, max) ==
  IF IsSurrogate(s[1]) \/ s[1] > max THEN Stop("error")
  ELSE Fitting(Utf8Bytes(s[1]), 1, room)

Ucs4ToUtf16be(s, room, max) ==
  LET wc == s[1] IN
  CASE IsSurrogate(wc) \/ wc > max -> Stop("error")
    [] ~IsSurrogate(wc) /\ wc <= max /\ wc < 65536 -> Fitting(BigEndian(wc), 1, room)
    [] ~IsSurrogate(wc) /\ wc <= max /\ wc >= 65536 ->
         Fitting(BigEndian(LeadOf(wc)) \o BigEndian(TrailOf(wc)), 1, room)

Ucs4ToUtf16le(s, room, max) ==
  LET wc == s[1] IN
  CASE IsSurrogate(wc) \/ wc > max -> Stop("error")
    [] ~IsSurrogate(wc) /\ wc <= max /\ wc < 65536 -> Fitting(LittleEndian(wc), 1, room)
    [] ~IsSurrogate(wc) /\ wc <= max /\ wc >= 65536 ->
         Fitting(LittleEndian(LeadOf(wc)) \o LittleEndian(TrailOf(wc)), 1, room)

Ucs2ToUtf16be(s, room, max) ==
  IF IsSurrogate(s[1]) \/ s[1] > max THEN Stop("error")
  ELSE Fitting(BigEndian(s[1]), 1, room)

Ucs2ToUtf16le(s, room, max) ==
  IF IsSurrogate(s[1]) \/ s[1] > max THEN Stop("error")
  ELSE Fitting(LittleEndian(s[1]), 1, room)

-----------------------------------------------------------------------------
(* in() from UTF-8: the first character of s, which is not empty.  A       *)
(* sequence is looked at when all its bytes are there.                     *)
SequenceLength(c1) ==
  CASE c1 < 128 -> 1
    [] c1 \in 194..223 -> 2
    [] c1 \in 224..239 -> 3
    [] c1 \in 240..244 -> 4
    [] OTHER -> 0
(* Mutant: any continuation byte will do.                                  *)
AnySecondByte(c1) == 128..191
SecondBytes(c1) ==
  CASE c1 = 224 -> 160..191
    [] c1 = 237 -> 128..159
    [] c1 = 240 -> 144..191
    [] c1 = 244 -> 128..143
    [] OTHER -> 128..191
TailFits(s, n) == n >= 2 => s[2] \in SecondBytes(s[1]) /\ \A i \in 3..n : s[i] \in 128..191
SequenceValue(s, n) ==
  CASE n = 1 -> s[1]
    [] n = 2 -> (s[1] % 32) * 64 + (s[2] % 64)
    [] n = 3 -> (s[1] % 16) * 4096 + (s[2] % 64) * 64 + (s[3] % 64)
    [] n = 4 -> (s[1] % 8) * 262144 + (s[2] % 64) * 4096 + (s[3] % 64) * 64 + (s[4] % 64)

Utf8ToUcs4(s, room, max) ==
  LET n == SequenceLength(s[1]) IN
  CASE n = 0 -> Stop("error")
    [] n > Len(s) -> Stop("partial")
    [] n \in 1..Len(s) ->
         IF ~TailFits(s, n) \/ SequenceValue(s, n) > max THEN Stop("error")
         ELSE Step(n, <<SequenceValue(s, n)>>)

Utf8ToUcs2(s, room, max) ==
  LET n == SequenceLength(s[1]) IN
  CASE n \in {0, 4} -> Stop("error")
    [] n \in 1..3 /\ n > Len(s) -> Stop("partial")
    [] n \in 1..3 /\ n <= Len(s) ->
         IF ~TailFits(s, n) \/ SequenceValue(s, n) > max THEN Stop("error")
         ELSE Step(n, <<SequenceValue(s, n)>>)

(* A character of four bytes needs room for two units.  The first byte     *)
(* alone is compared with the limit as well.                               *)
Utf8ToUtf16(s, room, max) ==
  LET n == SequenceLength(s[1])
      t == SequenceValue(s, n)
  IN CASE s[1] > max \/ n = 0 -> Stop("error")
       [] s[1] <= max /\ n > Len(s) -> Stop("partial")
       [] s[1] <= max /\ n \in 1..Len(s) ->
            CASE ~TailFits(s, n) -> Stop("error")
              [] TailFits(s, n) /\ n = 4 /\ room < 2 -> Stop("partial")
              [] TailFits(s, n) /\ (n # 4 \/ room >= 2) ->
                   IF t > max THEN Stop("error")
                   ELSE Step(n, IF n = 4 THEN <<LeadOf(t), TrailOf(t)>> ELSE <<t>>)
Utf8ToUtf16Wide(s, room, max) == Utf8ToUtf16(s, room, max)

(* The 16-bit unit of two bytes in either order.                           *)
Unit(big, b1, b2) == IF big THEN b1 * 256 + b2 ELSE b2 * 256 + b1

(* in() from UTF-16: a single byte at the end waits for the next.          *)
FromUtf16(s, max, big) ==
  LET first == Unit(big, s[1], s[2])
      second == Unit(big, s[3], s[4])
  IN CASE Len(s) < 2 -> Stop("partial")
       [] Len(s) >= 2 /\ IsTrail(first) -> Stop("error")
       [] Len(s) >= 2 /\ ~IsSurrogate(first) ->
            IF first > max THEN Stop("error") ELSE Step(2, <<first>>)
       [] Len(s) >= 2 /\ IsLead(first) ->
            CASE Len(s) < 4 -> Stop("partial")
              [] Len(s) >= 4 ->
                   IF ~IsTrail(second) \/ Joined(first, second) > max THEN Stop("error")
                   ELSE Step(4, <<Joined(first, second)>>)
Utf16beToUcs4(s, room, max) == FromUtf16(s, max, TRUE)
Utf16leToUcs4(s, room, max) == FromUtf16(s, max, FALSE)

FromUtf16ToUcs2(s, max, big) ==
  CASE Len(s) < 2 -> Stop("partial")
    [] Len(s) >= 2 ->
         LET first == Unit(big, s[1], s[2]) IN
         IF IsSurrogate(first) \/ first > max THEN Stop("error") ELSE Step(2, <<first>>)
Utf16beToUcs2(s, room, max) == FromUtf16ToUcs2(s, max, TRUE)
Utf16leToUcs2(s, room, max) == FromUtf16ToUcs2(s, max, FALSE)

-----------------------------------------------------------------------------
(* length(): how many bytes the first character of s takes and how many    *)
(* units it makes, or no byte at all where the loop of the source ends.    *)
Break == [used |-> 0, count |-> 0]
Count(n, count) == [used |-> n, count |-> count]

(* Mutant: a pair counts once.                                             *)
Utf8ToUtf16LengthOnce(s, mx, max) ==
  LET n == SequenceLength(s[1]) IN
  IF \/ s[1] > max \/ n = 0 \/ n > Len(s)
     \/ ~TailFits(s, n) \/ SequenceValue(s, n) > max
  THEN Break ELSE Count(n, 1)

Utf8ToUtf16Length(s, mx, max) ==
  LET n == SequenceLength(s[1]) IN
  IF \/ s[1] > max \/ n = 0 \/ n > Len(s) \/ (n = 4 /\ mx < 2)
     \/ ~TailFits(s, n) \/ SequenceValue(s, n) > max
  THEN Break ELSE Count(n, IF n = 4 THEN 2 ELSE 1)

Utf8ToUcs4Length(s, mx, max) ==
  LET n == SequenceLength(s[1]) IN
  IF n = 0 \/ n > Len(s) \/ ~TailFits(s, n) \/ SequenceValue(s, n) > max
  THEN Break ELSE Count(n, 1)

Utf8ToUcs2Length(s, mx, max) ==
  LET n == SequenceLength(s[1]) IN
  IF n \in {0, 4} \/ n > Len(s) \/ ~TailFits(s, n) \/ SequenceValue(s, n) > max
  THEN Break ELSE Count(n, 1)

FromUtf16Length(s, max, big) ==
  LET first == Unit(big, s[1], s[2])
      second == Unit(big, s[3], s[4])
  IN CASE Len(s) < 2 -> Break
       [] Len(s) >= 2 /\ ~IsLead(first) ->
            IF IsTrail(first) \/ first > max THEN Break ELSE Count(2, 1)
       [] Len(s) >= 2 /\ IsLead(first) ->
            IF Len(s) < 4 \/ ~IsTrail(second) \/ Joined(first, second) > max
            THEN Break ELSE Count(4, 1)
Utf16beToUcs4Length(s, mx, max) == FromUtf16Length(s, max, TRUE)
Utf16leToUcs4Length(s, mx, max) == FromUtf16Length(s, max, FALSE)

FromUtf16ToUcs2Length(s, max, big) ==
  IF Len(s) < 2 \/ IsSurrogate(Unit(big, s[1], s[2])) \/ Unit(big, s[1], s[2]) > max
  THEN Break ELSE Count(2, 1)
Utf16beToUcs2Length(s, mx, max) == FromUtf16ToUcs2Length(s, max, TRUE)
Utf16leToUcs2Length(s, mx, max) == FromUtf16ToUcs2Length(s, max, FALSE)

-----------------------------------------------------------------------------
(* The facets: the encoding of the units in memory, that of the bytes, the *)
(* functions they call and max_length() without and with a header.         *)
Facet(memory, bytes, bits, max, maxWithHeader) ==
  [memory |-> memory, bytes |-> bytes, bits |-> bits,
   maxLength |-> [h \in BOOLEAN |-> IF h THEN maxWithHeader ELSE max]]
CodecvtChar16 == Facet("utf16", "utf8", 16, 4, 4)
CodecvtChar32 == Facet("ucs4", "utf8", 32, 4, 4)
CodecvtUtf8Wchar == Facet("ucs4", "utf8", 32, 4, 7)
CodecvtUtf8Char16 == Facet("ucs2", "utf8", 16, 3, 6)
CodecvtUtf8Char32 == Facet("ucs4", "utf8", 32, 4, 7)
CodecvtUtf16WcharBe == Facet("ucs4", "utf16be", 32, 4, 6)
CodecvtUtf16WcharLe == Facet("ucs4", "utf16le", 32, 4, 6)
CodecvtUtf16Char16Be == Facet("ucs2", "utf16be", 16, 2, 4)
CodecvtUtf16Char16Le == Facet("ucs2", "utf16le", 16, 2, 4)
CodecvtUtf16Char32Be == Facet("ucs4", "utf16be", 32, 4, 6)
CodecvtUtf16Char32Le == Facet("ucs4", "utf16le", 32, 4, 6)
CodecvtUtf8Utf16Wchar == Facet("utf16", "utf8", 32, 4, 7)
CodecvtUtf8Utf16Char16 == Facet("utf16", "utf8", 16, 4, 7)
CodecvtUtf8Utf16Char32 == Facet("utf16", "utf8", 32, 4, 7)

OutTurn(f, s, room, max) ==
  CASE f.memory = "utf16" /\ f.bits = 16 -> Utf16ToUtf8(s, room, max)
    [] f.memory = "utf16" /\ f.bits = 32 -> Utf16ToUtf8Wide(s, room, max)
    [] f.memory = "ucs4" /\ f.bytes = "utf8" -> Ucs4ToUtf8(s, room, max)
    [] f.memory = "ucs4" /\ f.bytes = "utf16be" -> Ucs4ToUtf16be(s, room, max)
    [] f.memory = "ucs4" /\ f.bytes = "utf16le" -> Ucs4ToUtf16le(s, room, max)
    [] f.memory = "ucs2" /\ f.bytes = "utf8" -> Ucs2ToUtf8(s, room, max)
    [] f.memory = "ucs2" /\ f.bytes = "utf16be" -> Ucs2ToUtf16be(s, room, max)
    [] f.memory = "ucs2" /\ f.bytes = "utf16le" -> Ucs2ToUtf16le(s, room, max)

InTurn(f, s, room, max) ==
  CASE f.memory = "utf16" /\ f.bits = 16 -> Utf8ToUtf16(s, room, max)
    [] f.memory = "utf16" /\ f.bits = 32 -> Utf8ToUtf16Wide(s, room, max)
    [] f.memory = "ucs4" /\ f.bytes = "utf8" -> Utf8ToUcs4(s, room, max)
    [] f.memory = "ucs4" /\ f.bytes = "utf16be" -> Utf16beToUcs4(s, room, max)
    [] f.memory = "ucs4" /\ f.bytes = "utf16le" -> Utf16leToUcs4(s, room, max)
    [] f.memory = "ucs2" /\ f.bytes = "utf8" -> Utf8ToUcs2(s, room, max)
    [] f.memory = "ucs2" /\ f.bytes = "utf16be" -> Utf16beToUcs2(s, room, max)
    [] f.memory = "ucs2" /\ f.bytes = "utf16le" -> Utf16leToUcs2(s, room, max)

LengthTurn(f, s, mx, max) ==
  CASE f.memory = "utf16" -> Utf8ToUtf16Length(s, mx, max)
    [] f.memory = "ucs4" /\ f.bytes = "utf8" -> Utf8ToUcs4Length(s, mx, max)
    [] f.memory = "ucs4" /\ f.bytes = "utf16be" -> Utf16beToUcs4Length(s, mx, max)
    [] f.memory = "ucs4" /\ f.bytes = "utf16le" -> Utf16leToUcs4Length(s, mx, max)
    [] f.memory = "ucs2" /\ f.bytes = "utf8" -> Utf8ToUcs2Length(s, mx, max)
    [] f.memory = "ucs2" /\ f.bytes = "utf16be" -> Utf16beToUcs2Length(s, mx, max)
    [] f.memory = "ucs2" /\ f.bytes = "utf16le" -> Utf16leToUcs2Length(s, mx, max)

HeaderOf(f) ==
  CASE f.bytes = "utf8" -> <<239, 187, 191>>
    [] f.bytes = "utf16be" -> <<254, 255>>
    [] f.bytes = "utf16le" -> <<255, 254>>

(* The loops.  Every call of out() writes the header, every call of in()   *)
(* and of length() skips one.                                              *)
RECURSIVE OutLoop(_, _, _, _)
OutLoop(f, s, room, max) ==
  IF s = <<>> THEN Step(0, <<>>)
  ELSE LET turn == OutTurn(f, s, room, max) IN
       IF turn.result # "ok" THEN turn
       ELSE LET others == OutLoop(f, SubSeq(s, turn.used + 1, Len(s)), room - Len(turn.units), max)
            IN [others EXCEPT !.used = @ + turn.used, !.units = turn.units \o @]
DoOut(f, s, room, max, h) ==
  IF ~h THEN OutLoop(f, s, room, max)
  ELSE IF room < Len(HeaderOf(f)) THEN Stop("partial")
  ELSE [OutLoop(f, s, room - Len(HeaderOf(f)), max) EXCEPT !.units = HeaderOf(f) \o @]

RECURSIVE InLoop(_, _, _, _)
InLoop(f, s, room, max) ==
  IF s = <<>> THEN Step(0, <<>>)
  ELSE IF room = 0 THEN Stop("partial")
  ELSE LET turn == InTurn(f, s, room, max) IN
       IF turn.result # "ok" THEN turn
       ELSE LET others == InLoop(f, SubSeq(s, turn.used + 1, Len(s)), room - Len(turn.units), max)
            IN [others EXCEPT !.used = @ + turn.used, !.units = turn.units \o @]
Skipped(f, s, h) == IF h /\ IsPrefix(HeaderOf(f), s) THEN Len(HeaderOf(f)) ELSE 0
DoIn(f, s, room, max, h) ==
  LET skip == Skipped(f, s, h)
  IN [InLoop(f, SubSeq(s, skip + 1, Len(s)), room, max) EXCEPT !.used = @ + skip]

RECURSIVE LengthLoop(_, _, _, _)
LengthLoop(f, s, mx, max) ==
  IF s = <<>> \/ mx <= 0 THEN 0
  ELSE LET turn == LengthTurn(f, s, mx, max) IN
       IF turn.used = 0 THEN 0
       ELSE turn.used + LengthLoop(f, SubSeq(s, turn.used + 1, Len(s)), mx - turn.count, max)
DoLength(f, s, mx, max, h) ==
  LET skip == Skipped(f, s, h)
  IN skip + LengthLoop(f, SubSeq(s, skip + 1, Len(s)), mx, max)

-----------------------------------------------------------------------------
NoCall == [call |-> "none", result |-> "ok", moved |-> 0, room |-> 0]
Call(call, room, step) ==
  [call |-> call, result |-> step.result, moved |-> step.used, room |-> room]

Pending == SubSeq(sent, used + 1, Len(sent))
(* A unit of UTF-16 is a 16-bit value, also where it is stored in 32 bits. *)
Allowed(f) ==
  IF f.bits = 16 \/ f.memory = "utf16" THEN {u \in Units : u < 65536} ELSE Units

Init ==
  /\ facet \in Facets
  /\ maxcode \in Maxcodes
  /\ header \in IF facet \in {CodecvtChar16, CodecvtChar32} THEN {FALSE} ELSE Headers
  /\ \/ /\ source = "writer"
        /\ \E n \in 1..MaxText : text \in [1..n -> Allowed(facet)]
     \/ source = "file" /\ text = <<>> /\ ~header
  /\ taken = 0 /\ used = 0
  /\ sent = <<>> /\ got = <<>>
  /\ last = NoCall

(* out() of the next n units.  Every call writes a header: a caller that   *)
(* wants one makes no other call once it has bytes.                        *)
Out(n, room) ==
  /\ source = "writer"
  /\ taken + n <= Len(text)
  /\ header => sent = <<>>
  /\ LET step == DoOut(facet, SubSeq(text, taken + 1, taken + n), room, maxcode, header)
     IN /\ sent' = sent \o step.units
        /\ taken' = taken + step.used
        /\ last' = Call("out", room, step)
  /\ UNCHANGED <<facet, maxcode, header, source, text, used, got>>

(* A byte of the file.                                                     *)
Receive(byte) ==
  /\ source = "file"
  /\ Len(sent) < MaxBytes
  /\ last.result # "error"
  /\ sent' = Append(sent, byte)
  /\ last' = NoCall
  /\ UNCHANGED <<facet, maxcode, header, source, text, taken, used, got>>

(* in() of all the bytes that are there.                                   *)
In(room) ==
  /\ LET step == DoIn(facet, Pending, room, maxcode, header)
     IN /\ got' = got \o step.units
        /\ used' = used + step.used
        /\ last' = Call("in", room, step)
  /\ UNCHANGED <<facet, maxcode, header, source, text, taken, sent>>

Next ==
  \/ \E n \in 1..MaxText, room \in Rooms : Out(n, room)
  \/ \E byte \in FileBytes(facet) : Receive(byte)
  \/ \E room \in Rooms : In(room)

Spec == Init /\ [][Next]_vars

-----------------------------------------------------------------------------
(* What the bytes mean, from the table above the conversions               *)
(* (src/src/locale.cpp:1721): the ranges of the bytes of a character.      *)
Utf8Rows ==
  {<<0..127>>,
   <<194..223, 128..191>>,
   <<224..224, 160..191, 128..191>>, <<225..236, 128..191, 128..191>>,
   <<237..237, 128..159, 128..191>>, <<238..239, 128..191, 128..191>>,
   <<240..240, 144..191, 128..191, 128..191>>,
   <<241..243, 128..191, 128..191, 128..191>>,
   <<244..244, 128..143, 128..191, 128..191>>}
Begins(s, row) == \A i \in 1..Len(s) : i <= Len(row) => s[i] \in row[i]
Utf8Value(s) ==
  CASE Len(s) = 1 -> s[1]
    [] Len(s) = 2 -> (s[1] - 192) * 64 + (s[2] - 128)
    [] Len(s) = 3 -> (s[1] - 224) * 4096 + (s[2] - 128) * 64 + (s[3] - 128)
    [] Len(s) = 4 -> (s[1] - 240) * 262144 + (s[2] - 128) * 4096 + (s[3] - 128) * 64
                     + (s[4] - 128)
Utf16Value(u) ==
  IF Len(u) = 1 THEN u[1] ELSE 65536 + (u[1] - 55296) * 1024 + (u[2] - 56320)
BigUnits(s) == [i \in 1..(Len(s) \div 2) |-> 256 * s[2 * i - 1] + s[2 * i]]
UnitsOf(f, s) ==
  IF f.bytes = "utf16be" THEN BigUnits(s)
  ELSE BigUnits([i \in DOMAIN s |-> s[IF i % 2 = 1 THEN i + 1 ELSE i - 1]])

(* The values a facet can hold, and whether s is one character of them.    *)
Holds(f, c) == c <= maxcode /\ (f.memory = "ucs2" => c < 65536)
IsCharacter(f, s) ==
  IF f.bytes = "utf8"
  THEN \E row \in Utf8Rows : Len(row) = Len(s) /\ Begins(s, row) /\ Holds(f, Utf8Value(s))
  ELSE /\ Len(s) \in {2, 4}
       /\ LET u == UnitsOf(f, s) IN
          /\ IF Len(u) = 1 THEN ~IsSurrogate(u[1]) ELSE IsLead(u[1]) /\ IsTrail(u[2])
          /\ Holds(f, Utf16Value(u))
CharacterOf(f, s) == IF f.bytes = "utf8" THEN Utf8Value(s) ELSE Utf16Value(UnitsOf(f, s))
(* s may become a character with more bytes: only a look at them can tell. *)
IsUnfinished(f, s) ==
  IF f.bytes = "utf8"
  THEN \E row \in Utf8Rows :
         Len(s) < Len(row) /\ s[1] \in row[1] /\ (f.memory = "ucs2" => Len(row) < 4)
  ELSE \/ Len(s) = 1
       \/ /\ Len(s) \in {2, 3} /\ f.memory # "ucs2"
          /\ IsLead(UnitsOf(f, SubSeq(s, 1, 2))[1])

(* The units in memory as characters.                                      *)
CharactersIn[u \in Seq(Nat)] ==
  IF u = <<>> THEN <<>>
  ELSE IF Len(u) >= 2 /\ facet.memory = "utf16" /\ IsLead(u[1]) /\ IsTrail(u[2])
       THEN <<Utf16Value(<<u[1], u[2]>>)>> \o CharactersIn[SubSeq(u, 3, Len(u))]
       ELSE <<u[1]>> \o CharactersIn[Tail(u)]
(* The bytes as characters, -1 for the first that is not well-formed.      *)
Decoded[s \in Seq(Nat)] ==
  LET sizes == {n \in 1..4 : n <= Len(s) /\ IsCharacter(facet, SubSeq(s, 1, n))}
  IN IF s = <<>> THEN <<>>
     ELSE IF sizes = {} THEN <<-1>>
     ELSE LET n == CHOOSE x \in sizes : TRUE
          IN <<CharacterOf(facet, SubSeq(s, 1, n))>> \o Decoded[SubSeq(s, n + 1, Len(s))]

(* Whether the writer's next character has no form in the bytes.           *)
Unencodable(s) ==
  IF facet.memory = "utf16" /\ IsLead(s[1])
  THEN IF Len(s) = 1 THEN maxcode < 65536
       ELSE ~IsTrail(s[2]) \/ Utf16Value(<<s[1], s[2]>>) > maxcode
  ELSE IsSurrogate(s[1]) \/ s[1] > maxcode
(* Room for any character.                                                 *)
AmpleForIn(room) == room >= (IF facet.memory = "utf16" THEN 2 ELSE 1)
AmpleForOut(room) == room >= (IF header THEN 7 ELSE 4)

(* What in() has stored is what the bytes it used say, byte by byte of the *)
(* table: no overlong form, no surrogate and nothing above the limit comes *)
(* through, whatever the file holds and however it was cut into calls; it  *)
(* reports an error only where no character begins, and waits only for the *)
(* rest of a character.  (With headers it skips one in every call.)        *)
StreamExact ==
  ~header =>
    /\ CharactersIn[got] = Decoded[SubSeq(sent, 1, used)]
    /\ last.call = "in" =>
         /\ last.result = "ok" => Pending = <<>>
         /\ last.result = "error" =>
              ~IsUnfinished(facet, Pending) /\ Decoded[Pending][1] = -1
         /\ last.result = "partial" /\ last.moved = 0 /\ AmpleForIn(last.room) =>
              IsUnfinished(facet, Pending)

(* What the reader has is what the writer wrote, in whatever pieces either *)
(* worked: a prefix of it, and all of it when every byte is used; out()    *)
(* reports an error only for a character that has no form, and stops       *)
(* early, with room, only for the second half of a pair.  (Every call of   *)
(* in() takes a U+FEFF at its start for a header.)                         *)
RoundTrip ==
  source = "writer" /\ (header => ~Contains(text, 65279)) =>
    /\ IsPrefix(got, SubSeq(text, 1, taken))
    /\ used = Len(sent) => got = SubSeq(text, 1, taken)
    /\ last.call = "out" =>
         /\ last.result = "error" => Unencodable(SubSeq(text, taken + 1, Len(text)))
         /\ last.result = "partial" /\ last.moved = 0 /\ AmpleForOut(last.room) =>
              facet.memory = "utf16" /\ IsLead(text[taken + 1])

(* length() gives the bytes that in() would use with as much room, for any *)
(* bytes and any room, and one unit never takes more than max_length():    *)
(* basic_filebuf finds its place in a file with the one after the other.   *)
LengthAgrees ==
  /\ \A room \in Rooms :
       DoLength(facet, Pending, room, maxcode, header)
         = DoIn(facet, Pending, room, maxcode, header).used
  /\ DoLength(facet, Pending, 1, maxcode, header) <= facet.maxLength[header]
===============================================================================
