----------------------------- MODULE StringNumbers -----------------------------
(***************************************************************************)
(* stoi and its family, and to_string and to_wstring (src/string.cpp): the *)
(* functions of C that read and write a number, the errors of theirs that  *)
(* become exceptions, and the memory that the text needs.  The widths of   *)
(* the types are constants; a floating point number is the text it is      *)
(* written as, and what strtof and its like make of it.                    *)
(***************************************************************************)
EXTENDS Integers, Sequences, SequencesExt, TLC

CONSTANTS
  Bits,        \* the width of each type of integers
  Texts,       \* the texts read
  FloatTexts,  \* the texts of floating point numbers
  Bases,       \* the bases given
  Capacities   \* the capacities of a new string

VARIABLES request, answer

svars == <<request, answer>>

SignedTypes == {"int", "long", "long long"}
UnsignedTypes == {"unsigned", "unsigned long", "unsigned long long"}
FloatTypes == {"float", "double", "long double"}
Lowest(type) == IF type \in SignedTypes THEN -(2 ^ (Bits[type] - 1)) ELSE 0
Highest(type) == 2 ^ (IF type \in SignedTypes THEN Bits[type] - 1 ELSE Bits[type]) - 1
-----------------------------------------------------------------------------
(* strtol and its family: how much of the text is a number, the number,    *)
(* and errno, which they leave as it is unless the number is out of range. *)
(* What has a minus and is unsigned is the complement.                     *)
DigitOf ==
  [c \in {"0", "1", "2", "3", "4", "5", "6", "7", "8", "9"} |->
     CASE c = "0" -> 0 [] c = "1" -> 1 [] c = "2" -> 2 [] c = "3" -> 3 [] c = "4" -> 4
       [] c = "5" -> 5 [] c = "6" -> 6 [] c = "7" -> 7 [] c = "8" -> 8 [] c = "9" -> 9]
(* Spaces, then a sign or none, then digits up to where they end.          *)
Number(text, base) ==
  LET IsDigit(c) == c \in DOMAIN DigitOf /\ DigitOf[c] < base
      spaces == SelectInSeq(Append(text, "end"), LAMBDA c : c # " ") - 1
      digits == IF spaces < Len(text) /\ text[spaces + 1] \in {"-", "+"} THEN spaces + 1 ELSE spaces
      end == digits + SelectInSeq(Append(SubSeq(text, digits + 1, Len(text)), "end"),
                                  LAMBDA c : ~IsDigit(c)) - 1
  IN [used |-> IF end = digits THEN 0 ELSE end,
      minus |-> digits > spaces /\ text[digits] = "-",
      magnitude |-> FoldLeft(LAMBDA v, c : v * base + DigitOf[c], 0,
                             SubSeq(text, digits + 1, end))]
Signed(number) == IF number.minus THEN -number.magnitude ELSE number.magnitude
Fits(type, number) ==
  IF type \in SignedTypes THEN Signed(number) \in Lowest(type)..Highest(type)
  ELSE number.magnitude <= Highest(type)

Strto(type, number, errno) ==
  [state |-> "converted", used |-> number.used,
   errno |-> IF Fits(type, number) THEN errno ELSE "ERANGE",
   value |-> CASE ~Fits(type, number) ->
                    IF type \in SignedTypes /\ number.minus THEN Lowest(type) ELSE Highest(type)
               [] Fits(type, number) ->
                    IF type \in SignedTypes THEN Signed(number)
                    ELSE Signed(number) % (Highest(type) + 1)]
Strtof(text, errno) ==
  [state |-> "converted", used |-> text.used, value |-> text.name,
   errno |-> IF text.errno = "0" THEN errno ELSE text.errno]
-----------------------------------------------------------------------------
(* as_integer<int> has no function of C and takes the one of long; there   *)
(* is no stou, an unsigned is read by stoul.                               *)
ReadAs(type) ==
  CASE type = "int" -> "long" [] type = "unsigned" -> "unsigned long"
    [] type \notin {"int", "unsigned"} -> type

(* as_integer_helper and as_float_helper: errno, which the caller may have *)
(* left at anything, is saved and cleared before the call ...              *)
(* Mutant: it is not cleared.                                              *)
ErrnoUncleared(errno) == errno
ErrnoBefore(errno) == "0"

(* ... and exchanged with the saved one after it; it is looked at first.   *)
Helper(converted) ==
  [errno |-> converted.saved] @@
  CASE converted.errno = "ERANGE" -> [state |-> "out_of_range", idx |-> "untouched"]
    [] converted.errno # "ERANGE" ->
         IF converted.used = 0 THEN [state |-> "invalid_argument", idx |-> "untouched"]
         ELSE [state |-> "value", idx |-> converted.used, value |-> converted.value]

(* A long that is no int is out of range, with *idx already written.       *)
(* Mutant: any long is an int.                                             *)
AsIntUnchecked(read) ==
  IF read.state = "value"
  THEN [read EXCEPT !.value = ((@ - Lowest("int")) % 2 ^ Bits["int"]) + Lowest("int")] ELSE read
AsInt(read) ==
  IF read.state = "value" /\ read.value \notin Lowest("int")..Highest("int")
  THEN [state |-> "out_of_range", idx |-> read.idx, errno |-> read.errno] ELSE read
-----------------------------------------------------------------------------
(* What printf makes of a number: its digits, or the text it is.           *)
RECURSIVE DecimalText(_)
DecimalText(n) ==
  LET last == CHOOSE c \in DOMAIN DigitOf : DigitOf[c] = n % 10
  IN IF n < 10 THEN <<last>> ELSE Append(DecimalText(n \div 10), last)
PrintedText(type, value) ==
  IF type \in FloatTypes THEN value.text
  ELSE (IF value < 0 THEN <<"-">> ELSE <<>>) \o DecimalText(IF value < 0 THEN -value ELSE value)

(* snprintf says how long the text is, swprintf only that it did not fit.  *)
Status(wide, length, available) == IF wide /\ length > available THEN -1 ELSE length

(* initial_string: the size of the string before anything is written, at   *)
(* least what the constructor is given and as much as it has room for.     *)
Digits == Bits["unsigned long long"]
Minimum(wide, type) ==
  CASE ~wide -> 0
    [] wide /\ type \in FloatTypes -> 20
    [] wide /\ type \notin FloatTypes ->
         Digits \div 3 + (IF Digits % 3 # 0 THEN 1 ELSE 0) + 1
InitialSizes(wide, type) ==
  {IF room < Minimum(wide, type) THEN Minimum(wide, type) ELSE room : room \in Capacities}

(* as_string: one turn of the loop, of a text of this length.              *)
(* Mutant: a text that has no room for its last character is taken.        *)
TurnShort(text, status, available) ==
  IF status >= 0 /\ status <= available + 1
  THEN [state |-> "written",
        text |-> SubSeq(text, 1, IF status <= available THEN status ELSE available)]
  ELSE [state |-> "growing", available |-> IF status >= 0 THEN status ELSE available * 2 + 1]
Turn(text, status, available) ==
  IF status >= 0 /\ status <= available THEN [state |-> "written", text |-> SubSeq(text, 1, status)]
  ELSE [state |-> "growing", available |-> IF status >= 0 THEN status ELSE available * 2 + 1]
-----------------------------------------------------------------------------
Errnos == {"0", "ERANGE"}
SomeValues(type) ==
  {Lowest(type), -1, 0, 10, Highest(type)} \cap (Lowest(type)..Highest(type))

Init ==
  /\ answer = [state |-> "asked"]
  /\ \/ request \in [op : {"read"}, type : SignedTypes \cup (UnsignedTypes \ {"unsigned"}),
                     text : Texts, base : Bases, errno : Errnos]
     \/ request \in [op : {"read"}, type : FloatTypes, text : FloatTexts, errno : Errnos]
     \/ request \in [op : {"write"}, type : FloatTypes, value : FloatTexts, wide : BOOLEAN]
     \/ \E type \in SignedTypes \cup UnsignedTypes :
          request \in [op : {"write"}, type : {type}, value : SomeValues(type), wide : BOOLEAN]

(* stoi, stol, stoul, stoll and stoull call the function of C ...          *)
CallStrto(text, base, errno) ==
  /\ \E number \in {Number(text, base)} :
       answer' = Strto(ReadAs(request.type), number, ErrnoBefore(errno)) @@ [saved |-> errno]
  /\ UNCHANGED request
ReadInteger ==
  /\ request.op = "read" /\ request.type \notin FloatTypes /\ answer.state = "asked"
  /\ CallStrto(request.text, request.base, request.errno)

(* ... so do stof, stod and stold ...                                      *)
ReadFloat ==
  /\ request.op = "read" /\ request.type \in FloatTypes /\ answer.state = "asked"
  /\ answer' = Strtof(request.text, ErrnoBefore(request.errno)) @@ [saved |-> request.errno]
  /\ UNCHANGED request

(* ... and look at what it has said.                                       *)
Return ==
  /\ answer.state = "converted"
  /\ \E read \in {Helper(answer)} : answer' = IF request.type = "int" THEN AsInt(read) ELSE read
  /\ UNCHANGED request

(* to_string and to_wstring.                                               *)
BeginString ==
  /\ request.op = "write" /\ answer.state = "asked"
  /\ \E size \in InitialSizes(request.wide, request.type) :
       answer' = [state |-> "growing", available |-> size]
  /\ UNCHANGED request

AsString ==
  /\ answer.state = "growing"
  /\ \E text \in {PrintedText(request.type, request.value)} :
       answer' = Turn(text, Status(request.wide, Len(text), answer.available), answer.available)
  /\ UNCHANGED request

(* The caller reads an integer again that to_string has written.           *)
ReadBack ==
  /\ answer.state = "written" /\ request.type \notin FloatTypes
  /\ \E errno \in Errnos : CallStrto(answer.text, 10, errno)

Next == ReadInteger \/ ReadFloat \/ Return \/ BeginString \/ AsString \/ ReadBack

Spec == Init /\ [][Next]_svars
-----------------------------------------------------------------------------
(* A text is read as the number it begins with if the type asked for has   *)
(* that number, which for an unsigned type is counted without its sign;    *)
(* idx is where the number ends, and what throws is never a value.  Of a   *)
(* number no type has the range wins, of no number at all the argument.    *)
(* The errno of the caller neither decides anything nor is lost.           *)
ReadExact ==
  (request.op = "read" /\ answer.state \in {"value", "out_of_range", "invalid_argument"}) =>
    /\ answer.errno = request.errno
    /\ request.type \in FloatTypes =>
         (answer.state = "out_of_range" <=> request.text.errno = "ERANGE")
    /\ request.type \notin FloatTypes =>
         \A number \in {Number(request.text, request.base)} :
           /\ answer.state = "invalid_argument" <=> number.used = 0
           /\ answer.state = "out_of_range" <=> ~Fits(request.type, number)
           /\ answer.state = "value" =>
                /\ answer.idx = number.used
                /\ request.type \in SignedTypes => answer.value = Signed(number)

(* The text of a number is all of it, whatever room it was written in at   *)
(* first; the number that was written is the one that is read back.        *)
WrittenWhole ==
  request.op = "write" =>
    /\ answer.state = "written" => answer.text = PrintedText(request.type, request.value)
    /\ answer.state \notin {"asked", "growing", "written", "converted"} =>
         answer.state = "value" /\ answer.value = request.value
================================================================================
