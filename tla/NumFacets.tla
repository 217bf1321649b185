------------------------------- MODULE NumFacets -------------------------------
(***************************************************************************)
(* Numbers in a locale: numpunct_byname takes its marks from localeconv    *)
(* (src/locale.cpp), num_put groups the digits and pads the text, num_get  *)
(* takes the separators out, counts the digits between them and checks     *)
(* the counts (include/locale).  A character is a string of length one;    *)
(* letters have one case; a floating point number is its text in C.        *)
(***************************************************************************)
EXTENDS Integers, Sequences, SequencesExt, FiniteSetsExt

CONSTANTS
  Locales,     \* what localeconv says, by the name of a locale
  Bits,        \* the width of each type of integers, and of the two widest
  Values,      \* the numbers written
  FloatTexts,  \* the floating point numbers written, as snprintf writes them
  Texts,       \* the texts read; "," stands for the separator
  Width, Slots \* of the padding; for groups, __num_get_buf_sz

VARIABLES request, answer

nvars == <<request, answer>>

DigitChars ==
  <<"0", "1", "2", "3", "4", "5", "6", "7", "8", "9", "a", "b", "c", "d", "e", "f">>
Digits == Range(DigitChars)
ValueOf(c) == (CHOOSE i \in 1..16 : DigitChars[i] = c) - 1
IsSigned(type) == type \in {"long", "long long"}
Lowest(type) == IF IsSigned(type) THEN -(2 ^ (Bits[type] - 1)) ELSE 0
Highest(type) == 2 ^ (IF IsSigned(type) THEN Bits[type] - 1 ELSE Bits[type]) - 1
-----------------------------------------------------------------------------
(* checked_string_to_wchar_convert and checked_string_to_char_convert: the *)
(* one character that a string of localeconv is; what it was, if none.     *)
CheckedToWchar(dest, s) == IF s.length = 0 \/ s.wide = "invalid" THEN dest ELSE s.wide
CheckedToChar(dest, s) ==
  CASE s.length = 0 -> dest
    [] s.length = 1 -> s.narrow
    [] s.length > 1 -> IF s.wide # "invalid" /\ s.narrow # "none" THEN s.narrow
                       ELSE IF s.wide = "nbsp" THEN " " ELSE dest

(* The constructors of numpunct, and of numpunct_byname for either width.  *)
NumPunct == [state |-> "built", point |-> ".", sep |-> ",", grouping |-> <<>>]
NewNumPunct(name, byname, wide) ==
  LET lc == Locales[name] IN
  CASE ~byname \/ name = "C" -> NumPunct
    [] byname /\ name # "C" /\ ~lc.exists -> [state |-> "throws"]
    [] byname /\ name # "C" /\ lc.exists ->
         [state |-> "built", grouping |-> lc.grouping,
          point |-> IF wide THEN CheckedToWchar(NumPunct.point, lc.point)
                    ELSE CheckedToChar(NumPunct.point, lc.point),
          sep |-> IF wide THEN CheckedToWchar(NumPunct.sep, lc.sep)
                  ELSE CheckedToChar(NumPunct.sep, lc.sep)]

(* The i-th group from the right; one of no or of CHAR_MAX digits has no   *)
(* end.                                                                    *)
Group(grouping, i) == grouping[IF i < Len(grouping) THEN i ELSE Len(grouping)]
Limits(size) == size \in 1..126
-----------------------------------------------------------------------------
(* __format_int, and snprintf by it: a sign for what is signed, and the    *)
(* prefix of a base for what is not zero.                                  *)
BaseOf(flags) == CASE flags.base = "oct" -> 8 [] flags.base = "hex" -> 16 [] OTHER -> 10
NumberText(n, base) ==
  LET width == CHOOSE w \in 1..20 : n < base ^ w /\ (w = 1 \/ n >= base ^ (w - 1))
  IN [i \in 1..width |-> DigitChars[((n \div base ^ (width - i)) % base) + 1]]
Snprintf(type, flags, v) ==
  LET base == BaseOf(flags)
      sign == IF base # 10 \/ ~IsSigned(type) THEN <<>>
              ELSE IF v < 0 THEN <<"-">> ELSE IF flags.showpos THEN <<"+">> ELSE <<>>
      magnitude == IF base = 10 THEN (IF v < 0 THEN -v ELSE v) ELSE v % 2 ^ Bits[type]
      prefix == IF ~flags.showbase \/ magnitude = 0 THEN <<>>
                ELSE CASE base = 8 -> <<"0">> [] base = 16 -> <<"0", "x">> [] base = 10 -> <<>>
  IN sign \o prefix \o NumberText(magnitude, base)

SignAt(nar) == IF nar # <<>> /\ nar[1] \in {"-", "+"} THEN 1 ELSE 0
PrefixAt(nar, from) ==
  IF Len(nar) >= from + 2 /\ nar[from + 1] = "0" /\ nar[from + 2] = "x" THEN 2 ELSE 0

(* __identify_padding: how many characters are in front of the padding.    *)
IdentifyPadding(adjust, nar) ==
  CASE adjust = "left" -> Len(nar)
    [] adjust = "internal" -> IF SignAt(nar) = 1 THEN 1 ELSE PrefixAt(nar, 0)
    [] adjust = "right" -> 0

(* __widen_and_group_int and __widen_and_group_float: digits from the last *)
(* to the first, with a separator where a group is full.                   *)
(* Mutant: the count goes on over a separator.                             *)
GroupedOnce(np, digits) ==
  FoldRight(LAMBDA c, s :
      LET size == Group(np.grouping, s.dg)
          full == Limits(size) /\ s.dc = size
      IN [text |-> <<c>> \o (IF full THEN <<np.sep>> ELSE <<>>) \o s.text,
          dc |-> s.dc + 1, dg |-> IF full THEN s.dg + 1 ELSE s.dg],
    digits, [text |-> <<>>, dc |-> 0, dg |-> 1]).text
Grouped(np, digits) ==
  FoldRight(LAMBDA c, s :
      LET size == Group(np.grouping, s.dg)
          full == Limits(size) /\ s.dc = size
      IN [text |-> <<c>> \o (IF full THEN <<np.sep>> ELSE <<>>) \o s.text,
          dc |-> IF full THEN 1 ELSE s.dc + 1, dg |-> IF full THEN s.dg + 1 ELSE s.dg],
    digits, [text |-> <<>>, dc |-> 0, dg |-> 1]).text

WidenAndGroupInt(np, nar) ==
  LET front == SignAt(nar) + PrefixAt(nar, SignAt(nar))
  IN IF np.grouping = <<>> THEN nar
     ELSE SubSeq(nar, 1, front) \o Grouped(np, SubSeq(nar, front + 1, Len(nar)))

WidenAndGroupFloat(np, nar) ==
  LET prefix == PrefixAt(nar, SignAt(nar))
      front == SignAt(nar) + prefix
      isDigit(c) == c \in Digits /\ (prefix = 2 \/ ValueOf(c) < 10)
      units == SelectInSeq(Append(SubSeq(nar, front + 1, Len(nar)), "end"),
                           LAMBDA c : ~isDigit(c)) - 1
      rest == SubSeq(nar, front + units + 1, Len(nar))
      digits == SubSeq(nar, front + 1, front + units)
  IN SubSeq(nar, 1, front) \o (IF np.grouping = <<>> THEN digits ELSE Grouped(np, digits))
     \o [i \in DOMAIN rest |-> IF rest[i] = "." THEN np.point ELSE rest[i]]

(* __pad_and_output: the width is that of one number only.                 *)
PadAndOutput(text, nar, before, width) ==
  LET np == IF before = Len(nar) THEN Len(text) ELSE before
      fill == [i \in 1..(IF width > Len(text) THEN width - Len(text) ELSE 0) |-> "*"]
  IN [state |-> "put", text |-> SubSeq(text, 1, np) \o fill \o SubSeq(text, np + 1, Len(text)),
      plain |-> text, width |-> 0]
Put(np, flags, nar, text) ==
  PadAndOutput(text, nar, IdentifyPadding(flags.adjust, nar), flags.width)
-----------------------------------------------------------------------------
(* __stage2_int_loop and __stage2_float_loop: a is what has been read, g   *)
(* the digits of each group, dc those since the last separator.            *)
Begun ==
  [a |-> <<>>, g |-> <<>>, dc |-> 0, units |-> TRUE, exp |-> "e", expDone |-> FALSE,
   used |-> 0, stop |-> FALSE]
Push(s) == IF Len(s.g) < Slots THEN [s EXCEPT !.g = Append(@, s.dc)] ELSE s
(* Mutant: the digits in front of a separator are counted once more.       *)
SeparatorKeepsCount(s) == Push(s)
Separator(s) == IF Len(s.g) < Slots THEN [Push(s) EXCEPT !.dc = 0] ELSE s
Take(s, c, counted) == [s EXCEPT !.a = Append(@, c), !.dc = IF counted THEN @ + 1 ELSE @]
Stop(s) == [s EXCEPT !.stop = TRUE]

IntLoop(np, base, s, c) ==
  LET last == IF s.a = <<>> THEN "none" ELSE Last(s.a) IN
  IF s.a = <<>> /\ c \in {"+", "-"} THEN [Take(s, c, FALSE) EXCEPT !.dc = 0]
  ELSE IF np.grouping # <<>> /\ c = np.sep THEN Separator(s)
  ELSE IF c \notin Digits \cup {"x"} THEN Stop(s)
  ELSE IF base \in {8, 10} /\ (c = "x" \/ ValueOf(c) >= base) THEN Stop(s)
  ELSE IF base = 16 /\ c = "x"
  THEN IF Len(s.a) <= 2 /\ last = "0" THEN [Take(s, c, FALSE) EXCEPT !.dc = 0] ELSE Stop(s)
  ELSE Take(s, c, TRUE)

FloatLoop(np, s, c) ==
  LET last == IF s.a = <<>> THEN "none" ELSE Last(s.a)
      ended == [s EXCEPT !.units = FALSE, !.expDone = TRUE]
  IN
  IF c = np.point
  THEN IF ~s.units THEN Stop(s)
       ELSE LET then == [Take(s, ".", FALSE) EXCEPT !.units = FALSE]
            IN IF np.grouping # <<>> THEN Push(then) ELSE then
  ELSE IF np.grouping # <<>> /\ c = np.sep THEN (IF s.units THEN Separator(s) ELSE Stop(s))
  ELSE IF c \notin Digits \cup {"x", "p", "i", "n", "+", "-"} THEN Stop(s)
  ELSE IF c \in {"+", "-"}
  THEN IF s.a = <<>> \/ last = s.exp THEN Take(s, c, FALSE) ELSE Stop(s)
  ELSE IF c = "x" THEN [Take(s, c, FALSE) EXCEPT !.exp = "p", !.expDone = FALSE]
  ELSE IF c = s.exp /\ ~s.expDone
  THEN Take(IF s.units /\ np.grouping # <<>> THEN Push(ended) ELSE ended, c, c \in Digits)
  ELSE Take(s, c, c \in Digits)

(* Stage 2 of either, and the last group, unless it has ended before.      *)
Stage2(np, text, Step(_, _)) ==
  LET read == FoldLeft(LAMBDA s, c :
                LET then == IF s.stop THEN s ELSE Step(s, c)
                IN IF then.stop THEN then ELSE [then EXCEPT !.used = @ + 1],
                Begun, text)
  IN IF np.grouping # <<>> /\ read.units THEN Push(read) ELSE read

(* __check_grouping: the groups from the right are those there should be,  *)
(* and the first one is not larger than that.                              *)
CheckGrouping(grouping, g) ==
  LET n == Len(g) IN
  \/ grouping = <<>>
  \/ /\ \A i \in 1..(n - 1) : Limits(Group(grouping, i)) => g[n + 1 - i] = Group(grouping, i)
     /\ Limits(Group(grouping, n)) => g[1] \in 1..Group(grouping, n)

(* strtoll_l and strtoull_l: the number, if it is all of the text; base 0  *)
(* is that of the prefix.                                                  *)
Strtoll(a, base) ==
  LET sign == SignAt(a)
      prefix == IF base \in {0, 16} THEN PrefixAt(a, sign) ELSE 0
      actual == IF base # 0 THEN base ELSE IF prefix = 2 THEN 16
                ELSE IF Len(a) > sign /\ a[sign + 1] = "0" THEN 8 ELSE 10
      digits == SubSeq(a, sign + prefix + 1, Len(a))
      whole == digits # <<>> /\ \A i \in DOMAIN digits :
                                  digits[i] \in Digits /\ ValueOf(digits[i]) < actual
      n == FoldLeft(LAMBDA v, c : v * actual + ValueOf(c), 0, digits)
  IN [whole |-> whole,
      value |-> IF ~whole THEN 0 ELSE IF sign = 1 /\ a[1] = "-" THEN -n ELSE n]

(* __num_get_signed_integral and __num_get_unsigned_integral.              *)
NumGetSigned(type, number) ==
  CASE ~number.whole -> [fail |-> TRUE, v |-> 0]
    [] number.whole -> [fail |-> number.value \notin Lowest(type)..Highest(type),
                        v |-> IF number.value > Highest(type) THEN Highest(type)
                              ELSE IF number.value < Lowest(type) THEN Lowest(type)
                              ELSE number.value]
NumGetUnsigned(type, a, number) ==
  CASE a[1] = "-" \/ ~number.whole -> [fail |-> TRUE, v |-> 0]
    [] a[1] # "-" /\ number.whole -> [fail |-> number.value > Highest(type),
                                      v |-> IF number.value > Highest(type) THEN Highest(type)
                                            ELSE number.value]

(* __get_base, and do_get of integers and of floating point numbers.       *)
GetBase(flags) ==
  CASE flags.base = "oct" -> 8 [] flags.base = "hex" -> 16 [] flags.base = "none" -> 0
    [] flags.base = "dec" -> 10
GetInt(np, type, base, text) ==
  LET read == Stage2(np, text, LAMBDA s, c : IntLoop(np, base, s, c))
      got == IF read.a = <<>> THEN [fail |-> TRUE, v |-> 0]
             ELSE IF IsSigned(type) THEN NumGetSigned(type, Strtoll(read.a, base))
             ELSE NumGetUnsigned(type, read.a, Strtoll(read.a, base))
  IN [state |-> "got", v |-> got.v, used |-> read.used,
      fail |-> got.fail \/ ~CheckGrouping(np.grouping, read.g)]
GetFloat(np, text) ==
  LET read == Stage2(np, text, LAMBDA s, c : FloatLoop(np, s, c))
  IN [state |-> "got", v |-> read.a, used |-> read.used,
      fail |-> read.a \notin FloatTexts \/ ~CheckGrouping(np.grouping, read.g)]
-----------------------------------------------------------------------------
(* A number is written into an empty stream and read back, as the same     *)
(* type and with the flags it was written with, or by its prefix; or any   *)
(* text is read as a number.                                               *)
Facet == NewNumPunct(request.name, request.byname, request.wide)
Paddings ==
  {[adjust |-> "right", width |-> 0]}
  \cup {[adjust |-> side, width |-> Width] : side \in {"left", "right", "internal"}}
Flags ==
  {[base |-> base, showbase |-> showbase, showpos |-> showpos, adjust |-> pad.adjust,
    width |-> pad.width] :
     base \in {"dec", "oct", "hex", "none"}, showbase \in BOOLEAN, showpos \in BOOLEAN,
     pad \in Paddings}
Plain == [base |-> "dec", showbase |-> FALSE, showpos |-> FALSE]
Types == {"long", "unsigned short"}

Init ==
  /\ \/ request \in [op : {"int"}, name : DOMAIN Locales, byname : BOOLEAN, wide : BOOLEAN,
                     type : Types, v : Values, flags : Flags, by : {"flags", "prefix"}]
     \/ request \in [op : {"float"}, name : DOMAIN Locales, byname : BOOLEAN, wide : BOOLEAN,
                     v : FloatTexts, flags : {flags \in Flags : flags.base = "dec"}]
     \/ request \in [op : {"read"}, name : DOMAIN Locales, byname : {TRUE}, wide : BOOLEAN,
                     type : Types, base : {0, 8, 10, 16}, text : Texts]
  /\ request.op = "int" =>
       /\ request.v \in Lowest(request.type)..Highest(request.type)
       /\ request.by = "prefix" => request.flags.width = 0
  /\ request.byname \/ request.name = "C"
  /\ answer = [state |-> "asked"]

PutInt ==
  /\ request.op = "int" /\ answer.state = "asked" /\ Facet.state = "built"
  /\ \E np \in {Facet}, nar \in {Snprintf(request.type, request.flags, request.v)} :
       answer' = Put(np, request.flags, nar, WidenAndGroupInt(np, nar))
  /\ UNCHANGED request

PutFloat ==
  /\ request.op = "float" /\ answer.state = "asked" /\ Facet.state = "built"
  /\ \E np \in {Facet} :
       answer' = Put(np, request.flags, request.v, WidenAndGroupFloat(np, request.v))
  /\ UNCHANGED request

ReadBase == IF request.by = "flags" THEN GetBase(request.flags) ELSE 0
GetBack ==
  /\ answer.state = "put" /\ request.flags.width = 0
  /\ \E np \in {Facet} :
       answer' = IF request.op = "int" THEN GetInt(np, request.type, ReadBase, answer.text)
                 ELSE GetFloat(np, answer.text)
  /\ UNCHANGED request

Read ==
  /\ request.op = "read" /\ answer.state = "asked" /\ Facet.state = "built"
  /\ \E np \in {Facet} :
       answer' = GetInt(np, request.type, request.base,
                        [i \in DOMAIN request.text |->
                           IF request.text[i] = "," THEN np.sep ELSE request.text[i]])
  /\ UNCHANGED request

Next == PutInt \/ PutFloat \/ GetBack \/ Read

Spec == Init /\ [][Next]_nvars
-----------------------------------------------------------------------------
(* Where the separators of n digits are, counted from the right.           *)
Borders(grouping, n) ==
  {p \in 1..(n - 1) : grouping # <<>> /\ \E k \in 1..n :
     /\ \A i \in 1..k : Limits(Group(grouping, i))
     /\ p = FoldLeft(LAMBDA sum, i : sum + Group(grouping, i), 0, [i \in 1..k |-> i])}
(* What a text without sign and prefix has of them; and whether it is one. *)
Rightwards(text, i) == Len(SelectSeq(SubSeq(text, i + 1, Len(text)), LAMBDA c : c # ","))
BordersOf(text) == {Rightwards(text, i) : i \in {j \in DOMAIN text : text[j] = ","}}
Consistent(grouping, text) ==
  LET digits == Rightwards(text, 0)
  IN /\ digits > 0 /\ BordersOf(text) = Borders(grouping, digits)
     /\ Len(text) = digits + Cardinality(BordersOf(text))

(* num_get takes a whole text of digits as a number exactly if num_put     *)
(* would have put the separators there, and not one without them; what is  *)
(* out of range is the end of the range.  (Not if a group has no end, in   *)
(* front of which any separators pass; nor with more groups than slots.)   *)
ReadExact ==
  (request.op = "read" /\ answer.state = "got" /\ request.base \in {8, 10, 16}) =>
    LET sign == SignAt(request.text)
        body == SubSeq(request.text, sign + 1, Len(request.text))
        digits == SelectSeq(body, LAMBDA c : c # ",")
        n == FoldLeft(LAMBDA v, c : v * request.base + ValueOf(c), 0, digits)
        value == IF sign = 1 /\ request.text[1] = "-" THEN -n ELSE n
    IN (/\ \A i \in DOMAIN digits : digits[i] \in {"0", "1"}
        /\ \A i \in DOMAIN Facet.grouping : Limits(Facet.grouping[i])
        /\ Facet.grouping # <<>> /\ Len(SelectSeq(body, LAMBDA c : c = ",")) < Slots
        /\ IsSigned(request.type) \/ sign = 0) =>
         /\ answer.used = Len(request.text)
         /\ ~answer.fail <=> /\ Consistent(Facet.grouping, body)
                             /\ value \in Lowest(request.type)..Highest(request.type)
         /\ digits # <<>> => answer.v = CASE value > Highest(request.type) -> Highest(request.type)
                                          [] value < Lowest(request.type) -> Lowest(request.type)
                                          [] OTHER -> value

(* The padding makes a number as wide as it should be and changes nothing  *)
(* else: without it, and without the separators, the text is that of C,    *)
(* and the separators are where they belong.                               *)
PutExact ==
  answer.state = "put" =>
    LET sep == Facet.sep
        nar == IF request.op = "int" THEN Snprintf(request.type, request.flags, request.v)
               ELSE request.v
        front == SignAt(nar) + PrefixAt(nar, SignAt(nar))
        body == SubSeq(answer.plain, front + 1, Len(answer.plain))
    IN /\ Len(answer.text) = Max({request.flags.width, Len(answer.plain)})
       /\ SelectSeq(answer.text, LAMBDA c : c # "*") = answer.plain
       /\ request.op = "int" =>
            /\ SelectSeq(answer.plain, LAMBDA c : c # sep) = nar
            /\ Consistent(Facet.grouping,
                          [i \in DOMAIN body |-> IF body[i] = sep THEN "," ELSE body[i]])

(* num_get reads what num_put has written, as the same number and all of   *)
(* it.  Not: the complement that a negative number is in another base; by  *)
(* the prefix, one that there is not, or 0x with groups, which base 0      *)
(* counts as two digits; a floating point number in hexadecimal, which     *)
(* counts its 0; one of more groups than there are slots; and one whose    *)
(* separator has stayed the same as its decimal point.                     *)
UnitsOf(nar) ==
  SelectInSeq(Append(SubSeq(nar, SignAt(nar) + 1, Len(nar)), "end"),
              LAMBDA c : c \notin Digits \/ ValueOf(c) > 9) - 1
Readable ==
  LET grouped == Facet.grouping # <<>>
      flags == request.flags
  IN CASE request.op = "int" ->
            /\ request.v >= 0 \/ flags.base \in {"dec", "none"}
            /\ request.by = "prefix" =>
                 \/ flags.base \in {"dec", "none"}
                 \/ flags.showbase /\ ~(grouped /\ flags.base = "hex")
       [] request.op = "float" ->
            /\ grouped => /\ Facet.sep # Facet.point
                          /\ PrefixAt(request.v, SignAt(request.v)) = 0
                          /\ Cardinality(Borders(Facet.grouping, UnitsOf(request.v))) < Slots
GetReadsPut ==
  (answer.state = "got" /\ request.op \in {"int", "float"} /\ Readable) =>
    ~answer.fail /\ answer.v = request.v
================================================================================
