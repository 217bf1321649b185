------------------------------ MODULE TimeFormat -------------------------------
(***************************************************************************)
(* Dates and times: time_get_byname finds out the formats of a locale from *)
(* what strftime makes of one day (src/locale.cpp), time_get reads by them *)
(* what time_put has written (include/locale).  A character is a string:   *)
(* a digit, a mark, or a run of letters within which no two names differ.  *)
(* A conversion, as "%d", is one character of a format.                    *)
(***************************************************************************)
EXTENDS Integers, Sequences, SequencesExt, FiniteSetsExt

CONSTANTS
  Locales,     \* what strftime, mbsrtowcs and ctype know of a locale, by its name
  Times        \* the times written

VARIABLES request, answer

tvars == <<request, answer>>

Zero ==
  [sec |-> 0, min |-> 0, hour |-> 0, mday |-> 0, mon |-> 0, year |-> 0, wday |-> 0, yday |-> 0]
DigitChars == <<"0", "1", "2", "3", "4", "5", "6", "7", "8", "9">>
Digits == Range(DigitChars)
ValueOf(c) == (CHOOSE i \in 1..10 : DigitChars[i] = c) - 1
Number(n, width) == [i \in 1..width |-> DigitChars[((n \div 10 ^ (width - i)) % 10) + 1]]

ToUpper(loc, c) == IF c \in DOMAIN loc.upper THEN loc.upper[c] ELSE c
InLower(loc, c) == IF \E l \in DOMAIN loc.upper : loc.upper[l] = c
                   THEN CHOOSE l \in DOMAIN loc.upper : loc.upper[l] = c ELSE c
-----------------------------------------------------------------------------
(* strftime_l: the text of one conversion, and of a whole format.          *)
StandardFormats ==
  [D |-> <<"%m", "/", "%d", "/", "%y">>, F |-> <<"%Y", "-", "%m", "-", "%d">>,
   R |-> <<"%H", ":", "%M">>, T |-> <<"%H", ":", "%M", ":", "%S">>]
OwnFormat(loc, letter) ==
  IF letter \in DOMAIN StandardFormats THEN StandardFormats[letter] ELSE loc.formats[letter]

Written(loc, conversion, t) ==
  CASE conversion = "%A" -> loc.weeks[t.wday + 1]
    [] conversion = "%a" -> loc.weeks[t.wday + 8]
    [] conversion = "%B" -> loc.months[t.mon + 1]
    [] conversion = "%b" -> loc.months[t.mon + 13]
    [] conversion = "%p" -> loc.ampm[IF t.hour < 12 THEN 1 ELSE 2]
    [] conversion = "%Y" -> Number(t.year + 1900, 4)
    [] conversion = "%y" -> Number(t.year, 2)
    [] conversion = "%m" -> Number(t.mon + 1, 2)
    [] conversion = "%d" -> Number(t.mday, 2)
    [] conversion = "%e" -> IF t.mday < 10 THEN <<" ">> \o Number(t.mday, 1) ELSE Number(t.mday, 2)
    [] conversion = "%H" -> Number(t.hour, 2)
    [] conversion = "%I" -> Number(((t.hour + 11) % 12) + 1, 2)
    [] conversion = "%M" -> Number(t.min, 2)
    [] conversion = "%S" -> Number(t.sec, 2)
    [] conversion = "%j" -> Number(t.yday + 1, 3)
    [] conversion = "%w" -> Number(t.wday, 1)
    [] conversion = "%%" -> <<"%">>
    [] OTHER -> <<conversion>>
Strftime(loc, letter, t) ==
  LET format == OwnFormat(loc, letter) IN
  FlattenSeq([i \in 1..Len(format) |-> Written(loc, format[i], t)])

(* __time_put::__do_put, for char and for wchar_t: nothing if the text is  *)
(* not one of the wide character set.                                      *)
DoPut(loc, wide, letter, t) ==
  IF wide /\ ~loc.convertible THEN [state |-> "throws"]
  ELSE [state |-> "put", text |-> Strftime(loc, letter, t)]
-----------------------------------------------------------------------------
(* __scan_keyword: the first of the keywords that are exactly what can be  *)
(* read; what is read has gone even if no keyword is.                      *)
ScanKeyword(loc, b, keywords) ==
  LET same(c, d) == ToUpper(loc, c) = ToUpper(loc, d)
      common(k) == CHOOSE n \in 0..Len(k) :
        /\ n <= Len(b) /\ \A i \in 1..n : same(b[i], k[i])
        /\ n < Len(k) /\ n < Len(b) => ~same(b[n + 1], k[n + 1])
      n == Max({common(k) : k \in Range(keywords)})
      matching == {i \in 1..Len(keywords) : Len(keywords[i]) = n /\ common(keywords[i]) = n}
  IN [b |-> SubSeq(b, n + 1, Len(b)),
      found |-> IF matching = {} THEN Len(keywords) ELSE Min(matching) - 1]

(* __get_up_to_n_digits: how many digits there are, and their value.       *)
DigitsAhead(b, n) ==
  CHOOSE k \in 0..n : /\ k <= Len(b) /\ \A i \in 1..k : b[i] \in Digits
                      /\ k < n /\ k < Len(b) => b[k + 1] \notin Digits
GetUpToNDigits(b, n) ==
  LET k == DigitsAhead(b, n) IN
  [b |-> SubSeq(b, k + 1, Len(b)), failed |-> k = 0,
   value |-> FoldLeft(LAMBDA acc, c : acc * 10 + ValueOf(c), 0, SubSeq(b, 1, k))]
-----------------------------------------------------------------------------
(* __analyze: the format by which strftime has written the last day of     *)
(* 2061, from its names and its numbers.                                   *)
AnalysedTime ==
  [sec |-> 59, min |-> 55, hour |-> 23, mday |-> 31, mon |-> 11, year |-> 161,
   wday |-> 6, yday |-> 364]
ConversionOf ==
  (6 :> "%w") @@ (7 :> "%u") @@ (11 :> "%I") @@ (12 :> "%m") @@ (23 :> "%H") @@ (31 :> "%d")
  @@ (55 :> "%M") @@ (59 :> "%S") @@ (61 :> "%y") @@ (364 :> "%j") @@ (2061 :> "%Y")
Conversions == Range(ConversionOf) \cup {"%a", "%A", "%b", "%B", "%p", "%%"}

Spaces(b) == CHOOSE n \in 0..Len(b) : /\ \A i \in 1..n : b[i] = " "
                                      /\ n < Len(b) => b[n + 1] # " "

(* Mutant: a month that is written as a number is a name in dates as well. *)
MonthByName(names, letter, month) == IF month < 12 THEN "%B" ELSE "%b"
MonthConversion(names, letter, month) ==
  CASE letter = "x" /\ names.months[month + 1][1] \in Digits -> "%m"
    [] OTHER -> IF month < 12 THEN "%B" ELSE "%b"

(* What is found at the front of b: characters of the format, and the rest.*)
Found(loc, names, letter, b) ==
  LET week == ScanKeyword(loc, b, names.weeks)
      month == ScanKeyword(loc, b, names.months)
      half == ScanKeyword(loc, b, names.ampm)
      number == GetUpToNDigits(b, 4)
      digits == SubSeq(b, 1, Len(b) - Len(number.b))
  IN
  IF b[1] = " " THEN [chars |-> <<" ">>, b |-> SubSeq(b, Spaces(b) + 1, Len(b))]
  ELSE IF week.found < 14
  THEN [chars |-> <<IF week.found < 7 THEN "%A" ELSE "%a">>, b |-> week.b]
  ELSE IF month.found < 24
  THEN [chars |-> <<MonthConversion(names, letter, month.found)>>, b |-> month.b]
  ELSE IF names.ampm # << <<>>, <<>> >> /\ half.found < 2
  THEN [chars |-> <<"%p">>, b |-> half.b]
  ELSE IF b[1] \in Digits
  THEN [chars |-> IF number.value \in DOMAIN ConversionOf THEN <<ConversionOf[number.value]>>
                  ELSE digits, b |-> number.b]
  ELSE [chars |-> <<IF b[1] = "%" THEN "%%" ELSE b[1]>>, b |-> Tail(b)]

RECURSIVE Analyze(_, _, _, _)
Analyze(loc, names, letter, b) ==
  IF b = <<>> THEN <<>>
  ELSE LET f == Found(loc, names, letter, b) IN f.chars \o Analyze(loc, names, letter, f.b)
-----------------------------------------------------------------------------
(* __time_get_c_storage, the names and formats of time_get itself; and     *)
(* init, by which __time_get_storage asks strftime for those of a locale.  *)
CWeeks ==
  << <<"Sun", "day">>, <<"Mon", "day">>, <<"Tue", "sday">>, <<"Wed", "nesday">>, <<"Thu", "rsday">>,
     <<"Fri", "day">>, <<"Sat", "urday">>,
     <<"Sun">>, <<"Mon">>, <<"Tue">>, <<"Wed">>, <<"Thu">>, <<"Fri">>, <<"Sat">> >>
CMonths ==
  << <<"Jan", "uary">>, <<"Feb", "ruary">>, <<"Mar", "ch">>, <<"Apr", "il">>, <<"May">>,
     <<"Jun", "e">>, <<"Jul", "y">>, <<"Aug", "ust">>, <<"Sep", "tember">>, <<"Oct", "ober">>,
     <<"Nov", "ember">>, <<"Dec", "ember">>, <<"Jan">>, <<"Feb">>, <<"Mar">>, <<"Apr">>, <<"May">>,
     <<"Jun">>, <<"Jul">>, <<"Aug">>, <<"Sep">>, <<"Oct">>, <<"Nov">>, <<"Dec">> >>
CAmPm == << <<"AM">>, <<"PM">> >>
CFormats ==
  [x |-> <<"%m", "/", "%d", "/", "%y">>, X |-> <<"%H", ":", "%M", ":", "%S">>,
   c |-> <<"%a", " ", "%b", " ", "%d", " ", "%H", ":", "%M", ":", "%S", " ", "%Y">>,
   r |-> <<"%I", ":", "%M", ":", "%S", " ", "%p">>]
CStorage ==
  [state |-> "built", weeks |-> CWeeks, months |-> CMonths, ampm |-> CAmPm, formats |-> CFormats]

InitStorage(loc) ==
  LET names ==
        [weeks |-> [i \in 1..14 |-> Written(loc, IF i <= 7 THEN "%A" ELSE "%a",
                                            [Zero EXCEPT !.wday = (i - 1) % 7])],
         months |-> [i \in 1..24 |-> Written(loc, IF i <= 12 THEN "%B" ELSE "%b",
                                             [Zero EXCEPT !.mon = (i - 1) % 12])],
         ampm |-> [i \in 1..2 |-> Written(loc, "%p", [Zero EXCEPT !.hour = 12 * i - 11])]]
  IN [state |-> "built", weeks |-> names.weeks, months |-> names.months, ampm |-> names.ampm,
      formats |-> [letter \in DOMAIN CFormats |->
                     Analyze(loc, names, letter, Strftime(loc, letter, AnalysedTime))]]
InitStorageWide(loc) == IF loc.convertible THEN InitStorage(loc) ELSE [state |-> "throws"]

(* The constructors of time_get, and of time_get_byname for either width.  *)
NewTimeGet(loc, byname, wide) ==
  CASE ~byname -> CStorage
    [] byname /\ ~loc.exists -> [state |-> "throws"]
    [] byname /\ loc.exists -> IF wide THEN InitStorageWide(loc) ELSE InitStorage(loc)

(* do_date_order: the first three conversions of the format of dates.      *)
(* Mutant: the second conversion is not looked at.                         *)
DateOrderOfTwo(x) ==
  LET conversions == SelectSeq(x, LAMBDA c : c \in Conversions)
  IN CASE Len(conversions) < 3 -> "no_order"
       [] Len(conversions) >= 3 /\ conversions[1] \in {"%y", "%Y"} -> "ymd"
       [] Len(conversions) >= 3 /\ conversions[1] = "%m" -> "mdy"
       [] Len(conversions) >= 3 /\ conversions[1] = "%d" -> "dmy"
       [] OTHER -> "no_order"
DateOrder(x) ==
  LET conversions == SelectSeq(x, LAMBDA c : c \in Conversions)
      are(i, set) == Len(conversions) >= i /\ conversions[i] \in set
      year == {"%y", "%Y"}
  IN CASE are(1, year) /\ are(2, {"%m"}) /\ are(3, {"%d"}) -> "ymd"
       [] are(1, year) /\ are(2, {"%d"}) /\ are(3, {"%m"}) -> "ydm"
       [] are(1, {"%m"}) /\ are(2, {"%d"}) /\ are(3, year) -> "mdy"
       [] are(1, {"%d"}) /\ are(2, {"%m"}) /\ are(3, year) -> "dmy"
       [] OTHER -> "no_order"
-----------------------------------------------------------------------------
(* The primitives of time_get: s is the input left, the bits of the state  *)
(* and the time read so far.                                               *)
AtEnd(s) == IF s.b = <<>> THEN [s EXCEPT !.eof = TRUE] ELSE s
Set(s, field, v) == [s EXCEPT !.tm[field] = v]
GetNumber(s, field, digits, Valid(_), Value(_)) ==
  LET number == GetUpToNDigits(s.b, digits)
      rest == AtEnd([s EXCEPT !.b = number.b])
  IN IF number.failed \/ ~Valid(number.value) THEN [rest EXCEPT !.fail = TRUE]
     ELSE Set(rest, field, Value(number.value))

GetDay(s) == GetNumber(s, "mday", 2, LAMBDA v : v \in 1..31, LAMBDA v : v)
GetMonth(s) == GetNumber(s, "mon", 2, LAMBDA v : v <= 12, LAMBDA v : v - 1)
(* Mutant: all two digits are years of one century.                        *)
GetYearOfOneCentury(s) == GetNumber(s, "year", 4, LAMBDA v : TRUE,
              LAMBDA v : IF v <= 99 THEN v ELSE v - 1900)
GetYear(s) == GetNumber(s, "year", 4, LAMBDA v : TRUE,
              LAMBDA v : IF v < 69 THEN v + 100 ELSE IF v <= 99 THEN v ELSE v - 1900)
GetYear4(s) == GetNumber(s, "year", 4, LAMBDA v : TRUE, LAMBDA v : v - 1900)
GetHour(s) == GetNumber(s, "hour", 2, LAMBDA v : v <= 23, LAMBDA v : v)
Get12Hour(s) == GetNumber(s, "hour", 2, LAMBDA v : v \in 1..12, LAMBDA v : v)
GetMinute(s) == GetNumber(s, "min", 2, LAMBDA v : v <= 59, LAMBDA v : v)
GetSecond(s) == GetNumber(s, "sec", 2, LAMBDA v : v <= 60, LAMBDA v : v)
GetWeekday(s) == GetNumber(s, "wday", 1, LAMBDA v : v <= 6, LAMBDA v : v)
GetDayYearNum(s) == GetNumber(s, "yday", 3, LAMBDA v : v <= 365, LAMBDA v : v)

GetName(loc, s, field, keywords, period) ==
  LET name == ScanKeyword(loc, s.b, keywords)
      rest == AtEnd([s EXCEPT !.b = name.b])
  IN IF name.found = Len(keywords) THEN [rest EXCEPT !.fail = TRUE]
     ELSE Set(rest, field, name.found % period)
GetWeekdayname(loc, storage, s) == GetName(loc, s, "wday", storage.weeks, 7)
GetMonthname(loc, storage, s) == GetName(loc, s, "mon", storage.months, 12)
GetAmPm(loc, storage, s) ==
  LET half == ScanKeyword(loc, s.b, storage.ampm)
      rest == AtEnd([s EXCEPT !.b = half.b])
  IN CASE storage.ampm = << <<>>, <<>> >> -> [s EXCEPT !.fail = TRUE]
       [] storage.ampm # << <<>>, <<>> >> /\ half.found = 2 -> [rest EXCEPT !.fail = TRUE]
       [] storage.ampm # << <<>>, <<>> >> /\ half.found = 0 ->
            IF s.tm.hour = 12 THEN Set(rest, "hour", 0) ELSE rest
       [] storage.ampm # << <<>>, <<>> >> /\ half.found = 1 ->
            IF s.tm.hour < 12 THEN Set(rest, "hour", s.tm.hour + 12) ELSE rest
GetPercent(s) ==
  CASE s.b = <<>> -> [s EXCEPT !.eof = TRUE, !.fail = TRUE]
    [] s.b # <<>> /\ s.b[1] = "%" -> AtEnd([s EXCEPT !.b = Tail(@)])
    [] s.b # <<>> /\ s.b[1] # "%" -> [s EXCEPT !.fail = TRUE]

(* do_get of one conversion, and get: the conversions and the marks of a   *)
(* format one after the other, until one of them sets a bit.               *)
Convert(loc, storage, conversion, s) ==
  CASE conversion \in {"%a", "%A"} -> GetWeekdayname(loc, storage, s)
    [] conversion \in {"%b", "%B"} -> GetMonthname(loc, storage, s)
    [] conversion = "%d" -> GetDay(s)
    [] conversion = "%H" -> GetHour(s)
    [] conversion = "%I" -> Get12Hour(s)
    [] conversion = "%j" -> GetDayYearNum(s)
    [] conversion = "%m" -> GetMonth(s)
    [] conversion = "%M" -> GetMinute(s)
    [] conversion = "%p" -> GetAmPm(loc, storage, s)
    [] conversion = "%S" -> GetSecond(s)
    [] conversion = "%w" -> GetWeekday(s)
    [] conversion = "%y" -> GetYear(s)
    [] conversion = "%Y" -> GetYear4(s)
    [] conversion = "%%" -> GetPercent(s)
    [] conversion = "%u" -> [s EXCEPT !.fail = TRUE]

GetOne(loc, storage, s, c) ==
  CASE s.eof \/ s.fail -> s
    [] ~(s.eof \/ s.fail) /\ s.b = <<>> -> [s EXCEPT !.fail = TRUE]
    [] ~(s.eof \/ s.fail) /\ s.b # <<>> ->
         CASE c \in Conversions -> Convert(loc, storage, c, s)
           [] c = " " -> [s EXCEPT !.b = SubSeq(@, Spaces(@) + 1, Len(@))]
           [] c \notin Conversions \cup {" "} ->
                IF ToUpper(loc, s.b[1]) = ToUpper(loc, c) THEN [s EXCEPT !.b = Tail(@)]
                ELSE [s EXCEPT !.fail = TRUE]
GetByFormat(loc, storage, format, b) ==
  AtEnd(FoldLeft(LAMBDA s, c : GetOne(loc, storage, s, c),
                 [b |-> b, eof |-> FALSE, fail |-> FALSE, tm |-> Zero], format))

(* do_get of a letter that stands for a format: %r is that of time_get.    *)
DoGet(loc, storage, letter, b) ==
  GetByFormat(loc, storage,
    CASE letter \in {"c", "x", "X"} -> storage.formats[letter]
      [] letter = "r" -> CFormats.r
      [] letter \in DOMAIN StandardFormats -> StandardFormats[letter],
    b)
-----------------------------------------------------------------------------
Init ==
  /\ request \in [loc : DOMAIN Locales, byname : BOOLEAN, wide : BOOLEAN, lower : BOOLEAN,
                  tm : Times, letter : {"c", "r", "x", "X"} \cup DOMAIN StandardFormats]
  /\ ~request.byname => Locales[request.loc].isC
  /\ answer = <<>>

Construct ==
  /\ answer = <<>>
  /\ answer' = <<NewTimeGet(Locales[request.loc], request.byname, request.wide)>>
  /\ UNCHANGED request

PutAndGet ==
  /\ Len(answer) = 1 /\ answer[1].state = "built"
  /\ LET loc == Locales[request.loc]
         put == DoPut(loc, request.wide, request.letter, request.tm)
         text == [i \in DOMAIN put.text |->
                    IF request.lower THEN InLower(loc, put.text[i]) ELSE put.text[i]]
     IN answer' = Append(answer, DoGet(loc, answer[1], request.letter, text))
  /\ UNCHANGED request

Next == Construct \/ PutAndGet

Spec == Init /\ [][Next]_tvars
-----------------------------------------------------------------------------
(* Formats that can be told from one day: no two numbers without a mark    *)
(* between them, no day of the year, a space in front of a day that is     *)
(* filled up with one, and no names of months that begin with digits but   *)
(* for those digits, in a date.                                            *)
Numbers == {"%Y", "%y", "%m", "%d", "%e", "%H", "%I", "%M", "%S", "%w"}
Analysable(loc, letter) ==
  LET format == OwnFormat(loc, letter) IN
  /\ \A i \in 1..(Len(format) - 1) : ~({format[i], format[i + 1]} \subseteq Numbers)
  /\ "%j" \notin Range(format)
  /\ \A i \in DOMAIN format : format[i] = "%e" => i > 1 /\ format[i - 1] = " "
  /\ letter = "r" => format = CFormats.r
  /\ \A i \in 1..24 : loc.months[i][1] \in Digits \cup {" "} =>
       letter \notin {"c"} /\ Range(loc.months[i]) \subseteq Digits \cup {" "}

(* The fields of a time that a format determines: not those of an hour     *)
(* that is read after the half of the day.                                 *)
Determined(loc, format, t) ==
  LET has(c) == c \in Range(format)
      at(c) == CHOOSE i \in 1..Len(format) : format[i] = c
  IN {field \in DOMAIN Zero :
       CASE field = "sec" -> has("%S")
         [] field = "min" -> has("%M")
         [] field = "hour" -> \/ has("%H")
                              \/ /\ has("%I") /\ has("%p") /\ loc.ampm[1] # loc.ampm[2]
                                 /\ at("%I") < at("%p")
         [] field = "mday" -> has("%d") \/ has("%e")
         [] field = "mon" -> has("%m") \/ has("%b") \/ has("%B")
         [] field = "year" -> has("%Y") \/ (has("%y") /\ t.year \in 69..168)
         [] field = "wday" -> has("%a") \/ has("%A") \/ has("%w")
         [] field = "yday" -> FALSE}

(* time_get reads what time_put writes: by the formats it has found out    *)
(* from one day it reads every other, in any case of the letters.          *)
GetReadsPut ==
  (Len(answer) = 2 /\ Analysable(Locales[request.loc], request.letter)) =>
    LET format == OwnFormat(Locales[request.loc], request.letter) IN
    /\ ~answer[2].fail /\ answer[2].b = <<>>
    /\ \A field \in Determined(Locales[request.loc], format, request.tm) :
         answer[2].tm[field] = request.tm[field]

(* date_order() is the order in which the locale writes a date of three    *)
(* numbers; and none if there is anything else in front of them.           *)
OrderExact ==
  (Len(answer) = 1 /\ answer[1].state = "built" /\ Analysable(Locales[request.loc], "x")) =>
    LET format == OwnFormat(Locales[request.loc], "x")
        dates == {"%d", "%e", "%m", "%y", "%Y"}
        numbers == SelectSeq(format, LAMBDA c : c \in dates)
        others == Range(format) \cap (Conversions \ dates)
        kind(c) == CASE c \in {"%d", "%e"} -> "d" [] c = "%m" -> "m" [] c \in {"%y", "%Y"} -> "y"
        order == DateOrder(answer[1].formats.x)
    IN (others = {} /\ Len(numbers) = 3) =>
         order = CASE kind(numbers[1]) = "d" /\ kind(numbers[2]) = "m" -> "dmy"
                   [] kind(numbers[1]) = "m" /\ kind(numbers[2]) = "d" -> "mdy"
                   [] kind(numbers[1]) = "y" /\ kind(numbers[2]) = "m" -> "ymd"
                   [] kind(numbers[1]) = "y" /\ kind(numbers[2]) = "d" -> "ydm"
                   [] OTHER -> "no_order"
================================================================================
