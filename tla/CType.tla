--------------------------------- MODULE CType ---------------------------------
(***************************************************************************)
(* ctype and ctype_byname for char and wchar_t (src/locale.cpp, __locale): *)
(* the classes of characters, one by one and for a range, the table built  *)
(* in for a C library without one, letters in the other case, and what of  *)
(* the wide characters is narrow.  A character is its code; a char has a   *)
(* sign, and a mask is the set of its classes.                             *)
(***************************************************************************)
EXTENDS Integers, Sequences, SequencesExt, FiniteSetsExt

CONSTANTS
  Locales,     \* what the C library knows of a locale, by its name
  Narrows,     \* the characters of type char
  Wides,       \* the characters of type wchar_t
  MaxLength    \* of a range

VARIABLES request, answer

cvars == <<request, answer>>

Classes ==
  {"space", "print", "cntrl", "upper", "lower", "alpha", "digit", "punct", "xdigit", "blank"}
Masks == {{class} : class \in Classes} \cup {{"alpha", "digit"}, {"alpha", "digit", "punct"}, {}}
isascii(c) == c \in 0..127
-----------------------------------------------------------------------------
(* builtin_table of classic_table(), row by row: how many characters have  *)
(* these classes.                                                          *)
(* Mutant: the digits are no hexadecimal digits.                           *)
BuiltinRowsDecimal ==
  << <<9, {"cntrl"}>>, <<1, {"cntrl", "space", "blank"}>>, <<4, {"cntrl", "space"}>>,
     <<18, {"cntrl"}>>, <<1, {"space", "blank", "print"}>>, <<15, {"punct", "print"}>>,
     <<10, {"digit", "print"}>>, <<7, {"punct", "print"}>>,
     <<6, {"upper", "xdigit", "print", "alpha"}>>, <<20, {"upper", "print", "alpha"}>>,
     <<6, {"punct", "print"}>>, <<6, {"lower", "xdigit", "print", "alpha"}>>,
     <<20, {"lower", "print", "alpha"}>>, <<4, {"punct", "print"}>>, <<1, {"cntrl"}>>,
     <<128, {}>> >>
BuiltinRows ==
  << <<9, {"cntrl"}>>, <<1, {"cntrl", "space", "blank"}>>, <<4, {"cntrl", "space"}>>,
     <<18, {"cntrl"}>>, <<1, {"space", "blank", "print"}>>, <<15, {"punct", "print"}>>,
     <<10, {"digit", "print", "xdigit"}>>, <<7, {"punct", "print"}>>,
     <<6, {"upper", "xdigit", "print", "alpha"}>>, <<20, {"upper", "print", "alpha"}>>,
     <<6, {"punct", "print"}>>, <<6, {"lower", "xdigit", "print", "alpha"}>>,
     <<20, {"lower", "print", "alpha"}>>, <<4, {"punct", "print"}>>, <<1, {"cntrl"}>>,
     <<128, {}>> >>
classic_table ==
  LET upTo == [row \in 0..Len(BuiltinRows) |->
                 FoldLeft(LAMBDA sum, r : sum + r[1], 0, SubSeq(BuiltinRows, 1, row))]
  IN [c \in 0..255 |->
        LET row == CHOOSE row \in DOMAIN BuiltinRows : upTo[row - 1] <= c /\ c < upTo[row]
        IN BuiltinRows[row][2]]
-----------------------------------------------------------------------------
(* iswspace_l and its like, towupper_l and towlower_l, btowc_l and wctob_l *)
(* of a locale; a char that is -1 is EOF to btowc.                         *)
CClasses ==
  [c \in 0..127 |-> {class \in Classes :
          CASE class = "cntrl" -> c \in 0..31 \cup {127}
            [] class = "space" -> c \in {32} \cup 9..13
            [] class = "blank" -> c \in {9, 32}
            [] class = "print" -> c \in 32..126
            [] class = "digit" -> c \in 48..57
            [] class = "xdigit" -> c \in 48..57 \cup 65..70 \cup 97..102
            [] class = "upper" -> c \in 65..90
            [] class = "lower" -> c \in 97..122
            [] class = "alpha" -> c \in 65..90 \cup 97..122
            [] class = "punct" -> c \in 33..126 \ (48..57 \cup 65..90 \cup 97..122)}]
LibraryClasses(loc, c) ==
  IF isascii(c) THEN CClasses[c] ELSE IF c \in DOMAIN loc.classes THEN loc.classes[c] ELSE {}
Toupper(loc, c) ==
  IF c \in 97..122 THEN c - 32 ELSE IF c \in DOMAIN loc.upper THEN loc.upper[c] ELSE c
Tolower(loc, c) ==
  IF c \in 65..90 THEN c + 32
  ELSE IF \E l \in DOMAIN loc.upper : loc.upper[l] = c
       THEN CHOOSE l \in DOMAIN loc.upper : loc.upper[l] = c ELSE c
WEOF == -1
Default == 63
Btowc(loc, c) ==
  IF isascii(c) THEN c ELSE IF c # -1 /\ c % 256 \in loc.bytes THEN c % 256 ELSE WEOF
Wctob(loc, c) == IF isascii(c) THEN c ELSE IF c \in loc.bytes THEN c - 256 ELSE WEOF
-----------------------------------------------------------------------------
(* is(), and scan_is() and scan_not(): the facets of char and that of      *)
(* wchar_t know the table alone; ctype_byname<wchar_t> asks for one class  *)
(* after the other, and tells the classes of a range from the table.       *)
Asks(f) == f.wide /\ f.byname
Is(f, mask, c) ==
  IF Asks(f) THEN \E class \in Classes : class \in mask /\ class \in LibraryClasses(f.loc, c)
  ELSE isascii(c) /\ classic_table[c] \cap mask # {}
ClassesOf(f, c) ==
  IF isascii(c) THEN classic_table[c] ELSE IF Asks(f) THEN LibraryClasses(f.loc, c) ELSE {}
IsRange(f, range) == [i \in DOMAIN range |-> ClassesOf(f, range[i])]

Before(range, found) == IF found = {} THEN Len(range) ELSE Min(found) - 1
ScanIs(f, mask, range) == Before(range, {i \in DOMAIN range : Is(f, mask, range[i])})
ScanNot(f, mask, range) == Before(range, {i \in DOMAIN range : ~Is(f, mask, range[i])})

(* toupper and tolower: those that are not byname change ASCII only; that  *)
(* of char goes by the bytes of the locale, which have no sign.            *)
AsChar(c) == IF c \in 128..255 THEN c - 256 ELSE c
Byte(c) == c % 256
CaseOf(f, range, ofNarrow, ofWide) ==
  [i \in DOMAIN range |->
     CASE isascii(range[i]) \/ Asks(f) -> ofWide[i]
       [] ~(isascii(range[i]) \/ Asks(f)) ->
            IF f.byname /\ Byte(range[i]) \in f.loc.bytes THEN AsChar(ofNarrow[i]) ELSE range[i]]
ToUpper(f, range) ==
  CaseOf(f, range, [i \in DOMAIN range |-> Toupper(f.loc, Byte(range[i]))],
                    [i \in DOMAIN range |-> Toupper(f.loc, range[i])])
ToLower(f, range) ==
  CaseOf(f, range, [i \in DOMAIN range |-> Tolower(f.loc, Byte(range[i]))],
                    [i \in DOMAIN range |-> Tolower(f.loc, range[i])])

(* widen and narrow: only ctype_byname<wchar_t> has more than ASCII.       *)
Widen(f, range) == [i \in DOMAIN range |-> IF Asks(f) THEN Btowc(f.loc, range[i]) ELSE range[i]]
(* Mutant: a wide character is narrow if it has a code of eight bits.      *)
NarrowLatin(f, range, default) ==
  [i \in DOMAIN range |-> IF range[i] \in 0..255 THEN AsChar(range[i]) ELSE default]
Narrow(f, range, default) ==
  [i \in DOMAIN range |->
     IF Asks(f) THEN (IF Wctob(f.loc, range[i]) # WEOF THEN Wctob(f.loc, range[i]) ELSE default)
     ELSE IF isascii(range[i]) THEN range[i] ELSE default]
-----------------------------------------------------------------------------
(* A facet has a locale of its own if it is byname, and throws if there is *)
(* no such locale.                                                         *)
Init ==
  /\ \E wide, byname \in BOOLEAN, name \in DOMAIN Locales :
       LET characters == IF wide THEN Wides ELSE Narrows
       IN \/ request \in [wide : {wide}, byname : {byname}, name : {name}, op : {"is"},
                          mask : Masks, range : BoundedSeq(characters, MaxLength)]
          \/ request \in [wide : {wide}, byname : {byname}, name : {name}, op : {"change"},
                          range : BoundedSeq(characters, 1)]
          \/ request \in [wide : {wide}, byname : {byname}, name : {name}, op : {"narrow"},
                          range : BoundedSeq(characters, 1), bytes : BoundedSeq(Narrows, 1)]
  /\ answer = [state |-> "asked"]

Construct ==
  /\ answer.state = "asked"
  /\ answer' = IF request.byname /\ ~Locales[request.name].exists THEN [state |-> "throws"]
               ELSE [state |-> "built", wide |-> request.wide, byname |-> request.byname,
                     loc |-> Locales[request.name]]
  /\ UNCHANGED request

Classify ==
  /\ answer.state = "built" /\ request.op = "is"
  /\ answer' = [state |-> "classified", classes |-> IsRange(answer, request.range),
                each |-> [i \in DOMAIN request.range |->
                            Is(answer, request.mask, request.range[i])],
                is |-> ScanIs(answer, request.mask, request.range),
                not |-> ScanNot(answer, request.mask, request.range)]
  /\ UNCHANGED request

ChangeCase ==
  /\ answer.state = "built" /\ request.op = "change"
  /\ answer' = [state |-> "changed", upper |-> ToUpper(answer, request.range),
                lower |-> ToLower(answer, ToUpper(answer, request.range))]
  /\ UNCHANGED request

WidenAndNarrow ==
  /\ answer.state = "built" /\ request.op = "narrow"
  /\ \E wide \in {Widen(answer, request.bytes)} :
       answer' = [state |-> "narrowed", wide |-> wide, back |-> Narrow(answer, wide, Default),
                  other |-> Narrow(answer, request.range, Default)]
  /\ UNCHANGED request

Next == Construct \/ Classify \/ ChangeCase \/ WidenAndNarrow

Spec == Init /\ [][Next]_cvars
-----------------------------------------------------------------------------
(* One character and a range of them, found by a scan or listed, have the  *)
(* same classes, which for ASCII are those of the C standard, whether they *)
(* come from the table or from the C library.                              *)
ClassesExact ==
  answer.state = "classified" =>
    /\ \A i \in DOMAIN request.range :
         /\ answer.each[i] <=> answer.classes[i] \cap request.mask # {}
         /\ isascii(request.range[i]) => answer.classes[i] = CClasses[request.range[i]]
    /\ \A i \in 1..answer.is : ~answer.each[i]
    /\ answer.is < Len(request.range) => answer.each[answer.is + 1]
    /\ \A i \in 1..answer.not : answer.each[i]
    /\ answer.not < Len(request.range) => ~answer.each[answer.not + 1]

(* A letter that toupper changes is what tolower makes of the other one.   *)
(* A char that has a wide character is narrow again; a wide character that *)
(* has none becomes the default, never another one.  Not the char -1,      *)
(* which is EOF to btowc, and beyond ASCII ctype_byname alone.             *)
ThereAndBack ==
  /\ answer.state = "changed" =>
       \A i \in DOMAIN request.range :
         request.range[i] \in {answer.upper[i], answer.lower[i]}
  /\ answer.state = "narrowed" =>
       /\ \A i \in DOMAIN request.bytes :
            \/ isascii(request.bytes[i])
            \/ /\ request.wide /\ request.byname /\ request.bytes[i] # -1
               /\ request.bytes[i] % 256 \in Locales[request.name].bytes
            => answer.back[i] = request.bytes[i]
       /\ \A i \in DOMAIN request.range :
            \/ answer.other[i] \in {Default, request.range[i]}
            \/ /\ request.wide /\ request.range[i] \in Locales[request.name].bytes
               /\ answer.other[i] = request.range[i] - 256
================================================================================
