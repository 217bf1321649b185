------------------------------ MODULE MoneyPunct -------------------------------
(***************************************************************************)
(* Amounts of money: moneypunct_byname makes a pattern of what localeconv  *)
(* says (src/locale.cpp), money_put writes an amount by it and money_get   *)
(* reads it back (include/locale).  A character is a string of length one. *)
(***************************************************************************)
EXTENDS Integers, Sequences, SequencesExt

CONSTANTS
  Conventions, \* what localeconv says of the place of symbol, sign and space
  Signs,       \* the positive and the negative sign
  Groupings,   \* mon_grouping
  FracDigits,  \* frac_digits
  Amounts      \* the digits of an amount, without its sign

VARIABLES conv, signs, grouping, fracDigits, intl, showbase, amount, negative, output, result

mvars == <<conv, signs, grouping, fracDigits, intl, showbase, amount, negative, output, result>>

CharMax == 127
Digits == {"0", "1", "2", "3", "4", "5", "6", "7", "8", "9"}
-----------------------------------------------------------------------------
(* __init_pat: the pattern, and what becomes of the symbol for each value  *)
(* of sep_by_space: it is given a space, or loses the one it contains.     *)
BySpace(c, none, one, two) == CASE c.sep = 0 -> none [] c.sep = 1 -> one [] c.sep = 2 -> two
Unspaced(c, p) == BySpace(c, <<p, "keep">>, <<p, "space">>, <<p, "keep">>)
Spaced(c, p, q) == BySpace(c, <<p, "keep">>, <<p, "space">>, <<q, "unspace">>)
Between(c, p, q, r) == BySpace(c, <<p, "keep">>, <<q, "unspace">>, <<r, "space">>)

ValueFirst(c) ==
  CASE c.posn = 0 -> Unspaced(c, <<"sign", "value", "none", "symbol">>)
    [] c.posn = 1 -> Spaced(c, <<"sign", "value", "none", "symbol">>,
                               <<"sign", "space", "value", "symbol">>)
    [] c.posn \in {2, 4} -> Spaced(c, <<"value", "none", "symbol", "sign">>,
                                      <<"value", "symbol", "space", "sign">>)
    [] c.posn = 3 -> Between(c, <<"value", "none", "sign", "symbol">>,
                                <<"value", "space", "sign", "symbol">>,
                                <<"value", "sign", "none", "symbol">>)

SymbolFirst(c) ==
  CASE c.posn = 0 -> Unspaced(c, <<"sign", "symbol", "none", "value">>)
    [] c.posn \in {1, 3} -> Spaced(c, <<"sign", "symbol", "none", "value">>,
                                      <<"sign", "space", "symbol", "value">>)
    [] c.posn = 2 -> Spaced(c, <<"symbol", "none", "value", "sign">>,
                               <<"symbol", "value", "space", "sign">>)
    [] c.posn = 4 -> Between(c, <<"symbol", "sign", "none", "value">>,
                                <<"symbol", "sign", "space", "value">>,
                                <<"symbol", "none", "sign", "value">>)

Fields(c) ==
  LET legal == c.posn \in 0..4 /\ c.precedes \in 0..1 /\ c.sep \in 0..2 IN
  CASE ~legal -> <<<<"symbol", "sign", "none", "value">>, "keep">>
    [] legal /\ c.precedes = 0 -> ValueFirst(c)
    [] legal /\ c.precedes = 1 -> SymbolFirst(c)

(* The symbol of localeconv: a character, or three and a separator.        *)
CurrSymbol == IF intl THEN <<"U", "S", "D", " ">> ELSE <<"$">>

(* Mutant: the separator stays behind the symbol.                          *)
InitPatUnrotated(c) ==
  LET f == Fields(c) IN
  [field |-> f[1],
   symbol |-> CASE f[2] = "space" /\ ~intl ->
                     IF c.precedes = 0 THEN <<" ">> \o CurrSymbol ELSE CurrSymbol \o <<" ">>
                [] f[2] = "unspace" /\ intl -> SubSeq(CurrSymbol, 1, 3)
                [] OTHER -> CurrSymbol]
InitPat(c) ==
  LET f == Fields(c)
      symbol == IF intl /\ c.precedes = 0 THEN <<" ", "U", "S", "D">> ELSE CurrSymbol
  IN
  [field |-> f[1],
   symbol |-> CASE f[2] = "space" /\ ~intl ->
                     IF c.precedes = 0 THEN <<" ">> \o symbol ELSE symbol \o <<" ">>
                [] f[2] = "unspace" /\ intl -> SelectSeq(symbol, LAMBDA ch : ch # " ")
                [] OTHER -> symbol]

First(sign) == IF sign = <<>> THEN <<>> ELSE <<Head(sign)>>
Rest(sign) == IF sign = <<>> THEN <<>> ELSE Tail(sign)

(* moneypunct_byname::init: the sign of parentheses, if sign_posn is 0.    *)
SignOf(neg) == IF conv.posn = 0 /\ neg THEN <<"(", ")">> ELSE IF neg THEN signs[2] ELSE signs[1]
Pat == InitPat(conv)
-----------------------------------------------------------------------------
(* __money_put::__format: the value, with separators after the groups.     *)
GroupAt(i) == grouping[IF i < Len(grouping) THEN i ELSE Len(grouping)]
RECURSIVE GroupEnd(_)
GroupEnd(i) == IF i = 0 THEN 0 ELSE GroupEnd(i - 1) + GroupAt(i)
Separated(right) ==
  /\ grouping # <<>>
  /\ \E i \in 1..right : GroupEnd(i) = right /\ \A j \in 1..i : GroupAt(j) # CharMax

Units(d) ==
  IF Len(d) <= fracDigits THEN <<"0">>
  ELSE LET n == Len(d) - fracDigits IN
       FlattenSeq([i \in 1..n |->
         IF i < n /\ Separated(n - i) THEN <<d[i], ",">> ELSE <<d[i]>>])
Fraction(d) ==
  IF fracDigits = 0 THEN <<>>
  ELSE <<".">> \o [i \in 1..fracDigits |->
         IF Len(d) - fracDigits + i > 0 THEN d[Len(d) - fracDigits + i] ELSE "0"]

Format(neg, d) ==
  LET sign == SignOf(neg)
      written(field) ==
        CASE field = "none" -> <<>>
          [] field = "space" -> <<" ">>
          [] field = "sign" -> First(sign)
          [] field = "symbol" -> IF showbase THEN Pat.symbol ELSE <<>>
          [] field = "value" -> Units(d) \o Fraction(d)
  IN FlattenSeq([p \in 1..4 |-> written(Pat.field[p])]) \o Rest(sign)

(* do_put: the size of the memory for it.                                  *)
Room(neg, d) ==
  LET n == Len(d) + (IF neg THEN 1 ELSE 0)
      others == Len(SignOf(neg)) + Len(Pat.symbol) + fracDigits
  IN IF n > fracDigits THEN (n - fracDigits) * 2 + others + 1 ELSE others + 2
-----------------------------------------------------------------------------
(* money_get::__do_get: one field of the pattern, read from the state s of *)
(* the loop: the input left, the spaces, the digits and the groups read.   *)
Fail(s) == [s EXCEPT !.ok = FALSE]
LeadingOf(b, Test(_)) ==
  CHOOSE n \in 0..Len(b) : (\A i \in 1..n : Test(b[i])) /\ (n < Len(b) => ~Test(b[n + 1]))
Advance(s, n) == [s EXCEPT !.b = SubSeq(@, n + 1, Len(@))]

GetSpaces(s, p, required) ==
  LET n == LeadingOf(s.b, LAMBDA c : c = " ") IN
  CASE p = 4 -> s
    [] p # 4 /\ required /\ n = 0 -> Fail(s)
    [] p # 4 /\ ~(required /\ n = 0) -> [Advance(s, n) EXCEPT !.spaces = s.spaces + n]

GetSign(s) ==
  LET psn == SignOf(FALSE)
      nsn == SignOf(TRUE)
      match(sign) == sign # <<>> /\ s.b[1] = sign[1]
  IN
  CASE match(psn) -> [Advance(s, 1) EXCEPT !.trailing = Tail(psn)]
    [] ~match(psn) /\ match(nsn) -> [Advance(s, 1) EXCEPT !.trailing = Tail(nsn), !.neg = TRUE]
    [] ~match(psn) /\ ~match(nsn) ->
         IF psn # <<>> /\ nsn # <<>> THEN Fail(s)
         ELSE [s EXCEPT !.neg = (@ \/ psn # <<>>)]

(* The spaces at the front of the symbol may have been read already.       *)
(* Mutant: they are looked for again.                                      *)
GetSymbolAgain(s, p) ==
  LET common == LongestCommonPrefix({Pat.symbol, s.b}) IN
  IF showbase /\ common # Pat.symbol THEN Fail(s) ELSE Advance(s, Len(common))
GetSymbol(s, p) ==
  LET front == LeadingOf(Pat.symbol, LAMBDA c : c = " ")
      read == IF p > 1 /\ Pat.field[p - 1] \in {"none", "space"} /\ front <= s.spaces
              THEN front ELSE 0
      rest == SubSeq(Pat.symbol, read + 1, Len(Pat.symbol))
      common == LongestCommonPrefix({rest, s.b})
      needed == \/ s.trailing # <<>>
                \/ p < 3
                \/ p = 3 /\ Pat.field[4] # "none"
  IN
  CASE ~showbase /\ ~needed -> s
    [] (showbase \/ needed) /\ showbase /\ common # rest -> Fail(s)
    [] (showbase \/ needed) /\ ~(showbase /\ common # rest) -> Advance(s, Len(common))

(* __check_grouping: groups from the right, the last may be shorter.       *)
GroupsFit(groups) ==
  \/ grouping = <<>>
  \/ LET g == Reverse(groups)
         bounded(i) == GroupAt(i) \in 1..(CharMax - 1)
     IN /\ \A i \in 1..(Len(g) - 1) : bounded(i) => g[i] = GroupAt(i)
        /\ bounded(Len(g)) => g[Len(g)] \in 1..GroupAt(Len(g))

GetValue(s) ==
  LET isUnit(i) == \/ s.b[i] \in Digits
                   \/ grouping # <<>> /\ s.b[i] = "," /\ i > 1 /\ s.b[i - 1] \in Digits
      n == CHOOSE k \in 0..Len(s.b) :
             (\A i \in 1..k : isUnit(i)) /\ (k < Len(s.b) => ~isUnit(k + 1))
      stops == {i \in 1..n : s.b[i] = ","} \cup {0, n + 1}
      ends == SetToSortSeq(stops, <)
      groups == [i \in 1..(Len(ends) - 1) |-> ends[i + 1] - ends[i] - 1]
      m == IF fracDigits = 0 THEN n ELSE n + 1 + fracDigits
      digits == SelectSeq(SubSeq(s.b, 1, m), LAMBDA c : c \in Digits)
  IN
  IF \/ fracDigits > 0 /\ (m > Len(s.b) \/ s.b[n + 1] # "."
                           \/ \E i \in (n + 2)..m : s.b[i] \notin Digits)
     \/ digits = <<>>
  THEN Fail(s)
  ELSE [Advance(s, m) EXCEPT !.digits = digits,
          !.groups = IF Len(groups) = 1 THEN <<>> ELSE SelectSeq(groups, LAMBDA g : g > 0)]

GetField(s, p) ==
  IF ~s.ok \/ s.b = <<>> THEN s
  ELSE CASE Pat.field[p] = "space" -> GetSpaces(s, p, TRUE)
         [] Pat.field[p] = "none" -> GetSpaces(s, p, FALSE)
         [] Pat.field[p] = "sign" -> GetSign(s)
         [] Pat.field[p] = "symbol" -> GetSymbol(s, p)
         [] Pat.field[p] = "value" -> GetValue(s)

(* do_get: the leading zeros go, but for the last digit.                   *)
Stripped(d) == LET n == LeadingOf(SubSeq(d, 1, Len(d) - 1), LAMBDA c : c = "0")
               IN SubSeq(d, n + 1, Len(d))
DoGet(b) ==
  LET start == [b |-> b, ok |-> TRUE, neg |-> FALSE, spaces |-> 0, digits |-> <<>>,
                groups |-> <<>>, trailing |-> <<>>]
      s == FoldLeft(GetField, start, <<1, 2, 3, 4>>)
  IN IF /\ s.ok
        /\ IsPrefix(s.trailing, s.b)
        /\ s.groups = <<>> \/ GroupsFit(s.groups)
     THEN [state |-> "read", neg |-> s.neg, digits |-> Stripped(s.digits)]
     ELSE [state |-> "failed"]
-----------------------------------------------------------------------------
Init ==
  /\ conv \in Conventions /\ signs \in Signs
  /\ grouping \in Groupings /\ fracDigits \in FracDigits
  /\ intl \in BOOLEAN /\ showbase \in BOOLEAN
  /\ amount \in Amounts /\ negative \in BOOLEAN
  /\ output = <<>> /\ result = [state |-> "none"]

Write ==
  /\ output = <<>>
  /\ output' = Format(negative, amount)
  /\ UNCHANGED <<conv, signs, grouping, fracDigits, intl, showbase, amount, negative, result>>

Read ==
  /\ output # <<>> /\ result.state = "none"
  /\ result' = DoGet(output)
  /\ UNCHANGED <<conv, signs, grouping, fracDigits, intl, showbase, amount, negative, output>>

Next == Write \/ Read

Spec == Init /\ [][Next]_mvars
-----------------------------------------------------------------------------
(* What localeconv means, after C11 7.11.2.1: the order of the three, and  *)
(* between which of them there is a space.                                 *)
Order ==
  CASE conv.precedes = 1 /\ conv.posn \in {0, 1, 3} -> <<"sign", "symbol", "value">>
    [] conv.precedes = 1 /\ conv.posn = 2 -> <<"symbol", "value", "sign">>
    [] conv.precedes = 1 /\ conv.posn = 4 -> <<"symbol", "sign", "value">>
    [] conv.precedes = 0 /\ conv.posn \in {0, 1} -> <<"sign", "value", "symbol">>
    [] conv.precedes = 0 /\ conv.posn \in {2, 4} -> <<"value", "symbol", "sign">>
    [] conv.precedes = 0 /\ conv.posn = 3 -> <<"value", "sign", "symbol">>
HasSpace(x, y) ==
  LET adjacent == conv.posn # 0 /\ Order[2] # "value" IN
  CASE conv.sep = 0 -> FALSE
    [] conv.sep = 1 -> IF adjacent THEN "value" \in {x, y} ELSE {x, y} = {"symbol", "value"}
    [] conv.sep = 2 -> IF adjacent THEN {x, y} = {"symbol", "sign"}
                       ELSE conv.posn # 0 /\ {x, y} = {"sign", "value"}
Layout ==
  LET sign == SignOf(negative)
      written == [sign |-> First(sign), value |-> Units(amount) \o Fraction(amount),
                  symbol |-> IF intl THEN <<"U", "S", "D">> ELSE <<"$">>]
      gap(x, y) == IF HasSpace(x, y) THEN <<" ">> ELSE <<>>
  IN written[Order[1]] \o gap(Order[1], Order[2]) \o written[Order[2]]
     \o gap(Order[2], Order[3]) \o written[Order[3]] \o Rest(sign)

(* An amount is written with its symbol as localeconv says: with the three *)
(* in its order, and a space where it asks for one.  An international      *)
(* symbol keeps the separator it contains if no space is asked for.        *)
PutFollowsLocaleconv ==
  (/\ output # <<>> /\ showbase
   /\ conv.posn \in 0..4
   /\ intl => conv.sep = 1 \/ (conv.sep = 2 /\ conv.posn # 0))
  => output = Layout

(* money_get reads the amount that money_put has written.  An unsigned one *)
(* is not read if its sign would stand between the value and the separator *)
(* of an international symbol.                                             *)
GetReadsPut ==
  (/\ result.state # "none"
   /\ ~(/\ intl /\ showbase /\ conv = [precedes |-> 0, sep |-> 0, posn |-> 3]
        /\ SignOf(negative) = <<>>))
  =>
    result = [state |-> "read", neg |-> negative, digits |-> Stripped(amount)]

(* What is written fits into the memory for it, unless the pattern has a   *)
(* space and the amount is less than one unit.                             *)
RoomSuffices ==
  \/ Len(output) <= Room(negative, amount)
  \/ /\ "space" \in {Pat.field[p] : p \in 1..4}
     /\ Len(amount) + (IF negative THEN 1 ELSE 0) <= fracDigits
================================================================================
