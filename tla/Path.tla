--------------------------------- MODULE Path ---------------------------------
(***************************************************************************)
(* The path of <experimental/filesystem> (src/experimental/filesystem/     *)
(* path.cpp): a string that a parser, PathParser, cuts into elements from  *)
(* either end.  An iterator walks over one path; the operations that parse *)
(* again are operators.  A path is a sequence of characters, of which only *)
(* Slash and Dot mean something; a pointer into it is an index, and 0 and  *)
(* Len + 1 are the places before and behind.                               *)
(***************************************************************************)
EXTENDS Integers, Sequences, SequencesExt, FiniteSetsExt

CONSTANTS
  Letters,     \* the characters, with Slash and Dot among them
  Slash, Dot,
  CurrentPath, \* the current directory
  MaxPath      \* bound: the characters of two paths together

VARIABLES
  path,        \* the path
  other,       \* a path it is compared with or appended to
  it,          \* the parser of the iterator: its state and the raw entry
  index        \* history: the number of elements before the iterator's

pvars == <<path, other, it, index>>

Nowhere == -1
At(state, first, last) == [state |-> state, first |-> first, last |-> last]
AtEnd == At("AtEnd", Nowhere, Nowhere)
BeforeBegin == At("BeforeBegin", Nowhere, Nowhere)
View(s, first, last) == SubSeq(s, first, last)

-----------------------------------------------------------------------------
(* consumeSeparator and consumeName, in either direction: the end of the   *)
(* run of separators, or of other characters, that has p; Nowhere if p is  *)
(* not in such a run.                                                      *)
RunEnd(s, p, end, isSeparator) ==
  LET other_(q) == q = end \/ (s[q] = Slash) # isSeparator
  IN CASE other_(p) -> Nowhere
       [] ~other_(p) /\ p < end -> Min({q \in p..end : other_(q)})
       [] ~other_(p) /\ p > end -> Max({q \in end..p : other_(q)})
ConsumeSeparator(s, p, end) == RunEnd(s, p, end, TRUE)
ConsumeName(s, p, end) == RunEnd(s, p, end, FALSE)

NextTokenStart(s, pp) ==
  CASE pp.state = "BeforeBegin" -> 1
    [] pp.state \in {"InRootName", "InRootDir", "InFilenames"} -> pp.last + 1
    [] pp.state \in {"InTrailingSep", "AtEnd"} -> Len(s) + 1
CurrentTokenStart(s, pp) ==
  CASE pp.state \in {"BeforeBegin", "InRootName"} -> 1
    [] pp.state \in {"InRootDir", "InFilenames", "InTrailingSep"} -> pp.first
    [] pp.state = "AtEnd" -> Len(s) + 1

(* Two separators, not more, begin a root name.                            *)
First(s, start, end) ==
  LET sep == ConsumeSeparator(s, start, end)
      name == ConsumeName(s, sep, end)
  IN CASE sep = start + 2 -> At("InRootName", start, (IF name # Nowhere THEN name ELSE sep) - 1)
       [] sep \notin {Nowhere, start + 2} -> At("InRootDir", start, sep - 1)
       [] sep = Nowhere -> At("InFilenames", start, ConsumeName(s, start, end) - 1)

Incremented(s, pp) ==
  LET end == Len(s) + 1
      start == NextTokenStart(s, pp)
      sep == ConsumeSeparator(s, start, end)
  IN CASE start = end -> AtEnd
       [] start # end /\ pp.state = "BeforeBegin" -> First(s, start, end)
       [] start # end /\ pp.state = "InRootName" -> At("InRootDir", start, sep - 1)
       [] start # end /\ pp.state = "InRootDir" ->
            At("InFilenames", start, ConsumeName(s, start, end) - 1)
       [] start # end /\ pp.state = "InFilenames" ->
            IF sep # end THEN At("InFilenames", sep, ConsumeName(s, sep, end) - 1)
            ELSE At("InTrailingSep", start, sep - 1)

CreateBegin(s) == Incremented(s, BeforeBegin)

(* Backwards, the root can only be told from what is in front of it.       *)
RootBefore(start) ==
  IF start = 2 THEN At("InRootName", 1, start) ELSE At("InRootDir", 1, start)

(* Mutant: the separators behind a root name are taken for trailing ones.  *)
LastSeparatorTrailing(s, start) ==
  LET sep == ConsumeSeparator(s, start, 0)
  IN IF sep = 0 THEN RootBefore(start) ELSE At("InTrailingSep", sep + 1, start)
LastSeparator(s, start) ==
  LET sep == ConsumeSeparator(s, start, 0)
      begin == CreateBegin(s)
  IN CASE sep = 0 -> RootBefore(start)
       [] sep # 0 /\ begin.state = "InRootName" /\ begin.last = sep ->
            At("InRootDir", sep + 1, start)
       [] sep # 0 /\ ~(begin.state = "InRootName" /\ begin.last = sep) ->
            At("InTrailingSep", sep + 1, start)
LastName(s, start) ==
  LET name == ConsumeName(s, start, 0)
  IN IF name = 2 /\ ConsumeSeparator(s, name, 0) = 0
     THEN At("InRootName", 1, start) ELSE At("InFilenames", name + 1, start)
NameBefore(s, start) ==
  LET sep == ConsumeSeparator(s, start, 0)
      name == ConsumeName(s, sep, 0)
  IN CASE sep = 0 -> RootBefore(start)
       [] sep # 0 /\ name = 2 /\ ConsumeSeparator(s, name, 0) = 0 ->
            At("InRootDir", sep + 1, start)
       [] sep # 0 /\ ~(name = 2 /\ ConsumeSeparator(s, name, 0) = 0) ->
            At("InFilenames", name + 1, sep)

Decremented(s, pp) ==
  LET start == CurrentTokenStart(s, pp) - 1
  IN CASE pp.state = "AtEnd" /\ ConsumeSeparator(s, start, 0) # Nowhere -> LastSeparator(s, start)
       [] pp.state = "AtEnd" /\ ConsumeSeparator(s, start, 0) = Nowhere -> LastName(s, start)
       [] pp.state = "InTrailingSep" ->
            At("InFilenames", ConsumeName(s, start, 0) + 1, start)
       [] pp.state = "InFilenames" -> NameBefore(s, start)
       [] pp.state = "InRootDir" -> At("InRootName", 1, start)

(* operator*                                                               *)
Element(s, pp) ==
  CASE pp.state \in {"BeforeBegin", "AtEnd"} -> <<>>
    [] pp.state = "InRootDir" -> <<Slash>>
    [] pp.state = "InTrailingSep" -> <<Dot>>
    [] pp.state \in {"InRootName", "InFilenames"} -> View(s, pp.first, pp.last)
-----------------------------------------------------------------------------
(* What the operations of path take from the parser.                       *)
RootName(s) ==
  LET pp == CreateBegin(s) IN IF pp.state = "InRootName" THEN Element(s, pp) ELSE <<>>
Past(s, pp, state) == IF pp.state = state THEN Incremented(s, pp) ELSE pp
RootDirectory(s) ==
  LET pp == FoldLeft(LAMBDA at, state : Past(s, at, state), CreateBegin(s), <<"InRootName">>)
  IN IF pp.state = "InRootDir" THEN Element(s, pp) ELSE <<>>
IsAbsolute(s) == RootDirectory(s) # <<>>

(* Mutant: what follows a root name is taken for the relative path.        *)
RelativePathAfterRootName(s) ==
  LET begin == CreateBegin(s)
      pp == FoldLeft(LAMBDA at, state : Past(s, at, state), begin, <<begin.state>>)
  IN IF pp = AtEnd THEN <<>> ELSE View(s, pp.first, Len(s))
RelativePath(s) ==
  LET pp == FoldLeft(LAMBDA at, state : Past(s, at, state), CreateBegin(s), <<"InRootName", "InRootDir">>)
  IN IF pp = AtEnd THEN <<>> ELSE View(s, pp.first, Len(s))

ParentPath(s) ==
  LET last == Decremented(s, AtEnd)
  IN IF s = <<>> \/ last.first = 1 THEN <<>> ELSE View(s, 1, Decremented(s, last).last)
Filename(s) == IF s = <<>> THEN <<>> ELSE Element(s, Decremented(s, AtEnd))

(* separate_filename, as the length of the stem.                           *)
StemLength(name) ==
  LET dots == {i \in DOMAIN name : name[i] = Dot}
  IN IF name \in {<<Dot>>, <<Dot, Dot>>, <<>>} \/ dots = {} THEN Len(name) ELSE Max(dots) - 1
Stem(s) == View(Filename(s), 1, StemLength(Filename(s)))
Extension(s) == LET name == Filename(s) IN View(name, StemLength(name) + 1, Len(name))
ReplaceExtension(s, replacement) ==
  View(s, 1, Len(s) - Len(Extension(s)))
  \o (IF replacement # <<>> /\ replacement[1] # Dot THEN <<Dot>> ELSE <<>>) \o replacement

(* operator/=: a separator is put between the two if neither has one.      *)
Joined(s, t) ==
  s \o (IF s # <<>> /\ Last(s) # Slash /\ t # <<>> /\ t[1] # Slash THEN <<Slash>> ELSE <<>>) \o t

RootPathLength(s) ==
  LET pp == CreateBegin(s)
  IN CASE pp.state = "InRootName" /\ pp.last < Len(s) /\ s[pp.last + 1] = Slash ->
            Incremented(s, pp).last
       [] pp.state = "InRootName" /\ ~(pp.last < Len(s) /\ s[pp.last + 1] = Slash) -> pp.last
       [] pp.state = "InRootDir" -> 1
       [] pp.state \notin {"InRootName", "InRootDir"} -> 0
RemoveFilename(s) == IF Len(s) = RootPathLength(s) THEN <<>> ELSE ParentPath(s)

(* compare: the elements one by one, each by its characters.               *)
Sign(n) == IF n > 0 THEN 1 ELSE IF n < 0 THEN -1 ELSE 0
CompareText(a, b) ==
  LET differ == {i \in DOMAIN a \cap DOMAIN b : a[i] # b[i]}
  IN IF differ = {} THEN Sign(Len(a) - Len(b)) ELSE Sign(a[Min(differ)] - b[Min(differ)])
RECURSIVE CompareFrom(_, _, _, _)
CompareFrom(s, pp, t, pp2) ==
  LET first == CompareText(Element(s, pp), Element(t, pp2))
  IN CASE pp # AtEnd /\ pp2 # AtEnd ->
            IF first # 0 THEN first
            ELSE CompareFrom(s, Incremented(s, pp), t, Incremented(t, pp2))
       [] pp = AtEnd /\ pp2 = AtEnd -> 0
       [] pp = AtEnd /\ pp2 # AtEnd -> -1
       [] pp # AtEnd /\ pp2 = AtEnd -> 1
Compare(s, t) == CompareFrom(s, CreateBegin(s), t, CreateBegin(t))

(* absolute(): what p lacks is taken from base, what base lacks from the   *)
(* current directory.                                                      *)
Composed(p, base) ==
  CASE RootName(p) # <<>> /\ RootDirectory(p) # <<>> -> p
    [] RootName(p) = <<>> /\ RootDirectory(p) = <<>> -> Joined(base, p)
    [] RootName(p) # <<>> /\ RootDirectory(p) = <<>> ->
         Joined(Joined(Joined(RootName(p), RootDirectory(base)), RelativePath(base)),
                RelativePath(p))
    [] RootName(p) = <<>> /\ RootDirectory(p) # <<>> ->
         IF RootName(base) # <<>> THEN Joined(RootName(base), p) ELSE p
AbsoluteBase(base) == IF IsAbsolute(base) THEN base ELSE Composed(base, CurrentPath)
-----------------------------------------------------------------------------
(* The grammar of the standard: the maximal runs of separators and of      *)
(* other characters, with the roles of the first and the last.             *)
Runs(s, isSeparator) ==
  {r \in (1..Len(s)) \X (1..Len(s)) :
     /\ r[1] <= r[2]
     /\ \A k \in r[1]..r[2] : (s[k] = Slash) = isSeparator
     /\ r[1] > 1 => (s[r[1] - 1] = Slash) # isSeparator
     /\ r[2] < Len(s) => (s[r[2] + 1] = Slash) # isSeparator}
RootNameEnd(s) ==
  CASE <<1, 2>> \notin Runs(s, TRUE) -> 0
    [] <<1, 2>> \in Runs(s, TRUE) -> IF Len(s) = 2 THEN 2 ELSE (CHOOSE r \in Runs(s, FALSE) : r[1] = 3)[2]
Elements(s) ==
  LET root == RootNameEnd(s)
      separators == {r \in Runs(s, TRUE) : r[1] > root}
  IN SetToSortSeq(
       (IF root # 0 THEN {At("InRootName", 1, root)} ELSE {})
       \cup {At("InRootDir", r[1], r[2]) : r \in {q \in separators : q[1] = root + 1}}
       \cup {At("InFilenames", r[1], r[2]) : r \in {q \in Runs(s, FALSE) : q[1] > root}}
       \cup {At("InTrailingSep", r[1], r[2]) :
               r \in {q \in separators : q[1] # root + 1 /\ q[2] = Len(s)}},
       LAMBDA a, b : a.first < b.first)
Texts(s) == FoldLeft(LAMBDA texts, pp : Append(texts, Element(s, pp)), <<>>, Elements(s))
IsName(s) == s # <<>> /\ Slash \notin Range(s)
-----------------------------------------------------------------------------
Init ==
  /\ path \in BoundedSeq(Letters, MaxPath)
  /\ other \in BoundedSeq(Letters, MaxPath - Len(path))
  /\ \/ it = CreateBegin(path) /\ index = 0
     \/ it = AtEnd /\ index = Len(Elements(path))

(* path::iterator: ++ from anywhere but end(), -- from anywhere but begin().*)
Increment ==
  /\ it # AtEnd
  /\ it' = Incremented(path, it)
  /\ index' = index + 1
  /\ UNCHANGED <<path, other>>
Decrement ==
  /\ it # CreateBegin(path)
  /\ it' = Decremented(path, it)
  /\ index' = index - 1
  /\ UNCHANGED <<path, other>>

Next == Increment \/ Decrement

Spec == Init /\ [][Next]_pvars
-----------------------------------------------------------------------------
(* Forwards or backwards, the iterator stands at the element that the      *)
(* grammar of the standard gives the path.                                 *)
ElementsExact == it = Append(Elements(path), AtEnd)[index + 1]

(* compare() is the lexicographic order of the elements: 0 for paths that  *)
(* differ in the number of separators only, and antisymmetric.             *)
OrderExact ==
  LET a == Texts(path)
      b == Texts(other)
      differ == {i \in DOMAIN a \cap DOMAIN b : a[i] # b[i]}
  IN Compare(path, other) =
       IF differ = {} THEN Sign(Len(a) - Len(b))
       ELSE CompareText(a[Min(differ)], b[Min(differ)])

(* The parts that a path is taken apart into make it up again.             *)
PartsJoin ==
  /\ \A root \in {Joined(RootName(path), RootDirectory(path))} :
       \A whole \in {Joined(root, RelativePath(path))} : Texts(whole) = Texts(path)
  /\ \A whole \in {Joined(ParentPath(path), Filename(path))} :
       Len(Texts(path)) >= 2 => Texts(whole) = Texts(path)
  /\ Stem(path) \o Extension(path) = Filename(path)
  /\ IsName(other) => \A moved \in {Joined(RemoveFilename(path), other)} : Filename(moved) = other
  /\ IsName(other) /\ Dot \notin Range(other) =>
       \A replaced \in {ReplaceExtension(path, other)} :
         /\ Extension(replaced) = <<Dot>> \o other
         /\ path # <<>> /\ Last(path) # Slash => Stem(replaced) = Stem(path)

(* absolute() gives an absolute path that ends as the path does and keeps  *)
(* its root name, if that is more than two separators.                     *)
AbsoluteExact ==
  \A base \in {AbsoluteBase(other)} : \A result \in {Composed(path, base)} :
     /\ IsAbsolute(result)
     /\ IsSuffix(Texts(RelativePath(path)), Texts(result))
     /\ Len(RootName(path)) > 2 => RootName(result) = RootName(path)
==============================================================================
