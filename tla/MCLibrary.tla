------------------------------- MODULE MCLibrary -------------------------------
(***************************************************************************)
(* Fifteen parts of the library and what they have to keep: sys says      *)
(* which of them runs; the variables of the others are Unused.             *)
(***************************************************************************)
EXTENDS Integers, Sequences, SequencesExt, TLC

CONSTANTS
  Maxcodes, Headers, MaxText, MaxBytes, Rooms,                     \* Codecvt
  Streams, Indices, MaxCallbacks, MaxStorageCalls,                 \* IosBase
  Characters, Alsizes, DefaultAlsize, MaxSize, MaxOperations,      \* StrStream
  FracDigits,                                                      \* MoneyPunct
  Locales, FacetObjects, c0, c1, UserIds, MaxImps, MaxLocaleCalls, \* LocaleImp
  Letters, Slash, Dot, MaxPath,                                    \* Path
  Processes, Files, MaxFaults                                      \* FileOps, DirIterator

VARIABLES
  sys,
  facet, maxcode, header, source, text, taken, sent, used, got, last,
  array, bad, strict, state, heap, copy, misused, wrote, read, calls, overwritten,
  sb, store, block, blocks, lent, position, shifted, operations,
  conv, signs, grouping, fracDigits, intl, showbase, amount, negative, output, result,
  request, answer,
  imp, owners, locale, building, leaked,
  path, other, it, index,
  tree, options, stack, rec, error, seen, steps, cut, faults,
  fs, content, outcome, value, failed, removed, scenario

(* The ends of every row of the table of Unicode, in memory and in bytes.  *)
BoundaryUnits ==
  {127, 128, 2047, 2048, 55295, 55296, 56319, 56320, 57343, 57344, 65279, 65535,
   65536, 1114111, 1114112}
BoundaryBytes(f) ==
  IF f.bytes = "utf8"
  THEN {127, 143, 144, 159, 160, 193, 194, 224, 237, 240, 244}
  ELSE {0, 216, 220, 255}

AllConventions ==
  [precedes : 0..1, sep : 0..2, posn : 0..4] \cup {[precedes |-> 127, sep |-> 127, posn |-> 127]}
SomeSigns == {<< <<>>, <<"-">> >>, << <<"+">>, <<"-">> >>, << <<>>, <<"-", "~">> >>}
SomeGroupings == {<<>>, <<1>>, <<2, 1>>, <<1, 127>>}
SomeAmounts == {<<"0">>, <<"5">>, <<"1", "2">>, <<"1", "0", "0", "4", "5">>}

(* The small numbers, and those of no small factor that are hard to tell   *)
(* from requests: the products of two neighbours of the table of divisors.   *)
Divisors == {210 * k + r : k \in 1..2, r \in {1, 11, 13, 17, 19, 121, 143, 167, 169, 187, 199, 209}}
SomeRequests == (1..2500) \cup {d * e : d \in Divisors, e \in Divisors} \cup {210 * k : k \in 13..100}

Every == INSTANCE Codecvt WITH Facets <- {}, Units <- {}, FileBytes <- BoundaryBytes
AllFacets ==
  {Every!CodecvtChar16, Every!CodecvtChar32, Every!CodecvtUtf8Wchar, Every!CodecvtUtf8Char16,
   Every!CodecvtUtf8Char32, Every!CodecvtUtf16WcharBe, Every!CodecvtUtf16WcharLe,
   Every!CodecvtUtf16Char16Be, Every!CodecvtUtf16Char16Le, Every!CodecvtUtf16Char32Be,
   Every!CodecvtUtf16Char32Le, Every!CodecvtUtf8Utf16Wchar, Every!CodecvtUtf8Utf16Char16,
   Every!CodecvtUtf8Utf16Char32}

(* Locales that differ in the order of a date, in names for the halves of  *)
(* the day and in what a name of a month is; one that is not convertible.  *)
TG == INSTANCE TimeFormat WITH Locales <- <<>>, Times <- {}
Midnight ==
  [sec |-> 0, min |-> 0, hour |-> 0, mday |-> 1, mon |-> 0, year |-> 100, wday |-> 6, yday |-> 0]
Noon ==
  [sec |-> 7, min |-> 5, hour |-> 12, mday |-> 10, mon |-> 5, year |-> 109, wday |-> 3,
   yday |-> 160]
Evening ==
  [sec |-> 59, min |-> 30, hour |-> 23, mday |-> 2, mon |-> 4, year |-> 99, wday |-> 0,
   yday |-> 121]
Later ==
  [sec |-> 60, min |-> 59, hour |-> 11, mday |-> 31, mon |-> 11, year |-> 161, wday |-> 6,
   yday |-> 364]
English ==
  [isC |-> FALSE, exists |-> TRUE, convertible |-> TRUE,
   weeks |-> TG!CWeeks, months |-> TG!CMonths, ampm |-> TG!CAmPm,
   upper |-> ("dec" :> "Dec" @@ "sat" :> "Sat" @@ "am" :> "AM"),
   formats |-> [TG!CFormats EXCEPT !.c = <<"%a", " ", "%e", " ", "%b", " ", "%Y", " ",
                                           "%I", ":", "%M", ":", "%S", " ", "%p">>]]
German ==
  [English EXCEPT
     !.ampm = << <<>>, <<>> >>,
     !.formats = [x |-> <<"%d", ".", "%m", ".", "%Y">>, X |-> <<"%H", ".", "%M", " Uhr">>,
                  r |-> <<"%H", ":", "%M">>,
                  c |-> <<"%A", ",", " ", "%e", ".", " ", "%B", " ", "%Y", " ",
                          "%H", ":", "%M", ":", "%S">>]]
Chinese ==
  [English EXCEPT
     !.months = [i \in 1..24 |->
                   IF i <= 12 THEN <<"month", TG!CMonths[i][1]>>
                   ELSE IF i <= 21 THEN <<" ", TG!DigitChars[i - 12 + 1]>>
                   ELSE TG!Number(i - 12, 2)],
     !.formats = [x |-> <<"%Y", "/", "%m", "/", "%d">>, X |-> <<"%p", "%I", "h", "%M", "m">>,
                  r |-> <<"%p", "%I">>, c |-> <<"%a", " ", "%b", "/", "%e">>]]
SomeLocales ==
  [C |-> [English EXCEPT !.isC = TRUE, !.formats = TG!CFormats], en |-> English, de |-> German,
   zh |-> Chinese,
   sv |-> [German EXCEPT !.convertible = FALSE, !.formats.x = <<"%y", "/", "%d", "-", "%m">>],
   odd |-> [German EXCEPT !.formats.x = <<"%Y", "%m", "%d">>,
                          !.formats.X = <<"%H", "%%", "%M">>, !.formats.c = <<"%j", " ", "%w">>],
   missing |-> [German EXCEPT !.exists = FALSE]]

(* Types so narrow that three digits are out of the range of some.         *)
SomeBits ==
  ("int" :> 4) @@ ("unsigned" :> 4) @@ ("long" :> 5) @@ ("unsigned long" :> 5)
  @@ ("long long" :> 6) @@ ("unsigned long long" :> 6)
SomeTexts == BoundedSeq({" ", "-", "1", "9", "x"}, 3)
FloatText(name, length, errno, width) ==
  [name |-> name, used |-> length, errno |-> errno, text |-> [i \in 1..width |-> "f"]]
SomeFloats ==
  {FloatText("none", 0, "0", 0), FloatText("huge", 3, "ERANGE", 25), FloatText("one", 3, "0", 3)}

(* Codes of Latin 1, which is the encoding of one locale only.             *)
Latin ==
  [exists |-> TRUE, bytes |-> 160..255, upper |-> 233 :> 201,
   classes |-> 233 :> {"print", "lower", "alpha"} @@ 201 :> {"print", "upper", "alpha"}
               @@ 160 :> {"space", "print", "blank"}]
SomeAlphabets ==
  [latin |-> Latin, missing |-> [Latin EXCEPT !.exists = FALSE],
   utf8 |-> [Latin EXCEPT !.bytes = {}, !.classes = @ @@ 20013 :> {"print", "alpha"}]]

Ascii == 0 :> <<0>> @@ 97 :> <<97>>
SomeEncodings ==
  [C |-> Ascii, utf8 |-> Ascii @@ 233 :> <<195, 169>> @@ 39529 :> <<233, 169, 169>>]

(* Marks of one byte, of more that have none, and none; one that is wrong. *)
Mark(c) == [length |-> 1, wide |-> c, narrow |-> c]
LongMark(c) == [length |-> 2, wide |-> c, narrow |-> "none"]
Marks(point, sep, sizes) == [exists |-> TRUE, point |-> point, sep |-> sep, grouping |-> sizes]
SomeMarks ==
  [C |-> Marks(Mark("."), Mark("?"), <<>>), en |-> Marks(Mark("."), Mark(","), <<1>>),
   de |-> Marks(Mark(","), Mark("."), <<2, 1>>), odd |-> Marks(Mark("."), Mark(","), <<1, 127>>),
   fr |-> Marks(Mark(","), LongMark("nnbsp"), <<1>>),
   cs |-> Marks(Mark(","), LongMark("nbsp"), <<1, 2>>),
   wrong |-> Marks(Mark(","), LongMark("invalid"), <<2>>),
   es |-> Marks(Mark(","), [length |-> 0, wide |-> "invalid", narrow |-> "none"], <<>>),
   missing |-> [exists |-> FALSE]]
SomeNumbers ==
  {<<"-", "1", "2", "3", ".", "5">>, <<"1", ".", "5", "e", "+", "0", "3">>,
   <<"1", "2", "e", "-", "4">>, <<"0", "x", "1", ".", "8", "p", "+", "3">>,
   <<"-", "i", "n", "f">>, <<"n", "a", "n">>, <<"1", "2", "3", "4", "5", "6", "7">>}

FO == INSTANCE FileOps WITH Scenarios <- {}
DO == INSTANCE DirIterator WITH Trees <- {}
(* Directories with files, links, a loop and one that may not be read.     *)
Leaf == DO!Directory([x |-> DO!File])
Branch == DO!Directory([x |-> DO!File, y |-> Leaf])
SomeTrees ==
  {DO!Directory([a |-> Branch, b |-> DO!File]), DO!Directory([a |-> DO!Denied, b |-> Leaf]),
   DO!Directory([a |-> DO!Link(Branch), b|-> DO!Directory(<<>>)]), DO!Denied, DO!Directory(<<>>),
   DO!Directory([a |-> Leaf, b |-> DO!Link(DO!File)])}

(* File systems: the source at s, the destination at d, and a file o.      *)
S == <<"s">>
D == <<"d">>
X(place) == Append(place, "x")
Y(place) == Append(place, "y")
Places == {<<>>, <<"o">>, X(X(S)), X(X(D)), <<"d", "s">>} \cup {S, X(S), Y(S), D, X(D), Y(D)}
Holding(nodes) ==
  nodes @@ <<>> :> FO!Directory @@ <<"o">> :> FO!Regular(2) @@ [place \in Places |-> FO!Nothing]
Contents ==
  <<[data |-> 1, time |-> 2], [data |-> 2, time |-> 2], [data |-> 3, time |-> 1],
    [data |-> 4, time |-> 3], FO!Empty, FO!Empty>>
Scene(nodes, first, second) ==
  [fs |-> Holding(nodes), content |-> Contents, calls |-> <<first, second>>]

Sources ==
  {<<>>, S :> FO!Regular(1), S :> FO!Fifo, S :> FO!Symlink(<<"o">>), S :> FO!Symlink(S), S :> FO!Directory,
   S :> FO!Directory @@ X(S) :> FO!Regular(1) @@ Y(S) :> FO!Symlink(<<"o">>),
   S :> FO!Directory @@ X(S) :> FO!Directory @@ X(X(S)) :> FO!Regular(1) @@ Y(S) :> FO!Regular(4),
   S :> FO!Directory @@ X(S) :> FO!Fifo @@ Y(S) :> FO!Regular(1)}
Destinations ==
  {<<>>, D :> FO!Regular(1), D :> FO!Regular(3), D :> FO!Regular(4), D :> FO!Symlink(S),
   D :> FO!Symlink(Y(D)), D :> FO!Symlink(<<"o">>), D :> FO!Directory,
   D :> FO!Directory @@ X(D) :> FO!Regular(3) @@ <<"d", "s">> :> FO!Regular(3),
   D :> FO!Directory @@ X(D) :> FO!Directory @@ Y(D) :> FO!Regular(3),
   D :> FO!Directory @@ X(D) :> FO!Regular(1) @@ <<"d", "s">> :> FO!Regular(1)}
CopyOptions ==
  {{}, {"skip_existing"}, {"overwrite_existing"}, {"update_existing"}, {"copy_symlinks"},
   {"create_symlinks"}, {"recursive"}, {"recursive", "overwrite_existing"},
   {"recursive", "update_existing"}, {"recursive", "skip_symlinks"},
   {"recursive", "copy_symlinks", "skip_existing"}, {"recursive", "directories_only"},
   {"recursive", "create_hard_links"}}
CopyScenes ==
  {Scene(source_ @@ destination, <<FO!Copy(S, D, chosen)>>, <<>>) :
     source_ \in Sources, destination \in Destinations, chosen \in CopyOptions}
(* A file that is copied while it, or the copy, is removed.                *)
CopyRaces ==
  {Scene(S :> FO!Regular(1) @@ destination, <<FO!Copy(S, D, chosen)>>, <<FO!RemoveAll(place)>>) :
     destination \in {<<>>, D :> FO!Regular(3), D :> FO!Symlink(Y(D)), D :> FO!Directory},
     chosen \in {{}, {"overwrite_existing"}, {"update_existing"}}, place \in {S, D}}

Obstacles ==
  {<<>>, D :> FO!Directory, D :> FO!Symlink(S) @@ S :> FO!Directory, D :> FO!Symlink(D),
   D :> FO!Directory @@ X(D) :> FO!Regular(3), D :> FO!Directory @@ X(D) :> FO!Symlink(Y(S))}
Made == {X(X(D)), X(D), Y(D)}
CreateScenes ==
  {Scene(nodes, <<FO!CreateDirectories(place)>>, <<FO!CreateDirectories(another)>>) :
     nodes \in Obstacles, place \in Made, another \in Made}
  \cup {Scene(nodes, <<FO!CreateDirectory(D)>>, <<>>) : nodes \in Obstacles}

Removables ==
  {<<>>, D :> FO!Regular(3), D :> FO!Symlink(D),
   D :> FO!Directory @@ X(D) :> FO!Directory @@ X(X(D)) :> FO!Regular(3) @@ Y(D) :> FO!Regular(4),
   D :> FO!Directory @@ X(D) :> FO!Symlink(S) @@ S :> FO!Directory @@ X(S) :> FO!Regular(1),
   D :> FO!Symlink(S) @@ S :> FO!Directory @@ X(S) :> FO!Regular(1)}
RemoveScenes ==
  {Scene(nodes, <<FO!RemoveAll(D)>>, second) : nodes \in Removables,
     second \in {<<>>, <<FO!RemoveAll(D)>>, <<FO!RemoveAll(X(D))>>, <<FO!CreateDirectories(X(X(D)))>>}}

(* A file with two names, a link to it or to itself, directories; seconds  *)
(* of five ticks and ticks of two, so that the limits of a file_time_type  *)
(* are within a second and time_t may be narrower.                         *)
FA == INSTANCE FileAttrs WITH disk <- request, report <- answer, Disks <- {}, Instants <- {},
        Modes <- {}, Sizes <- {}, BlockSizes <- {}, BlockCounts <- {}, Environments <- {},
        Micros <- 5, Nanos <- 2, TimeMin <- -16, TimeMax <- 15, TimeTMin <- -3, TimeTMax <- 5,
        UintmaxBits <- 3, MaxChanges <- 1, MaxAttrCalls <- 2
Inode(prms, size) == [time |-> [sec |-> 0, nsec |-> 0], perms |-> prms, size |-> size]
Linked ==
  [names |-> [f |-> FA!Regular(1), g |-> FA!Regular(1), d |-> FA!Directory(2),
              l |-> FA!Symlink("f"), n |-> FA!Nothing, tmp |-> FA!Directory(3)],
   inodes |-> <<Inode({"r"}, 1), Inode({}, 1), Inode({"r"}, 0)>>]
Looped ==
  [Linked EXCEPT !.names.g = FA!Fifo(2), !.names.l = FA!Symlink("l"), !.names.d = FA!Regular(1)]
SomeEnvironments ==
  {<<"unset", "unset", "unset", "unset">>, <<"unset", "d", "tmp", "unset">>,
   <<"unset", "unset", "unset", "l">>, <<"g", "unset", "d", "unset">>,
   <<"n", "unset", "unset", "unset">>}
AT == INSTANCE FileAttrs WITH disk <- request, report <- answer, Disks <- {Linked, Looped},
        Instants <- [sec : {-5, -4, -3, -1, 0, 3, 4}, nsec : {0, 1, 2, 5, 8, 9}],
        Modes <- {{}, {"r"}, {"w"}}, Sizes <- {0, 2}, BlockSizes <- {0, 1, 3},
        BlockCounts <- {<<3, 2, 1>>, <<2, 0, 0>>}, Environments <- SomeEnvironments,
        Micros <- 5, Nanos <- 2, TimeMin <- -16, TimeMax <- 15, TimeTMin <- -3, TimeTMax <- 5,
        UintmaxBits <- 3, MaxChanges <- 1, MaxAttrCalls <- 2

CV == INSTANCE Codecvt WITH Facets <- AllFacets, Units <- BoundaryUnits, FileBytes <- BoundaryBytes
IO == INSTANCE IosBase WITH MaxCalls <- MaxStorageCalls
SS == INSTANCE StrStream
MP == INSTANCE MoneyPunct WITH Conventions <- AllConventions, Signs <- SomeSigns,
                               Groupings <- SomeGroupings, Amounts <- SomeAmounts
NP == INSTANCE NextPrime WITH n <- request, Requests <- SomeRequests
TF == INSTANCE TimeFormat WITH Locales <- SomeLocales, Times <- {Midnight, Noon, Evening, Later}
SN == INSTANCE StringNumbers WITH Bits <- SomeBits, Texts <- SomeTexts, FloatTexts <- SomeFloats,
                                  Bases <- {2, 10}, Capacities <- {2, 22}
CT == INSTANCE CType WITH Locales <- SomeAlphabets, Narrows <- {-1, -23, 9, 48, 65, 71, 97, 127},
                          Wides <- {9, 48, 65, 71, 97, 127, 160, 201, 233, 20013}, MaxLength <- 2
WC == INSTANCE WideCodecvt WITH Encodings <- SomeEncodings,
                                Characters <- {0, 97, 233, 39529, 55296}, Bytes <- {0, 97, 195, 169, 233},
                                MaxText <- 4, MaxBytes <- 4, Rooms <- {1, 2, 3}
NF == INSTANCE NumFacets WITH
        Locales <- SomeMarks, FloatTexts <- SomeNumbers,
        Bits <- "long" :> 8 @@ "long long" :> 10 @@ "unsigned short" :> 4,
        Values <- {-128, -10, -1, 0, 1, 9, 12, 100, 127},
        Texts <- BoundedSeq({"0", "1", ",", "-", "x"}, 4), Width <- 8, Slots <- 4
LI == INSTANCE LocaleImp WITH Facets <- FacetObjects, MaxCalls <- MaxLocaleCalls
PA == INSTANCE Path WITH CurrentPath <- <<47, 97>>
DI == INSTANCE DirIterator WITH Trees <- SomeTrees
FS == INSTANCE FileOps WITH
        Scenarios <- CopyScenes \cup CopyRaces \cup CreateScenes \cup RemoveScenes

streams == <<facet, maxcode, header, source, taken, sent, used, last>>
storage == <<array, bad, strict, state, heap, copy, wrote, read, overwritten>>
buffer == <<sb, store, block, blocks, lent, position, shifted, operations>>
money == <<conv, signs, grouping, fracDigits, intl, showbase, amount, negative, output, result>>
requests == <<request, answer>>
locales == <<imp, owners, locale, building, leaked>>
paths == <<path, other, it, index>>
walks == <<tree, options, stack, rec, error, seen, steps, cut>>
files == <<fs, content, outcome, value, failed, removed, scenario>>
characters == <<text, got>>
vars == <<sys, streams, storage, buffer, money, requests, locales, paths, walks, files,
          characters, misused, calls, faults>>

Unused == "unused"
NoStreams ==
  /\ facet = Unused /\ maxcode = Unused /\ header = Unused
  /\ source = Unused /\ taken = Unused /\ sent = Unused /\ used = Unused
  /\ last = Unused
NoStorage ==
  /\ array = Unused /\ bad = Unused /\ strict = Unused /\ state = Unused
  /\ heap = Unused /\ copy = Unused /\ wrote = Unused /\ read = Unused
  /\ overwritten = Unused
NoBuffer ==
  /\ sb = Unused /\ store = Unused /\ block = Unused /\ blocks = Unused
  /\ lent = Unused /\ position = Unused /\ shifted = Unused
  /\ operations = Unused
NoMoney ==
  /\ conv = Unused /\ signs = Unused /\ grouping = Unused
  /\ fracDigits = Unused /\ intl = Unused /\ showbase = Unused
  /\ amount = Unused /\ negative = Unused /\ output = Unused
  /\ result = Unused
NoRequest ==
  /\ request = Unused /\ answer = Unused
NoLocales ==
  /\ imp = Unused /\ owners = Unused /\ locale = Unused /\ building = Unused
  /\ leaked = Unused
NoPaths ==
  /\ path = Unused /\ other = Unused /\ it = Unused /\ index = Unused
NoWalks ==
  /\ tree = Unused /\ options = Unused /\ stack = Unused /\ rec = Unused
  /\ error = Unused /\ seen = Unused /\ steps = Unused /\ cut = Unused
NoFiles ==
  /\ fs = Unused /\ content = Unused /\ outcome = Unused /\ value = Unused
  /\ failed = Unused /\ removed = Unused /\ scenario = Unused
NoCharacters ==
  /\ text = Unused /\ got = Unused
NoMisuse ==
  misused = Unused
NoCalls ==
  calls = Unused
NoFaults ==
  faults = Unused

Init ==
  \/ /\ sys = "codecvt" /\ CV!Init
     /\ NoStorage /\ NoBuffer /\ NoMoney /\ NoRequest /\ NoLocales /\ NoPaths
     /\ NoWalks /\ NoFiles /\ NoMisuse /\ NoCalls /\ NoFaults
  \/ /\ sys = "ios_base" /\ IO!Init
     /\ NoStreams /\ NoBuffer /\ NoMoney /\ NoRequest /\ NoLocales /\ NoPaths
     /\ NoWalks /\ NoFiles /\ NoCharacters /\ NoFaults
  \/ /\ sys = "strstreambuf" /\ SS!Init
     /\ NoStreams /\ NoStorage /\ NoMoney /\ NoRequest /\ NoLocales
     /\ NoPaths /\ NoWalks /\ NoFiles /\ NoMisuse /\ NoCalls /\ NoFaults
  \/ /\ sys = "money" /\ MP!Init
     /\ NoStreams /\ NoStorage /\ NoBuffer /\ NoRequest /\ NoLocales
     /\ NoPaths /\ NoWalks /\ NoFiles /\ NoCharacters /\ NoMisuse /\ NoCalls
     /\ NoFaults
  \/ /\ \/ sys = "next_prime" /\ NP!Init
        \/ sys = "time_get" /\ TF!Init
        \/ sys = "string_numbers" /\ SN!Init
        \/ sys = "ctype" /\ CT!Init
        \/ sys = "wide_codecvt" /\ WC!Init
        \/ sys = "num_facets" /\ NF!Init
        \/ sys = "attributes" /\ AT!Init
     /\ NoStreams /\ NoStorage /\ NoBuffer /\ NoMoney /\ NoLocales
     /\ NoPaths /\ NoWalks /\ NoFiles /\ NoCharacters /\ NoMisuse /\ NoCalls
     /\ NoFaults
  \/ /\ sys = "locale" /\ LI!Init
     /\ NoStreams /\ NoStorage /\ NoBuffer /\ NoMoney /\ NoRequest /\ NoPaths
     /\ NoWalks /\ NoFiles /\ NoCharacters /\ NoFaults
  \/ /\ sys = "path" /\ PA!Init
     /\ NoStreams /\ NoStorage /\ NoBuffer /\ NoMoney /\ NoRequest
     /\ NoLocales /\ NoWalks /\ NoFiles /\ NoCharacters /\ NoMisuse
     /\ NoCalls /\ NoFaults
  \/ /\ sys = "directory_iterator" /\ DI!Init
     /\ NoStreams /\ NoStorage /\ NoBuffer /\ NoMoney /\ NoRequest
     /\ NoLocales /\ NoPaths /\ NoFiles /\ NoCharacters /\ NoMisuse
     /\ NoCalls
  \/ /\ sys = "filesystem" /\ FS!Init
     /\ NoStreams /\ NoStorage /\ NoBuffer /\ NoMoney /\ NoRequest
     /\ NoLocales /\ NoPaths /\ NoWalks /\ NoCharacters /\ NoMisuse

Next ==
  \/ /\ sys = "codecvt" /\ CV!Next
     /\ UNCHANGED <<sys, storage, buffer, money, requests, locales, paths,
                    walks, files, misused, calls, faults>>
  \/ /\ sys = "ios_base" /\ IO!Next
     /\ UNCHANGED <<sys, streams, buffer, money, requests, locales, paths,
                    walks, files, characters, faults>>
  \/ /\ sys = "strstreambuf" /\ SS!Next
     /\ UNCHANGED <<sys, streams, storage, money, requests, locales, paths,
                    walks, files, misused, calls, faults>>
  \/ /\ sys = "money" /\ MP!Next
     /\ UNCHANGED <<sys, streams, storage, buffer, requests, locales, paths,
                    walks, files, characters, misused, calls, faults>>
  \/ /\ \/ sys = "next_prime" /\ NP!Next
        \/ sys = "time_get" /\ TF!Next
        \/ sys = "string_numbers" /\ SN!Next
        \/ sys = "ctype" /\ CT!Next
        \/ sys = "wide_codecvt" /\ WC!Next
        \/ sys = "num_facets" /\ NF!Next
        \/ sys = "attributes" /\ AT!Next
     /\ UNCHANGED <<sys, streams, storage, buffer, money, locales, paths,
                    walks, files, characters, misused, calls, faults>>
  \/ /\ sys = "locale" /\ LI!Next
     /\ UNCHANGED <<sys, streams, storage, buffer, money, requests, paths,
                    walks, files, characters, faults>>
  \/ /\ sys = "path" /\ PA!Next
     /\ UNCHANGED <<sys, streams, storage, buffer, money, requests, locales,
                    walks, files, characters, misused, calls, faults>>
  \/ /\ sys = "directory_iterator" /\ DI!Next
     /\ UNCHANGED <<sys, streams, storage, buffer, money, requests, locales,
                    paths, files, characters, misused, calls>>
  \/ /\ sys = "filesystem" /\ FS!Next
     /\ UNCHANGED <<sys, streams, storage, buffer, money, requests, locales,
                    paths, walks, characters, misused>>

Spec == Init /\ [][Next]_vars
-----------------------------------------------------------------------------
(* codecvt: the bytes are those of the table of Unicode, in any number of  *)
(* calls with any room; money_put: an amount is laid out as localeconv     *)
(* says; __next_prime: the answer is the lowest prime not less than n;     *)
(* path: the elements are those between the separators of the text,        *)
(* forwards and backwards, and compare() is an order on them; stoi and its *)
(* family: the number or the exception is that of the text; ctype: the     *)
(* classes are those of C; date_order(): the order in which dates are      *)
(* written; codecvt of wchar_t: nothing is lost or changed at a null;      *)
(* num_put and num_get: separators are where the groups end;               *)
(* last_write_time: the instant, where it can be held; space: the product. *)
MatchesReference ==
  /\ sys = "codecvt" => CV!StreamExact
  /\ sys = "money" => MP!PutFollowsLocaleconv
  /\ sys = "next_prime" => NP!LowestPrime
  /\ sys = "path" => PA!ElementsExact /\ PA!OrderExact
  /\ sys = "string_numbers" => SN!ReadExact
  /\ sys = "ctype" => CT!ClassesExact
  /\ sys = "time_get" => TF!OrderExact
  /\ sys = "wide_codecvt" => WC!StreamExact
  /\ sys = "num_facets" => NF!ReadExact /\ NF!PutExact
  /\ sys = "attributes" => AT!TimesExact /\ AT!SpaceExact

(* What one side has taken apart the other puts together: in() what out()  *)
(* has converted, in as many bytes as length() says; money_get what        *)
(* money_put has written; operator/= the parts of a path, and absolute();  *)
(* time_get what time_put has written, by the formats it has found out;    *)
(* num_get what num_put has; to_string the whole number; tolower and       *)
(* narrow what toupper and widen have changed; do_in as many bytes as      *)
(* do_length says.                                                         *)
RoundTrip ==
  /\ sys = "codecvt" => CV!RoundTrip /\ CV!LengthAgrees
  /\ sys = "money" => MP!GetReadsPut
  /\ sys = "path" => PA!PartsJoin /\ PA!AbsoluteExact
  /\ sys = "time_get" => TF!GetReadsPut
  /\ sys = "string_numbers" => SN!WrittenWhole
  /\ sys = "ctype" => CT!ThereAndBack
  /\ sys = "wide_codecvt" => WC!LengthAgrees
  /\ sys = "num_facets" => NF!GetReadsPut

(* What is read is what was last stored: the slots of iword() through      *)
(* growth, copyfmt() and swap(), and the characters of a strstreambuf      *)
(* through growth, putback and seeking; and the time of a file.            *)
ReadsWhatWasStored ==
  /\ sys = "ios_base" => IO!SlotsExact
  /\ sys = "strstreambuf" => SS!ReadsWhatWasPut
  /\ sys = "attributes" => AT!TimeReadIsTimeSet

(* Memory has one owner that frees it, whatever fails on the way: the      *)
(* arrays of ios_base, the buffer of a strstreambuf, facets and __imps;    *)
(* and money_put takes enough of it.                                       *)
MemoryOwned ==
  /\ sys = "ios_base" => IO!BlocksOwned
  /\ sys = "strstreambuf" => SS!MemoryKept
  /\ sys = "locale" => LI!CountsExact
  /\ sys = "money" => MP!RoomSuffices

(* What an operation reports has happened: recursive_directory_iterator    *)
(* has stood once at every entry it could reach, or has an error to show;  *)
(* copy, create_directories and remove_all that report no error have done  *)
(* their work and nothing else, whatever fails and whoever else is at work;*)
(* permissions has changed the file it is about.                           *)
ReportsTheOutcome ==
  /\ sys = "directory_iterator" => DI!VisitsExact
  /\ sys = "filesystem" => FS!ReportsTheOutcome
  /\ sys = "attributes" => AT!AttributesReported
================================================================================
