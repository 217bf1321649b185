------------------------------- MODULE StrStream -------------------------------
(***************************************************************************)
(* A strstreambuf (src/strstream.cpp) with the inline functions of its     *)
(* base class streambuf that call its virtual ones.  Pointers are offsets  *)
(* from eback(), None is the null pointer.  Beside it the program keeps    *)
(* the text as it believes it to be: what it has put at each position.     *)
(***************************************************************************)
EXTENDS Integers, FiniteSets, FiniteSetsExt, TLC

CONSTANTS
  Characters,    \* what the program puts
  Alsizes,       \* values of the constructor's __alsize
  DefaultAlsize, \* __default_alsize, which is 4096
  MaxSize,       \* bound: the size of a dynamic buffer
  MaxOperations  \* bound: the calls of the program

VARIABLES
  sb,            \* the strstreambuf: __strmode_, __alsize_ and the six pointers
  store,         \* the characters of its memory
  block,         \* the block of the heap the memory is, None if it is the program's
  blocks,        \* the blocks of the heap that are allocated
  lent,          \* the block that str() or freeze() has left to the program to give back
  text,          \* what the program has put, by position
  position,      \* where it reads and writes next
  shifted,       \* the buffer grew with its put area not where the get area ended
  got,           \* what the last read found, and what the program expected
  operations

svars == <<sb, store, block, blocks, lent, text, position, shifted, got, operations>>

None == -1
Junk == 0
At(memory, i) == IF i \in DOMAIN memory THEN memory[i] ELSE Junk
Seekhigh == IF sb.epptr # None THEN sb.epptr ELSE sb.egptr

(* The constructors: a dynamic buffer; an array of the program with n      *)
(* characters to read and, from pbeg on, room to write; a constant array.  *)
Empty == [dynamic |-> TRUE, constant |-> FALSE, allocated |-> FALSE, frozen |-> FALSE,
          gptr |-> None, egptr |-> None, pbase |-> None, pptr |-> None, epptr |-> None]
Dynamic(alsize) == [alsize |-> alsize] @@ Empty
Static(n, pbeg, constant) ==
  [Dynamic(DefaultAlsize) EXCEPT
     !.dynamic = FALSE, !.constant = constant, !.gptr = 0,
     !.egptr = IF pbeg = None THEN n ELSE pbeg,
     !.pbase = pbeg, !.pptr = pbeg, !.epptr = IF pbeg = None THEN None ELSE pbeg + n]

Operation == operations < MaxOperations /\ operations' = operations + 1
Alive == sb # [dead |-> TRUE]
Fails == UNCHANGED <<sb, store, block, blocks, lent, text, position, shifted, got>>
-----------------------------------------------------------------------------
Init ==
  /\ sb \in {Dynamic(n) : n \in Alsizes} \cup
            {Static(2, p, FALSE) : p \in {None, 0, 1}} \cup {Static(2, None, TRUE)}
  /\ store = [i \in 0..2 |-> IF sb.dynamic THEN Junk ELSE CHOOSE c \in Characters : TRUE]
  /\ block = None /\ blocks = {} /\ lent = None
  /\ text = store
  /\ position = [in |-> 0, out |-> IF sb.pptr = None THEN 0 ELSE sb.pptr]
  /\ shifted = FALSE
  /\ got = [found |-> Junk, expected |-> Junk]
  /\ operations = 0

Put(c) ==
  /\ text' = [i \in DOMAIN text \cup {position.out} |->
                IF i = position.out THEN c ELSE text[i]]
  /\ position' = [position EXCEPT !.out = @ + 1]

Sputc(c) ==
  /\ Operation
  /\ sb.pptr # sb.epptr
  /\ store' = [i \in DOMAIN store \cup {sb.pptr} |-> IF i = sb.pptr THEN c ELSE store[i]]
  /\ sb' = [sb EXCEPT !.pptr = @ + 1]
  /\ Put(c)
  /\ UNCHANGED <<block, blocks, lent, shifted, got>>

(* sputc() at the end of the put area.  A buffer that is full does not     *)
(* grow if it is not dynamic, if it is frozen or if memory runs out.       *)
OverflowFails ==
  /\ Operation
  /\ sb.pptr = sb.epptr
  /\ Fails

OldSize == IF Seekhigh = None THEN 0 ELSE Seekhigh
NewSize ==
  LET n == Max({sb.alsize, 2 * OldSize}) IN IF n = 0 THEN DefaultAlsize ELSE n
Offset(p) == IF p = None THEN 0 ELSE p

(* Mutant: what was read is all that is copied.                            *)
CopiedToEgptr == [i \in 0..(NewSize - 1) |-> IF i < Offset(sb.egptr) THEN At(store, i) ELSE Junk]
Copied == [i \in 0..(NewSize - 1) |-> IF i < OldSize THEN At(store, i) ELSE Junk]

(* Mutant: the old array is freed though it is frozen.                     *)
MayNotGrowUnfrozen == ~sb.dynamic
MayNotGrow == ~sb.dynamic \/ sb.frozen

Overflow(c) ==
  LET fresh == CHOOSE b \in 1..(Cardinality(blocks) + 1) : b \notin blocks
      einp == Offset(sb.egptr)
      nout == Offset(sb.pptr) - Offset(sb.pbase)
  IN
  /\ Operation
  /\ sb.pptr = sb.epptr
  /\ ~MayNotGrow
  /\ NewSize <= MaxSize
  /\ sb' = [sb EXCEPT !.gptr = Offset(sb.gptr), !.egptr = einp, !.pbase = einp,
                      !.epptr = NewSize, !.pptr = einp + nout + 1, !.allocated = TRUE]
  /\ store' = [i \in DOMAIN Copied \cup {einp + nout} |->
                 IF i = einp + nout THEN c ELSE Copied[i]]
  /\ block' = fresh
  /\ blocks' = (IF sb.allocated THEN blocks \ {block} ELSE blocks) \cup {fresh}
  /\ shifted' = (shifted \/ einp # Offset(sb.pbase))
  /\ Put(c)
  /\ UNCHANGED <<lent, got>>
-----------------------------------------------------------------------------
(* sbumpc(), with underflow() at the end of the get area.                  *)
Take(high) ==
  /\ sb' = [sb EXCEPT !.gptr = @ + 1, !.egptr = high]
  /\ got' = [found |-> At(store, sb.gptr), expected |-> At(text, position.in)]
  /\ position' = [position EXCEPT !.in = @ + 1]
  /\ UNCHANGED <<store, block, blocks, lent, text, shifted>>

Sbumpc == Operation /\ sb.gptr # sb.egptr /\ Take(sb.egptr)
Underflow == Operation /\ sb.gptr = sb.egptr /\ sb.egptr < sb.pptr /\ Take(sb.pptr)
UnderflowFails == Operation /\ sb.gptr = sb.egptr /\ sb.egptr >= sb.pptr /\ Fails

(* sungetc(), and sputbackc(c) of another character than the last.         *)
Back ==
  /\ sb.gptr > 0
  /\ sb' = [sb EXCEPT !.gptr = @ - 1]
  /\ position' = [position EXCEPT !.in = @ - 1]
  /\ UNCHANGED <<block, blocks, lent, shifted, got>>

Sungetc == Operation /\ Back /\ UNCHANGED <<store, text>>

Pbackfail(c) ==
  /\ Operation
  /\ Back
  /\ ~sb.constant
  /\ c # At(store, sb.gptr - 1)
  /\ store' = [store EXCEPT ![sb.gptr - 1] = c]
  /\ text' = [i \in DOMAIN text \cup {position.in - 1} |->
                IF i = position.in - 1 THEN c ELSE text[i]]

PbackfailFails(c) ==
  /\ Operation
  /\ sb.gptr <= 0 \/ (sb.constant /\ c # At(store, sb.gptr - 1))
  /\ Fails
-----------------------------------------------------------------------------
(* seekoff() and seekpos() to newoff of the input, the output or both.     *)
Legal(which) ==
  /\ "in" \in which => sb.gptr # None
  /\ "out" \in which => sb.pptr # None

SeekTo(newoff, which) ==
  /\ newoff \in 0..Seekhigh
  /\ sb' = [sb EXCEPT
              !.gptr = IF "in" \in which THEN newoff ELSE @,
              !.egptr = IF "in" \in which THEN Max({newoff, @}) ELSE @,
              !.pbase = IF "out" \in which THEN Min({@, newoff}) ELSE @,
              !.pptr = IF "out" \in which THEN newoff ELSE @]
  /\ position' = [in |-> IF "in" \in which THEN newoff ELSE position.in,
                  out |-> IF "out" \in which THEN newoff ELSE position.out]
  /\ UNCHANGED <<store, block, blocks, lent, text, shifted, got>>

Ways == {"beg", "cur", "end"}
Seekoff(off, way, which) ==
  LET from == CASE way = "beg" -> 0
                [] way = "cur" -> IF "in" \in which THEN sb.gptr ELSE sb.pptr
                [] way = "end" -> Seekhigh
  IN /\ Operation
     /\ IF Legal(which) /\ (way = "cur" => Cardinality(which) = 1) /\ from + off \in 0..Seekhigh
        THEN SeekTo(from + off, which)
        ELSE Fails

Seekpos(sp, which) ==
  /\ Operation
  /\ IF Legal(which) /\ sp \in 0..Seekhigh THEN SeekTo(sp, which) ELSE Fails
-----------------------------------------------------------------------------
(* str() and freeze() freeze a dynamic buffer: the memory it has is the    *)
(* program's until freeze(false), which gives it back.                     *)
Lent == IF sb.allocated THEN block ELSE lent
Str ==
  /\ Operation
  /\ sb' = [sb EXCEPT !.frozen = (@ \/ sb.dynamic)]
  /\ lent' = Lent
  /\ UNCHANGED <<store, block, blocks, text, position, shifted, got>>

Freeze(on) ==
  /\ Operation
  /\ sb' = [sb EXCEPT !.frozen = IF sb.dynamic THEN on ELSE @]
  /\ lent' = IF on THEN Lent ELSE None
  /\ UNCHANGED <<store, block, blocks, text, position, shifted, got>>

(* The destructor.                                                         *)
(* Mutant: there is none, and the array stays whoever has it.              *)
DestroyNothing ==
  /\ sb' = [dead |-> TRUE]
  /\ UNCHANGED <<store, block, blocks, lent, text, position, shifted, got, operations>>
Destroy ==
  /\ blocks' = IF sb.allocated /\ ~sb.frozen THEN blocks \ {block} ELSE blocks
  /\ sb' = [dead |-> TRUE]
  /\ UNCHANGED <<store, block, lent, text, position, shifted, got, operations>>

Next ==
  /\ Alive
  /\ \/ \E c \in Characters : Sputc(c) \/ Overflow(c) \/ Pbackfail(c) \/ PbackfailFails(c)
     \/ OverflowFails \/ Sbumpc \/ Underflow \/ UnderflowFails \/ Sungetc
     \/ \E which \in SUBSET {"in", "out"} \ {{}} :
          \/ \E off \in -1..1, way \in Ways : Seekoff(off, way, which)
          \/ \E sp \in 0..MaxSize : Seekpos(sp, which)
     \/ Str
     \/ \E on \in BOOLEAN : Freeze(on)
     \/ Destroy

Spec == Init /\ [][Next]_svars
-----------------------------------------------------------------------------
(* What is read at a position is what was last put there, through growth,  *)
(* putback and seeking; unless the buffer has grown after it was read,     *)
(* which moves the put area.                                               *)
ReadsWhatWasPut == shifted \/ got.found = got.expected

(* The areas lie in memory the buffer owns, the only array there is.  What *)
(* str() or freeze() has left to the program is not freed before it is     *)
(* given back, by growth as little as by the destructor; and of the array  *)
(* that is left at the end exactly one is answerable: it outlives the      *)
(* buffer if and only if the program has it.  The put area again only if   *)
(* it has not moved: the character that makes the buffer grow may then be  *)
(* put behind its end.                                                     *)
MemoryKept ==
  /\ lent # None => lent \in blocks
  /\ Alive => /\ blocks = IF block = None THEN {} ELSE {block}
              /\ sb.gptr <= sb.egptr
              /\ shifted \/ sb.pptr \in sb.pbase..sb.epptr
              /\ sb.allocated => sb.egptr <= Cardinality(DOMAIN store)
                                 /\ sb.epptr <= Cardinality(DOMAIN store)
  /\ ~Alive => blocks = IF lent = None THEN {} ELSE {lent}

(* underflow.pass.cpp: a reader that has read everything finds what is put *)
(* next.                                                                   *)
ReaderFindsWhatIsPut == got.found = got.expected
================================================================================
