------------------------------- MODULE NextPrime -------------------------------
(***************************************************************************)
(* __next_prime of src/hash.cpp, by which the unordered containers choose  *)
(* how many buckets they have, with its tables; rehash(n) asks it for one  *)
(* number after the other.                                                 *)
(***************************************************************************)
EXTENDS Integers, Sequences, SequencesExt

CONSTANTS Requests     \* the numbers asked for

VARIABLES n, answer

nvars == <<n, answer>>

small_primes ==
  <<0, 2, 3, 5, 7, 11, 13, 17, 19, 23, 29, 31, 37, 41, 43, 47, 53, 59, 61, 67, 71, 73, 79, 83,
    89, 97, 101, 103, 107, 109, 113, 127, 131, 137, 139, 149, 151, 157, 163, 167, 173, 179, 181,
    191, 193, 197, 199, 211>>

(* Potential primes: 210 * k + indices[i].                                 *)
indices ==
  <<1, 11, 13, 17, 19, 23, 29, 31, 37, 41, 43, 47, 53, 59, 61, 67, 71, 73, 79, 83, 89, 97, 101,
    103, 107, 109, 113, 121, 127, 131, 137, 139, 143, 149, 151, 157, 163, 167, 169, 173, 179,
    181, 187, 191, 193, 197, 199, 209>>

(* What the unrolled loop adds to its divisor, in turn, from 211 on: three *)
(* runs of sixteen steps, each of which ends the search or goes on.        *)
increments1 == <<10, 2, 4, 2, 4, 6, 2, 6, 4, 2, 4, 6, 6, 2, 6, 4>>
increments2 == <<2, 6, 4, 6, 8, 4, 2, 4, 2, 4, 8, 6, 4, 6, 2, 4>>
increments3 == <<6, 2, 6, 6, 4, 2, 4, 6, 2, 6, 4, 2, 4, 2, 10, 2>>
increments == increments1 \o increments2 \o increments3

LowerBound(table, v) == CHOOSE i \in DOMAIN table :
  table[i] >= v /\ \A j \in 1..(i - 1) : table[j] < v

(* A divisor ends the search: it is past the square root, or it divides.   *)
Past(m, d) == m \div d < d
Divides(m, d) == m = (m \div d) * d

(* Mutant: the square of a prime counts as a prime.                        *)
IsPrimeButSquares(m, d) == m \div d <= d
IsPrime(m, d) == Past(m, d)

RECURSIVE Tested(_, _, _)
Tested(m, d, k) ==
  IF Past(m, d) \/ Divides(m, d) THEN IsPrime(m, d)
  ELSE Tested(m, d + increments[(k % 48) + 1], k + 1)

SmallFactors == SubSeq(small_primes, 6, Len(small_primes) - 1)
Survives(m) ==
  LET stop == SelectInSeq(SmallFactors, LAMBDA d : Past(m, d) \/ Divides(m, d)) IN
  IF stop # 0 THEN IsPrime(m, SmallFactors[stop]) ELSE Tested(m, 211, 0)

RECURSIVE Search(_, _)
Search(k0, in) ==
  LET m == 210 * k0 + indices[in] IN
  CASE Survives(m) -> m
    [] ~Survives(m) -> IF in = Len(indices) THEN Search(k0 + 1, 1) ELSE Search(k0, in + 1)

NextPrimeOf(v) ==
  IF v <= small_primes[Len(small_primes)] THEN small_primes[LowerBound(small_primes, v)]
  ELSE Search(v \div 210, LowerBound(indices, v % 210))
-----------------------------------------------------------------------------
Init == n \in Requests /\ answer = 0
Ask == answer = 0 /\ n > 0 /\ answer' = NextPrimeOf(n) /\ UNCHANGED n
Next == Ask
Spec == Init /\ [][Next]_nvars
-----------------------------------------------------------------------------
RECURSIVE NoDivisor(_, _)
NoDivisor(m, d) == d * d > m \/ (m % d # 0 /\ NoDivisor(m, d + 1))

(* The answer is the lowest prime number that is not less than n.          *)
LowestPrime ==
  answer # 0 =>
    /\ answer >= n /\ NoDivisor(answer, 2)
    /\ \A m \in n..(answer - 1) : m < 2 \/ ~NoDivisor(m, 2)
================================================================================
