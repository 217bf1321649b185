# A TLA+ verification of the libc++ runtime

libc++ is the LLVM implementation of the C++ standard library. This directory models the parts of
it whose correctness depends on the order in which things happen: the synchronisation primitives,
the shared states and reference counts that threads share, and the linked structures that a long
series of legal calls could bring into an illegal state. It also models the parts of the compiled
runtime that translate one form of a thing into another, piece by piece: texts and bytes, numbers,
dates and amounts of money and their texts, paths and directories and what the system calls make of
them. TLC checks each model on small instances, and TLAPS proves the central ones for every number
of threads, containers and nodes.

Paths below are relative to `src/`, the root of the repository: `src/` in it holds the compiled
runtime, `include/` the headers. `PROJECT.json` gives, definition by definition, the lines that a
module translates.

To check a module: `tlc -workers 2 -config SharedMutex.cfg SharedMutex`; to check proofs:
`tlapm SharedMutexProofs.tla`.

## 1. Inventory

### 1.1 Components with state that outlives a call

| Component | State | Operations | Interacts with | What is hard |
|---|---|---|---|---|
| shared_mutex, shared_timed_mutex (`src/shared_mutex.cpp`, `include/shared_mutex`) | one word (write bit, reader count), two condition variables, a mutex | lock, try_lock, unlock, their shared forms, timed forms | condition_variable | two queues and one word: handover between them, timeouts that withdraw a claim, the limit of the count |
| timed_mutex, recursive_timed_mutex (`src/mutex.cpp`, `include/mutex`) | a bool, or a count and an owner; a condition variable | lock, try_lock, try_lock_for/until, unlock, destruction | condition_variable | a notified thread that is also late; unlock that notifies after it has released |
| call_once (`src/mutex.cpp`, `include/mutex`) | one word per flag; one mutex and one condition variable for all flags | call_once | locale ids, user functions | waiters of several flags in one condition variable, exceptions |
| shared_ptr, weak_ptr (`include/memory`, `src/memory.cpp`) | two atomic counts per control block | copy, destroy, lock, enable_shared_from_this | future, condition_variable_any, locale facets | a race between the last owner and lock(); the fast path that frees without a decrement |
| future, promise, async, packaged_task (`include/future`, `src/future.cpp`) | a set of bits, a value or exception, a count, a condition variable | set_*, *_at_thread_exit, get_future, wait*, get, async | thread exit, shared count | the lifetime of the state; results stored without the mutex having been held since the test; deferred execution |
| thread exit (`src/thread.cpp`) | per thread: a list of states, a list of condition variables | make ready, notify_all_at_thread_exit | future, condition_variable | order at exit, failing allocation |
| debug mode database (`include/__debug`, `src/debug.cpp`) | two hash tables, of containers and of iterators, that point at each other | insert, erase, copy, swap, invalidate | every container of a debug build | concurrent containers over one table; failing malloc |
| red-black tree (`include/__tree`) | nodes with three pointers and a colour, first node, size | insert (hint), erase, clear, searches, node reuse in assignment | map, set, multimap, multiset | rebalancing, local copies of the root, exceptions in the middle of an assignment |
| hash table (`include/__hash_table`) | a list, an array of pointers into it, size, load factor | insert (hint), erase, rehash, assignment | unordered containers, hash.cpp | the bucket pointers after every change, grouping of equal keys, exceptions |
| std::lock (`include/mutex`) | none of its own | lock of several lockables | any mutex | deadlock and livelock between several callers |
| condition_variable_any (`include/condition_variable`) | a shared_ptr to a mutex, a condition variable | wait, notify | user locks | two locks, destruction during the end of a wait |
| atomic shared_ptr access (`include/memory`, `src/memory.cpp`) | sixteen mutexes chosen by address | atomic_load/store/exchange/compare_exchange | shared count | destruction of the old value, collisions of addresses |
| ios_base (`src/ios.cpp`) | three growing arrays with size and capacity, a locale, state bits | xalloc, iword, pword, register_callback, copyfmt, move, swap | streams, locale | stale slots after a copy, failing realloc |
| stream buffers, strstream (`include/streambuf`, `fstream`, `sstream`, `src/strstream.cpp`) | six pointers into one or two buffers | get, put, overflow, underflow, seek, sync | iostreams | a growth or a change of direction with pointers in both areas |
| locale (`src/locale.cpp`) | counted implementations, each a vector of counted facets; ids given once; a global locale | construction from parts, install, global | call_once, streams | partial construction, the global locale shared without a mutex |
| deque, vector, list, string | blocks and spare capacity | insertion, growth | allocators, debug database | exceptions while capacity is rearranged |
| directory iterators (`src/experimental/filesystem/`) | a shared stack of open directories | increment, pop, recursion | the file system | errors at any level, sharing among copies |
| filesystem operations (`src/experimental/filesystem/operations.cpp`) | none; the file system is the state | copy, create, remove, times, permissions, sizes | other processes, directory iterators | several system calls to an operation, each of which may fail or find the work of another process |

### 1.2 Components that translate

They keep no state, or that of one conversion, and their functions are long, full of cases, and called
again with what they left over.

| Component | Translates | What is hard |
|---|---|---|
| codecvt of char16_t, char32_t, codecvt_utf8 and their like (`src/locale.cpp`) | UTF-8, UTF-16 and UCS | characters cut by the end of a buffer or of a call, surrogates, the smaller ranges of second bytes, headers |
| codecvt of wchar_t (`src/locale.cpp`) | text and the bytes of a locale | the C functions stop at a null; one that stops short of it |
| ctype (`src/locale.cpp`, `include/__locale`) | characters and their classes, cases, and narrow forms | ranges, the table that is built in, signs of char |
| numpunct, num_put, num_get (`src/locale.cpp`, `include/locale`) | numbers and texts with groups | grouping, counted again on the way back; padding; widths |
| moneypunct, money_put, money_get | amounts and texts | 360 combinations of what localeconv says; spaces and signs in several parts |
| time_get, time_put | dates and texts | the formats are guessed from what strftime makes of one day |
| stoi and its family, to_string (`src/string.cpp`) | texts and numbers | errno, two ranges for one type, a buffer that grows |
| path (`src/experimental/filesystem/path.cpp`) | a string and its elements | the same elements from either end |
| `__next_prime` (`src/hash.cpp`) | a size and a number of buckets | two tables and an unrolled loop that may skip a divisor |

### 1.3 The rest

regex, random, chrono, algorithms, string, exception messages, memory_resource, operator new, the
exception runtime, any/optional/variant/function/tuple, system_error, typeinfo, valarray, type traits
and the platform adapters keep no state that several calls or several threads build on, or forward
to another library. `PROJECT.json` lists each with the reason.

### 1.4 Properties that make the components correct

- *Locks*: exclusion, exact bookkeeping of owners, no lost wakeup, no sleeper whose condition has
  become true and whom nobody will wake; destruction waits for a call under way.
- *Counted objects*: counts exact, destroyed once and only when unreachable, nothing used after it
  is freed, nothing leaked, no revival.
- *One-shot results*: stored once, visible once, visible only when complete, every waiter answered,
  the state outlives every call.
- *Linked structures*: a walk sees what the abstract container holds after every series of calls;
  rebalancing and rehashing are invisible; every allocated node is reachable from somewhere.
- *Translations*: the result is that of a reference definition, however the work is cut into calls,
  and the way back leads to where the way out began.
- *Operations on files*: an operation that reports no error has done its work and nothing else,
  whatever fails and whoever else is at work.

## 2. The modules

Each component has an abstract specification of what it promises and a detailed one that implements
it under a refinement mapping; the abstract one is a PROPERTY of the detailed one's run.

| Abstract | Detailed | Proofs | TLC configurations |
|---|---|---|---|
| RWLock | SharedMutex | SharedMutexProofs | SharedMutex.cfg |
| SharedOwnership | SharedCount | SharedCountProofs | SharedCount.cfg |
| Lock | TimedMutex, RecursiveTimedMutex | ThreadsProofs | MCThreads.cfg |
| | StdLock | ThreadsProofs | MCThreads.cfg |
| | CondVarAny | ThreadsProofs | MCThreads.cfg |
| Registry | DebugDb | DebugDbProofs, ThreadsProofs | MCThreads.cfg, DebugDbRace.cfg |
| Once | CallOnce | CallOnceProofs | CallOnce.cfg |
| OneShot | Future | FutureProofs | Future.cfg, FutureStart.cfg |
| SortedSequence | RBTree | RBTreeProofs, RBTreeOrderProofs | MCContainers.cfg, MCTreeLeak.cfg |
| EqualGroups | HashTable | | MCContainers.cfg |
| reference definitions in each module | Codecvt, WideCodecvt, CType, NumFacets, MoneyPunct, TimeFormat, StringNumbers, Path, NextPrime | | MCLibrary.cfg, WideCodecvtRoom.cfg (MCWideCodecvt) |
| what the program stored | IosBase, StrStream, LocaleImp | | MCLibrary.cfg, StrStreamGrowth.cfg |
| the file system before | DirIterator, FileOps, FileAttrs | | MCLibrary.cfg |

Three `MC` modules put systems side by side that have nothing to do with each other: `MCThreads`
(five systems of threads), `MCContainers` (tree and hash table) and `MCLibrary` (fifteen parts). A
variable `sys`, or the choice of a program, says at the start which of them runs, and the variables
of the others keep their initial value. Their properties are conjunctions, one conjunct to a system;
the modules state each by its own name.

Every other specification is run directly with its `.cfg`, but for one whose configuration needs
definitions of its own (`MCWideCodecvt`).

### 2.1 Conventions

- *Atomicity.* A critical section of a component's mutex is one action, cut where the code waits in
  a condition variable, unlocks in the middle, or reads shared state without the mutex. In
  SharedCount, where there is no mutex, every atomic operation is one action.
- *Condition variables.* The wait set is a set of threads. `notify_one` removes any member,
  `notify_all` empties it, a spurious wakeup removes any member at any time. A thread that has left
  the set is in the loop of its call and needs another action to take the mutex again.
- *Time.* A deadline passes at any time after the call began (`DeadlinePasses`, `TimeOut`). A thread
  may be notified and be late as well; both orders occur.
- *Memory.* Executions are sequentially consistent. The code uses relaxed increments, acquire
  loads and acquire-release decrements; that these suffice is not shown here.
- *Calls.* Preconditions of the standard are guards: a mutex is unlocked by its owner, a promise
  gives one future, one `shared_ptr` object is not changed by two threads at a time. A call that
  fails and changes nothing (`try_lock`, `lock` on an expired `weak_ptr`, an insertion of a key that
  is there) is a stutter and has no action.
- *Mutants.* Operators whose comment begins with "Mutant" are no part of a specification. Each is
  the definition after it with a plausible bug, and shows that a property can fail.

### 2.2 SharedMutex

`writeEntered` and `numReaders` are the two fields of `__state_`, `gate1` and `gate2` the wait sets
of the two condition variables, `late` the timed calls past their deadline. `Lock`/`RetryLock` are
the first loop of `lock` and `try_lock_until`, `RetryDrain` the second, `Withdraw` the exit of
`try_lock_until` that takes its claim back and wakes everybody. `NReaders` is the limit of the
count, 2^31 - 1 in the code: the model makes it 3 so that it is reached.

`RWLock` has a claim, an exclusive owner and shared owners: a claim bars new readers, and becomes
exclusive ownership when the last reader has gone.

**The limit.** `NoLostReaderWakeup` says that no thread sleeps at the first gate when it could
enter. `unlock_shared` wakes one thread when the count leaves its limit and none when it falls
further, which is enough only as long as at most one thread can be waiting because of the limit: if two
wait and two readers leave before the one that was woken has entered, the other sleeps on with room
inside. The property
is therefore proved under `EnoughRoom`, "all threads but one fit in the count". A program would
need 2^31 + 1 threads to leave that range.

### 2.3 SharedCount

`sharedOwners` and `weakOwners` are the two counts, with the code's bias of one. `kind` says what
each reference object is, so that `CountsExact` can compare. `LockLoad` and `LockCas` are the loop
of `lock()` with its local `object_owners` (`seen`); `WeakLoad` and `WeakDecrement` are
`__release_weak` with the fast path that frees the block without a decrement when it reads 0. All
owners together hold one weak reference, `Group`; an object derived from
`enable_shared_from_this` holds another, `Self`, which its destructor releases first.

The model Future does not count again: it has a set of owners, because SharedCount shows that the
count is exact.

### 2.4 TimedMutex and RecursiveTimedMutex

`locked`, or `count` and `id`, are the members. In TimedMutex `mutex` is the internal `__m_`
between the store and the notification of `unlock`, because the destructor locks it to wait for
exactly that. RecursiveTimedMutex releases it before it notifies, so others may lock and
unlock in between. Its destructor does the same as that of timed_mutex; since the notification is
outside the mutex it does not wait for it (`src/mutex.cpp:185`), the repository does not say that it
must, and it is therefore not an action. `held` is a history of what each thread has to release,
which the count is compared with. `MaxCount` stands for the largest `size_t`.

StdLock models `lock` and `try_lock` of any number of mutexes: a thread blocks for one, tries the
others in turn, and when it fails gives all back and begins with the one that failed
(`include/mutex:409`). `order` is the argument list of a call, rotated to where it begins now.
`HoldsNothingBlocked`, that nobody blocks with a mutex in its hands, is what excludes a circle.
The lists that calls may have (`Arguments`) are a constant of MCThreads, of which it is assumed that
they name two mutexes at least and none twice; TLC checks that property and deadlock for five lists
over three mutexes (`SomeArguments`), two of them opposite.

CondVarAny models `wait` and `wait_until` with the two locks in their order: the user's lock is
released under the internal mutex, which is kept until the thread sleeps. The waiters share the
internal mutex with the object (`shares`), which may be destroyed once all were notified.
`OutlivesTheObject` says that nobody uses the mutex without a share of it, `EveryWaitReturns` that no
notification is lost between the two locks.

### 2.5 CallOnce

`state` is the word of every flag; one `waiting` set for all flags, as in the code. The function of
a call runs without the mutex and may throw up to `MaxThrows` times per flag, a bound that keeps the
state space finite. `finished` and `throws` are history.

### 2.6 Future

One shared state, of a promise, of a deferred function or of an async thread. `bits` is `__state_`;
`owners` is the count as a set: the promise, the futures (one per consumer), the list of a thread
that is to make it ready at exit, and the local `__h` of `__make_async_assoc_state` (`Maker`).
`deleted` follows the last release, or for an async state the end of the `wait()` in its
`__on_zero_shared` (`Join`). What `promise` and `future` read without the mutex, at destruction and
in `get_future`, is an action of its own. `OneShot` is the abstract view: a result is stored once,
becomes visible once, and an asker is answered only when it is visible.

Not in the model: `packaged_task`, values moved out by `get`, two consumers that use one `future`
object.

### 2.7 DebugDb

The table of containers is modelled link by link: `bucket`, `next`, the growth to the next prime and
the moving of every node. `Walk` is the loop that follows a chain, as the function from steps to
nodes; the loops of the growth are given by the order in which they visit the nodes (`Visits`,
`Before`): each visited node goes to the front of its new bucket, so a bucket ends up with its nodes
in the opposite order (`Front`). The table of iterators has the same form and is a function from iterators
to containers. `hash<void*>` is any function into `HashValues`; the values 0, 1 and 5 make addresses
collide with some numbers of buckets and part with others. `__insert_c<_Cont>` is three steps:
the critical section that links a node that only has its container and link (`InsertC`), the
reading of the node's fields for the constructor call (`ReadNode`), and the construction in place
(`ConstructNode`), the last two without the mutex. Nothing that goes through the mutex waits for
them.

`FailsAt` says where the `malloc` of a node may fail. The code writes the null result into the
bucket before it looks at it (`src/debug.cpp:238`). With an empty bucket (`"empty"`) that is
harmless; otherwise (`"chain"`) the nodes of the bucket can be reached no more. Nothing in the
repository says what should hold after a `bad_alloc` in debug mode. The model follows the code:
`lost` is a history of the containers that were cut off, and `losses` of their number, which `__csz_`
goes on counting. They live on, and their destructors find nothing to unlink and leave their
iterators where they are. `RegistrationExact` and `InternalChecksHold` ask of every container *but
those* that it be found; that nothing else suffers, in particular no other chain and no list of
iterators, is what the run shows. An address with a lost node
and registered iterators is not used for a new container (the bound in `InsertC`), because the model
names nodes by containers.

`InternalChecksHold` states the assertions that debug.cpp makes about itself ("debug mode internal
logic error"). It is a part of `RegistrationExact` in MCThreads with one maker, and the property that
two makers violate in `debug_db_race`. `StaleLink` is the step in which they do it: a node is
constructed with a link that has changed since it was read.

`Registry` is the abstract view: every iterator belongs to one live container, to none, or is not
known. The iterators of a cut-off container that has been destroyed belong to none (`Owners`).

### 2.8 RBTree

The tree is three functions (children, parent, colour), `begin` and `size`. An insertion or removal
up to its rebalancing loop is one action and each iteration of the loop another, so that the
invariants see the inside of the loops, where `root` is the local copy of the root that the code
must keep up to date and `at` the node at hand. The two mirrored halves of each loop are one
definition with a side. Searches are operators, compared with a walk over the elements in
`SearchExact`. `__find_equal` and its hinted form are modelled where they do not find the key, as
only then does an insertion change anything. Fields of a freed node are reset, because a state that
differs only in freed memory is the same state.

A copy assignment (`__assign_unique`, `__assign_multi`) keeps the nodes of the old tree in a cache
and takes them out leaf by leaf: `BeginAssign`, `AssignNext`, `EndAssign`, and `ThrowInAssign` when a
comparison throws in between. `lost` is a history of the nodes that are in neither the tree nor
the cache afterwards. Two ways lead there:

- a set or map that is assigned a key twice drops the second node (`AssignNext`): the finding of
  section 4;
- a comparison that throws in `__node_insert_unique` or `__node_insert_multi` is too late for the
  node, which `__detach` has taken out of the cache already (`ThrowInAssign`,
  `include/__tree:1652`), so the handler does not free it. No text of the repository speaks of a
  comparison that throws there, so this is a hazard only.

`MaxLost` bounds both. `NodesAccounted` says that nothing else is lost and nothing is in two places.
Moving and swapping of whole trees, and comparators that are not a strict weak order, are not modelled.

`SortedSequence` is the abstract view: the nodes in the order of their keys, an insertion at the
place the standard gives it (`InsertNear` for a hint), every other node left where it is.

### 2.9 HashTable

`tables` holds what the containers and their nodes hold: the list of nodes, in which those of a bucket
stand together, the bucket list with pointers to the node *before* the first of each bucket, size,
load factor and hash function. A container's name is also that of its node `__p1_`, the one before
the first. A call is one action, since nothing can see its inside; `Redistribute`, `MoveGroup`,
`Link`, `Unlinked` and the others are operators on `tables`, one for each part of the code. `found`
is a history of what `equal_range()` finds of every key. Load factors are fractions, where the code
rounds to float.

`EqualGroups` is the abstract view: of every key a sequence of elements, which only insertions and
removals of that key change. `ImplementsEqualGroups` then says that a rehash, a swap, a move and a
copy leave every group together and in its order; the loop of `__rehash` moves a group as a whole,
and the mutant that moves it node by node reverses it. `BucketsExact` is the invariant of the
pointers, among them the one at `__p1_`, which is to be mended whenever the list changes hands.

`dropped` are nodes that an assignment from a list loses: `__assign_unique` ignores what
`__node_insert_unique` answers (`include/__hash_table:1703`), as the tree does.

Not in the model: a comparison that throws in the middle of `__rehash` (`include/__hash_table:2199`).
The bucket list is new by then, the buckets behind are null, and their nodes cannot be found
although a walk from `begin()` passes them; the repository does not say what should hold.

### 2.10 The parts of MCLibrary

**Codecvt.** A writer converts a text with `out()` in as many calls and with as much room as it
likes, a reader converts the bytes with `in()`; or the bytes come from a file that no writer made.
An operator named for a function of the source is one turn of its loop. `StreamExact` compares what
has been read with a decoder by the tables of Unicode, `RoundTrip` with the text, `LengthAgrees` the
answer of `length()` with what `in()` takes. Not claimed: what follows a header that a second call
writes again (the facets keep no state, so each call writes or skips one), nor U+FEFF at a place where a header
would be skipped. Observed: `utf8_to_utf16` compares the lead byte, not the character, with Maxcode
(`src/locale.cpp:1906`); `codecvt_utf8_utf16<wchar_t>` stores what it decodes in 16 bits.

**WideCodecvt.** The functions of the C library convert up to the next null; `do_out` and `do_in` go
from null to null. `Wcsnrtombs`, `Mbrtowc` and their like are external. `StreamExact` holds as long
as nothing was skipped; the run `wide_codecvt_room` is about what is skipped. Observed: a null at
the beginning or after a null gives `partial` with no progress, and `do_in` reports an illegal
sequence as `partial`.

**CType.** `ClassesExact` compares `is`, `scan_is`, `scan_not` and the table that is built in with
the classes of C; `ThereAndBack` lets cases and `widen`/`narrow` return. Not claimed for the char -1,
which is EOF to `btowc`. Observed: `ctype<char>(0, true)` deletes `classic_table()`;
`ctype<wchar_t>::do_widen` extends the sign.

**NumFacets.** `numpunct_byname` takes its marks from localeconv, `num_put` groups and pads, `num_get`
takes separators out and counts (`PutExact`, `ReadExact`, `GetReadsPut`). The forty slots of
`__num_get_buf_sz` are four here. Not claimed where two readings exist (`Readable`). Observed: where
the locale groups, digits without separators are refused, as are more groups than slots when the
grouping is mixed; behind a group without end any separators pass; with base 0 the "0x" counts as
digits of a group; a separator that has no char stays a comma, also where the decimal point is one
(`src/locale.cpp:4221-4250`).

**MoneyPunct.** `PutFollowsLocaleconv` compares the text with what localeconv asks for,
`GetReadsPut` reads it back, `RoomSuffices` is about the fixed buffer. Observed: an international
symbol with precedes 0, sep 0, posn 3 and an empty sign is not read back; the computed size is one
short where the symbol has its own space, which the slack absorbs.

**TimeFormat.** `time_get_byname` learns the formats of a locale from what strftime makes of one day:
`Analyze` is `__analyze` with its order of guesses. `OrderExact` is `date_order()`, `GetReadsPut`
reads what `time_put` wrote. Both are claimed of formats that can be told from one day (`Analysable`:
no two numbers side by side, no `%j`, a space in front of `%e`, the format of `%r` as in C, digits in
the names of months only in dates), and of the fields the format determines (`Determined`: not an
hour that is read with `%I` after `%p`, no year of two digits outside of 1969 to 2068).
Observed, outside of that: `get()` compares with '0' where it means 'O'; it succeeds when the
text ends before the format; `%j` is never recognised and prints one more than `tm_yday`; `%u` that
prints 6 is taken for `%w`; adjacent numbers become literals; the search for the order reads past the
end of a format without a '%'; an empty name for one half of the day keeps `__analyze` in its loop.

**StringNumbers.** Texts against the number they begin with, in types of 4, 5 and 6 bits. The caller
may have left errno at anything (`Errnos`); it is saved, cleared, and exchanged back, and what the
call says depends on that of the call alone (`ReadExact`); `to_string` with a buffer that is too small at first
(`WrittenWhole`). Observed: `stof` throws `out_of_range` for denormals too, and `stoi` stores `*idx`
before it finds the number out of its range.

**NextPrime.** The two tables, the start in the wheel of 210 and the three runs of the unrolled loop.
`LowestPrime` compares with the definition for 1 to 2500, and for the products of two divisors of
the second round of the wheel, which only the unrolled loop can tell from primes.

**Path.** PathParser in both directions over all paths of up to six characters (two paths together) of
a letter, `/` and `.`. `ElementsExact` compares the elements, forwards and backwards, with a
definition by positions; `PartsJoin`, `OrderExact` and `AbsoluteExact` are about the decomposition,
`operator/=`, `compare()` and `absolute()`. Observed: a root name as "//" is lost by `absolute()`.

**IosBase.** The arrays of `iword`, `pword` and the callbacks as blocks with size and capacity; every
`realloc` and `malloc` may fail. `SlotsExact`: what `iword` gives is what the program stored there or
0; `BlocksOwned`: a block has one owner. `SlotsExact` does not speak of slots that a `copyfmt` from a
stream with fewer slots has cut off, which keep their old value when the size grows again within the
capacity (`src/ios.cpp:198`). A `register_callback` whose realloc fails sets badbit
(`src/ios.cpp:235`). If badbit is in `exceptions()` (`strict`) that throws, and the stream is as it was
(`RegisterFails`). By default it does not: a null pointer is stored over the array and written
through (`RegisterOverwrites`). The old array has no owner from then on. `BlocksOwned` allows this
one block (`overwritten`) to be nobody's, and nothing else; what the write through null does is not
modelled, and no call follows it.

**StrStream.** strstreambuf with the inline functions of streambuf, six pointers as offsets.
`lent` is the array that `str()` or `freeze()` has left to the program. `MemoryKept` says that
it is not freed before it is given back, that a living buffer has no array but its own, and that the
destructor leaves an array behind if and only if it is lent. `ReadsWhatWasPut` and the part of
`MemoryKept` about the put area hold as long as no growth has `shifted` it; the run
`strstream_growth` is about that.

**LocaleImp.** Handles, implementations and facets with their counts through every constructor,
with an exception at each installation (`CountsExact`). `locale(other, f)` may throw when it has
shared the facets of `other` already, because the vector has to grow for the id of `f`
(`src/locale.cpp:462`): nobody gives these references back. `leaked` counts them, and `CountsExact`
says that they are the only ones without a holder. Not in it: the exchange of the global locale
between threads, which has no mutex.

**DirIterator.** `VisitsExact`: when the iteration ends without an error each reachable entry was
visited once, whatever `readdir` gives first, with either option, `pop` and
`disable_recursion_pending`, and with directories that vanish or refuse.

**FileOps.** Each system call of copy, copy_file, create_directory, create_directories and remove_all is a
step of a process, so another one may work in between, and `MaxFaults` of them fail.
`ReportsTheOutcome` says that a call that reports no error has done its work and touched nothing else.
The two files of `copy_file` are opened in two steps, and one that is open lives on without its name.
Not claimed where the code visibly does not check: a failing increment in `copy`
(`operations.cpp:253`) and reading and writing in `copy_file` (147). Two names of one file are refused
by `copy` as such, so that no scene has to leave them out. Only when the target is a directory, and
the name in it is that of the source, is a file copied over itself, which truncates it with
`overwrite_existing` (232): the call described by `OntoItself`, of which `CopyExact` and `SourceKept` do
not speak. Observed also: a target is truncated when the
source cannot be opened; `create_directory(p, ec)`, which is noexcept, calls an `is_directory(p)`
that may throw (362); a directory copied into its own subdirectory recurses.

**FileAttrs.** Times, permissions, sizes, links, space, rename, remove, read_symlink and
temp_directory_path. A second has 5 ticks of `file_time_type` and a tick 2 of timespec; `file_time_type`
has -16..15 ticks, `time_t` -3..5 seconds, `uintmax_t` 3 bits, so that every limit is crossed.
`TimesExact`, `TimeReadIsTimeSet`, `SpaceExact`, `AttributesReported`. Not claimed of a count of 0
blocks, which `__space` reports as unknown (`operations.cpp:731`), so that a full disk has all the
room there is. Observed: times before the epoch are rounded towards zero except in the first tick
of a second, and times before the first whole second become that second
(`filesystem_time_helper.h:152`); `permissions(add_perms)` loses what another process changes
between its two calls.

## 3. The runs

| Run | Module, configuration | Instance | What it shows |
|---|---|---|---|
| `shared_mutex` | SharedMutex | 4 threads, 3 readers | `StateWordExact`, `NoLostWakeup`, `NoLostReaderWakeup`, `ImplementsRWLock`; `GateOpensAgain`: nobody sleeps at the first gate for ever |
| `shared_count` | SharedCount | 3 threads, 4 references | `CountsExact`, `NoUseAfterFree`, `NoLeak`, `ImplementsOwnership` |
| `threads` | MCThreads | 4 threads at a timed or a recursive mutex, 3 at three mutexes, 3 waiters and 2 setters, 3 containers in debug mode | `Inv`: exact owners, no lost wakeup; `NothingOutlivesDestruction`, `HoldsNothingBlocked`, `RegistrationExact` with sound chains and the internal checks, `ImplementsLock`, `ImplementsRegistry`, `FreeMutexIsTaken`, `EveryWaitReturns` |
| `call_once` | CallOnce | 4 threads, 2 flags, 1 exception each | `FlagExact`, `NoLostWakeup`, `ImplementsOnce`, `EveryCallEnds` |
| `future` | Future, Future.cfg | 2 producers, 3 consumers, each kind | `Inv`, `NoUseAfterFree`, `SomebodyWillAnswer`, `StoreNeverRefused`, `ImplementsOneShot`, `EveryWaitEnds` |
| `async_start_failure` | Future, FutureStart.cfg | 1 producer, 2 consumers | violates `AsyncReturns` (section 4) |
| `debug_db_race` | DebugDb, DebugDbRace.cfg | 2 makers | violates `InternalChecksHold` (section 4) |
| `containers` | MCContainers | trees of 8 keys, or 4 nodes of 3 keys with assignments; hash tables of 4 nodes | `LinksExact`, `RedBlack`, `SearchExact`, `NodesAccounted`, `BucketsExact`, `ImplementsSortedSequence`, `InsertedWhereAsked`, `ImplementsEqualGroups` |
| `tree_leak` | MCContainers, MCTreeLeak.cfg | a tree of 3 nodes, 2 keys | violates `NothingLost` (section 4) |
| `library` | MCLibrary | the fifteen parts of 2.10 | `MatchesReference`, `RoundTrip`, `ReadsWhatWasStored`, `MemoryOwned`, `ReportsTheOutcome` |
| `strstream_growth` | StrStream, StrStreamGrowth.cfg | a buffer of up to 4 characters | violates `ReaderFindsWhatIsPut` (section 4) |
| `wide_codecvt_room` | MCWideCodecvt, WideCodecvtRoom.cfg | texts of up to 4 characters, rooms of 1 to 3 bytes | violates `NothingSkipped` (section 4) |

### 3.1 Why the bounds are enough

- *shared_mutex.* Four threads are the least with which readers fill the count (3), one more waits,
  and, at other times, a writer waits at the second gate while a second writer and a reader queue at
  the first. More threads only lengthen the queues; the proofs cover any number.
- *shared_count.* Three threads let one lock a weak reference, one release the last owner and one
  release the last other weak reference at the same time. Four references and the two internal
  ones let every count be one more than each of these needs. The proofs cover any number.
- *threads.* Timed mutexes: an owner that unlocks, two sleepers, one of which is late, and a thread
  that barges in; a count up to 3 has a first, a middle and a last level; the proofs cover any number.
  std::lock: a circle of three, and two calls in opposite order beside a third. CondVarAny: one
  waiter asleep, one late, one on its way out, while one setter notifies with the lock and another
  without. Debug mode: three containers force two growths (0, 2 and 5 buckets, `MaxNodes` 3) and chains of up to three
  with a first, a middle and a last node; `malloc` fails for empty buckets and for chains of one and
  two nodes, before and after a growth; the containers are numbered in the order of their hashes, which
  leaves out only renamings; two iterators can be on one list, on two, or exchanged.
- *call_once.* A flag needs a runner and a waiter; two flags at a time need four threads. One
  exception per flag makes the waiter the next runner. The proofs cover any number.
- *future.* Two producers share a promise, so that one stores for its exit while the other destroys
  the promise. Three consumers: one in a deferred function or in the last release, one asleep, one
  that shares or drops.
- *containers.* Eight keys give trees of black height 3 and every case of both loops, with the
  mirrored ones; in particular the removal loop climbs (`PassBlackUp`) more than once. Four nodes
  with three keys have up to four equal ones and hints before, inside and behind a group of equals;
  a cache of four has a leaf with and without a sibling. Four nodes of a hash table make groups of
  two and three that a rehash moves past others, between 0, 2, 3, 4, 5, 7 and more buckets, both
  powers of two and primes; two tables have hash functions that never agree. The nodes of hash
  tables are exchangeable (symmetry): no code compares their addresses. `MaxLost` and `MaxDropped`
  are 1, enough for a second assignment to begin from what a lossy one left.
- *library.* Texts have two characters (`MaxText`) and the units that end a row of the table of
  Unicode, files four bytes (`MaxBytes`), the longest character there is; rooms of 2 cut one, 7 do
  not; `Maxcodes` has a limit inside the range of two bytes. Two streams with up to two
  callbacks each (`MaxCallbacks`) and 4 calls of storage (`MaxStorageCalls`); strings of up to 4 in 7 operations reach the second growth
  of a buffer with both areas in use; three implementations (`MaxImps`) in 4 constructions, with ids of the program (`UserIds`) that fit in
  the vector and that make it grow; two processes, six files and one failing call (`MaxFaults`); one change of an entry, then one query.

Deadlock is checked in the runs whose system never has to stop. It is not checked where it may: when
all references are gone (`shared_count`), when the state is deleted and the producers have exited
(`future`, `async_start_failure`), when the calls of a part are used up (`library`,
`strstream_growth`, `wide_codecvt_room`). The threads of a timed_mutex stop when it is destroyed, which
MCThreads states as a step (`Destroyed`), so that deadlock is checked of the others.

### 3.2 Fairness

Liveness is checked under weak fairness of what the code's scheduling gives: a thread that is awake
in a call takes its next step, a function passed to the library returns or throws. Nothing is
assumed of calls that have not begun, nor of spurious wakeups. In addition

- `GateOpensAgain` assumes that owners release the lock and that deadlines pass, because a lock that
  is never released never lets anybody in. It does not say that a given thread gets the lock: it can
  wake, find it taken and sleep again. Nothing in the code promises more.
- `FreeMutexIsTaken` assumes neither.
- `EveryWaitReturns` assumes that a setter goes on until it has notified and a waiter until it sleeps
  or returns.
- `EveryWaitEnds` assumes that the promise is destroyed some day and that the producers exit; both
  are needed, since a promise that is kept and not set keeps its waiters.
- `AsyncReturns` is checked under the same fairness; its counterexample is a thread that waits for a
  result that nobody will store, not one that is not scheduled.

Runs with liveness use no symmetry; `containers`, the one with symmetry, has safety properties only.

## 4. Findings

1. **async waits for a thread that was never started** (`async_start_failure`;
   `include/future:2301`, `include/future:999`). When the constructor of `thread` throws, the last
   reference of the new state is released during unwinding, and `__on_zero_shared` of an async state
   waits for the result. `async()` neither returns nor throws, though its `catch` clause was written
   to fall back to deferred execution.
2. **Debug mode loses a container that is constructed while another thread grows the table**
   (`debug_db_race`; `include/__debug:259`). The node is constructed, with a link read before, after
   the mutex has been released.
3. **Assigning a list with equal keys to a set or map leaks nodes** (`tree_leak`;
   `include/__tree:1601`). The result of `__node_insert_unique` is ignored. The hash table has the same
   code (`include/__hash_table:1703`).
4. **A strstreambuf that was read before it grows puts the next character in the wrong place**
   (`strstream_growth`; `src/strstream.cpp:188`). The new put area begins where the get area ends and
   is advanced by what the old one held on top of that.
5. **codecvt of wchar_t steps over a character that does not fit in front of a null**
   (`wide_codecvt_room`; `src/locale.cpp:1567`). The null is written in its place.

`PROJECT.json` quotes the assertion, comment or test that each contradicts. Everything else that was
stated of the code holds; what was observed beside it, and contradicts no line of the repository, is
with the modules in section 2. Two more observations have no module yet: `set_value_at_thread_exit`
on a thread that `std::thread` did not make dereferences a null thread-local pointer, which only
`notify_all_at_thread_exit` allocates; and a `push_back` that throws after the result has been
stored (`src/thread.cpp:192`) leaves its waiters for ever.

## 5. The proofs

| Module | Theorems | From |
|---|---|---|
| SharedMutexProofs | `TypeCorrect`, `StateWordIsExact`, `NoWakeupIsLost`, `NoReaderWakeupIsLost`, `WritersArePreferred`, `Refinement` | a finite set of threads, `NReaders` at least 1; `EnoughRoom` for `NoReaderWakeupIsLost` |
| SharedCountProofs | `TypeCorrect`, `CountsAreExact`, `NothingUsedAfterFree`, `OneThreadDestroys`, `NothingLeaks`, `NothingRevived`, `Refinement` | a finite set of references; any set of threads |
| CallOnceProofs | `TypeCorrect`, `FlagsAreExact`, `NoWakeupIsLost`, `Refinement` | any sets of threads and flags, any `MaxThrows` |
| FutureProofs | `BitsResultAndWaitersAgree`, `StateOutlivesItsCalls`, `BlockedHaveAnAnswerer`, `NoSecondResult`, `Refinement` | finite sets of producers and consumers, each class of state |
| DebugDbProofs | `TablesAreExact`, `OneMakerIsExact` | a finite set of containers, any hash into the numbers, distinct null values (`Limits`); any makers, any failure of malloc. `TablesAreExact` of the executions without a `StaleLink`, `OneMakerIsExact` of all executions with one maker |
| ThreadsProofs | `OwnersAndWaitersAgree`, `MutexesOutliveTheirUse`, `NothingHeldWhileBlocked`, `TablesAreExact`, `Refinement`, `DatabaseRefinement` | `ThreadsAssumption` of MCThreads: any sets of threads, lockers, mutexes, waiters and setters; any lists of two or more different mutexes; finite sets of containers and iterators; any makers, any failure of malloc, any `MaxCount`. `TablesAreExact` and `DatabaseRefinement` of the executions without a `StaleLink` |
| RBTreeProofs | `Sound`, `LinksAreExact`, `AlwaysRedBlack`, `NodesAreAccounted`, `TypeCorrect` | a finite set of nodes, any set of integers for keys (not an empty one for `TypeCorrect`), any `Programs` and `MaxLost` |
| RBTreeOrderProofs | `AlwaysOrdered`, `SearchesAreExact`, `TreeImplementsSequence`, `InsertsWhereAsked` | the same |

Each module proves an inductive invariant `IInv` of its own (`Invariance`), derives the properties from
it, and, where there is an abstract specification, proves with it that every step is a step of that
specification or a stutter.

- *SharedMutex.* `TypeOK /\ StateWordExact /\ NoLostWakeup` is not inductive by itself: it allows a
  thread in a wait set whose call is in another loop, and a wakeup there would say nothing.
  `GatesMatchLoops` closes the gap. The heart is that `unlock` may write 0 to the whole word: a writer
  owns it only when the count is 0.
- *SharedCount.* The counts are compared with the references, so the invariant has to say which
  thread has which reference in hand: `DropsMatch` and `LocksMatch` pair threads in a call with
  references in a passing state, `GroupInPhase` orders the release of `Self`, of `Group` and the
  death of the object, `OneDestroyer` and `OneFreer` say that whoever reads "last" is the last. That
  last fact is the argument of the comment in `__release_weak` (`src/memory.cpp:101`), which is what
  makes the fast path safe.
- *CallOnce.* `Stages` says what a thread in each part of the call knows of its flag; without it
  nothing relates the return of a call to the end of the function.
- *Future.* That the state outlives its calls needs to know whose reference a call relies on:
  `ProducerCalls` and `ConsumerCalls` give every label the owner that keeps the state alive. The
  last release is the delicate step. For a promise, "the count is one" means that the promise is
  the only owner (`OnlyThePromise`), so that it may skip the broken-promise error although it looked
  without the mutex. For an async state the release is a wait, and what it waits for is a thread that
  holds no reference: `Sources` and `Results` say that such a thread runs as long as there is no result,
  and that nobody else is inside then (`OneAtATime`). `BlockedHaveAnAnswerer` names, for every blocked
  thread, who is going to answer: a promise that is not destroyed, a producer that is yet to exit,
  a worker, or a thread inside the deferred function. It holds of the state of async whose thread could
  not be started as well, where nobody is left: that case, `NeverStarted`, is the finding of section 4.
- *StdLock*, in ThreadsProofs (`Several...`). What a call owns is an interval of its list of arguments, anchored at the front while it
  tries, anywhere in the list while it gives back, and at the end while the owner unlocks
  (`OwnsInterval`); rotating the list moves the interval and keeps it one. A call that blocks has
  the empty one.
- *CondVarAny*, in ThreadsProofs. `ConditionInv` says that the internal mutex has an owner only from
  the entry of `wait()` to the sleep and while the thread leaves, that each such thread has a share
  of it, and that the object can only be gone when no `wait()` can begin (`DestroyedInTime`).
- *The timed mutexes*, in ThreadsProofs. `Inv` of TimedMutex lacks one fact: that the internal mutex
  has at most one holder (`OneHolder`). Without it an `unlock()` that ends could leave another
  thread inside, and the destructor, which waits for the mutex to be free, would not wait for that one.
  `Inv` of RecursiveTimedMutex is inductive as it stands, because the count and the identity are
  compared with `held` in every state.
- *DebugDb.* The invariant gives each node a place in its chain, from 0 on without a gap: `Shape`
  says that places are different within a bucket, that the bucket points to place 0 and that each link
  leads from a place to the next. No walk and no recursion occurs in it; what a walk meets follows
  from it (`WalkMeets`, `FoundByShape`, `SoundByShape`). The growth is the main case. Its loops visit
  each node once (`VisitsAre`), and the new place of a node is the number of nodes of its new bucket
  visited after it (`NewPlaces`); `RehashBuckets` and `RehashLinks` show that the links that the loops
  leave are those places. Linking a new node moves the chain up by one, unlinking closes
  the gap (`PushShape`, `UnlinkShape`). A malloc that fails takes the nodes of one bucket out of the
  shape and counts them in `losses`, which keeps `__csz_` exact. One hypothesis is needed, and it is
  about the steps and not the constants: no node is constructed with a link that has changed since it
  was read (`[][~StaleLink]_vars`). The code does not guarantee it, and the run `debug_db_race` shows a node
  lost without it; the theorem says that this step is the only thing that can go wrong, for any
  number of makers. With one maker the hypothesis always holds (`LinksStayFresh`), which gives
  `OneMakerIsExact`.
- *RBTree.* The invariant says that there are a set `T` of nodes, the tree, and a set `C`, what is left
  of the cache of an assignment, so that `Held(T, C)`. `Store` gives the links: `Forest` (children and
  parents agree, no link leaves `T` or `C`, all but the top of `C` hang below something), `Ranked`
  (numbers that grow from parent to child, so that there is no cycle) and `Spine` (a set of nodes that
  is the leftmost path, at whose end `begin` is). `Loop` gives the colours: `Heights` is a function that
  says how many black nodes there are below each node, with one too few at the hole of a removal, and
  `Reds` names the one node that may be red below red. No recursive function occurs in the invariant.
  What an operation does to it is proved on four elementary changes, each for its forest, its ranks,
  its spine and its heights: a rotation (`RotateShape`, `LiftRed`, `LiftBlack`), a node hung at a null
  leaf (`HangShape`, `HangBalanced`), a node with one child at most unlinked (`SpliceShape`,
  `SpliceBalanced`), and a node put into the place of another (`ReplaceShape`, `ReplaceBalanced`), which
  is what `__tree_remove` does with the node after one that has two children. A rotation needs new
  ranks; they double the old ones, so that there is room between two of them. The walks of the code
  (`__tree_min`, `__tree_leaf`, `__tree_next_iter`, the descents of the searches, `destroy()`) are
  functions defined by recursion. `Recursion` proves, from the ranks, that such a function exists, and
  `WalkEnds` where it ends; `LinkedIs` and `CacheNodesIs` follow: what `destroy()` meets is `T`, or
  `C`. That every search, with any hint, ends at a null leaf of the tree (`PlacesAreEmpty`) is proved
  without the order of the keys; only which leaf it is depends on that. The invariant also explains
  `begin` in `remove(iterator)`: by the heights, the first node has a leaf on its right or nothing (`FirstLeaf`).
- *The order of the tree*, in RBTreeOrderProofs. The elements are a sequence built along the walk of an
  iterator, a recursion that says nothing of where in the tree a node is. The proofs therefore go by
  a numbering `g` of the places: `g.pos` counts the nodes of the tree, then the end node, and
  `g.lo` and `g.hi` are the numbers just outside the subtree of a node. `Inorder` says that the bounds
  fit along each link and that no number is missing, which is local to links, so that the elementary
  changes can be followed: a rotation keeps `pos` and moves two bounds (`TurnInorder`), a node hung at
  the leaf behind the number `a` becomes `a + 1` (`HangInorder`, `Opened`), a spliced one leaves a gap
  that is closed (`SpliceInorder`, `Closed`), a replaced one passes on its number
  (`ReplaceInorder`). `__tree_next_iter`, its inverse and `__tree_min` go to the number after, before
  and 1, although they climb (`NextInorder`, `PrevInorder`, `FirstInorder`). `ElementsAre` is the bridge:
  the walk lists the nodes by their numbers.
  `OInv` adds to the invariant that such a numbering exists in which the keys do not decrease, and in a
  set or map increase. It is inductive because of the searches. What a search looks for is closed
  upwards, so it begins after some number (`Splits`); each descent keeps that number between the
  bounds of the node at hand, and ends at the null leaf there (`DescentGap`), or with the first node
  behind it (`BoundIs`, `EqualRangeIs`). With a hint the leaf is before or behind the hint or the
  nearest that is sorted (`BeforeGap`, `BehindGap`, `FindLeafGap`); an insertion that is refused in an
  assignment, or finds its key, hangs nothing. `OrderSteps` sums it up: each step leaves the numbers
  alone, puts one in where the keys allow it, takes one out or clears all. The refinement translates
  that into sequences (`AddedInSequence`, `RemovedFromSequence`, `UnmovedInSequence`), and for
  `InsertedWhereAsked` the number of the leaf is compared with the place that SortedSequence names
  by counting keys (`CountIs`, `WithNearIs`).
- *The composition.* The five systems of MCThreads share `pc`, `late` and the constants only, and `sys`
  never changes; an invariant of one survives the steps of the others because these leave its
  variables alone (`StepsSideBySide` and the lemmas `...Same`). DebugDbProofs is instantiated there,
  with its `Limits` proved from `ThreadsAssumption`, and its lemmas are applied step by step, since the
  hypothesis on the steps is one on the steps of MCThreads there.

`WriterPreference`, `DestroyedByOne`, `NoResurrection` and the `TypeOK` of SharedMutex, SharedCount,
CallOnce and RBTree are proved and not in a run. `InternalChecksHold` is a conjunct of what DebugDbProofs proves of
executions without a stale link, and what two makers violate. The other invariants of the table are both run and proved:
of the runs of section 3 that pass, every safety property of `shared_mutex`, `shared_count`,
`threads`, `call_once` and `future`, and `LinksExact`, `RedBlack`, `SearchExact` and `NodesAccounted` of `containers`. Of the action and
temporal properties every refinement is proved but that of HashTable, and `InsertedWhereAsked`.

Only model-checked:

- all liveness (`GateOpensAgain`, `FreeMutexIsTaken`, `EveryCallEnds`, `EveryWaitEnds`,
  `EveryWaitReturns`), which rests on fairness and on ENABLED and is out of the prover's reach;
- every property of HashTable and the parts of MCLibrary. Most of these modules define what is
  computed by RECURSIVE operators and by folds over sequences, which the prover cannot reason about:
  what such a definition gives for every table or text is an induction over data.

The recursive functions that are proved about are handled by the equation they satisfy. `Walk` of
DebugDb needs no existence proof: a function that satisfies its equation is that function (`WalkIs`).
The walks in a tree are proved to exist (`Recursion`), since without it CHOOSE could give anything.
Facts about all steps of a walk follow from the least step that would break them (`LeastNumber`).

## 6. Not modelled

- Weak memory (section 2.1).
- Values: a promise's result is "a value" or "an error", an element of a tree is a node and a key.
- Failing allocations other than those of DebugDb, IosBase, StrStream and LocaleImp, and exceptions
  of hash and comparison functions in HashTable. In particular `__make_ready_at_thread_exit` pushes
  a state on a list before it adds its reference (`src/thread.cpp:192`); the list's allocation does
  not fail in the model.
- bool, pointers and the format of floating point numbers in num_put and num_get; collate, messages
  and the names of locales.
- `canonical`, `current_path` and `system_complete`; the conversions of paths between character types.
- The build without threads, and the variants for other systems.
- The components of section 1.3, and those of section 1.1 that section 7 plans.

## 7. Plan

Done, in the order of importance: the locks and counts that many programs run concurrently, with
proofs; shared states; the database of debug mode; the tree and the hash table; the parts of the
compiled runtime. What is left:

1. `AtomicSharedPtr`, composed with SharedCount: sixteen mutexes chosen by address, and the old value
   destroyed after the pointers are swapped (`include/memory:5416`); its abstract specification is
   a register. `ThreadExit` with the lists of states and of condition variables
   (`src/thread.cpp:169`); `packaged_task` as a fourth kind of state in Future.
2. Proofs of the hash table: the buckets after every change, with a shape like that of DebugDb in place
   of the recursive walk (`BucketsExact`). Of the parts of MCLibrary those that are systems and not translations: the counted facets of LocaleImp
   (`MemoryOwned`), the arrays of IosBase and the open directories of DirIterator.
3. Exceptions inside `__rehash`; moving and swapping whole trees.
4. `DequeMap` (the map of blocks and the spare blocks at either end, `include/deque:2511`), the
   switching of a file buffer between reading and writing, the sorting networks of algorithm.
5. The remaining cases of num_put and num_get; `canonical` and `current_path`.
