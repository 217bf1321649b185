------------------------------ MODULE DirIterator ------------------------------
(***************************************************************************)
(* recursive_directory_iterator (src/experimental/filesystem/              *)
(* directory_iterator.cpp): a stack of open directories.  Every system     *)
(* call may fail, a directory may not be readable, and a symbolic link may *)
(* lead to a directory.  The error_code and the throwing forms differ in   *)
(* the way the error is handed over only.                                  *)
(***************************************************************************)
EXTENDS Integers, Sequences, SequencesExt, FiniteSets

CONSTANTS
  Trees,       \* the directories there are to read, made of the nodes below
  MaxFaults    \* bound: the system calls that fail

VARIABLES
  tree,
  options,     \* of "follow_directory_symlink" and "skip_permission_denied"
  stack,       \* __imp_->__stack_; empty when __imp_ is null
  rec,         \* __rec_
  error,       \* what the last call reported
  faults,
  seen,        \* history: the entries the iterator has stood at
  steps,       \* history: how often it has come to stand at one
  cut          \* history: the directories the program left or did not enter

dvars == <<tree, options, stack, rec, error, faults, seen, steps, cut>>

None == "none"
File == [kind |-> "file"]
Directory(entries) == [kind |-> "directory", entries |-> entries, readable |-> TRUE]
Denied == [kind |-> "directory", entries |-> <<>>, readable |-> FALSE]
Link(to) == [kind |-> "symlink", to |-> to]
Target(node) == IF node.kind = "symlink" THEN node.to ELSE node
(* Whether status(), or symlink_status(), says that it is a directory.     *)
IsDirectory(node, opts) ==
  IF "follow_directory_symlink" \in opts THEN Target(node).kind = "directory"
  ELSE node.kind = "directory"

(* A __dir_stream: the entry it stands at, and the names readdir has not   *)
(* given yet; it gives them in any order.                                  *)
Entered(s, name) == [s EXCEPT !.entry = name, !.left = @ \ {name}]
EntryNode(s) == s.entries[s.entry]
PathOf(st) == [i \in DOMAIN st |-> st[i].entry]

(* __advance: the outcomes of reading on in the directory at the top and,  *)
(* when that has come to its end, in the one below.                        *)
Outcome(st, err) == [stack |-> st, error |-> err]
Fails(outcome) == IF faults < MaxFaults THEN {outcome} ELSE {}
(* Mutant: only one directory can end.                                     *)
AdvancedOnce(st) ==
  IF st = <<>> THEN {Outcome(<<>>, None)}
  ELSE {Outcome(Append(Front(st), Entered(Last(st), n)), None) : n \in Last(st).left}
       \cup (IF Last(st).left = {} THEN {Outcome(Front(st), None)} ELSE {})
RECURSIVE Advanced(_)
Advanced(st) ==
  IF st = <<>> THEN {Outcome(<<>>, None)}
  ELSE {Outcome(Append(Front(st), Entered(Last(st), n)), None) : n \in Last(st).left}
       \cup (IF Last(st).left = {} THEN Advanced(Front(st)) ELSE {})
       \cup Fails(Outcome(<<>>, "io"))

(* The constructor of __dir_stream: opendir, where a permission error may  *)
(* be forgiven, and the first readdir.  The stream is a sequence of one    *)
(* if it is good(), and empty if it is not.                                *)
Opened(node, opts) ==
  LET directory == Target(node)
      names == DOMAIN directory.entries
      fresh == [entries |-> directory.entries, entry |-> None, left |-> names]
      forgiven == "skip_permission_denied" \in opts
  IN (CASE ~directory.readable -> {Outcome(<<>>, IF forgiven THEN None ELSE "denied")}
        [] directory.readable /\ names = {} -> {Outcome(<<>>, None)}
        [] directory.readable /\ names # {} -> {Outcome(<<Entered(fresh, n)>>, None) : n \in names})
     \cup Fails(Outcome(<<>>, "io"))
-----------------------------------------------------------------------------
Init ==
  /\ tree \in Trees
  /\ options \in SUBSET {"follow_directory_symlink", "skip_permission_denied"}
  /\ stack = <<>> /\ rec = TRUE /\ error = "not begun"
  /\ faults = 0
  /\ seen = {} /\ steps = 0 /\ cut = {}

(* What a call leaves: the iterator stands at the entry of the top of the  *)
(* stack, or is the end iterator.                                          *)
Stands(o) ==
  /\ stack' = o.stack
  /\ error' = o.error
  /\ faults' = IF o.error = "io" THEN faults + 1 ELSE faults
  /\ seen' = IF o.stack = <<>> THEN seen ELSE seen \cup {PathOf(o.stack)}
  /\ steps' = IF o.stack = <<>> THEN steps ELSE steps + 1

Construct ==
  /\ error = "not begun"
  /\ \E o \in Opened(tree, options) : Stands(o)
  /\ UNCHANGED <<tree, options, rec, cut>>

(* __try_recursion: an error of the status or of opendir ends everything;  *)
(* a directory that is empty, or may not be read, is passed over.          *)
Entering ==
  LET node == EntryNode(Last(stack))
  IN (IF rec /\ IsDirectory(node, options)
      THEN {Outcome(IF o.error = None THEN stack \o o.stack ELSE <<>>, o.error) :
              o \in Opened(node, options)}
      ELSE {Outcome(stack, None)})
     \cup (IF rec THEN Fails(Outcome(<<>>, "io")) ELSE {})

Increment ==
  /\ stack # <<>>
  /\ \E o \in Entering :
       IF o.stack = stack THEN \E a \in Advanced(stack) : Stands(a) ELSE Stands(o)
  /\ rec' = TRUE
  /\ cut' = IF rec THEN cut ELSE cut \cup {PathOf(stack)}
  /\ UNCHANGED <<tree, options>>

Pop ==
  /\ stack # <<>>
  /\ \E a \in Advanced(Front(stack)) : Stands(a)
  /\ cut' = cut \cup {PathOf(Front(stack))}
  /\ UNCHANGED <<tree, options, rec>>

DisableRecursionPending ==
  /\ stack # <<>> /\ rec
  /\ rec' = FALSE
  /\ UNCHANGED <<tree, options, stack, error, faults, seen, steps, cut>>

Next == Construct \/ Increment \/ Pop \/ DisableRecursionPending

Spec == Init /\ [][Next]_dvars
-----------------------------------------------------------------------------
(* The entries below node that the options let the iterator come to.       *)
RECURSIVE Below(_)
Below(node) ==
  LET entries == Target(node).entries
      entered(n) == IsDirectory(entries[n], options)
  IN {<<n>> : n \in DOMAIN entries}
     \cup UNION {{<<n>> \o q : q \in Below(entries[n])} : n \in {m \in DOMAIN entries : entered(m)}}

(* The iterator comes to every entry, and to none twice, but for those in  *)
(* directories the program left; only a failure that the options do not    *)
(* forgive makes it the end iterator early.                                *)
VisitsExact ==
  /\ seen \subseteq Below(tree)
  /\ steps = Cardinality(seen)
  /\ stack = <<>> /\ error = None =>
       \A q \in Below(tree) : q \in seen \/ \E c \in cut : IsStrictPrefix(c, q)
  /\ error = "denied" => "skip_permission_denied" \notin options
  /\ error \notin {None, "not begun"} => stack = <<>>
==============================================================================
