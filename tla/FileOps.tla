-------------------------------- MODULE FileOps --------------------------------
(***************************************************************************)
(* The operations of <experimental/filesystem> that are made of several    *)
(* system calls (src/experimental/filesystem/operations.cpp): copy,        *)
(* copy_file, create_directory, create_directories and remove_all.  Each   *)
(* process runs one of them; every system call is a step, so that another  *)
(* process may change the file system in between, and may fail.            *)
(*                                                                         *)
(* A place, an absolute path, is a sequence of names; fs gives the node at *)
(* each.                                                                   *)
(***************************************************************************)
EXTENDS Integers, Sequences, SequencesExt, FiniteSets

CONSTANTS
  Processes,
  Files,       \* the inodes of regular files
  Scenarios,   \* the file systems at the start, with the calls of the processes
  MaxFaults    \* bound: the system calls that fail

VARIABLES
  fs,          \* the node at each place
  content,     \* the content of each file, and when it was written
  calls,       \* the functions each process is in, the innermost last
  outcome,     \* the error_code of its call, "ok" when it is clear
  value,       \* what remove_all returned
  faults,
  failed,      \* history: the system calls that failed
  removed,     \* history: the places each process removed
  scenario     \* history: how it began

fvars == <<fs, content, calls, outcome, value, faults, failed, removed, scenario>>

Nothing == [kind |-> "not_found"]
Directory == [kind |-> "directory"]
Fifo == [kind |-> "fifo"]
Regular(file) == [kind |-> "regular", file |-> file]
Symlink(to) == [kind |-> "symlink", to |-> to]
Empty == [data |-> 0, time |-> 9]          \* written now, later than all else

-----------------------------------------------------------------------------
(* The system calls.  A walk follows symbolic links; "absent" says that    *)
(* only the last name is missing.                                          *)
Found(err, place) == [err |-> err, place |-> place]
RECURSIVE Walk(_, _, _, _)
Walk(f, done, rest, links) ==
  LET place == Append(done, Head(rest))
      node == IF place \in DOMAIN f THEN f[place] ELSE Nothing
      last == Tail(rest) = <<>>
  IN CASE rest = <<>> -> Found("ok", done)
       [] rest # <<>> /\ place \notin DOMAIN f -> Found("name_too_long", place)
       [] rest # <<>> /\ place \in DOMAIN f ->
            CASE node.kind = "directory" -> Walk(f, place, Tail(rest), links)
              [] node.kind = "symlink" ->
                   IF links = 0 THEN Found("loop", place)
                   ELSE Walk(f, <<>>, node.to \o Tail(rest), links - 1)
              [] node.kind = "not_found" -> Found(IF last THEN "absent" ELSE "no_entry", place)
              [] node.kind \in {"regular", "fifo"} ->
                   Found(IF last THEN "ok" ELSE "not_a_directory", place)
Follow(f, place) == Walk(f, <<>>, place, 2)
(* Without following the last name.                                        *)
Locate(f, place) ==
  LET parent == Follow(f, Front(place))
      here == Append(parent.place, Last(place))
  IN CASE parent.err # "ok" -> Found(IF parent.err = "absent" THEN "no_entry" ELSE parent.err, place)
       [] parent.err = "ok" /\ f[parent.place].kind # "directory" -> Found("not_a_directory", place)
       [] parent.err = "ok" /\ f[parent.place].kind = "directory" ->
            CASE here \notin DOMAIN f -> Found("name_too_long", here)
              [] here \in DOMAIN f /\ f[here] = Nothing -> Found("absent", here)
              [] here \in DOMAIN f /\ f[here] # Nothing -> Found("ok", here)

NotFound == {"absent", "no_entry", "not_a_directory"}
(* posix_stat and posix_lstat with create_file_status: the error, and the  *)
(* node as far as the status is known.                                     *)
Status(f, found) ==
  [err |-> found.err, place |-> found.place,
   node |-> IF found.err = "ok" THEN f[found.place] ELSE Nothing]
Stat(f, place) == Status(f, Follow(f, place))
LStat(f, place) == Status(f, Locate(f, place))
Known(st) == st.err \in NotFound \cup {"ok"}
StatEquivalent(st1, st2) ==
  /\ st1.err = "ok" /\ st2.err = "ok"
  /\ \/ st1.place = st2.place
     \/ st1.node.kind = "regular" /\ st1.node = st2.node

Children(f, place) == {n \in {Last(q) : q \in DOMAIN f \ {<<>>}} :
  Append(place, n) \in DOMAIN f /\ f[Append(place, n)] # Nothing}

-----------------------------------------------------------------------------
(* The frame of a call: its function, the next system call, its arguments, *)
(* the names its directory_iterator has not come to, the status of p, and  *)
(* the count of remove_all.                                                *)
NoStatus == Status(<<>>, Found("absent", <<>>))
Frame(op, at, p, q, options) ==
  [op |-> op, at |-> at, p |-> p, q |-> q, options |-> options,
   left |-> {}, st |-> NoStatus, count |-> 1]
Copy(from, to, options) == Frame("copy", "from", from, to, options)
CopyFile(from, to, options) == Frame("copy_file", "from", from, to, options)
CreateDirectories(p) == Frame("create_directories", "stat", p, p, {})
CreateDirectory(p) == Frame("create_directory", "mkdir", p, p, {})
CreateDirectoryLike(p, attributes) == Frame("create_directory", "attributes", p, attributes, {})
RemoveAll(p) == Frame("remove_all", "lstat", p, p, {})

Top(c) == Last(calls[c])
At(c, op, at) == calls[c] # <<>> /\ Top(c).op = op /\ Top(c).at = at

(* When a call returns, its caller returns the error as well or goes on.   *)
Resumed(caller, callee) ==
  IF caller.op = "remove_all" THEN [caller EXCEPT !.count = @ + callee.count] ELSE caller
RECURSIVE Returned(_, _)
Returned(st, err) ==
  LET callers == Front(st)
  IN CASE callers = <<>> -> [stack |-> <<>>, outcome |-> err]
       [] callers # <<>> /\ err # "ok" -> Returned(callers, err)
       [] callers # <<>> /\ err = "ok" ->
            [stack |-> Append(Front(callers), Resumed(Last(callers), Last(st))),
             outcome |-> "running"]

KeepFiles == UNCHANGED <<fs, content, removed>>
KeepHistory == UNCHANGED <<faults, failed, scenario>>
Return(c, err) ==
  LET r == Returned(calls[c], err)
  IN /\ calls' = [calls EXCEPT ![c] = r.stack]
     /\ outcome' = [outcome EXCEPT ![c] = r.outcome]
     /\ value' = [value EXCEPT ![c] = IF r.stack # <<>> THEN @
                                       ELSE IF err = "ok" THEN Top(c).count ELSE -1]
Become(c, frame) ==
  /\ calls' = [calls EXCEPT ![c] = Append(Front(@), frame)]
  /\ UNCHANGED <<outcome, value>>
GoTo(c, at) == Become(c, [Top(c) EXCEPT !.at = at])
CallThen(c, at, callee) ==
  /\ calls' = [calls EXCEPT ![c] = Append(Append(Front(@), [Top(c) EXCEPT !.at = at]), callee)]
  /\ UNCHANGED <<outcome, value>>

-----------------------------------------------------------------------------
(* __copy                                                                  *)
SymStatus(options) == options \cap {"create_symlinks", "skip_symlinks"} # {}
CopyStatus(f, place, options) ==
  IF SymStatus(options) \/ "copy_symlinks" \in options THEN LStat(f, place) ELSE Stat(f, place)

CopyFrom(c) ==
  LET st == CopyStatus(fs, Top(c).p, Top(c).options)
  IN /\ At(c, "copy", "from")
     /\ IF st.err # "ok" THEN Return(c, st.err)
        ELSE Become(c, [Top(c) EXCEPT !.at = "to", !.st = st])
     /\ KeepFiles /\ KeepHistory

Refused(f, t) ==
  \/ f.node.kind = "fifo" \/ t.node.kind = "fifo"
  \/ f.node.kind = "directory" /\ t.node.kind = "regular"
  \/ StatEquivalent(f, t)

(* Mutant: skip_symlinks is looked at only when the target exists.         *)
CopyASymlinkAnyway(c, t) ==
  CASE t.node = Nothing -> GoTo(c, "readlink")
    [] t.node # Nothing -> Return(c, IF "skip_symlinks" \in Top(c).options THEN "ok" ELSE "file_exists")
CopyASymlink(c, t) ==
  CASE "skip_symlinks" \in Top(c).options -> Return(c, "ok")
    [] "skip_symlinks" \notin Top(c).options ->
         IF t.node = Nothing THEN GoTo(c, "readlink") ELSE Return(c, "file_exists")
CopyARegularFile(c, t) ==
  LET options == Top(c).options
      from == Top(c).p
      to == Top(c).q
  IN IF "directories_only" \in options THEN Return(c, "ok")
     ELSE IF "create_symlinks" \in options THEN GoTo(c, "symlink")
     ELSE IF "create_hard_links" \in options THEN GoTo(c, "link")
     ELSE IF t.node.kind = "directory" THEN Become(c, CopyFile(from, Append(to, Last(from)), options))
     ELSE Become(c, CopyFile(from, to, options))
CopyADirectory(c, t) ==
  LET options == Top(c).options
  IN IF "create_symlinks" \in options THEN Return(c, "is_a_directory")
     ELSE IF "recursive" \notin options /\ options # {} THEN Return(c, "ok")
     ELSE IF t.node = Nothing THEN CallThen(c, "open", CreateDirectoryLike(Top(c).q, Top(c).p))
     ELSE GoTo(c, "open")

CopyTo(c) ==
  LET f == Top(c).st
      t == IF SymStatus(Top(c).options) THEN LStat(fs, Top(c).q) ELSE Stat(fs, Top(c).q)
  IN /\ At(c, "copy", "to")
     /\ CASE ~Known(t) -> Return(c, t.err)
          [] Known(t) /\ Refused(f, t) -> Return(c, "function_not_supported")
          [] Known(t) /\ ~Refused(f, t) ->
               CASE f.node.kind = "symlink" -> CopyASymlink(c, t)
                 [] f.node.kind = "regular" -> CopyARegularFile(c, t)
                 [] f.node.kind = "directory" -> CopyADirectory(c, t)
     /\ KeepFiles /\ KeepHistory

(* __copy_symlink: the target of the link takes the place of p.            *)
ReadSymlink(c) ==
  LET st == LStat(fs, Top(c).p)
  IN /\ At(c, "copy", "readlink")
     /\ IF st.node.kind # "symlink" THEN Return(c, "invalid_argument")
        ELSE Become(c, [Top(c) EXCEPT !.at = "symlink", !.p = st.node.to])
     /\ KeepFiles /\ KeepHistory

(* __create_symlink and __create_hard_link at q.                           *)
Create(c, at, node) ==
  LET there == Locate(fs, Top(c).q)
  IN /\ At(c, "copy", at)
     /\ IF there.err = "absent" /\ node # Nothing
        THEN fs' = [fs EXCEPT ![there.place] = node] /\ Return(c, "ok")
        ELSE UNCHANGED fs /\ Return(c, IF there.err = "ok" THEN "file_exists" ELSE "no_entry")
     /\ UNCHANGED <<content, removed>> /\ KeepHistory
CreateSymlink(c) == calls[c] # <<>> /\ Create(c, "symlink", Symlink(Top(c).p))
CreateHardLink(c) == calls[c] # <<>> /\ Create(c, "link", LStat(fs, Top(c).p).node)

(* The directory_iterator of __copy and of remove_all_impl: opendir, and   *)
(* the names in any order.                                                 *)
Open(c) ==
  LET st == Stat(fs, Top(c).p)
  IN /\ At(c, "copy", "open") \/ At(c, "remove_all", "open")
     /\ IF st.node.kind # "directory"
        THEN Return(c, IF st.err = "ok" THEN "not_a_directory" ELSE st.err)
        ELSE Become(c, [Top(c) EXCEPT !.at = "next", !.left = Children(fs, st.place)])
     /\ KeepFiles /\ KeepHistory
CopyNext(c) ==
  /\ At(c, "copy", "next")
  /\ \/ Top(c).left = {} /\ Return(c, "ok")
     \/ \E n \in Top(c).left :
          /\ calls' = [calls EXCEPT ![c] =
               Append(Append(Front(@), [Top(c) EXCEPT !.left = @ \ {n}, !.count = @ + 1]),
                      Copy(Append(Top(c).p, n), Append(Top(c).q, n),
                           Top(c).options \cup {"__in_recursive_copy"}))]
          /\ UNCHANGED <<outcome, value>>
  /\ KeepFiles /\ KeepHistory

-----------------------------------------------------------------------------
(* __copy_file                                                             *)
CopyFileFrom(c) ==
  LET st == Stat(fs, Top(c).p)
  IN /\ At(c, "copy_file", "from")
     /\ IF st.node.kind # "regular" THEN Return(c, IF st.err = "ok" THEN "not_supported" ELSE st.err)
        ELSE GoTo(c, "to")
     /\ KeepFiles /\ KeepHistory
CopyFileTo(c) ==
  LET st == Stat(fs, Top(c).q)
      options == Top(c).options
  IN /\ At(c, "copy_file", "to")
     /\ CASE ~Known(st) -> Return(c, st.err)
          [] Known(st) /\ st.node = Nothing -> GoTo(c, "open")
          [] Known(st) /\ st.node # Nothing ->
               IF st.node.kind # "regular" THEN Return(c, "not_supported")
               ELSE IF "skip_existing" \in options THEN Return(c, "ok")
               ELSE IF "update_existing" \in options THEN GoTo(c, "from_time")
               ELSE IF "overwrite_existing" \in options THEN GoTo(c, "open")
               ELSE Return(c, "file_exists")
     /\ KeepFiles /\ KeepHistory
TimeOf(st) == IF st.node.kind = "regular" THEN content[st.node.file].time ELSE 0
(* __last_write_time of both: only what was written later is copied.       *)
FromTime(c) ==
  LET st == Stat(fs, Top(c).p)
  IN /\ At(c, "copy_file", "from_time")
     /\ IF st.err # "ok" THEN Return(c, st.err)
        ELSE Become(c, [Top(c) EXCEPT !.at = "to_time", !.count = TimeOf(st)])
     /\ KeepFiles /\ KeepHistory
ToTime(c) ==
  LET st == Stat(fs, Top(c).q)
  IN /\ At(c, "copy_file", "to_time")
     /\ IF st.err # "ok" THEN Return(c, st.err)
        ELSE IF Top(c).count <= TimeOf(st) THEN Return(c, "ok")
        ELSE GoTo(c, "open")
     /\ KeepFiles /\ KeepHistory

(* copy_file_impl: the ifstream of p; the ofstream of q, which empties or  *)
(* creates the file whether or not p could be opened; then the characters; *)
(* then the permissions.  A file that is open lives on without a name.     *)
InOpen == {c \in Processes : calls[c] # <<>> /\ Top(c).op = "copy_file" /\ Top(c).st # NoStatus}
OutOpen == {c \in Processes : At(c, "copy_file", "write")}
Unused(f) ==
  Files \ ({f[q].file : q \in {r \in DOMAIN f : f[r].kind = "regular"}}
           \cup {Top(c).st.node.file : c \in InOpen} \cup {Top(c).count : c \in OutOpen})
OpenSource(c) ==
  LET in == Stat(fs, Top(c).p)
  IN /\ At(c, "copy_file", "open")
     /\ Become(c, [Top(c) EXCEPT !.at = "open_target",
                     !.st = IF in.node.kind = "regular" THEN in ELSE NoStatus])
     /\ KeepFiles /\ KeepHistory
OpenTarget(c) ==
  LET out == Follow(fs, Top(c).q)
      file == IF out.err = "ok" THEN fs[out.place].file ELSE CHOOSE i \in Unused(fs) : TRUE
  IN /\ At(c, "copy_file", "open_target")
     /\ IF out.err \in {"ok", "absent"} /\ (out.err = "ok" => fs[out.place].kind = "regular")
        THEN /\ fs' = [fs EXCEPT ![out.place] = Regular(file)]
             /\ content' = [content EXCEPT ![file] = Empty]
             /\ IF Top(c).st # NoStatus
                THEN Become(c, [Top(c) EXCEPT !.at = "write", !.count = file])
                ELSE Return(c, "operation_not_permitted")
        ELSE Return(c, "operation_not_permitted") /\ UNCHANGED <<fs, content>>
     /\ UNCHANGED removed /\ KeepHistory
Write(c) ==
  /\ At(c, "copy_file", "write")
  /\ content' = [content EXCEPT ![Top(c).count].data = content[Top(c).st.node.file].data]
  /\ GoTo(c, "permissions")
  /\ UNCHANGED <<fs, removed>> /\ KeepHistory
Permissions(c) ==
  LET st == Stat(fs, Top(c).q)
  IN /\ At(c, "copy_file", "permissions")
     /\ Return(c, st.err)
     /\ KeepFiles /\ KeepHistory

-----------------------------------------------------------------------------
(* __create_directories: the parents first.                                *)
StatDirectories(c) ==
  LET st == Stat(fs, Top(c).p)
  IN /\ At(c, "create_directories", "stat")
     /\ CASE ~Known(st) -> Return(c, st.err)
          [] Known(st) /\ st.node.kind = "directory" -> Return(c, "ok")
          [] Known(st) /\ st.node.kind \notin {"directory", "not_found"} -> Return(c, "file_exists")
          [] Known(st) /\ st.node = Nothing ->
               GoTo(c, "parent")
     /\ KeepFiles /\ KeepHistory
Parent(c) ==
  LET st == Stat(fs, Front(Top(c).p))
  IN /\ At(c, "create_directories", "parent")
     /\ IF ~Known(st) THEN Return(c, st.err)
        ELSE IF st.node = Nothing THEN CallThen(c, "mkdir", CreateDirectories(Front(Top(c).p)))
        ELSE GoTo(c, "mkdir")
     /\ KeepFiles /\ KeepHistory

(* __create_directory, with the attributes of another directory or without:*)
(* a directory that is there already is as good as a new one.              *)
Attributes(c) ==
  LET st == Stat(fs, Top(c).q)
  IN /\ At(c, "create_directory", "attributes")
     /\ IF ~Known(st) THEN Return(c, st.err) ELSE GoTo(c, "mkdir")
     /\ KeepFiles /\ KeepHistory
(* Mutant: a directory that another process made is an error.              *)
MkdirOnce(c) ==
  LET there == Locate(fs, Top(c).p)
  IN /\ At(c, "create_directory", "mkdir") \/ At(c, "create_directories", "mkdir")
     /\ IF there.err = "absent"
        THEN fs' = [fs EXCEPT ![there.place] = Directory] /\ Return(c, "ok")
        ELSE UNCHANGED fs /\ Return(c, IF there.err = "ok" THEN "file_exists" ELSE there.err)
     /\ UNCHANGED <<content, removed>> /\ KeepHistory
Mkdir(c) ==
  LET there == Locate(fs, Top(c).p)
  IN /\ At(c, "create_directory", "mkdir") \/ At(c, "create_directories", "mkdir")
     /\ CASE there.err = "absent" ->
               fs' = [fs EXCEPT ![there.place] = Directory] /\ Return(c, "ok")
          [] there.err = "ok" -> GoTo(c, "is_directory") /\ UNCHANGED fs
          [] there.err \notin {"ok", "absent"} -> Return(c, there.err) /\ UNCHANGED fs
     /\ UNCHANGED <<content, removed>> /\ KeepHistory
(* is_directory(p) has no error_code to give its error to: it throws.      *)
Throws(c) ==
  /\ calls' = [calls EXCEPT ![c] = <<>>]
  /\ outcome' = [outcome EXCEPT ![c] = "throws"]
  /\ UNCHANGED value
IsDirectory(c) ==
  LET st == Stat(fs, Top(c).p)
  IN /\ At(c, "create_directory", "is_directory") \/ At(c, "create_directories", "is_directory")
     /\ IF ~Known(st) THEN Throws(c)
        ELSE Return(c, IF st.node.kind = "directory" THEN "ok"
                       ELSE IF st.err = "ok" THEN "file_exists" ELSE st.err)
     /\ KeepFiles /\ KeepHistory

-----------------------------------------------------------------------------
(* remove_all_impl                                                         *)
SymlinkStatus(c) ==
  LET st == LStat(fs, Top(c).p)
  IN /\ At(c, "remove_all", "lstat")
     /\ IF st.err # "ok" THEN Return(c, st.err)
        ELSE GoTo(c, IF st.node.kind = "directory" THEN "open" ELSE "remove")
     /\ KeepFiles /\ KeepHistory
RemoveNext(c) ==
  /\ At(c, "remove_all", "next")
  /\ \/ Top(c).left = {} /\ GoTo(c, "remove")
     \/ \E n \in Top(c).left :
          /\ calls' = [calls EXCEPT ![c] =
               Append(Append(Front(@), [Top(c) EXCEPT !.left = @ \ {n}]),
                      RemoveAll(Append(Top(c).p, n)))]
          /\ UNCHANGED <<outcome, value>>
  /\ KeepFiles /\ KeepHistory
RemoveEntry(c) ==
  LET there == Locate(fs, Top(c).p)
  IN /\ At(c, "remove_all", "remove")
     /\ IF there.err = "ok" /\ Children(fs, there.place) = {}
        THEN /\ fs' = [fs EXCEPT ![there.place] = Nothing]
             /\ removed' = [removed EXCEPT ![c] = @ \cup {there.place}]
             /\ Return(c, "ok")
        ELSE /\ UNCHANGED <<fs, removed>>
             /\ Return(c, IF there.err = "ok" THEN "directory_not_empty" ELSE "no_entry")
     /\ UNCHANGED content /\ KeepHistory

-----------------------------------------------------------------------------
(* A system call fails.  That of increment() in __copy leaves the end      *)
(* iterator, and the loop ends before it looks at m_ec2.  The iterators    *)
(* that copy the characters of a file stop at an error and leave the two   *)
(* streams good.  One that is not opened does not keep the other from it.  *)
(* is_directory throws.                                                    *)
Ignored(c) == (At(c, "copy", "next") /\ Top(c).count > 1) \/ At(c, "copy_file", "write")
Fault(c) ==
  /\ calls[c] # <<>>
  /\ faults < MaxFaults
  /\ faults' = faults + 1
  /\ failed' = [failed EXCEPT ![c] = @ \cup {IF Ignored(c) THEN "ignored" ELSE Top(c).at}]
Fails(c) ==
  /\ Fault(c)
  /\ CASE At(c, "copy_file", "open") -> GoTo(c, "open_target")
       [] At(c, "copy_file", "open_target") -> Return(c, "operation_not_permitted")
       [] At(c, "copy_file", "write") -> GoTo(c, "permissions")
       [] At(c, "copy", "next") /\ Ignored(c) -> Return(c, "ok")
       [] Top(c).at = "is_directory" -> Throws(c)
       [] OTHER -> Return(c, "io_error")
  /\ UNCHANGED <<fs, content, removed, scenario>>

Step(c) ==
  \/ CopyFrom(c) \/ CopyTo(c) \/ ReadSymlink(c) \/ CreateSymlink(c) \/ CreateHardLink(c)
  \/ Open(c) \/ CopyNext(c)
  \/ CopyFileFrom(c) \/ CopyFileTo(c) \/ FromTime(c) \/ ToTime(c)
  \/ OpenSource(c) \/ OpenTarget(c) \/ Write(c) \/ Permissions(c)
  \/ StatDirectories(c) \/ Parent(c) \/ Attributes(c) \/ Mkdir(c) \/ IsDirectory(c)
  \/ SymlinkStatus(c) \/ RemoveNext(c) \/ RemoveEntry(c)
  \/ Fails(c)

Init ==
  /\ scenario \in Scenarios
  /\ fs = scenario.fs
  /\ content = scenario.content
  /\ calls = [c \in Processes |-> scenario.calls[c]]
  /\ outcome = [c \in Processes |-> IF calls[c] = <<>> THEN "idle" ELSE "running"]
  /\ value = [c \in Processes |-> 0]
  /\ faults = 0
  /\ failed = [c \in Processes |-> {}]
  /\ removed = [c \in Processes |-> {}]

Next == \E c \in Processes : Step(c)

Spec == Init /\ [][Next]_fvars
-----------------------------------------------------------------------------
(* A call says that it succeeded only if none of its system calls failed,  *)
(* but for those that the code does not look at.                           *)
ErrorsReported ==
  \A c \in Processes : outcome[c] = "ok" => failed[c] \subseteq {"ignored"}

Program(c) == scenario.calls[c][1]
Alone(c) == \A d \in Processes \ {c} : scenario.calls[d] = <<>>
Doing(op) == {c \in Processes : scenario.calls[c] # <<>> /\ Program(c).op = op}
(* Another process removes the file that is copied, and nothing else.      *)
LosesItsSource(c) ==
  /\ scenario.fs[Program(c).p].kind = "regular"
  /\ \A d \in Processes \ {c} :
       scenario.calls[d] # <<>> => Program(d).op = "remove_all" /\ Program(d).p = Program(c).p
(* copy() refuses two names of one file, but copy_file(), which it calls   *)
(* for the name in the directory it copies to, does not look: the ofstream *)
(* empties what is to be copied.                                           *)
OntoItself(c) ==
  LET from == Program(c).p
      old == scenario.fs
  IN /\ "overwrite_existing" \in Program(c).options
     /\ Stat(old, Program(c).q).node.kind = "directory"
     /\ StatEquivalent(Stat(old, from), Stat(old, Append(Program(c).q, Last(from))))
Undisturbed(c) ==
  outcome[c] = "ok" /\ faults = 0 /\ ~OntoItself(c) /\ (Alone(c) \/ LosesItsSource(c))

(* The names at and below the source, and those that a copy comes to.      *)
SourceNames(c) == {SubSeq(q, 2, Len(q)) : q \in {r \in DOMAIN fs : r # <<>> /\ <<r[1]>> = Program(c).p}}
CopiedNames(c) ==
  LET options == Program(c).options
  IN {q \in SourceNames(c) : Len(q) <= (IF options = {} THEN 1 ELSE 0) \/ "recursive" \in options}
(* What copy() promises of the entry q of its source: see [fs.op.copy].    *)
CopiedAs(c, q) ==
  LET options == Program(c).options
      old == scenario.fs
      f == CopyStatus(old, Program(c).p \o q, options)
      to == Program(c).q \o q
      into == f.node.kind = "regular" /\ Stat(old, to).node.kind = "directory"
      place == IF into THEN Append(to, Last(Program(c).p \o q)) ELSE to
      before == Stat(old, place)
      same == Stat(fs, place).node = before.node /\ (before.node.kind = "regular" =>
                content[before.node.file] = scenario.content[before.node.file])
      equal == /\ Stat(fs, place).node.kind = "regular"
               /\ content[Stat(fs, place).node.file].data = scenario.content[f.node.file].data
      newer == scenario.content[f.node.file].time > scenario.content[before.node.file].time
  IN CASE f.err # "ok" -> TRUE
       [] f.err = "ok" /\ f.node.kind = "directory" ->
            \/ Stat(fs, place).node.kind = "directory"
            \/ "recursive" \notin options /\ (options # {} \/ q # <<>>)
            \/ SymStatus(options) /\ LStat(old, place).node.kind = "symlink"
       [] f.err = "ok" /\ f.node.kind = "symlink" ->
            IF "skip_symlinks" \in options THEN same ELSE LStat(fs, place).node = f.node
       [] f.err = "ok" /\ f.node.kind = "regular" ->
            IF "directories_only" \in options THEN same
            ELSE IF "create_symlinks" \in options THEN Stat(fs, place).node = f.node /\ LStat(fs, place).node.kind = "symlink"
            ELSE IF "create_hard_links" \in options THEN LStat(fs, place).node = LStat(old, Program(c).p \o q).node
            ELSE IF before.err # "ok" THEN equal
            ELSE IF "skip_existing" \in options THEN same
            ELSE IF "update_existing" \in options /\ ~newer THEN same
            ELSE equal

(* copy() that succeeds undisturbed has copied what its options say, and   *)
(* nothing else; a file also if it is removed between any two of its       *)
(* system calls.  A file that is copied over itself is lost.               *)
CopyExact ==
  \A c \in Doing("copy") : Undisturbed(c) =>
    /\ \A q \in CopiedNames(c) : CopiedAs(c, q)
    /\ \A q \in SourceNames(c) \ CopiedNames(c) :
         LET place == Program(c).q \o q IN place \in DOMAIN fs => fs[place] = scenario.fs[place]

(* copy() never changes what it copies, but for that one case.             *)
SourceKept ==
  \A c \in Doing("copy") : Alone(c) /\ ~OntoItself(c) =>
    \A q \in DOMAIN fs : IsPrefix(Program(c).p, q) =>
      /\ fs[q] = scenario.fs[q]
      /\ fs[q].kind = "regular" => content[fs[q].file] = scenario.content[fs[q].file]

(* Processes that create directories on each other's way all succeed: a    *)
(* call reports an error only if something else is in the way.             *)
DirectoriesMade ==
  (\A c \in Processes : scenario.calls[c] # <<>> => c \in Doing("create_directories")) =>
    \A c \in Doing("create_directories") :
      /\ outcome[c] = "ok" => Stat(fs, Program(c).p).node.kind = "directory"
      /\ outcome[c] \notin {"ok", "running"} =>
           faults > 0 \/ \E q \in DOMAIN fs :
                           IsPrefix(q, Program(c).p) /\ fs[q].kind \notin {"directory", "not_found"}

(* remove_all() removes nothing but what is below its argument, not what   *)
(* symbolic links lead to; if it succeeds nothing is left, and it returns  *)
(* how many it has removed.                                                *)
RemovedExact ==
  \A c \in Doing("remove_all") :
    /\ \A q \in removed[c] : IsPrefix(Locate(scenario.fs, Program(c).p).place, q)
    /\ outcome[c] = "ok" =>
         /\ value[c] = Cardinality(removed[c])
         /\ \/ LStat(fs, Program(c).p).node = Nothing
            \/ Doing("create_directories") # {}
            \/ \E d \in Doing("copy") : Program(d).q = Program(c).p

ReportsTheOutcome ==
  ErrorsReported /\ CopyExact /\ SourceKept /\ DirectoriesMade /\ RemovedExact
==============================================================================
