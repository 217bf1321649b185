------------------------------- MODULE FileAttrs -------------------------------
(***************************************************************************)
(* The operations of <experimental/filesystem> on one entry and what is    *)
(* known of it (src/experimental/filesystem/operations.cpp): its times,    *)
(* permissions, size and links, the room on its file system, and the       *)
(* directory for temporary files.  A program calls one after the other;    *)
(* other programs set times that a file_time_type may not be able to hold. *)
(*                                                                         *)
(* A second has Micros ticks of file_time_type and a tick has Nanos ticks  *)
(* of timespec.                                                            *)
(***************************************************************************)
EXTENDS Integers, Sequences, FiniteSets

CONSTANTS
  Micros, Nanos,
  TimeMin, TimeMax,      \* the limits of file_time_type, in its ticks
  TimeTMin, TimeTMax,    \* the limits of time_t, in seconds
  UintmaxBits,
  Disks,                 \* the file systems at the start
  Instants,              \* the times other programs set: [sec, nsec]
  Modes, Sizes,          \* the permissions and sizes asked for
  BlockSizes, BlockCounts,
  Environments,          \* what TMPDIR, TMP, TEMP and TEMPDIR are
  MaxChanges,            \* bound: the calls that change something come first,
  MaxAttrCalls           \* bound: and these are all

VARIABLES
  disk,                  \* the entry of each name, the inodes, and the room left
  report                 \* the last call, its answer, the disk before, and the times set

avars == <<disk, report>>

Names == DOMAIN disk.names
Nothing == [kind |-> "not_found"]
Regular(i) == [kind |-> "regular", ino |-> i]
Directory(i) == [kind |-> "directory", ino |-> i]
Fifo(i) == [kind |-> "fifo", ino |-> i]
Symlink(to) == [kind |-> "symlink", to |-> to]

-----------------------------------------------------------------------------
(* The system calls find an entry, following two symbolic links at most.   *)
Next1(p) == IF disk.names[p].kind = "symlink" THEN disk.names[p].to ELSE p
Follow(p) == Next1(Next1(p))

(* posix_stat and posix_lstat with create_file_status.                     *)
Status(q) ==
  [node |-> disk.names[q],
   err |-> CASE disk.names[q].kind = "not_found" -> "no_entry"
             [] disk.names[q].kind = "symlink" -> "loop"
             [] OTHER -> "ok"]
Stat(p) == Status(Follow(p))
LStat(p) == IF disk.names[p].kind = "symlink" THEN [node |-> disk.names[p], err |-> "ok"] ELSE Status(p)
Known(st) == st.err # "loop"
Exists(st) == st.err = "ok"
Inode(st) == disk.inodes[st.node.ino]

(* How a call ends: set_or_throw stores its error, or the error is cleared.*)
Ends(op, p, args, ec, value, after) ==
  /\ report.calls < MaxAttrCalls
  /\ disk' = after
  /\ report' = [op |-> op, p |-> p, args |-> args, ec |-> ec, value |-> value, was |-> disk,
                asked |-> report.asked, calls |-> report.calls + 1]
Fails(op, p, args, err, value) == Ends(op, p, args, err, value, disk)
Answers(op, p, args, value) == Ends(op, p, args, "ok", value, disk)
Changed(st, field, value) == [disk EXCEPT !.inodes[st.node.ino][field] = value]
AsksFor(op, p, args, value) ==
  LET st == Stat(p)
  IN IF st.err # "ok" THEN Fails(op, p, args, st.err, -1) ELSE Answers(op, p, args, value)

-----------------------------------------------------------------------------
(* fs_time_util                                                            *)
DurationCast(ticks, many) == IF ticks >= 0 THEN ticks \div many ELSE -((-ticks) \div many)
Second == Micros * Nanos

max_seconds == DurationCast(TimeMax, Micros)
max_nsec == (TimeMax - max_seconds * Micros) * Nanos
min_seconds == DurationCast(TimeMin, Micros)
min_nsec_timespec == (TimeMin - min_seconds * Micros) * Nanos + Second

NotAfterMax(tm) ==
  tm.sec >= 0 /\ (tm.sec < max_seconds \/ (tm.sec = max_seconds /\ tm.nsec <= max_nsec))
(* Mutant: the second before the first whole one is out of range.          *)
IsRepresentableWhole(tm) == NotAfterMax(tm) \/ (tm.sec < 0 /\ tm.sec >= min_seconds)
IsRepresentable(tm) ==
  \/ NotAfterMax(tm)
  \/ tm.sec < 0 /\ tm.sec = min_seconds - 1 /\ tm.nsec >= min_nsec_timespec
  \/ tm.sec < 0 /\ tm.sec # min_seconds - 1 /\ tm.sec >= min_seconds

ConvertTimespec(tm) ==
  LET sub == tm.nsec \div Nanos
  IN IF tm.sec >= 0 \/ sub = 0 THEN tm.sec * Micros + (IF tm.sec >= 0 THEN sub ELSE 0)
     ELSE (tm.sec + 1) * Micros - ((Second - tm.nsec) \div Nanos)

(* Mutant: a negative part below the second is dropped, whatever the second*)
SetTimesDropped(t) ==
  LET sec == DurationCast(t, Micros)
      sub == (t - sec * Micros) * Nanos
  IN [sec |-> sec, nsec |-> IF sub >= 0 THEN sub ELSE 0]
SetTimes(t) ==
  LET sec == DurationCast(t, Micros)
      sub == (t - sec * Micros) * Nanos
  IN IF sub >= 0 THEN [sec |-> sec, nsec |-> sub]
     ELSE IF sec > min_seconds THEN [sec |-> sec - 1, nsec |-> sub + Second]
     ELSE [sec |-> sec, nsec |-> 0]
TimeTHolds(tm) == tm.sec \in TimeTMin..TimeTMax

GetTime(p) ==
  LET st == Stat(p)
  IN IF st.err # "ok" THEN Fails("time", p, <<>>, st.err, TimeMin)
     ELSE IF ~IsRepresentable(Inode(st).time) THEN Fails("time", p, <<>>, "EOVERFLOW", TimeMin)
     ELSE Answers("time", p, <<>>, ConvertTimespec(Inode(st).time))

SetTime(p, t) ==
  LET st == Stat(p)
      tm == SetTimes(t)
  IN /\ report.calls < MaxAttrCalls
     /\ IF TimeTHolds(tm) /\ st.err = "ok"
        THEN /\ disk' = Changed(st, "time", tm)
             /\ report' = [report EXCEPT !.op = "set_time", !.p = p, !.args = <<t>>, !.ec = "ok",
                                         !.was = disk, !.asked[st.node.ino] = {t}, !.calls = @ + 1]
        ELSE Fails("set_time", p, <<t>>, IF TimeTHolds(tm) THEN st.err ELSE "invalid_argument", -1)

(* Another program sets the time of a file.                                *)
Touch(p, tm) ==
  LET st == Stat(p)
  IN /\ st.err = "ok" /\ report.calls < MaxAttrCalls
     /\ disk' = Changed(st, "time", tm)
     /\ report' = [report EXCEPT !.op = "touch", !.ec = "ok", !.was = disk, !.asked[st.node.ino] = {},
                                 !.calls = @ + 1]

-----------------------------------------------------------------------------
(* __permissions: the flags may ask for what is there to be kept, and for  *)
(* a symbolic link itself, which fchmodat refuses to change.               *)
Asked(st, prms, flags) ==
  CASE "add_perms" \in flags -> prms \cup Inode(st).perms
    [] "remove_perms" \in flags -> Inode(st).perms \ prms
    [] flags \cap {"add_perms", "remove_perms"} = {} -> prms
Permissions(p, prms, flags) ==
  LET st == IF "symlink_nofollow" \in flags THEN LStat(p) ELSE Stat(p)
      ends(err) == Fails("permissions", p, <<prms, flags>>, err, -1)
  IN IF st.err # "ok" THEN ends(st.err)
     ELSE IF st.node.kind = "symlink" THEN ends("not_supported")
     ELSE Ends("permissions", p, <<prms, flags>>, "ok", -1,
               Changed(st, "perms", Asked(st, prms, flags)))

(* __file_size, __hard_link_count, __resize_file, __equivalent             *)
FileSize(p) ==
  LET st == Stat(p)
  IN IF st.err # "ok" THEN Fails("size", p, <<>>, st.err, -1)
     ELSE IF st.node.kind # "regular" THEN Fails("size", p, <<>>, "not_supported", -1)
     ELSE Answers("size", p, <<>>, Inode(st).size)
ResizeFile(p, size) ==
  LET st == Stat(p)
  IN IF st.err # "ok" \/ st.node.kind # "regular"
     THEN Fails("resize", p, <<size>>, IF st.err = "ok" THEN "invalid" ELSE st.err, -1)
     ELSE Ends("resize", p, <<size>>, "ok", -1, Changed(st, "size", size))
LinksTo(d, i) == Cardinality({q \in DOMAIN d.names : d.names[q].kind = "regular" /\ d.names[q].ino = i})
HardLinkCount(p) ==
  AsksFor("links", p, <<>>, IF Stat(p).err = "ok" THEN LinksTo(disk, Stat(p).node.ino) ELSE -1)
Equivalent(p, q) ==
  IF ~Exists(Stat(p)) \/ ~Exists(Stat(q)) THEN Fails("equivalent", p, <<q>>, "not_supported", FALSE)
  ELSE Answers("equivalent", p, <<q>>, Stat(p).node.ino = Stat(q).node.ino)

(* __fs_is_empty: a directory_iterator of a directory that may be read is  *)
(* the end iterator when there are no entries.                             *)
IsEmpty(p) ==
  LET st == Stat(p)
      ends(err) == Fails("is_empty", p, <<>>, err, FALSE)
  IN CASE st.err # "ok" -> ends(st.err)
       [] st.err = "ok" /\ st.node.kind = "fifo" -> ends("not_supported")
       [] st.err = "ok" /\ st.node.kind = "directory" ->
            IF "r" \notin Inode(st).perms THEN ends("permission_denied")
            ELSE Answers("is_empty", p, <<>>, Inode(st).size = 0)
       [] st.err = "ok" /\ st.node.kind = "regular" -> Answers("is_empty", p, <<>>, Inode(st).size = 0)

-----------------------------------------------------------------------------
(* __create_hard_link, __create_symlink, __rename, __remove, __read_symlink*)
Put(d, q, node) == [d EXCEPT !.names[q] = node]
CreateHardLink(p, q) ==
  LET from == LStat(p)
      ends(err) == Fails("link", p, <<q>>, err, -1)
  IN CASE from.err # "ok" -> ends(from.err)
       [] from.err = "ok" /\ from.node.kind = "directory" -> ends("not_permitted")
       [] from.err = "ok" /\ from.node.kind # "directory" ->
            IF LStat(q).err = "ok" THEN ends("file_exists")
            ELSE Ends("link", p, <<q>>, "ok", -1, Put(disk, q, from.node))
CreateSymlink(to, q) ==
  IF LStat(q).err = "ok" THEN Fails("symlink", q, <<to>>, "file_exists", -1)
  ELSE Ends("symlink", q, <<to>>, "ok", -1, Put(disk, q, Symlink(to)))
ReadSymlink(p) ==
  CASE LStat(p).err # "ok" -> Fails("read_symlink", p, <<>>, LStat(p).err, "")
    [] LStat(p).err = "ok" /\ LStat(p).node.kind # "symlink" -> Fails("read_symlink", p, <<>>, "invalid", "")
    [] LStat(p).node.kind = "symlink" -> Answers("read_symlink", p, <<>>, LStat(p).node.to)
Replaces(from, to) ==
  /\ from.kind = "directory" <=> to.kind = "directory"
  /\ to.kind = "directory" => disk.inodes[to.ino].size = 0
Rename(p, q) ==
  LET from == LStat(p)
      to == LStat(q)
  IN CASE from.err # "ok" -> Fails("rename", p, <<q>>, from.err, -1)
       [] from.err = "ok" /\ (to.err = "ok" => Replaces(from.node, to.node)) ->
            Ends("rename", p, <<q>>, "ok", -1,
                 IF from.node = to.node THEN disk ELSE Put(Put(disk, p, Nothing), q, from.node))
       [] from.err = "ok" /\ to.err = "ok" /\ ~Replaces(from.node, to.node) ->
            Fails("rename", p, <<q>>, "in_the_way", -1)
Remove(p) ==
  LET there == LStat(p)
  IN CASE there.err # "ok" -> Fails("remove", p, <<>>, there.err, FALSE)
       [] there.err = "ok" /\ there.node.kind = "directory" /\ Inode(there).size # 0 ->
            Fails("remove", p, <<>>, "not_empty", FALSE)
       [] there.err = "ok" /\ (there.node.kind = "directory" => Inode(there).size = 0) ->
            Ends("remove", p, <<>>, "ok", TRUE, Put(disk, p, Nothing))

-----------------------------------------------------------------------------
(* __space: products that do not fit are all ones, and so are those of 0.  *)
Uintmax == 2 ^ UintmaxBits
(* Mutant: the overflow goes unseen.                                       *)
DoMultUnchecked(f_frsize, other) ==
  IF other = 0 THEN Uintmax - 1 ELSE (other * f_frsize) % Uintmax
DoMult(f_frsize, other) ==
  LET out == (other * f_frsize) % Uintmax
  IN IF other = 0 \/ out \div other # f_frsize THEN Uintmax - 1 ELSE out
Space(p, f_frsize, counts) ==
  AsksFor("space", p, <<f_frsize, counts>>, [i \in DOMAIN counts |-> DoMult(f_frsize, counts[i])])

(* __temp_directory_path: the first variable that is set, or /tmp.         *)
EnvPath(env) ==
  IF \E i \in DOMAIN env : env[i] # "unset"
  THEN env[CHOOSE i \in DOMAIN env : env[i] # "unset" /\ \A j \in 1..(i - 1) : env[j] = "unset"]
  ELSE "tmp"
TempDirectoryPath(env) ==
  LET p == EnvPath(env)
      st == Stat(p)
  IN IF Exists(st) /\ st.node.kind = "directory" THEN Answers("temp", p, env, p)
     ELSE Fails("temp", p, env, IF Known(st) THEN "not_a_directory" ELSE st.err, "")

-----------------------------------------------------------------------------
Init ==
  /\ disk \in Disks
  /\ report = [op |-> "none", p |-> "none", args |-> <<>>, ec |-> "ok", value |-> -1, was |-> disk,
               asked |-> [i \in DOMAIN disk.inodes |-> {}], calls |-> 0]

Flags == {f \in SUBSET {"add_perms", "remove_perms", "symlink_nofollow"} :
            ~{"add_perms", "remove_perms"} \subseteq f}
Change ==
  /\ report.calls < MaxChanges
  /\ \/ \E p \in Names :
          \/ Remove(p)
          \/ \E size \in Sizes : ResizeFile(p, size)
          \/ \E t \in TimeMin..TimeMax : SetTime(p, t)
          \/ \E tm \in Instants : Touch(p, tm)
          \/ \E prms \in Modes, flags \in Flags : Permissions(p, prms, flags)
     \/ \E p \in Names, q \in Names : CreateHardLink(p, q) \/ CreateSymlink(p, q) \/ Rename(p, q)
Query ==
  \/ \E p \in Names :
       \/ GetTime(p) \/ FileSize(p) \/ HardLinkCount(p) \/ IsEmpty(p) \/ ReadSymlink(p)
       \/ \E f_frsize \in BlockSizes, counts \in BlockCounts : Space(p, f_frsize, counts)
       \/ \E q \in Names : Equivalent(p, q)
  \/ \E env \in Environments : TempDirectoryPath(env)
Next == Change \/ Query
Spec == Init /\ [][Next]_avars
-----------------------------------------------------------------------------
(* last_write_time gives the instant of the file, to less than a tick, and *)
(* EOVERFLOW for exactly the instants outside the limits.                  *)
TimesExact ==
  report.op = "time" /\ Exists(Stat(report.p)) =>
    LET tm == Inode(Stat(report.p)).time
        instant == tm.sec * Second + tm.nsec
        off == report.value * Nanos - instant
    IN /\ report.ec = "ok" <=> instant \in (TimeMin * Nanos)..(TimeMax * Nanos)
       /\ report.ec = "ok" => off \in (1 - Nanos)..(Nanos - 1)

(* It gives the time that was set, by whatever name and whatever link; for *)
(* the times before the first whole second, one within that second.        *)
TimeReadIsTimeSet ==
  report.op = "time" /\ report.ec = "ok" =>
    \A t \in report.asked[Stat(report.p).node.ino] :
       \/ report.value = t
       \/ t < min_seconds * Micros /\ report.value \in t..(t + Micros - 1)

(* permissions() that succeeds has given the file that its name leads to   *)
(* what was asked for, has kept what it says it keeps, and has changed no  *)
(* other file.                                                             *)
PermissionsExact ==
  report.op = "permissions" /\ report.ec = "ok" =>
    LET i == Stat(report.p).node.ino
        prms == report.args[1]
        flags == report.args[2]
        now == disk.inodes[i].perms
        before == report.was.inodes[i].perms
    IN /\ "add_perms" \in flags => now = before \cup prms
       /\ "remove_perms" \in flags => now \cap prms = {} /\ now \cup prms = before \cup prms
       /\ flags \subseteq {"symlink_nofollow"} => now = prms
       /\ \A j \in DOMAIN disk.inodes \ {i} : disk.inodes[j] = report.was.inodes[j]

(* The room is the product, or all ones when it does not fit.              *)
SpaceExact ==
  report.op = "space" /\ report.ec = "ok" =>
    \A i \in 1..3 :
      LET exact == report.args[1] * report.args[2][i]
      IN report.args[2][i] # 0 =>
           report.value[i] = IF exact < Uintmax THEN exact ELSE Uintmax - 1

(* What is reported has happened, and an error has changed nothing; the    *)
(* directory for temporary files is one.                                   *)
AttributesReported ==
  /\ PermissionsExact
  /\ report.op = "temp" /\ report.ec = "ok" => Stat(report.value).node.kind = "directory"
  /\ report.ec # "ok" => disk = report.was
================================================================================
