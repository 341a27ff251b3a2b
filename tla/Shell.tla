------------------------------- MODULE Shell -------------------------------
(***************************************************************************)
(* The shell (kernel/commands.c run_buffer and its commands, the prompt    *)
(* and the loop of kernel/kernel.c) over the names and paths of the file   *)
(* system (kernel/sima_fs.c).                                              *)
(*                                                                         *)
(* The file system keeps the current directory twice: as a cluster, from   *)
(* which every call resolves a relative path, and as a text, from which    *)
(* permissions, the prompt, pwd and "cd -" work.  Both are moved by fs_cd, *)
(* each by a walk of its own over the path.                                *)
(*                                                                         *)
(* A directory is the sequence of the 8.3 names that lead to it.  A path   *)
(* is a sequence of segments, absolute or not, and a segment a sequence of *)
(* characters; on a command line a path is one character.  Clusters,       *)
(* failures of the disk and accounts are the matter of FatFs and Session.  *)
(***************************************************************************)
EXTENDS CommandLine, SequencesExt

CONSTANTS
  Setups,     \* by name: the directories there are at first, and the lines that
              \* are typed
  Room,       \* bound: the entries the disk has room for
  Paths,      \* what the characters that are paths stand for
  Letters,    \* the characters of names and words
  Homes,      \* the home directory, the segments of a path, of each account
  ROOT, Nobody,
  RootPaths,  \* g_root_paths, as segments
  BaseMax, ExtMax,  \* an 8.3 name: 8 and 3
  PathMax,    \* FS_PATH_MAX
  MaxDepth,   \* FS_MAX_DEPTH
  PromptMax   \* PROMPT_PATH_MAX

DOT == "."
Dot == <<DOT>>
DotDot == <<DOT, DOT>>
Tilde == <<"~">>
Top == <<>>
NameMax == BaseMax + 1 + ExtMax          \* FS_NAME_MAX - 1
Abs(segs) == [abs |-> TRUE, segs |-> segs]
Rel(segs) == [abs |-> FALSE, segs |-> segs]

\* A path as the kernel's walks split it: no segment is empty.
Segment == Seq(Letters) \ {<<>>}
PathType == [abs : BOOLEAN, segs : Seq(Segment)]

ASSUME ShellAssumption ==
  /\ ROOT \in DOMAIN Homes /\ Nobody \notin DOMAIN Homes /\ Homes[ROOT] = Top
  /\ {BaseMax, ExtMax, PathMax, MaxDepth, PromptMax} \subseteq Nat \ {0}
  /\ Room \in Nat
  /\ Chars \cup {DOT, "~", "A"} \subseteq Letters
  /\ \A c \in DOMAIN Paths : Paths[c] \in PathType
  /\ \A u \in DOMAIN Homes : Homes[u] \in Seq(Segment)
  /\ \A s \in DOMAIN Setups :
       /\ Top \in Setups[s].dirs /\ Setups[s].lines \subseteq Seq(Chars)
       /\ \A l \in Setups[s].lines : Len(l) < BufSize   \* INPUT_MAX
       /\ \A d \in Setups[s].dirs :
            d \in Seq(Segment) /\ (d = Top \/ Front(d) \in Setups[s].dirs)

VARIABLES
  setup,   \* the name of this behaviour's setup
  dirs,    \* the directories on the disk
  files,   \* the files on the disk
  who,     \* g_current's name, or Nobody
  cwd,     \* g_cwd_cluster
  path,    \* g_cwd_path, its segments
  prev,    \* run_cd's prev_path, or NoPath: has_prev is FALSE
  lost,    \* history: path was cut or replaced, or is relative to one that was
  left     \* history: where the last cd came from, and lost at that time

world == <<setup, dirs, files, who>>
place == <<cwd, path, lost>>
shellVars == <<world, place, prev, left>>
vars == <<lineVars, shellVars>>
NoPath == [abs |-> FALSE, segs |-> <<>>, none |-> TRUE]
-----------------------------------------------------------------------------
(* Paths. *)

\* fat_next_segment: a segment that does not fit its buffer ends a walk as the
\* end of the path does, and makes the calls that need the last segment fail.
TooLong(segs) == {i \in DOMAIN segs : Len(segs[i]) > NameMax}
Walk(segs) ==
  IF TooLong(segs) = {} THEN segs ELSE SubSeq(segs, 1, Min(TooLong(segs)) - 1)

Upper(s) == [i \in DOMAIN s |-> IF s[i] = "a" THEN "A" ELSE s[i]]

\* fat_build_83: upper case, one dot at most, and a dot at the end is nothing.
Is83(s) ==
  LET dots == {i \in DOMAIN s : s[i] = DOT}
      base == IF dots = {} THEN Len(s) ELSE Min(dots) - 1
  IN  /\ Cardinality(dots) <= 1 /\ base <= BaseMax
      /\ dots # {} => Len(s) - base - 1 <= ExtMax
Name83(s) == IF Last(s) = DOT THEN Front(Upper(s)) ELSE Upper(s)

\* Where segments lead from d, by name, "." and "..": after each, and in the end.
Into(d, s) == IF s = Dot THEN d
              ELSE IF s = DotDot THEN SubSeq(d, 1, Len(d) - 1)
              ELSE Append(d, s)
Stops(d, segs) ==
  LET stop[i \in 0..Len(segs)] ==
        IF i = 0 THEN d ELSE Into(stop[i - 1], segs[i])
  IN  stop
Along(d, segs) == Stops(d, segs)[Len(segs)]

\* The same on the disk, where fat_find_in_dir finds every name on the way: the
\* directory they lead to, if they lead to one.
Found(d, segs) ==
  LET Canon(s) == IF s \in {Dot, DotDot} THEN s ELSE Name83(s)
      names == [i \in DOMAIN segs |-> Canon(segs[i])]
      ok == \A i \in DOMAIN segs :
              /\ segs[i] \notin {Dot, DotDot} => Is83(segs[i])
              /\ Stops(d, names)[i] \in dirs
  IN  IF ok THEN {Along(d, names)} ELSE {}
Origin(p) == IF p.abs THEN Top ELSE cwd

\* fat_resolve_dir.
ResolveDir(p) == Found(Origin(p), Walk(p.segs))

\* fat_resolve_parent_dir and fat_resolve_path: what the path names, there or
\* not, as an entry of a directory that is there.
Named(p) ==
  IF p.segs = <<>> \/ TooLong(p.segs) # {} THEN {}
  ELSE LET name == Last(p.segs)
       IN  IF name \in {Dot, DotDot} \/ ~Is83(name) THEN {}
           ELSE {Append(d, Name83(name)) : d \in Found(Origin(p), Front(p.segs))}
-----------------------------------------------------------------------------
(* The text of the current directory. *)

\* The length of the text of the first segments and of all, each with the "/"
\* before it.
TextLens(segs) ==
  LET len[i \in 0..Len(segs)] ==
        IF i = 0 THEN 0 ELSE len[i - 1] + 1 + Len(segs[i])
  IN  len
TextLen(segs) == TextLens(segs)[Len(segs)]

\* What is left of a text in a buffer of PathMax characters.
Cut(segs) ==
  LET fit == {n \in 0..Len(segs) : TextLens(segs)[n] < PathMax}
      n == Max(fit)
      rest == PathMax - 2 - TextLens(segs)[n]
  IN  IF n = Len(segs) \/ rest <= 0 THEN SubSeq(segs, 1, n)
      ELSE Append(SubSeq(segs, 1, n), SubSeq(segs[n + 1], 1, rest))

\* fs_normalize_path: the walk of the text, from path; whether it is not too
\* deep, what it writes, and whether that is the whole.
Normalize(p) ==
  LET base == IF p.abs THEN <<>> ELSE path
      walk == Walk(p.segs)
      segs == [i \in DOMAIN walk |-> Upper(walk[i])]
      full == Along(base, segs)
      deep == \E i \in DOMAIN segs : Len(Stops(base, segs)[i]) > MaxDepth
  IN  [ok |-> ~deep, text |-> Cut(full), whole |-> ~deep /\ Cut(full) = full]

\* fs_cd: whether it succeeds, and where it leaves the cluster and the text.
Stay == [ok |-> FALSE, cwd |-> cwd, path |-> path, lost |-> lost]
GoTop == [ok |-> TRUE, cwd |-> Top, path |-> <<>>, lost |-> FALSE]
FsCd_FromTop(p) ==
  IF p \in {Rel(<<>>), Rel(<<Dot>>)} THEN [Stay EXCEPT !.ok = TRUE]
  ELSE IF ResolveDir(p) = {} THEN Stay
  ELSE [ok   |-> TRUE,
        cwd  |-> CHOOSE d \in ResolveDir(p) : TRUE,
        path |-> Normalize(Abs(p.segs)).text,
        lost |-> ~Normalize(Abs(p.segs)).whole]
FsCd(p) ==
  IF p \in {Rel(<<>>), Rel(<<Dot>>)} THEN [Stay EXCEPT !.ok = TRUE]
  ELSE IF p = Abs(<<>>) THEN GoTop
  ELSE IF ResolveDir(p) = {} THEN Stay
  ELSE LET n == Normalize(p)
       IN  [ok   |-> TRUE,
            cwd  |-> CHOOSE d \in ResolveDir(p) : TRUE,
            path |-> IF n.ok THEN n.text ELSE <<>>,
            lost |-> ~n.whole \/ (lost /\ ~p.abs)]
Move(r) == cwd' = r.cwd /\ path' = r.path /\ lost' = r.lost
-----------------------------------------------------------------------------
(* HOME, permissions and the prompt. *)

HOME == IF who = Nobody THEN Top ELSE Homes[who]

\* path_has_prefix, and the same in build_prompt: "/" is the prefix of no other.
Under_NoSep(segs, prefix) ==
  /\ prefix # <<>> /\ Len(segs) >= Len(prefix)
  /\ IsPrefix(Front(prefix), segs)
  /\ IsPrefix(Last(prefix), segs[Len(prefix)])
Under(segs, prefix) ==
  IF prefix = <<>> THEN segs = <<>> ELSE IsPrefix(prefix, segs)

\* deny_if_forbidden, perm_allow_path for what is not a program in /BIN.
Denied(p) ==
  LET n == Normalize(p)
  IN  /\ who # ROOT
      /\ \/ ~n.ok
         \/ /\ ~Under(n.text, Normalize(Abs(HOME)).text)
            /\ \E r \in RootPaths : Under(n.text, r)

\* cd_expand_user.
Expand(p) == IF ~p.abs /\ p.segs # <<>> /\ p.segs[1] = Tilde
             THEN Abs(HOME \o Tail(p.segs)) ELSE p

\* build_prompt: the directory it shows, in full up to PromptMax characters.
Shortened == HOME # Top /\ Under(path, HOME)
Shown == IF Shortened
         THEN Rel(<<Tilde>> \o SubSeq(path, Len(HOME) + 1, Len(path)))
         ELSE Abs(path)
ShownInFull == TextLen(Shown.segs) - (IF Shown.abs THEN 0 ELSE 1) <= PromptMax
-----------------------------------------------------------------------------
(* Commands. *)

\* run_buffer: the numbers of words each command takes.
Arities ==
  [ver |-> {1}, help |-> {1, 2}, man |-> {1, 2, 3}, cls |-> {1},
   ls |-> {1, 2}, cd |-> {1, 2}, pwd |-> {1}, cat |-> {2},
   write |-> 3..ArgvCap, edit |-> {1, 2}, rm |-> {2}, rmdir |-> {2},
   mkdir |-> {2}, load |-> {2}, run |-> {1}, exec |-> {2}, sync |-> {1},
   diskinfo |-> {1}, calc |-> {1}, hello |-> {1}, whoami |-> {1},
   users |-> {1}, useradd |-> {2, 3}, id |-> {1}, passwd |-> {1},
   logout |-> {1}]
Here == {"ls", "cd", "cat", "write", "rm", "rmdir", "mkdir", "passwd", "logout"}

Cmd == Argv[1][1]
Known == Argv # <<>> /\ Len(Argv[1]) = 1 /\ Cmd \in DOMAIN Arities
Run(c) == at = "done" /\ Known /\ Cmd = c /\ Len(Argv) \in Arities[c]
Arg == IF Len(Argv) > 1 THEN Argv[2] ELSE <<>>
\* A word that is no path is the name of something here.
Path == IF Arg = <<>> THEN Rel(<<>>)
        ELSE IF Arg[1] \in DOMAIN Paths THEN Paths[Arg[1]] ELSE Rel(<<Arg>>)

Refuse == Clear /\ UNCHANGED <<world, place, prev, left>>
Full == Cardinality(dirs) + Cardinality(files) >= Room

\* run_cd.
CdTarget == Expand(IF Arg = <<>> THEN Abs(HOME)
                   ELSE IF Arg = <<"-">> THEN prev ELSE Path)
CdGo_NoSwap ==
  /\ Clear
  /\ Move(FsCd(CdTarget))
  /\ prev' = IF Arg = <<"-">> THEN prev ELSE Abs(path)
  /\ left' = [dir |-> cwd, lost |-> lost]
  /\ UNCHANGED world
CdGo ==
  /\ Clear
  /\ Move(FsCd(CdTarget))
  /\ prev' = Abs(path)
  /\ left' = [dir |-> cwd, lost |-> lost]
  /\ UNCHANGED world
RunCd ==
  /\ Run("cd")
  /\ IF \/ Arg = <<"-">> /\ prev = NoPath
        \/ Denied(CdTarget) \/ ~FsCd(CdTarget).ok
     THEN Refuse ELSE CdGo

\* The commands on one path: refused, failed or done.
OnPath(c, ok, dirs1, files1) ==
  /\ Run(c)
  /\ IF Denied(Path) \/ ~ok THEN Refuse
     ELSE /\ Clear
          /\ dirs' = dirs1 /\ files' = files1
          /\ UNCHANGED <<setup, who, place, prev, left>>

RunLs == OnPath("ls", ResolveDir(Path) # {}, dirs, files)
RunCat == OnPath("cat", Named(Path) \cap files # {}, dirs, files)
RunWrite ==
  OnPath("write",
         Named(Path) # {} /\ Named(Path) \cap dirs = {}
           /\ (Named(Path) \subseteq files \/ ~Full),
         dirs, files \cup Named(Path))
RunRm == OnPath("rm", Named(Path) \cap files # {}, dirs, files \ Named(Path))
RunMkdir ==
  OnPath("mkdir", Named(Path) # {} /\ Named(Path) \cap (dirs \cup files) = {}
                    /\ ~Full,
         dirs \cup Named(Path), files)
Empty(d) == \A e \in dirs \cup files : e = Top \/ Front(e) # d
RunRmdir ==
  OnPath("rmdir", \E d \in Named(Path) \cap dirs : d # cwd /\ Empty(d),
         dirs \ Named(Path), files)

\* user_set_current, on the way of user_login and user_change_password.
GoHome(home) == IF FsCd(Abs(home)).ok THEN FsCd(Abs(home)) ELSE GoTop
RunPasswd ==
  /\ Run("passwd")
  /\ \/ Refuse
     \/ Clear /\ Move(GoHome(HOME)) /\ UNCHANGED <<world, prev, left>>
RunLogout ==
  /\ Run("logout")
  /\ Clear /\ Move(GoTop) /\ who' = Nobody
  /\ UNCHANGED <<setup, dirs, files, prev, left>>

\* Commands whose state is kept elsewhere, wrong usage, and no command.
RunOther ==
  /\ at = "done" /\ Known
  /\ Len(Argv) \in Arities[Cmd] /\ Cmd \notin Here
  /\ Refuse
WrongUsage == at = "done" /\ Known /\ Len(Argv) \notin Arities[Cmd] /\ Refuse
NotFound == at = "done" /\ ~Known /\ Refuse

\* kernel_main: log in, then one line after another.
Login(u) ==
  /\ at = "idle" /\ who = Nobody
  /\ who' = u /\ Move(GoHome(Homes[u]))
  /\ UNCHANGED <<lineVars, setup, dirs, files, prev, left>>
Type ==
  /\ at = "idle" /\ who # Nobody
  /\ \E l \in Setups[setup].lines : Start(l)
  /\ UNCHANGED <<world, place, prev, left>>
Parse == ParseStep /\ UNCHANGED shellVars

RunLine ==
  \/ RunCd \/ RunLs \/ RunCat \/ RunWrite \/ RunRm \/ RunMkdir \/ RunRmdir
  \/ RunPasswd \/ RunLogout \/ RunOther \/ WrongUsage \/ NotFound

Init ==
  /\ LineInit
  /\ setup \in DOMAIN Setups /\ dirs = Setups[setup].dirs /\ files = {}
  /\ who = Nobody /\ cwd = Top /\ path = <<>> /\ lost = FALSE
  /\ prev = NoPath /\ left = [dir |-> Top, lost |-> FALSE]

Next == Type \/ Parse \/ RunLine \/ \E u \in DOMAIN Homes : Login(u)
Spec == Init /\ [][Next]_vars
-----------------------------------------------------------------------------
(* Properties. *)

\* The text that permissions are asked for names what the call then acts on,
\* for a directory and for an entry of one: unless texts had to be cut, walking
\* fs_make_abs_path's text from "/" ends where walking the path from the cluster
\* of the current directory does.
TextNamesObject ==
  at = "idle" /\ ~lost =>
    \A c \in DOMAIN Paths :
      LET n == Normalize(Paths[c])
      IN  n.whole =>
            /\ \A d \in ResolveDir(Paths[c]) : ResolveDir(Abs(n.text)) = {d}
            /\ \A o \in Named(Paths[c]) : Named(Abs(n.text)) = {o}

\* "cd -" goes back where the last cd came from, whatever was done between
\* them, if that is still there and the text of it is not forbidden (run_cd,
\* prev_path, deny_if_forbidden).
CdBackReturns ==
  [][ ( /\ at = "done" /\ Argv = <<<<"cd">>, <<"-">>>>
        /\ prev # NoPath /\ ~left.lost
        /\ left.dir \in dirs /\ ~Denied(prev) )
      => cwd' = left.dir ]_vars

\* Typing cd and the directory the prompt shows, unless that is cut, changes
\* nothing: "~" stands for HOME in both (build_prompt, cd_expand_user).
PromptLeadsHere ==
  at = "idle" /\ who # Nobody /\ ~lost /\ ShownInFull =>
    ResolveDir(Expand(Shown)) = {cwd}
=============================================================================
