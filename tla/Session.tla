------------------------------- MODULE Session -------------------------------
(***************************************************************************)
(* Accounts and the login session (kernel/sima_user.c), the environment    *)
(* they keep up to date (kernel/sima_env.c), and the shell that drives     *)
(* them (kernel/kernel.c, kernel/commands.c).                              *)
(*                                                                         *)
(* The accounts live in the file /ETC/PASSWD.  Every command that needs    *)
(* them reads the whole file into g_users, and one that changes them       *)
(* writes the whole table back.  The session keeps a copy of its account   *)
(* in g_current and shows itself in the variables USER, HOME, PWD and      *)
(* OLDPWD.  A call of the file system is one step here (FatFs refines it): *)
(* it can fail, having had its effect or not, and power may be lost        *)
(* between two of them.                                                    *)
(***************************************************************************)
EXTENDS Naturals, SequencesExt

CONSTANTS
  Names,       \* user names
  ROOT,        \* the user name "ROOT"
  Passwords,   \* passwords, "" among them
  UserMax,     \* USER_MAX: the accounts g_users can hold
  FirstUid,    \* 1000
  MaxUid,      \* 65535: uids are 16 bits wide
  EnvMax,      \* ENV_MAX_VARS
  XVars,       \* the variables /XENV.ENV defines, besides PATH and HOME
  Far,         \* directories whose path has ENV_VALUE_MAX characters or more
  Stump,       \* what env_set keeps of the path of each of them
  Disks,       \* what the installer may have left in /ETC/PASSWD
  Edits,       \* what ROOT may write to /ETC/PASSWD by hand
  MaxOps,      \* bound: commands in one behaviour
  MaxFaults,   \* bound: faults in one behaviour
  FaultKinds   \* which faults the disk has: see EnsureDir, Sync, Load, Crash

Top == <<>>                       \* paths: "/", "/ETC", "/HOME", "/HOME/n"
EtcDir == <<"ETC">>
HomeBase == <<"HOME">>
Home(n) == <<"HOME", n>>
Paths == {Top, EtcDir, HomeBase} \cup {Home(n) : n \in Names}

NoFile == [there |-> FALSE, lines |-> <<>>]
File(t) == [there |-> TRUE, lines |-> t]
Account(n, u, h, p) == [name |-> n, uid |-> u, home |-> h, pass |-> p]
Blank == ""          \* no password; USER when nobody is logged in
RootAccount == Account(ROOT, 0, Top, Blank)
Accounts == [name: Names, uid: 0..MaxUid, home: Paths, pass: Passwords]
Files == {NoFile} \cup [there: {TRUE}, lines: Seq(Accounts)]

ASSUME SessionAssumption ==
  /\ ROOT \in Names /\ Blank \in Passwords
  /\ UserMax \in Nat \ {0}
  /\ FirstUid \in Nat \ {0} /\ MaxUid \in Nat /\ FirstUid <= MaxUid
  /\ EnvMax \in Nat /\ IsFiniteSet(XVars)
  /\ Cardinality(XVars) + 2 <= EnvMax
  /\ XVars \cap {"PATH", "HOME", "USER", "PWD", "OLDPWD"} = {}
  /\ Far \cap Paths = {} /\ \A d \in Far : Stump[d] # d
  /\ Disks \subseteq Files /\ Edits \subseteq Files
  /\ {MaxOps, MaxFaults} \subseteq Nat
  /\ FaultKinds \subseteq {"read", "write", "crash", "torn"}

VARIABLES
  passwd,    \* disk: the lines of /ETC/PASSWD, or NoFile
  dirs,      \* disk: the directories among Paths and Far
  users,     \* g_users: its used entries, a prefix of the table
  current,   \* g_current, or Nobody
  env,       \* env_table: a function on the names of the variables
  cwd,       \* g_cwd_path
  prev,      \* run_cd's prev_path and has_prev: NoPath before the first cd
  pc,        \* "off", "login", "shell", or where the running command stands
  job,       \* the running command
  ret,       \* whether the last command succeeded
  ops, faults

vars == <<passwd, dirs, users, current, env, cwd, prev, pc, job, ret, ops,
          faults>>
disk == <<passwd, dirs>>
session == <<current, env, cwd, prev>>

Nobody == [name |-> "nobody"]
NoPath == <<"none">>
NoJob == [kind |-> "none"]
-----------------------------------------------------------------------------
(* The account table. *)

Find(t, n) == {t[i] : i \in {j \in 1..Len(t) : t[j].name = n}}
TheUser(t, n) == CHOOSE u \in Find(t, n) : TRUE

\* user_add_entry: nothing happens when the table is full.
AddEntry(t, u) == IF Len(t) < UserMax THEN Append(t, u) ELSE t

\* user_parse_line, over the lines of the file.
ParseLine(t, u) == IF Find(t, u.name) # {} THEN t ELSE AddEntry(t, u)
Parse(lines) ==
  LET read[i \in 0..Len(lines)] ==
        IF i = 0 THEN <<>> ELSE ParseLine(read[i - 1], lines[i])
  IN  read[Len(lines)]

InEffect == ToSet(Parse(passwd.lines))

\* user_load_passwd: a file that cannot be read leaves ROOT alone.
LoadTable(file) == IF file.there THEN Parse(file.lines) ELSE <<RootAccount>>

\* user_add: one above the greatest, at least FirstUid, 16 bits wide.
NewUid_Count(t) == (FirstUid + Len(t)) % (MaxUid + 1)
NewUid(t) ==
  (Max({FirstUid - 1} \cup {t[i].uid : i \in 1..Len(t)}) + 1) % (MaxUid + 1)

\* user_login, user_change_password: the password given is the account's.
Accepts(u, p) == u.pass = p

\* env_set: a variable that is new needs a free slot.
EnvSet(e, n, v) ==
  IF n \in DOMAIN e \/ Cardinality(DOMAIN e) < EnvMax
  THEN [x \in DOMAIN e \cup {n} |-> IF x = n THEN v ELSE e[x]]
  ELSE e
\* What env_set stores of a path: at most ENV_VALUE_MAX - 1 characters.  The
\* paths of Paths fit, and so does the home of any account (USER_HOME_MAX).
Kept(d) == IF d \in Far THEN Stump[d] ELSE d
-----------------------------------------------------------------------------
(* Steps of a command: its calls of the file system. *)

NoFault == UNCHANGED faults
Fault(k) == k \in FaultKinds /\ faults < MaxFaults /\ faults' = faults + 1

Begin == pc = "shell" /\ ops < MaxOps /\ ops' = ops + 1
Return(r) == pc' = "shell" /\ ret' = r /\ job' = NoJob
Goto(label, j) == pc' = label /\ job' = j /\ UNCHANGED ret

\* user_load_passwd: the table it leaves, and whether it returned TRUE.
Load(t, ok) ==
  \/ t = LoadTable(passwd) /\ ok = passwd.there /\ NoFault
  \/ t = <<RootAccount>> /\ ok = FALSE /\ passwd.there /\ Fault("read")
Tables == {LoadTable(passwd), <<RootAccount>>}

\* ensure_dir: ok TRUE when it reports success.
EnsureDir(d, ok) ==
  \/ ok /\ dirs' = dirs \cup {d} /\ NoFault
  \/ ~ok /\ d \notin dirs /\ dirs' \in {dirs, dirs \cup {d}} /\ Fault("write")
  \/ ~ok /\ dirs' = dirs /\ Fault("read")

\* user_sync_passwd of table t.  Without /ETC nothing can be written.
Sync_IgnoresStatus(t, ok) ==
  \/ ok /\ passwd' = File(t) /\ NoFault
  \/ ok /\ passwd' = passwd /\ Fault("write")
Sync(t, ok) ==
  \/ ok /\ EtcDir \in dirs /\ passwd' = File(t) /\ NoFault
  \/ ~ok /\ EtcDir \notin dirs /\ passwd' = passwd /\ NoFault
  \/ ~ok /\ EtcDir \in dirs /\ passwd' \in {passwd, File(t)} /\ Fault("write")

\* fs_cd: TRUE when the directory is there.
CdTo(d) == IF d \in dirs THEN d ELSE Top

\* user_set_current: the variables follow the session.
SetCurrent_NoPwd(u) ==
  /\ current' = u
  /\ cwd' = CdTo(u.home)
  /\ env' = EnvSet(EnvSet(env, "USER", u.name), "HOME", u.home)
  /\ UNCHANGED prev
SetCurrent(u) ==
  LET here == CdTo(u.home)
      e    == EnvSet(EnvSet(env, "USER", u.name), "HOME", u.home)
  IN  /\ current' = u
      /\ cwd' = here
      /\ env' = EnvSet(EnvSet(e, "PWD", Kept(here)), "OLDPWD", Kept(here))
      /\ UNCHANGED prev

\* user_logout, on environment e.
LogoutFrom(e) ==
  LET e1 == EnvSet(EnvSet(e, "USER", Blank), "HOME", Top)
  IN  /\ current' = Nobody
      /\ env' = EnvSet(EnvSet(e1, "PWD", Top), "OLDPWD", Top)
      /\ cwd' = Top
-----------------------------------------------------------------------------
(* Start: fs_init, env_init, user_init. *)

BootEnv ==
  [n \in {"PATH", "HOME"} \cup XVars |-> IF n = "HOME" THEN Top ELSE "x"]

WithRoot_Never(t) == t
WithRoot(t) == IF Find(t, ROOT) = {} THEN AddEntry(t, RootAccount) ELSE t

\* user_init up to the directories.  A table that lacked ROOT is written too.
Boot ==
  /\ pc = "off"
  /\ \E t \in Tables, ok \in BOOLEAN :
       /\ Load(t, ok)
       /\ users' = WithRoot(t)
       /\ Goto("etc", [kind |-> "boot",
                       loaded |-> ok /\ Find(t, ROOT) # {}])
  /\ env' = BootEnv /\ current' = Nobody /\ cwd' = Top /\ prev' = NoPath
  /\ UNCHANGED <<disk, ops>>

\* The directories are made best-effort; the login prompt comes last.
BootDir ==
  /\ job.kind = "boot" /\ pc \in {"etc", "base"}
  /\ \E ok \in BOOLEAN : EnsureDir(IF pc = "etc" THEN EtcDir ELSE HomeBase, ok)
  /\ Goto(CASE pc = "etc" -> "base"
            [] pc = "base" /\ job.loaded -> "ready"
            [] OTHER -> "sync", job)
  /\ UNCHANGED <<passwd, users, session, ops>>
BootSync ==
  /\ job.kind = "boot" /\ pc = "sync"
  /\ \E ok \in BOOLEAN : Sync(users, ok)
  /\ Goto("ready", job)
  /\ UNCHANGED <<dirs, users, session, ops>>
BootDone ==
  /\ job.kind = "boot" /\ pc = "ready"
  /\ LogoutFrom(env) /\ Goto("login", NoJob) /\ NoFault
  /\ UNCHANGED <<disk, users, prev, ops>>
-----------------------------------------------------------------------------
(* login_screen, logout. *)

Login(n, p) ==
  /\ pc = "login" /\ ops < MaxOps /\ ops' = ops + 1
  /\ \E t \in Tables, ok \in BOOLEAN :
       /\ Load(t, ok)
       /\ users' = t
       /\ IF Find(t, n) # {} /\ Accepts(TheUser(t, n), p)
          THEN SetCurrent(TheUser(t, n)) /\ Return(TRUE)
          ELSE ret' = FALSE /\ UNCHANGED <<session, pc, job>>
  /\ UNCHANGED disk

Logout ==
  /\ Begin
  /\ LogoutFrom(env)
  /\ pc' = "login" /\ ret' = TRUE
  /\ NoFault
  /\ UNCHANGED <<disk, users, prev, job>>
-----------------------------------------------------------------------------
(* useradd, which only ROOT may use. *)

IsRoot == current # Nobody /\ current.uid = 0

UserAdd(n, p) ==
  /\ Begin /\ IsRoot
  /\ \E t \in Tables, ok \in BOOLEAN :
       /\ Load(t, ok)
       /\ users' = t
       /\ IF Find(t, n) # {} THEN Return(FALSE)
          ELSE Goto("etc", [kind |-> "add",
                            user |-> Account(n, NewUid(t), Home(n), p)])
  /\ UNCHANGED <<disk, session>>

\* /ETC, /HOME and the home directory, in this order.
AddDir ==
  /\ job.kind = "add" /\ pc \in {"etc", "base", "home"}
  /\ \E ok \in BOOLEAN :
       /\ EnsureDir(CASE pc = "etc"  -> EtcDir
                      [] pc = "base" -> HomeBase
                      [] pc = "home" -> job.user.home, ok)
       /\ IF ~ok THEN Return(FALSE) /\ UNCHANGED users
          ELSE CASE pc = "etc"  -> Goto("base", job) /\ UNCHANGED users
                 [] pc = "base" -> Goto("home", job) /\ UNCHANGED users
                 [] pc = "home" -> /\ Goto("sync", job)
                                   /\ users' = AddEntry(users, job.user)
  /\ UNCHANGED <<passwd, session, ops>>
AddSync ==
  /\ job.kind = "add" /\ pc = "sync"
  /\ \E ok \in BOOLEAN : Sync(users, ok) /\ Return(ok)
  /\ UNCHANGED <<dirs, users, session, ops>>
-----------------------------------------------------------------------------
(* passwd. *)

IsTarget_First(i, t) == i = 1
IsTarget(i, t) == t[i].name = current.name

Passwd(old, new) ==
  /\ Begin /\ new # Blank
  /\ \E t \in Tables, ok \in BOOLEAN :
       /\ Load(t, ok)
       /\ \/ \E i \in 1..Len(t) :
               /\ IsTarget(i, t) /\ Accepts(t[i], old)
               /\ users' = [t EXCEPT ![i].pass = new]
               /\ Goto("sync", [kind |-> "passwd", at |-> i])
          \/ /\ \A i \in 1..Len(t) : ~(IsTarget(i, t) /\ Accepts(t[i], old))
             /\ users' = t /\ Return(FALSE)
  /\ UNCHANGED <<disk, session>>

\* The session is set again, which takes it to its home directory.
PasswdSync ==
  /\ job.kind = "passwd" /\ pc = "sync"
  /\ \E ok \in BOOLEAN :
       /\ Sync(users, ok)
       /\ IF ok THEN SetCurrent(users[job.at]) ELSE UNCHANGED session
       /\ Return(ok)
  /\ UNCHANGED <<dirs, users, ops>>
-----------------------------------------------------------------------------
(* cd, and the commands that change the files the accounts need. *)

\* perm_allow_path, of the paths modelled here: only ROOT works under /ETC.
Allowed(d) == IsRoot \/ d # EtcDir

\* run_cd: PWD and OLDPWD follow; "cd -" goes to prev_path.
Cd(d) ==
  /\ cwd' = d /\ prev' = cwd
  /\ env' = EnvSet(EnvSet(env, "OLDPWD", Kept(cwd)), "PWD", Kept(d))
ChangeDir(d) ==
  /\ Begin
  /\ IF Allowed(d) /\ d \in dirs THEN Cd(d) ELSE UNCHANGED <<cwd, prev, env>>
  /\ Return(TRUE) /\ NoFault
  /\ UNCHANGED <<disk, users, current>>
CdHome == ChangeDir(env["HOME"])
CdBack == prev # NoPath /\ ChangeDir(prev)

\* write and rm on /ETC/PASSWD, rmdir and mkdir, as far as they succeed.
Edit(file) ==
  /\ Begin /\ Allowed(EtcDir) /\ EtcDir \in dirs
  /\ passwd' = file
  /\ Return(TRUE) /\ NoFault
  /\ UNCHANGED <<dirs, users, session>>
Rmdir(d) ==
  /\ Begin /\ Allowed(d) /\ d \in dirs \ {Top, cwd}
  /\ (d = EtcDir) => ~passwd.there
  /\ (d = HomeBase) => \A n \in Names : Home(n) \notin dirs
  /\ dirs' = dirs \ {d}
  /\ Return(TRUE) /\ NoFault
  /\ UNCHANGED <<passwd, users, session>>
Mkdir(d) ==
  /\ Begin /\ Allowed(d) /\ d \notin dirs
  /\ d \in {Home(n) : n \in Names} => HomeBase \in dirs
  /\ dirs' = dirs \cup {d}
  /\ Return(TRUE) /\ NoFault
  /\ UNCHANGED <<passwd, users, session>>
-----------------------------------------------------------------------------
(* Power is lost.  A file that is being written may be left damaged.      *)
Crash ==
  /\ pc # "off"
  /\ \/ Fault("crash") /\ passwd' = passwd
     \/ Fault("torn") /\ pc = "sync" /\ passwd' = File(<<>>)
  /\ pc' = "off" /\ job' = NoJob /\ ret' = FALSE
  /\ users' = <<>> /\ current' = Nobody
  /\ UNCHANGED <<dirs, env, cwd, prev, ops>>
-----------------------------------------------------------------------------
Init ==
  /\ passwd \in Disks
  /\ dirs = IF passwd.there
            THEN {Top, EtcDir, HomeBase} \cup {u.home : u \in InEffect}
            ELSE {Top}
  /\ users = <<>> /\ current = Nobody
  /\ env = BootEnv /\ cwd = Top /\ prev = NoPath
  /\ pc = "off" /\ job = NoJob /\ ret = FALSE
  /\ ops = 0 /\ faults = 0

Start == Boot \/ BootDir \/ BootSync \/ BootDone
Step == AddDir \/ AddSync \/ PasswdSync
Command ==
  \/ \E n \in Names, p \in Passwords : Login(n, p)
  \/ Logout
  \/ \E n \in Names, p \in Passwords \ {Blank} : UserAdd(n, p)
  \/ \E old, new \in Passwords : Passwd(old, new)
  \/ \E d \in dirs : ChangeDir(d)
  \/ CdHome \/ CdBack
  \/ \E file \in Edits \cup {NoFile} : Edit(file)
  \/ \E d \in dirs : Rmdir(d)
  \/ \E d \in Paths \cup Far : Mkdir(d)

Next == Start \/ Step \/ Command \/ Crash

Spec == Init /\ [][Next]_vars
-----------------------------------------------------------------------------
(* Properties. *)

\* Writing the table back loses no account and changes none, but for the
\* password of the account that is logged in.
AccountsKept ==
  [][(pc = "sync" /\ pc' # "off") =>
       \A u \in InEffect : \E v \in InEffect' :
         \/ v = u
         \/ u.name = current.name /\ v = [u EXCEPT !.pass = v.pass]]_vars

\* useradd never gives out a uid that is taken.
UidsUnique ==
  \A u, v \in InEffect : u.name # v.name => u.uid # v.uid

\* "User added." and "Password updated." mean that the file says so.  The one
\* exception: user_add_entry drops an account the full table has no room for.
SuccessIsStored ==
  [][(pc = "sync" /\ pc' = "shell" /\ ret') =>
       CASE job.kind = "add"    -> \/ job.user \in InEffect'
                                  \/ /\ Len(users) = UserMax
                                     /\ Find(users, job.user.name) = {}
         [] job.kind = "passwd" -> users[job.at] \in InEffect']_vars

\* USER, HOME and PWD show the session: its user, its home and what env_set
\* keeps of the path where it stands, also while a command runs and when its
\* home directory is gone.  PWD is not the path itself, as the comment in run_cd
\* wants it ("Keep PWD/OLDPWD in sync"): a path in Far is cut.
SessionEnv ==
  /\ current # Nobody =>
       /\ env["USER"] = current.name
       /\ env["HOME"] = current.home
       /\ env["PWD"] = Kept(cwd)
  /\ pc = "login" => /\ current = Nobody
                     /\ env["USER"] = Blank /\ env["PWD"] = Top

\* The login prompt never locks everyone out: ROOT is in the file, or there is
\* no file and ROOT is let in without a password.
RootCanLogIn == pc = "login" => Find(LoadTable(passwd), ROOT) # {}
=============================================================================
