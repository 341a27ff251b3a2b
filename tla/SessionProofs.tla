--------------------------- MODULE SessionProofs ---------------------------
(***************************************************************************)
(* The accounts and the session, for any number of users, commands and     *)
(* faults.  What user_load_passwd reads is a table without a name twice,   *)
(* and a table that was written is read back as it is: this is proved by   *)
(* induction on the lines of the file.  Every command then leaves a table  *)
(* of that kind, and each property below adds its own invariant to this    *)
(* one.  A property that needs more than the code promises on its own      *)
(* names it as a hypothesis.                                               *)
(***************************************************************************)
EXTENDS Session, SequenceTheorems, Induction

\* A table: at top UserMax accounts, no two of the same name.
IsTable(t) ==
  /\ t \in Seq(Accounts) /\ Len(t) <= UserMax
  /\ \A i, j \in 1..Len(t) : t[i].name = t[j].name => i = j

LEMMA FindIs ==
  ASSUME NEW t, NEW n
  PROVE  /\ \A u : u \in Find(t, n) <=> \E i \in 1..Len(t) : t[i] = u /\ u.name = n
         /\ Find(t, n) = {} <=> \A i \in 1..Len(t) : t[i].name # n
BY DEF Find

LEMMA TableEntry ==
  ASSUME NEW t, IsTable(t), NEW i \in 1..Len(t)
  PROVE  t[i] \in Accounts
BY DEF IsTable

\* What is assumed of the constants, in the parts the proofs use.
LEMMA Bounds ==
  /\ ROOT \in Names /\ Blank \in Passwords
  /\ UserMax \in Nat /\ UserMax # 0
  /\ FirstUid \in Nat /\ FirstUid # 0
  /\ MaxUid \in Nat
  /\ EnvMax \in Nat
  /\ MaxOps \in Nat /\ MaxFaults \in Nat
<1>1. MaxOps \in Nat /\ MaxFaults \in Nat
  BY SessionAssumption
<1>2. UserMax \in Nat \ {0} /\ FirstUid \in Nat \ {0} /\ MaxUid \in Nat /\ EnvMax \in Nat
  BY SessionAssumption
<1> QED BY <1>1, <1>2, SessionAssumption

LEMMA EmptyTable == IsTable(<<>>) /\ Len(<<>>) = 0
<1>1. <<>> \in Seq(Accounts) /\ Len(<<>>) = 0
  BY EmptySeq
<1>2. 1..Len(<<>>) = {}
  BY <1>1
<1> QED BY <1>1, <1>2, Bounds DEF IsTable

LEMMA RootIsAccount == RootAccount \in Accounts /\ RootAccount.name = ROOT
<1>1. 0 \in 0..MaxUid /\ Top \in Paths /\ ROOT \in Names /\ Blank \in Passwords
  BY Bounds DEF Paths
<1> QED BY <1>1 DEF RootAccount, Account, Accounts

LEMMA AppendTable ==
  ASSUME NEW t, IsTable(t), NEW u \in Accounts, Find(t, u.name) = {}, Len(t) < UserMax
  PROVE  /\ IsTable(Append(t, u))
         /\ Len(Append(t, u)) = Len(t) + 1
         /\ Append(t, u)[Len(t) + 1] = u
         /\ \A i \in 1..Len(t) : Append(t, u)[i] = t[i]
<1> DEFINE a == Append(t, u)
<1>1. /\ a \in Seq(Accounts) /\ Len(a) = Len(t) + 1 /\ Len(t) \in Nat
      /\ a[Len(t) + 1] = u
      /\ \A i \in 1..Len(t) : a[i] = t[i]
  BY AppendProperties, LenProperties DEF IsTable
<1>2. \A i \in 1..Len(t) : t[i].name # u.name
  BY FindIs
<1> HIDE DEF a
<1>3. ASSUME NEW i \in 1..Len(a), NEW j \in 1..Len(a), a[i].name = a[j].name PROVE i = j
  <2>1. i \in 1..Len(t) \/ i = Len(t) + 1
    BY <1>1
  <2>2. j \in 1..Len(t) \/ j = Len(t) + 1
    BY <1>1
  <2>3. \A k, l \in 1..Len(t) : t[k].name = t[l].name => k = l
    BY DEF IsTable
  <2>4. CASE i \in 1..Len(t) /\ j \in 1..Len(t)
    <3>1. a[i] = t[i] /\ a[j] = t[j]
      BY <2>4, <1>1
    <3> QED BY <3>1, <2>4, <2>3, <1>3
  <2>5. CASE i \in 1..Len(t) /\ j = Len(t) + 1
    BY <2>5, <1>1, <1>2, <1>3
  <2>6. CASE j \in 1..Len(t) /\ i = Len(t) + 1
    BY <2>6, <1>1, <1>2, <1>3
  <2> QED BY <2>1, <2>2, <2>4, <2>5, <2>6
<1>4. Len(a) <= UserMax
  BY <1>1, Bounds
<1>5. IsTable(a)
  BY <1>1, <1>3, <1>4 DEF IsTable
<1> QED BY <1>1, <1>5 DEF a

LEMMA AddEntryTable ==
  ASSUME NEW t, IsTable(t), NEW u \in Accounts, Find(t, u.name) = {}
  PROVE  IsTable(AddEntry(t, u))
BY AppendTable DEF AddEntry

LEMMA ParseLineTable ==
  ASSUME NEW t, IsTable(t), NEW u \in Accounts
  PROVE  IsTable(ParseLine(t, u))
BY AddEntryTable DEF ParseLine

\* What user_load_passwd has read after each line of the file.
LEMMA ParseSteps ==
  ASSUME NEW lines \in Seq(Accounts)
  PROVE  \E read : /\ read[0] = <<>>
                   /\ \A i \in 1..Len(lines) : read[i] = ParseLine(read[i - 1], lines[i])
                   /\ Parse(lines) = read[Len(lines)]
<1> DEFINE N == Len(lines)
           At(i, g) == IF i = 0 THEN <<>> ELSE ParseLine(g[i - 1], lines[i])
           S == {n \in Nat : \E g : \A i \in 0..n : g[i] = At(i, g)}
<1>0. N \in Nat
  BY LenProperties
<1>1. 0 \in S
  <2>1. \A i \in 0..0 : [j \in 0..0 |-> <<>>][i] = At(i, [j \in 0..0 |-> <<>>])
    OBVIOUS
  <2> QED BY <2>1
<1>2. ASSUME NEW n \in Nat, n \in S PROVE n + 1 \in S
  <2>1. PICK g : \A i \in 0..n : g[i] = At(i, g) BY <1>2
  <2> DEFINE h == [i \in 0..n + 1 |-> IF i = n + 1 THEN ParseLine(g[n], lines[n + 1]) ELSE g[i]]
  <2>2. \A i \in 0..n : h[i] = g[i] OBVIOUS
  <2>3. h[n + 1] = ParseLine(h[n], lines[n + 1]) OBVIOUS
  <2> HIDE DEF h
  <2>4. \A i \in 0..n + 1 : h[i] = At(i, h)
    <3> SUFFICES ASSUME NEW i \in 0..n + 1 PROVE h[i] = At(i, h)
      OBVIOUS
    <3>1. CASE i = n + 1 BY <3>1, <2>3
    <3>2. CASE i # n + 1 /\ i # 0
      <4>1. i \in 0..n /\ i - 1 \in 0..n BY <3>2
      <4> QED BY <4>1, <2>1, <2>2, <3>2
    <3>3. CASE i = 0 BY <3>3, <2>1, <2>2
    <3> QED BY <3>1, <3>2, <3>3
  <2> HIDE DEF At
  <2> QED BY <2>4
<1>3. N \in S
  <2> HIDE DEF S, N
  <2> QED BY <1>0, <1>1, <1>2, NatSetInduction
<1>4. PICK g : \A i \in 0..N : g[i] = At(i, g)
  BY <1>3
<1> HIDE DEF N
<1> DEFINE G == [i \in 0..N |-> g[i]]
<1>5. \A i \in 0..N : G[i] = At(i, G)
  <2>1. \A i \in 0..N : G[i] = g[i] OBVIOUS
  <2>2. \A i \in 0..N : i # 0 => i - 1 \in 0..N
    BY <1>0
  <2> HIDE DEF G
  <2> QED BY <1>4, <2>1, <2>2
<1>6. G = [i \in 0..N |-> At(i, G)]
  <2> HIDE DEF At
  <2>1. G = [i \in 0..N |-> G[i]] OBVIOUS
  <2> HIDE DEF G
  <2>2. [i \in 0..N |-> G[i]] = [i \in 0..N |-> At(i, G)]
    BY <1>5
  <2> QED BY <2>1, <2>2
<1> DEFINE C == CHOOSE r : r = [i \in 0..N |-> At(i, r)]
<1>8. C = [i \in 0..N |-> At(i, C)]
  <2> HIDE DEF G, At
  <2> QED BY <1>6
<1>9. Parse(lines) = C[N]
  BY DEF Parse, N
<1>10. \A i \in 0..N : C[i] = At(i, C)
  <2> HIDE DEF C, At
  <2> QED BY <1>8
<1>11. C[0] = <<>> /\ \A i \in 1..N : C[i] = ParseLine(C[i - 1], lines[i])
  <2> HIDE DEF C
  <2> QED BY <1>10, <1>0
<1> QED
  <2> HIDE DEF C
  <2> QED BY <1>9, <1>11 DEF N

\* What is read of any file is a table.
LEMMA ParseIsTable ==
  ASSUME NEW lines \in Seq(Accounts)
  PROVE  IsTable(Parse(lines))
<1>1. PICK read : /\ read[0] = <<>>
                  /\ \A i \in 1..Len(lines) : read[i] = ParseLine(read[i - 1], lines[i])
                  /\ Parse(lines) = read[Len(lines)]
  BY ParseSteps
<1> DEFINE S == {n \in Nat : n <= Len(lines) => IsTable(read[n])}
<1>2. 0 \in S
  BY <1>1, EmptyTable
<1>3. ASSUME NEW n \in Nat, n \in S PROVE n + 1 \in S
  <2> SUFFICES ASSUME n + 1 <= Len(lines) PROVE IsTable(read[n + 1])
    OBVIOUS
  <2>1. Len(lines) \in Nat
    BY LenProperties
  <2>2. n + 1 \in 1..Len(lines) /\ n <= Len(lines) /\ (n + 1) - 1 = n
    BY <2>1
  <2>3. lines[n + 1] \in Accounts
    BY <2>2, ElementOfSeq
  <2>4. read[n + 1] = ParseLine(read[n], lines[n + 1])
    BY <1>1, <2>2
  <2> QED BY <2>2, <2>3, <2>4, <1>3, ParseLineTable
<1>4. Len(lines) \in S
  <2> HIDE DEF S
  <2> QED BY <1>2, <1>3, NatSetInduction, LenProperties
<1> QED BY <1>1, <1>4, LenProperties

\* A table written to the file is read back as it is.
LEMMA ParseOfTable ==
  ASSUME NEW t, IsTable(t)
  PROVE  Parse(t) = t
<1>0. t \in Seq(Accounts) /\ Len(t) \in Nat /\ Len(t) <= UserMax
  BY LenProperties DEF IsTable
<1>1. PICK read : /\ read[0] = <<>>
                  /\ \A i \in 1..Len(t) : read[i] = ParseLine(read[i - 1], t[i])
                  /\ Parse(t) = read[Len(t)]
  BY ParseSteps, <1>0
<1> DEFINE Same(n, r) == /\ IsTable(r) /\ Len(r) = n
                         /\ \A i \in 1..n : r[i] = t[i]
           S == {n \in Nat : n <= Len(t) => Same(n, read[n])}
<1>2. 0 \in S
  BY <1>1, EmptyTable
<1>3. ASSUME NEW n \in Nat, n \in S PROVE n + 1 \in S
  <2> SUFFICES ASSUME n + 1 <= Len(t) PROVE Same(n + 1, read[n + 1])
    OBVIOUS
  <2>2. n + 1 \in 1..Len(t) /\ n <= Len(t) /\ (n + 1) - 1 = n /\ n < UserMax
    BY <1>0, Bounds
  <2>3. t[n + 1] \in Accounts
    BY <2>2, <1>0, ElementOfSeq
  <2>4. Same(n, read[n])
    BY <2>2, <1>3
  <2> HIDE DEF S
  <2>5. Find(read[n], t[n + 1].name) = {}
    <3>1. ASSUME NEW i \in 1..n PROVE t[i].name # t[n + 1].name
      <4>1. i \in 1..Len(t) /\ i # n + 1
        BY <2>2
      <4> QED BY <4>1, <2>2 DEF IsTable
    <3> QED BY <3>1, <2>4, FindIs
  <2>6. read[n + 1] = Append(read[n], t[n + 1])
    BY <1>1, <2>2, <2>4, <2>5 DEF ParseLine, AddEntry
  <2>7. /\ IsTable(Append(read[n], t[n + 1]))
        /\ Len(Append(read[n], t[n + 1])) = n + 1
        /\ Append(read[n], t[n + 1])[n + 1] = t[n + 1]
        /\ \A i \in 1..n : Append(read[n], t[n + 1])[i] = read[n][i]
    <3>1. IsTable(read[n]) /\ Len(read[n]) = n /\ Len(read[n]) < UserMax
      BY <2>2, <2>4
    <3> HIDE DEF Same
    <3> QED BY <2>3, <2>5, <3>1, AppendTable
  <2>8. \A i \in 1..n + 1 : i \in 1..n \/ i = n + 1
    OBVIOUS
  <2> QED BY <2>4, <2>6, <2>7, <2>8
<1>4. Len(t) \in S
  <2> HIDE DEF S
  <2> QED BY <1>0, <1>2, <1>3, NatSetInduction
<1>5. Same(Len(t), Parse(t))
  BY <1>0, <1>1, <1>4
<1>6. Parse(t) \in Seq(Accounts)
  BY <1>5 DEF IsTable
<1> QED BY <1>0, <1>5, <1>6, SeqEqual
-----------------------------------------------------------------------------
(* What holds in every state: of the file, of the table and of the command *)
(* that is running.                                                         *)

Fit == \/ job.user \in ToSet(users)
       \/ Len(users) = UserMax /\ Find(users, job.user.name) = {}
AddOK == job.kind = "add" =>
  /\ job.user \in Accounts /\ pc \in {"etc", "base", "home", "sync"}
  /\ pc # "sync" => Find(users, job.user.name) = {}
  /\ pc = "sync" => Fit
PasswdOK == job.kind = "passwd" => pc = "sync" /\ job.at \in 1..Len(users)
JobOK ==
  /\ pc \in {"off", "login", "shell"} => job = NoJob
  /\ job.kind \in {"none", "boot", "add", "passwd"}
  /\ job.kind = "none" => pc \in {"off", "login", "shell"}
  /\ pc = "ready" => job.kind = "boot"
TablesInv == passwd \in Files /\ IsTable(users) /\ JobOK /\ AddOK /\ PasswdOK

LEMMA RootTable == IsTable(<<RootAccount>>)
<1>1. <<RootAccount>> \in Seq(Accounts) /\ Len(<<RootAccount>>) = 1
  BY RootIsAccount
<1>2. \A i, j \in 1..1 : i = j
  OBVIOUS
<1> QED BY <1>1, <1>2, Bounds DEF IsTable

LEMMA FileLines ==
  ASSUME NEW file \in Files
  PROVE  file.lines \in Seq(Accounts)
<1>1. CASE file = NoFile
  BY <1>1, EmptySeq DEF NoFile
<1>2. CASE file \in [there : {TRUE}, lines : Seq(Accounts)]
  BY <1>2
<1> QED BY <1>1, <1>2 DEF Files

LEMMA LoadIsTable ==
  ASSUME NEW file \in Files
  PROVE  IsTable(LoadTable(file))
BY FileLines, ParseIsTable, RootTable DEF LoadTable

LEMMA LoadedTable ==
  ASSUME NEW t, NEW ok, passwd \in Files, Load(t, ok)
  PROVE  IsTable(t) /\ (t = LoadTable(passwd) \/ t = <<RootAccount>>)
BY LoadIsTable, RootTable DEF Load

LEMMA TableFile ==
  ASSUME NEW t, IsTable(t)
  PROVE  File(t) \in Files /\ LoadTable(File(t)) = t
<1>1. File(t).there /\ File(t).lines = t
  BY DEF File
<1>2. LoadTable(File(t)) = t
  BY <1>1, ParseOfTable DEF LoadTable
<1>3. t \in Seq(Accounts)
  BY DEF IsTable
<1> QED BY <1>2, <1>3 DEF File, Files

\* user_sync_passwd leaves the file as it was or writes the whole table.
LEMMA SyncWrites ==
  ASSUME NEW ok, Sync(users, ok)
  PROVE  /\ passwd' = passwd \/ passwd' = File(users)
         /\ ok => passwd' = File(users)
BY DEF Sync

LEMMA NewUidType ==
  ASSUME NEW t, IsTable(t)
  PROVE  NewUid(t) \in 0..MaxUid
<1> DEFINE U == {FirstUid - 1} \cup {t[i].uid : i \in 1..Len(t)}
           m == IF MaxUid > FirstUid THEN MaxUid ELSE FirstUid
<1>1. \A i \in 1..Len(t) : t[i].uid \in 0..MaxUid
  BY TableEntry DEF Accounts
<1>2. U \subseteq Nat /\ U # {} /\ m \in Nat /\ \A x \in U : x <= m
  BY <1>1, Bounds
<1> HIDE DEF U, m
<1>3. \E x \in U : \A y \in U : x >= y
  BY <1>2, GreatestNat
<1>4. Max(U) \in Nat
  BY <1>2, <1>3 DEF Max
<1>5. (Max(U) + 1) % (MaxUid + 1) \in 0..MaxUid
  BY <1>4, Bounds
<1> QED BY <1>5 DEF NewUid, U

LEMMA PassChanged ==
  ASSUME NEW t, IsTable(t), NEW i \in 1..Len(t), NEW p \in Passwords
  PROVE  /\ IsTable([t EXCEPT ![i].pass = p])
         /\ Len([t EXCEPT ![i].pass = p]) = Len(t)
         /\ \A j \in 1..Len(t) : [t EXCEPT ![i].pass = p][j] =
                                   IF j = i THEN [t[j] EXCEPT !.pass = p] ELSE t[j]
<1> DEFINE e == [t EXCEPT ![i].pass = p]
           u == [t[i] EXCEPT !.pass = p]
<1>1. t[i] \in Accounts
  BY TableEntry
<1>2. u \in Accounts /\ u.name = t[i].name
  BY <1>1 DEF Accounts
<1>3. e = [t EXCEPT ![i] = u]
  OBVIOUS
<1> HIDE DEF u
<1>4. /\ e \in Seq(Accounts) /\ Len(e) = Len(t)
      /\ \A j \in 1..Len(t) : e[j] = IF j = i THEN u ELSE t[j]
  BY <1>2, <1>3, ExceptSeq DEF IsTable
<1> HIDE DEF e
<1>5. \A j \in 1..Len(t) : e[j].name = t[j].name
  BY <1>2, <1>4
<1>6. IsTable(e)
  BY <1>4, <1>5 DEF IsTable
<1> QED BY <1>4, <1>6 DEF e, u

\* Steps that change neither the file nor the table nor the command.
LEMMA SameTables ==
  ASSUME TablesInv, UNCHANGED <<passwd, users, job, pc>>
  PROVE  TablesInv'
BY DEF TablesInv, JobOK, AddOK, PasswdOK, Fit

LEMMA NoJobKind == NoJob.kind = "none"
BY DEF NoJob

LEMMA IdleTables ==
  ASSUME TablesInv, passwd' \in Files, IsTable(users)', job' = NoJob,
         pc' \in {"off", "login", "shell"}
  PROVE  TablesInv'
BY NoJobKind DEF TablesInv, JobOK, AddOK, PasswdOK

LEMMA BootTables ==
  ASSUME TablesInv, passwd' \in Files, IsTable(users)', job'.kind = "boot",
         pc' \in {"etc", "base", "sync", "ready"}
  PROVE  TablesInv'
BY DEF TablesInv, JobOK, AddOK, PasswdOK

LEMMA InitTables == Init => TablesInv
<1> SUFFICES ASSUME Init PROVE TablesInv
  OBVIOUS
<1>1. passwd \in Files
  BY SessionAssumption DEF Init
<1>2. IsTable(users)
  BY EmptyTable DEF Init
<1> QED BY <1>1, <1>2, NoJobKind DEF Init, TablesInv, JobOK, AddOK, PasswdOK

LEMMA WithRootTable ==
  ASSUME NEW t, IsTable(t)
  PROVE  IsTable(WithRoot(t))
BY AddEntryTable, RootIsAccount DEF WithRoot

\* The steps of the kernel: "cd", "cd ~" and "cd -" change the directory.
LEMMA StepCases ==
  ASSUME Next
  PROVE  \/ Boot \/ BootDir \/ BootSync \/ BootDone
         \/ AddDir \/ AddSync \/ PasswdSync
         \/ \E n \in Names, p \in Passwords : Login(n, p)
         \/ Logout
         \/ \E n \in Names, p \in Passwords : UserAdd(n, p)
         \/ \E old, new \in Passwords : Passwd(old, new)
         \/ \E d : ChangeDir(d)
         \/ \E file \in Edits \cup {NoFile} : Edit(file)
         \/ \E d : Rmdir(d) \/ Mkdir(d)
         \/ Crash
<1>1. CASE Start
  BY <1>1 DEF Start
<1>2. CASE Step
  BY <1>2 DEF Step
<1>3. CASE Command
  BY <1>3 DEF Command, CdHome, CdBack
<1>4. CASE Crash
  BY <1>4
<1> QED BY <1>1, <1>2, <1>3, <1>4 DEF Next

LEMMA BootTablesStep == ASSUME TablesInv, Boot PROVE TablesInv'
<1>1. PICK t \in Tables, ok \in BOOLEAN :
        /\ Load(t, ok) /\ users' = WithRoot(t)
        /\ Goto("etc", [kind |-> "boot", loaded |-> ok /\ Find(t, ROOT) # {}])
  BY DEF Boot
<1>2. IsTable(WithRoot(t))
  BY <1>1, LoadedTable, WithRootTable DEF TablesInv
<1>3. passwd' = passwd
  BY DEF Boot, disk
<1>4. job'.kind = "boot" /\ pc' = "etc"
  BY <1>1 DEF Goto
<1>5. IsTable(users)'
  BY <1>1, <1>2
<1> QED BY <1>3, <1>4, <1>5, BootTables DEF TablesInv

LEMMA BootDirTables == ASSUME TablesInv, BootDir PROVE TablesInv'
<1>1. passwd' = passwd /\ users' = users /\ job' = job /\ job.kind = "boot"
      /\ pc' \in {"base", "ready", "sync"}
  BY DEF BootDir, Goto
<1>2. IsTable(users)'
  BY <1>1 DEF TablesInv
<1> QED BY <1>1, <1>2, BootTables DEF TablesInv

LEMMA BootSyncTables == ASSUME TablesInv, BootSync PROVE TablesInv'
<1>1. users' = users /\ job' = job /\ job.kind = "boot" /\ pc' = "ready"
  BY DEF BootSync, Goto
<1>2. IsTable(users)'
  BY <1>1 DEF TablesInv
<1>3. passwd' = passwd \/ passwd' = File(users)
  BY SyncWrites DEF BootSync
<1>4. passwd' \in Files
  BY <1>3, TableFile DEF TablesInv
<1> QED BY <1>1, <1>2, <1>4, BootTables DEF TablesInv

LEMMA BootDoneTables == ASSUME TablesInv, BootDone PROVE TablesInv'
<1>1. passwd' = passwd /\ users' = users /\ job' = NoJob /\ pc' = "login"
  BY DEF BootDone, Goto, disk
<1>2. IsTable(users)'
  BY <1>1 DEF TablesInv
<1> QED BY <1>1, <1>2, IdleTables DEF TablesInv

LEMMA AddDirTables == ASSUME TablesInv, AddDir PROVE TablesInv'
<1>1. passwd' = passwd /\ job.kind = "add" /\ pc \in {"etc", "base", "home"}
  BY DEF AddDir
<1>2. job.user \in Accounts /\ Find(users, job.user.name) = {} /\ IsTable(users)
  BY <1>1 DEF TablesInv, AddOK
<1>3. CASE Return(FALSE) /\ UNCHANGED users
  <2>1. IsTable(users)' /\ job' = NoJob /\ pc' = "shell"
    BY <1>2, <1>3 DEF Return
  <2> QED BY <1>1, <2>1, IdleTables DEF TablesInv
<1>4. CASE job' = job /\ users' = users /\ pc' \in {"base", "home"}
  <2>1. IsTable(users)' /\ job'.kind = "add"
    BY <1>1, <1>2, <1>4
  <2>2. JobOK'
    BY <1>1, <1>4 DEF JobOK
  <2>3. AddOK'
    BY <1>2, <1>4 DEF AddOK
  <2>4. PasswdOK'
    BY <1>1, <1>4 DEF PasswdOK
  <2> QED BY <1>1, <2>1, <2>2, <2>3, <2>4 DEF TablesInv
<1>5. CASE job' = job /\ users' = AddEntry(users, job.user) /\ pc' = "sync"
  <2>1. IsTable(AddEntry(users, job.user))
    BY <1>2, AddEntryTable
  <2>2. JobOK'
    BY <1>1, <1>5 DEF JobOK
  <2>3. PasswdOK'
    BY <1>1, <1>5 DEF PasswdOK
  <2>4. Fit'
    <3>1. CASE Len(users) < UserMax
      <4>1. users' = Append(users, job.user)
        BY <1>5, <3>1 DEF AddEntry
      <4>2. Len(users) + 1 \in 1..Len(users') /\ users'[Len(users) + 1] = job.user
        BY <4>1, <1>2, <3>1, AppendTable, LenProperties DEF IsTable
      <4>3. users'[Len(users) + 1] \in ToSet(users')
        BY <4>1, <4>2, <2>1, <1>5, LenProperties DEF ToSet, IsTable
      <4> QED BY <4>2, <4>3, <1>5 DEF Fit
    <3>2. CASE ~(Len(users) < UserMax)
      <4>1. users' = users
        BY <1>5, <3>2 DEF AddEntry
      <4>2. Len(users) = UserMax
        BY <1>2, <3>2, Bounds, LenProperties DEF IsTable
      <4> QED BY <4>1, <4>2, <1>2, <1>5 DEF Fit
    <3> QED BY <3>1, <3>2
  <2>5. AddOK'
    BY <1>2, <1>5, <2>4 DEF AddOK
  <2>6. IsTable(users)'
    BY <1>5, <2>1
  <2> QED BY <1>1, <2>2, <2>3, <2>5, <2>6 DEF TablesInv
<1> QED BY <1>3, <1>4, <1>5 DEF AddDir, Goto

LEMMA AddSyncTables == ASSUME TablesInv, AddSync PROVE TablesInv'
<1>1. users' = users /\ job' = NoJob /\ pc' = "shell"
  BY DEF AddSync, Return
<1>2. IsTable(users)'
  BY <1>1 DEF TablesInv
<1>3. passwd' = passwd \/ passwd' = File(users)
  BY SyncWrites DEF AddSync
<1>4. passwd' \in Files
  BY <1>3, TableFile DEF TablesInv
<1> QED BY <1>1, <1>2, <1>4, IdleTables

LEMMA PasswdSyncTables == ASSUME TablesInv, PasswdSync PROVE TablesInv'
<1>1. users' = users /\ job' = NoJob /\ pc' = "shell"
  BY DEF PasswdSync, Return
<1>2. IsTable(users)'
  BY <1>1 DEF TablesInv
<1>3. passwd' = passwd \/ passwd' = File(users)
  BY SyncWrites DEF PasswdSync
<1>4. passwd' \in Files
  BY <1>3, TableFile DEF TablesInv
<1> QED BY <1>1, <1>2, <1>4, IdleTables

LEMMA LoginTables ==
  ASSUME TablesInv, NEW n, NEW p, Login(n, p) PROVE TablesInv'
<1>1. PICK t \in Tables, ok \in BOOLEAN : /\ Load(t, ok) /\ users' = t
  BY DEF Login
<1>2. IsTable(users)'
  BY <1>1, LoadedTable DEF TablesInv
<1>3. passwd' = passwd /\ pc = "login"
  BY DEF Login, disk
<1>4. job = NoJob
  BY <1>3 DEF TablesInv, JobOK
<1>5. job' = NoJob /\ pc' \in {"login", "shell"}
  BY <1>3, <1>4 DEF Login, Return
<1> QED BY <1>2, <1>3, <1>5, IdleTables DEF TablesInv

LEMMA UserAddTables ==
  ASSUME TablesInv, NEW n \in Names, NEW p \in Passwords, UserAdd(n, p)
  PROVE  TablesInv'
<1> DEFINE u(t) == Account(n, NewUid(t), Home(n), p)
<1>1. PICK t \in Tables, ok \in BOOLEAN :
        /\ Load(t, ok) /\ users' = t
        /\ IF Find(t, n) # {} THEN Return(FALSE)
           ELSE Goto("etc", [kind |-> "add", user |-> u(t)])
  BY DEF UserAdd
<1>2. IsTable(t)
  BY <1>1, LoadedTable DEF TablesInv
<1>3. passwd' = passwd /\ passwd' \in Files
  BY DEF UserAdd, disk, TablesInv
<1>4. u(t) \in Accounts /\ u(t).name = n
  <2>1. NewUid(t) \in 0..MaxUid /\ Home(n) \in Paths
    BY <1>2, NewUidType DEF Paths
  <2> QED BY <2>1 DEF Account, Accounts
<1> HIDE DEF u
<1>5. CASE Find(t, n) # {}
  BY <1>1, <1>2, <1>3, <1>5, IdleTables DEF Return
<1>6. CASE Find(t, n) = {}
  <2>1. pc' = "etc" /\ job' = [kind |-> "add", user |-> u(t)] /\ users' = t
    BY <1>1, <1>6 DEF Goto
  <2>2. job'.kind = "add" /\ job'.user = u(t)
    BY <2>1
  <2>3. JobOK'
    BY <2>1, <2>2 DEF JobOK
  <2>4. AddOK'
    BY <2>1, <2>2, <1>4, <1>6 DEF AddOK
  <2>5. PasswdOK'
    BY <2>2 DEF PasswdOK
  <2>6. IsTable(users)'
    BY <2>1, <1>2
  <2> QED BY <1>3, <2>3, <2>4, <2>5, <2>6 DEF TablesInv
<1> QED BY <1>5, <1>6

LEMMA PasswdTables ==
  ASSUME TablesInv, NEW old, NEW new \in Passwords, Passwd(old, new)
  PROVE  TablesInv'
<1>1. PICK t \in Tables, ok \in BOOLEAN :
       /\ Load(t, ok)
       /\ \/ \E i \in 1..Len(t) :
               /\ users' = [t EXCEPT ![i].pass = new]
               /\ Goto("sync", [kind |-> "passwd", at |-> i])
          \/ users' = t /\ Return(FALSE)
  BY DEF Passwd
<1>2. IsTable(t)
  BY <1>1, LoadedTable DEF TablesInv
<1>3. passwd' = passwd /\ passwd' \in Files
  BY DEF Passwd, disk, TablesInv
<1>4. ASSUME NEW i \in 1..Len(t), users' = [t EXCEPT ![i].pass = new],
             Goto("sync", [kind |-> "passwd", at |-> i])
      PROVE  TablesInv'
  <2>1. IsTable([t EXCEPT ![i].pass = new]) /\ Len([t EXCEPT ![i].pass = new]) = Len(t)
    BY <1>2, PassChanged
  <2>2. IsTable(users)' /\ Len(users') = Len(t)
    BY <2>1, <1>4
  <2>3. pc' = "sync" /\ job'.kind = "passwd" /\ job'.at = i
    BY <1>4 DEF Goto
  <2>4. JobOK'
    BY <2>3 DEF JobOK
  <2>5. AddOK' /\ PasswdOK'
    BY <2>2, <2>3 DEF AddOK, PasswdOK
  <2> QED BY <1>3, <2>2, <2>4, <2>5 DEF TablesInv
<1>5. CASE users' = t /\ Return(FALSE)
  BY <1>2, <1>3, <1>5, IdleTables DEF Return
<1> QED BY <1>1, <1>4, <1>5

LEMMA ShellTables ==
  ASSUME TablesInv, users' = users, Begin, Return(TRUE), passwd' \in Files
  PROVE  TablesInv'
<1>1. IsTable(users)'
  BY DEF TablesInv
<1> QED BY <1>1, IdleTables DEF Return

LEMMA TablesStep == ASSUME TablesInv, Next PROVE TablesInv'
<1>1. CASE Logout
  <2>1. pc = "shell" /\ pc' = "login" /\ job' = job /\ users' = users /\ passwd' = passwd
    BY <1>1 DEF Logout, Begin, disk
  <2>2. IsTable(users)' /\ job = NoJob
    BY <2>1 DEF TablesInv, JobOK
  <2> QED BY <2>1, <2>2, IdleTables DEF TablesInv
<1>2. ASSUME NEW d, ChangeDir(d) PROVE TablesInv'
  BY <1>2, ShellTables DEF ChangeDir, disk, TablesInv
<1>3. ASSUME NEW file \in Edits \cup {NoFile}, Edit(file) PROVE TablesInv'
  <2>1. file \in Files
    BY SessionAssumption DEF Files
  <2> QED BY <1>3, <2>1, ShellTables DEF Edit
<1>4. ASSUME NEW d, Rmdir(d) \/ Mkdir(d) PROVE TablesInv'
  BY <1>4, ShellTables DEF Rmdir, Mkdir, TablesInv
<1>5. CASE Crash
  <2>1. passwd' \in Files
    BY <1>5, EmptyTable, TableFile DEF Crash, TablesInv
  <2> QED BY <1>5, <2>1, EmptyTable, IdleTables DEF Crash
<1> QED BY <1>1, <1>2, <1>3, <1>4, <1>5, StepCases, BootTablesStep,
           BootDirTables, BootSyncTables, BootDoneTables, AddDirTables,
           AddSyncTables, PasswdSyncTables, LoginTables, UserAddTables,
           PasswdTables

LEMMA TablesInvariant == Spec => []TablesInv
<1>1. ASSUME TablesInv, [Next]_vars PROVE TablesInv'
  <2>1. CASE UNCHANGED vars
    BY <2>1, <1>1, SameTables DEF vars
  <2> QED BY <2>1, <1>1, TablesStep
<1> QED BY <1>1, InitTables, PTL DEF Spec
-----------------------------------------------------------------------------
(* "User added." and "Password updated." are true of the file. *)

LEMMA WholeTable ==
  ASSUME TablesInv, passwd' = File(users)
  PROVE  InEffect' = ToSet(users)
<1>1. Parse(passwd.lines)' = Parse(users)
  BY DEF File
<1> QED BY <1>1, ParseOfTable DEF InEffect, TablesInv

LEMMA StoredStep ==
  ASSUME TablesInv, [Next]_vars, pc = "sync", pc' = "shell", ret'
  PROVE  CASE job.kind = "add"    -> \/ job.user \in InEffect'
                                  \/ /\ Len(users) = UserMax
                                     /\ Find(users, job.user.name) = {}
           [] job.kind = "passwd" -> users[job.at] \in InEffect'
<1>1. AddSync \/ PasswdSync
  <2>1. Next
    BY DEF vars
  <2> QED BY <2>1, StepCases DEF Boot, BootDir, BootSync, BootDone, AddDir,
             Login, Logout,
             UserAdd, Passwd, ChangeDir, Edit, Rmdir, Mkdir, Crash, Begin, Goto
<1>2. passwd' = File(users)
  BY <1>1, SyncWrites DEF AddSync, PasswdSync, Return
<1>3. InEffect' = ToSet(users)
  BY <1>2, WholeTable
<1>4. CASE AddSync
  <2>1. job.kind = "add" /\ Fit
    BY <1>4 DEF AddSync, TablesInv, AddOK
  <2> QED BY <1>3, <2>1 DEF Fit
<1>5. CASE PasswdSync
  <2>1. job.kind = "passwd" /\ job.at \in 1..Len(users)
    BY <1>5 DEF PasswdSync, TablesInv, PasswdOK
  <2>2. users[job.at] \in ToSet(users)
    BY <2>1, LenProperties DEF TablesInv, IsTable, ToSet
  <2>3. job.kind # "add"
    BY <2>1
  <2> QED BY <1>3, <2>1, <2>2, <2>3
<1> QED BY <1>1, <1>4, <1>5

\* A command that reports success has stored the account or the password,
\* whatever fails and whenever power is lost (run_useradd, run_passwd): of a
\* new account but for the one case that the table is full.
THEOREM SuccessAlwaysStored == Spec => SuccessIsStored
BY TablesInvariant, StoredStep, PTL DEF Spec, SuccessIsStored
-----------------------------------------------------------------------------
(* The variables of the environment follow the session. *)

\* What a session shows: the variables that are in the table, and their values.
Shown(e, u, h, d) ==
  /\ {"USER", "HOME", "PWD"} \subseteq DOMAIN e
  /\ e["USER"] = u /\ e["HOME"] = h /\ e["PWD"] = d

\* Setting the four variables shows the session, when USER and PWD are there
\* or find room.
LEMMA SetShows ==
  ASSUME NEW e, NEW u, NEW h, NEW d, NEW o, "HOME" \in DOMAIN e,
         \/ {"USER", "PWD"} \subseteq DOMAIN e
         \/ IsFiniteSet(DOMAIN e) /\ Cardinality(DOMAIN e) + 1 < EnvMax
  PROVE  LET e1 == EnvSet(EnvSet(e, "USER", u), "HOME", h)
         IN  Shown(EnvSet(EnvSet(e1, "PWD", d), "OLDPWD", o), u, h, d)
<1> DEFINE ea == EnvSet(e, "USER", u)
           eb == EnvSet(ea, "HOME", h)
           ec == EnvSet(eb, "PWD", d)
           ed == EnvSet(ec, "OLDPWD", o)
<1>2. DOMAIN ea = DOMAIN e \cup {"USER"} /\ ea["USER"] = u
  <2>1. "USER" \in DOMAIN e \/ Cardinality(DOMAIN e) < EnvMax
    <3>1. IsFiniteSet(DOMAIN e) => Cardinality(DOMAIN e) \in Nat
      BY FS_CardinalityType
    <3> QED BY <3>1, Bounds
  <2> QED BY <2>1 DEF EnvSet
<1>3. "PWD" \in DOMAIN ea \/ Cardinality(DOMAIN ea) < EnvMax
  <2>1. CASE "PWD" \in DOMAIN e
    BY <2>1, <1>2
  <2>2. CASE IsFiniteSet(DOMAIN e) /\ Cardinality(DOMAIN e) + 1 < EnvMax
    <3>1. \/ Cardinality(DOMAIN e \cup {"USER"}) = Cardinality(DOMAIN e)
          \/ Cardinality(DOMAIN e \cup {"USER"}) = Cardinality(DOMAIN e) + 1
      BY <2>2, FS_AddElement
    <3>2. Cardinality(DOMAIN e) \in Nat
      BY <2>2, FS_CardinalityType
    <3> QED BY <1>2, <2>2, <3>1, <3>2, Bounds
  <2> QED BY <2>1, <2>2
<1> HIDE DEF ea
<1>4. DOMAIN eb = DOMAIN ea /\ eb["USER"] = u /\ eb["HOME"] = h
  <2>1. "HOME" \in DOMAIN ea /\ "USER" \in DOMAIN ea
    BY <1>2
  <2> QED BY <2>1, <1>2 DEF EnvSet
<1> HIDE DEF eb
<1>5. /\ {"USER", "HOME", "PWD"} \subseteq DOMAIN ec
      /\ ec["USER"] = u /\ ec["HOME"] = h /\ ec["PWD"] = d
  BY <1>2, <1>3, <1>4 DEF EnvSet
<1> HIDE DEF ec
<1>6. /\ {"USER", "HOME", "PWD"} \subseteq DOMAIN ed
      /\ ed["USER"] = u /\ ed["HOME"] = h /\ ed["PWD"] = d
  BY <1>5 DEF EnvSet
<1> QED BY <1>6 DEF Shown, ea, eb, ec

\* The assumption: the table of variables holds those of /XENV.ENV, PATH, HOME,
\* USER and PWD.  env_set drops a new variable in silence when it is full.
EnvRoom == Cardinality(XVars) + 4 <= EnvMax

EnvInv ==
  /\ SessionEnv
  /\ job.kind = "boot" => env = BootEnv /\ current = Nobody
  /\ pc = "off" => current = Nobody
  /\ (pc \in {"login", "shell"} \/ job.kind \in {"add", "passwd"})
       => {"USER", "HOME", "PWD"} \subseteq DOMAIN env

LEMMA BootEnvRoom ==
  ASSUME EnvRoom
  PROVE  /\ IsFiniteSet(DOMAIN BootEnv) /\ "HOME" \in DOMAIN BootEnv
         /\ Cardinality(DOMAIN BootEnv) + 1 < EnvMax
<1>1. IsFiniteSet(XVars) /\ "PATH" \notin XVars /\ "HOME" \notin XVars
  BY SessionAssumption
<1>2. Cardinality(XVars) \in Nat
  BY <1>1, FS_CardinalityType
<1>3. /\ IsFiniteSet(XVars \cup {"PATH"})
      /\ Cardinality(XVars \cup {"PATH"}) = Cardinality(XVars) + 1
  BY <1>1, FS_AddElement
<1>4. /\ IsFiniteSet((XVars \cup {"PATH"}) \cup {"HOME"})
      /\ Cardinality((XVars \cup {"PATH"}) \cup {"HOME"}) = Cardinality(XVars) + 1 + 1
  <2>1. "HOME" \notin XVars \cup {"PATH"}
    BY <1>1
  <2> QED BY <1>3, <2>1, FS_AddElement
<1>5. DOMAIN BootEnv = (XVars \cup {"PATH"}) \cup {"HOME"}
  BY DEF BootEnv
<1> QED BY <1>2, <1>4, <1>5, Bounds DEF EnvRoom

\* The session is set from a full set of variables: what follows shows it.
LEMMA SetCurrentShows ==
  ASSUME NEW u, SetCurrent(u), {"USER", "HOME", "PWD"} \subseteq DOMAIN env
  PROVE  Shown(env', current'.name, current'.home, Kept(cwd'))
<1> DEFINE here == CdTo(u.home)
           e1 == EnvSet(EnvSet(env, "USER", u.name), "HOME", u.home)
<1>1. Shown(EnvSet(EnvSet(e1, "PWD", Kept(here)), "OLDPWD", Kept(here)), u.name,
            u.home, Kept(here))
  BY SetShows
<1>2. current' = u /\ cwd' = here /\ env' = EnvSet(EnvSet(e1, "PWD", Kept(here)), "OLDPWD", Kept(here))
  BY DEF SetCurrent
<1> HIDE DEF here, e1
<1> QED BY <1>1, <1>2

LEMMA LogoutShows ==
  ASSUME LogoutFrom(env), "HOME" \in DOMAIN env,
         \/ {"USER", "PWD"} \subseteq DOMAIN env
         \/ IsFiniteSet(DOMAIN env) /\ Cardinality(DOMAIN env) + 1 < EnvMax
  PROVE  Shown(env', Blank, Top, Top) /\ current' = Nobody
<1> DEFINE e1 == EnvSet(EnvSet(env, "USER", Blank), "HOME", Top)
<1>1. Shown(EnvSet(EnvSet(e1, "PWD", Top), "OLDPWD", Top), Blank, Top, Top)
  BY SetShows
<1>2. current' = Nobody /\ env' = EnvSet(EnvSet(e1, "PWD", Top), "OLDPWD", Top)
  BY DEF LogoutFrom
<1> HIDE DEF e1
<1> QED BY <1>1, <1>2

LEMMA CdShows ==
  ASSUME NEW d, Cd(d), {"USER", "HOME", "PWD"} \subseteq DOMAIN env
  PROVE  Shown(env', env["USER"], env["HOME"], Kept(cwd'))
<1> DEFINE e == EnvSet(env, "OLDPWD", Kept(cwd))
<1>1. {"USER", "HOME", "PWD"} \subseteq DOMAIN e /\ e["USER"] = env["USER"] /\ e["HOME"] = env["HOME"]
  BY DEF EnvSet
<1> HIDE DEF e
<1>2. Shown(EnvSet(e, "PWD", Kept(d)), env["USER"], env["HOME"], Kept(d))
  BY <1>1 DEF EnvSet, Shown
<1> QED BY <1>2 DEF Cd, e

\* Where a session shows itself the invariant holds.
LEMMA ShownEnv ==
  ASSUME EnvInv, Shown(env', current'.name, current'.home, Kept(cwd')), pc' = "shell", job' = NoJob
  PROVE  EnvInv'
BY NoJobKind DEF EnvInv, SessionEnv, Shown

LEMMA ShownLogin ==
  ASSUME EnvInv, Shown(env', Blank, Top, Top), current' = Nobody, pc' = "login", job' = NoJob
  PROVE  EnvInv'
BY NoJobKind DEF EnvInv, SessionEnv, Shown

\* The running command returns, or goes on, with the session as it was.
LEMMA SameSession ==
  ASSUME EnvInv, UNCHANGED session, pc = "shell" \/ job.kind \in {"add", "passwd"},
         (pc' = "shell" /\ job' = NoJob) \/ (pc' \notin {"off", "login"} /\ job'.kind # "boot")
  PROVE  EnvInv'
BY NoJobKind DEF EnvInv, SessionEnv, session

LEMMA EnvBootStep == ASSUME EnvInv, Boot PROVE EnvInv'
<1>1. env' = BootEnv /\ current' = Nobody /\ pc' = "etc" /\ job'.kind = "boot"
  BY DEF Boot, Goto
<1> QED BY <1>1 DEF EnvInv, SessionEnv

LEMMA EnvBooting ==
  ASSUME EnvInv, job.kind = "boot", BootDir \/ BootSync
  PROVE  EnvInv'
<1>1. env' = env /\ current' = current /\ pc' \in {"base", "sync", "ready"} /\ job' = job
  BY DEF BootDir, BootSync, Goto, session
<1> QED BY <1>1 DEF EnvInv, SessionEnv

LEMMA EnvBootDone == ASSUME EnvRoom, EnvInv, BootDone PROVE EnvInv'
<1>1. env = BootEnv /\ LogoutFrom(env) /\ pc' = "login" /\ job' = NoJob
  BY DEF BootDone, Goto, EnvInv
<1>2. /\ IsFiniteSet(DOMAIN env) /\ "HOME" \in DOMAIN env
      /\ Cardinality(DOMAIN env) + 1 < EnvMax
  BY <1>1, BootEnvRoom
<1>3. Shown(env', Blank, Top, Top) /\ current' = Nobody
  BY <1>1, <1>2, LogoutShows
<1> QED BY <1>1, <1>3, ShownLogin

LEMMA EnvAddStep == ASSUME EnvInv, AddDir \/ AddSync PROVE EnvInv'
<1>1. job.kind = "add" /\ UNCHANGED session
  BY DEF AddDir, AddSync
<1>2. (pc' = "shell" /\ job' = NoJob) \/ (pc' \notin {"off", "login"} /\ job'.kind # "boot")
  BY <1>1 DEF AddDir, AddSync, Goto, Return
<1> QED BY <1>1, <1>2, SameSession

LEMMA EnvPasswdSync == ASSUME EnvInv, PasswdSync PROVE EnvInv'
<1>1. job.kind = "passwd" /\ pc' = "shell" /\ job' = NoJob
  BY DEF PasswdSync, Return
<1>2. {"USER", "HOME", "PWD"} \subseteq DOMAIN env
  BY <1>1 DEF EnvInv
<1>3. SetCurrent(users[job.at]) \/ UNCHANGED session
  BY DEF PasswdSync
<1> QED BY <1>1, <1>2, <1>3, SetCurrentShows, ShownEnv, SameSession

LEMMA EnvLogin == ASSUME TablesInv, EnvInv, NEW n, NEW p, Login(n, p) PROVE EnvInv'
<1>1. pc = "login" /\ {"USER", "HOME", "PWD"} \subseteq DOMAIN env
  BY DEF Login, EnvInv
<1>2. CASE UNCHANGED <<session, pc, job>>
  BY <1>2 DEF EnvInv, SessionEnv, session
<1>3. ASSUME NEW u, SetCurrent(u), Return(TRUE) PROVE EnvInv'
  BY <1>1, <1>3, SetCurrentShows, ShownEnv DEF Return
<1> QED BY <1>2, <1>3 DEF Login

LEMMA EnvLogout == ASSUME TablesInv, EnvInv, Logout PROVE EnvInv'
<1>1. pc = "shell" /\ LogoutFrom(env) /\ pc' = "login" /\ job' = job
  BY DEF Logout, Begin
<1>2. job' = NoJob /\ {"USER", "HOME", "PWD"} \subseteq DOMAIN env
  BY <1>1 DEF EnvInv, TablesInv, JobOK
<1> QED BY <1>1, <1>2, LogoutShows, ShownLogin

LEMMA EnvCommand ==
  ASSUME EnvInv, Begin, UNCHANGED session,
         \E n, p : UserAdd(n, p) \/ Passwd(n, p) \/ Edit(n) \/ Rmdir(n) \/ Mkdir(n)
  PROVE  EnvInv'
<1>1. pc = "shell"
  BY DEF Begin
<1>2. (pc' = "shell" /\ job' = NoJob) \/ (pc' \notin {"off", "login"} /\ job'.kind # "boot")
  BY DEF UserAdd, Passwd, Edit, Rmdir, Mkdir, Goto, Return
<1> QED BY <1>1, <1>2, SameSession

LEMMA EnvChangeDir == ASSUME EnvInv, NEW d, ChangeDir(d) PROVE EnvInv'
<1>1. pc = "shell" /\ pc' = "shell" /\ job' = NoJob /\ current' = current
  BY DEF ChangeDir, Begin, Return
<1>2. {"USER", "HOME", "PWD"} \subseteq DOMAIN env
  BY <1>1 DEF EnvInv
<1>3. CASE UNCHANGED <<cwd, prev, env>>
  BY <1>1, <1>3, SameSession DEF session
<1>4. CASE Cd(d)
  <2>1. Shown(env', env["USER"], env["HOME"], Kept(cwd'))
    BY <1>2, <1>4, CdShows
  <2> QED BY <1>1, <2>1, NoJobKind DEF EnvInv, SessionEnv, Shown
<1> QED BY <1>3, <1>4 DEF ChangeDir

LEMMA EnvStep == ASSUME EnvRoom, TablesInv, EnvInv, Next PROVE EnvInv'
<1>1. CASE Crash
  <2>1. pc' = "off" /\ current' = Nobody /\ job' = NoJob
    BY <1>1 DEF Crash
  <2> QED BY <2>1, NoJobKind DEF EnvInv, SessionEnv
<1>2. ASSUME NEW n, NEW p, UserAdd(n, p) \/ Passwd(n, p) \/ Edit(n) \/ Rmdir(n) \/ Mkdir(n) PROVE EnvInv'
  <2>1. Begin /\ UNCHANGED session
    BY <1>2 DEF UserAdd, Passwd, Edit, Rmdir, Mkdir
  <2> QED BY <1>2, <2>1, EnvCommand
<1>3. CASE BootDir \/ BootSync
  BY <1>3, EnvBooting DEF BootDir, BootSync
<1> QED BY <1>1, <1>2, <1>3, StepCases, EnvBootStep, EnvBootDone, EnvAddStep,
           EnvPasswdSync, EnvLogin, EnvLogout, EnvChangeDir

\* The variables show the session in every state, also while a command runs and
\* when a home directory is gone (user_set_current, user_logout, run_cd), if the
\* table of variables has room for them: USER and HOME whole, and as much of the
\* current directory as env_set keeps.
THEOREM SessionAlwaysShown == ASSUME EnvRoom PROVE Spec => []SessionEnv
<1>1. Init => EnvInv
  BY NoJobKind DEF Init, EnvInv, SessionEnv
<1>2. ASSUME TablesInv, EnvInv, [Next]_vars PROVE EnvInv'
  <2>1. CASE UNCHANGED vars
    BY <2>1, <1>2 DEF vars, EnvInv, SessionEnv
  <2> QED BY <2>1, <1>2, EnvStep
<1>3. EnvInv => SessionEnv
  BY DEF EnvInv
<1> QED BY <1>1, <1>2, <1>3, TablesInvariant, PTL DEF Spec
-----------------------------------------------------------------------------
(* The accounts the file holds are kept when the table is written back. *)

KeptAs(n, u, v) ==
  \/ v = u
  \/ u.name = n /\ v = [u EXCEPT !.pass = v.pass]
KeptInv ==
  /\ job.kind \in {"boot", "add"} /\ pc # "ready" => InEffect \subseteq ToSet(users)
  /\ job.kind = "passwd" =>
       \A u \in InEffect : \E v \in ToSet(users) : KeptAs(current.name, u, v)

LEMMA Elements ==
  ASSUME NEW t, IsTable(t)
  PROVE  \A u : u \in ToSet(t) <=> \E i \in 1..Len(t) : t[i] = u
BY LenProperties DEF IsTable, ToSet

LEMMA LoadHolds ==
  ASSUME TablesInv
  PROVE  InEffect \subseteq ToSet(LoadTable(passwd))
<1>1. CASE passwd.there
  BY <1>1 DEF InEffect, LoadTable
<1>2. CASE ~passwd.there
  <2>1. passwd = NoFile
    BY <1>2 DEF TablesInv, Files
  <2>2. Parse(passwd.lines) = <<>>
    BY <2>1, EmptyTable, ParseOfTable DEF NoFile
  <2>3. InEffect = {}
    <3>1. \A u : u \notin ToSet(<<>>)
      BY EmptyTable, Elements
    <3> QED BY <2>2, <3>1 DEF InEffect
  <2> QED BY <2>3
<1> QED BY <1>1, <1>2

LEMMA AppendElements ==
  ASSUME NEW t, IsTable(t), NEW u \in Accounts, Find(t, u.name) = {}
  PROVE  ToSet(t) \subseteq ToSet(AddEntry(t, u))
<1>1. CASE Len(t) < UserMax
  <2>1. AddEntry(t, u) = Append(t, u)
    BY <1>1 DEF AddEntry
  <2>2. /\ IsTable(Append(t, u)) /\ Len(Append(t, u)) = Len(t) + 1
        /\ \A i \in 1..Len(t) : Append(t, u)[i] = t[i]
    BY <1>1, AppendTable
  <2>3. ASSUME NEW i \in 1..Len(t) PROVE t[i] \in ToSet(Append(t, u))
    <3>1. i \in 1..Len(t) + 1 /\ Append(t, u)[i] = t[i]
      BY <2>2, LenProperties DEF IsTable
    <3> QED BY <3>1, <2>2, Elements
  <2> QED BY <2>1, <2>3, Elements
<1>2. CASE ~(Len(t) < UserMax)
  BY <1>2 DEF AddEntry
<1> QED BY <1>1, <1>2

LEMMA WithRootElements ==
  ASSUME NEW t, IsTable(t)
  PROVE  ToSet(t) \subseteq ToSet(WithRoot(t))
BY RootIsAccount, AppendElements DEF WithRoot

LEMMA CleanLoad ==
  ASSUME "read" \notin FaultKinds, NEW t, NEW ok, Load(t, ok)
  PROVE  t = LoadTable(passwd)
BY DEF Load, Fault

LEMMA SameFile ==
  ASSUME passwd' = passwd
  PROVE  InEffect' = InEffect
BY DEF InEffect

LEMMA KeptPasswd ==
  ASSUME "read" \notin FaultKinds, TablesInv, NEW old, NEW new \in Passwords, Passwd(old, new)
  PROVE  KeptInv'
<1>1. PICK t \in Tables, ok \in BOOLEAN :
       /\ Load(t, ok)
       /\ \/ \E i \in 1..Len(t) :
               /\ IsTarget(i, t)
               /\ users' = [t EXCEPT ![i].pass = new]
               /\ Goto("sync", [kind |-> "passwd", at |-> i])
          \/ users' = t /\ Return(FALSE)
  BY DEF Passwd
<1>2. t = LoadTable(passwd) /\ IsTable(t)
  BY <1>1, CleanLoad, LoadedTable DEF TablesInv
<1>3. passwd' = passwd /\ current' = current
  BY DEF Passwd, disk, session
<1>4. InEffect' = InEffect /\ InEffect \subseteq ToSet(t)
  BY <1>2, <1>3, SameFile, LoadHolds
<1>5. CASE Return(FALSE)
  BY <1>5, NoJobKind DEF KeptInv, Return
<1>6. ASSUME NEW i \in 1..Len(t), IsTarget(i, t), users' = [t EXCEPT ![i].pass = new],
             Goto("sync", [kind |-> "passwd", at |-> i])
      PROVE  KeptInv'
  <2>1. job'.kind = "passwd"
    BY <1>6 DEF Goto
  <2>2. /\ IsTable(users') /\ Len(users') = Len(t)
        /\ \A j \in 1..Len(t) :
             users'[j] = IF j = i THEN [t[j] EXCEPT !.pass = new] ELSE t[j]
    <3> DEFINE e == [t EXCEPT ![i].pass = new]
    <3>1. /\ IsTable(e) /\ Len(e) = Len(t)
          /\ \A j \in 1..Len(t) :
               e[j] = IF j = i THEN [t[j] EXCEPT !.pass = new] ELSE t[j]
      BY <1>2, PassChanged
    <3>2. users' = e
      BY <1>6
    <3> HIDE DEF e
    <3> QED BY <3>1, <3>2
  <2>3. ASSUME NEW u \in InEffect' PROVE \E v \in ToSet(users') : KeptAs(current'.name, u, v)
    <3>1. PICK j \in 1..Len(t) : t[j] = u
      BY <1>2, <1>4, Elements
    <3>2. users'[j] \in ToSet(users')
      BY <2>2, Elements
    <3>3. CASE j = i
      <4>1. u \in Accounts
        BY <1>2, <3>1, TableEntry
      <4>2. users'[j] = [u EXCEPT !.pass = new]
        BY <2>2, <3>1, <3>3
      <4>3. users'[j] = [u EXCEPT !.pass = users'[j].pass]
        BY <4>1, <4>2 DEF Accounts
      <4>4. u.name = current'.name
        BY <1>3, <1>6, <3>1, <3>3 DEF IsTarget
      <4>5. KeptAs(current'.name, u, users'[j])
        BY <4>3, <4>4 DEF KeptAs
      <4> QED BY <3>2, <4>5
    <3>4. CASE j # i
      <4>1. users'[j] = u
        BY <2>2, <3>1, <3>4
      <4> QED BY <3>2, <4>1 DEF KeptAs
    <3> QED BY <3>3, <3>4
  <2> QED BY <2>1, <2>3 DEF KeptInv
<1> QED BY <1>1, <1>5, <1>6

LEMMA KeptAdd ==
  ASSUME TablesInv, KeptInv, AddDir
  PROVE  KeptInv'
<1>1. job.kind = "add" /\ pc \in {"etc", "base", "home"} /\ passwd' = passwd
  BY DEF AddDir
<1>2. IsTable(users) /\ job.user \in Accounts /\ Find(users, job.user.name) = {}
  BY <1>1 DEF TablesInv, AddOK
<1>3. ToSet(users) \subseteq ToSet(AddEntry(users, job.user))
  BY <1>2, AppendElements
<1>4. users' = users \/ users' = AddEntry(users, job.user)
  BY DEF AddDir
<1>5. job' = job \/ job' = NoJob
  BY DEF AddDir, Goto, Return
<1>6. InEffect' = InEffect /\ InEffect \subseteq ToSet(users)
  BY <1>1, SameFile DEF KeptInv
<1>7. InEffect' \subseteq ToSet(users')
  BY <1>3, <1>4, <1>6
<1> QED BY <1>1, <1>5, <1>7, NoJobKind DEF KeptInv

LEMMA KeptStep ==
  ASSUME "read" \notin FaultKinds, TablesInv, KeptInv, Next
  PROVE  KeptInv'
<1>1. CASE Boot
  <2>1. PICK t \in Tables, ok \in BOOLEAN : Load(t, ok) /\ users' = WithRoot(t)
    BY <1>1 DEF Boot
  <2>2. t = LoadTable(passwd) /\ IsTable(t)
    BY <2>1, CleanLoad, LoadedTable DEF TablesInv
  <2>3. InEffect' = InEffect /\ job'.kind = "boot"
    BY <1>1, SameFile DEF Boot, disk, Goto
  <2>4. InEffect' \subseteq ToSet(users')
    BY <2>1, <2>2, <2>3, LoadHolds, WithRootElements
  <2> QED BY <2>3, <2>4 DEF KeptInv
<1>2. CASE BootDir
  <2>1. InEffect' = InEffect /\ users' = users /\ job' = job /\ job.kind = "boot" /\ pc # "ready"
    BY <1>2, SameFile DEF BootDir, Goto
  <2> QED BY <2>1 DEF KeptInv
<1>3. CASE BootSync
  <2>1. job'.kind = "boot" /\ pc' = "ready"
    BY <1>3 DEF BootSync, Goto
  <2> QED BY <2>1 DEF KeptInv
<1>4. ASSUME NEW n \in Names, NEW p \in Passwords, UserAdd(n, p) PROVE KeptInv'
  <2>1. PICK t \in Tables, ok \in BOOLEAN :
          /\ Load(t, ok) /\ users' = t
          /\ job' = NoJob \/ job'.kind = "add"
    BY <1>4 DEF UserAdd, Return, Goto
  <2>2. t = LoadTable(passwd)
    BY <2>1, CleanLoad
  <2>3. InEffect' = InEffect
    BY <1>4, SameFile DEF UserAdd, disk
  <2>4. InEffect' \subseteq ToSet(users')
    BY <2>1, <2>2, <2>3, LoadHolds
  <2> QED BY <2>1, <2>4, NoJobKind DEF KeptInv
<1>5. ASSUME NEW n, NEW p, Login(n, p) PROVE KeptInv'
  <2>1. job = NoJob
    BY <1>5 DEF Login, TablesInv, JobOK
  <2>2. job' = NoJob
    BY <1>5, <2>1 DEF Login, Return
  <2> QED BY <2>2, NoJobKind DEF KeptInv
<1>6. CASE Logout
  <2>1. job' = NoJob
    BY <1>6 DEF Logout, Begin, TablesInv, JobOK
  <2> QED BY <2>1, NoJobKind DEF KeptInv
<1>7. ASSUME job' = NoJob PROVE KeptInv'
  BY <1>7, NoJobKind DEF KeptInv
<1>8. BootDone \/ AddSync \/ PasswdSync \/ Crash => job' = NoJob
  BY DEF BootDone, AddSync, PasswdSync, Crash, Goto, Return
<1>9. ASSUME NEW d, ChangeDir(d) \/ Edit(d) \/ Rmdir(d) \/ Mkdir(d) PROVE job' = NoJob
  BY <1>9 DEF ChangeDir, Edit, Rmdir, Mkdir, Return
<1> QED BY <1>1, <1>2, <1>3, <1>4, <1>5, <1>6, <1>7, <1>8, <1>9, StepCases,
           KeptPasswd, KeptAdd

LEMMA WrittenBack ==
  ASSUME TablesInv, KeptInv, [Next]_vars, pc = "sync", pc' # "off"
  PROVE  \A u \in InEffect : \E v \in InEffect' :
           \/ v = u
           \/ u.name = current.name /\ v = [u EXCEPT !.pass = v.pass]
<1>1. AddSync \/ PasswdSync \/ BootSync \/ passwd' = passwd
  <2>1. CASE Next
    BY <2>1, StepCases DEF Boot, BootDir, BootDone, AddDir, Login, Logout,
       UserAdd, Passwd, ChangeDir, Edit, Rmdir, Mkdir, Crash, Begin
  <2> QED BY <2>1 DEF vars
<1>2. CASE passwd' = passwd
  BY <1>2, SameFile
<1>3. CASE passwd' = File(users) /\ (AddSync \/ PasswdSync \/ BootSync)
  <2>1. InEffect' = ToSet(users)
    BY <1>3, WholeTable
  <2>2. job.kind \in {"add", "boot", "passwd"}
    BY <1>3 DEF AddSync, PasswdSync, BootSync
  <2>3. CASE job.kind = "passwd"
    BY <2>1, <2>3 DEF KeptInv, KeptAs
  <2>4. CASE job.kind \in {"add", "boot"}
    BY <2>1, <2>4 DEF KeptInv
  <2> QED BY <2>2, <2>3, <2>4
<1> QED BY <1>1, <1>2, <1>3, SyncWrites DEF AddSync, PasswdSync, BootSync

\* Writing the table back loses no account and changes none but the password
\* of the account that is logged in (user_sync_passwd), if no read fails: a
\* failed read leaves ROOT alone in the table, and the next write stores that.
THEOREM AccountsAlwaysKept ==
  ASSUME "read" \notin FaultKinds PROVE Spec => AccountsKept
<1>1. Init => KeptInv
  BY NoJobKind DEF Init, KeptInv
<1>2. ASSUME TablesInv, KeptInv, [Next]_vars PROVE KeptInv'
  <2>1. CASE UNCHANGED vars
    BY <2>1, <1>2 DEF vars, KeptInv, KeptAs, InEffect
  <2> QED BY <2>1, <1>2, KeptStep
<1> QED BY <1>1, <1>2, WrittenBack, TablesInvariant, PTL DEF Spec, AccountsKept
-----------------------------------------------------------------------------
(* ROOT can log in. *)

HasRoot(t) == Find(t, ROOT) # {}
\* The assumptions: ROOT is not removed by hand, and the power failure that
\* tears the file is not followed by another fault.
RootGiven == \A file \in Disks \cup Edits : HasRoot(LoadTable(file))
OneTear == "torn" \in FaultKinds => MaxFaults <= 1

\* After the file was torn there is no further fault, and the kernel is on its
\* way to write a table with ROOT in it.
Torn ==
  /\ faults >= MaxFaults
  /\ passwd = File(<<>>)
  /\ \/ pc = "off"
     \/ /\ job.kind = "boot" /\ pc \in {"etc", "base", "sync"}
        /\ job.loaded = FALSE
        /\ pc \in {"base", "sync"} => EtcDir \in dirs
RootInv ==
  /\ faults \in Nat
  /\ HasRoot(LoadTable(passwd)) \/ Torn
  /\ job.kind \in {"add", "passwd"} => HasRoot(users)
  /\ job.kind = "boot" /\ pc # "ready" => HasRoot(users)

LEMMA FaultsStep ==
  ASSUME Next
  PROVE  faults' = faults \/ (faults < MaxFaults /\ faults' = faults + 1)
BY StepCases DEF Boot, BootDir, BootSync, BootDone, AddDir, AddSync,
   PasswdSync,
   Login, Logout, UserAdd, Passwd, ChangeDir, Edit, Rmdir, Mkdir, Crash, Load, EnsureDir,
   Sync, NoFault, Fault

LEMMA RootHasRoot == HasRoot(<<RootAccount>>)
<1>1. <<RootAccount>>[1] = RootAccount /\ 1 \in 1..Len(<<RootAccount>>)
  OBVIOUS
<1> QED BY <1>1, RootIsAccount, FindIs DEF HasRoot

LEMMA AddKeepsRoot ==
  ASSUME NEW t, IsTable(t), HasRoot(t), NEW u \in Accounts, Find(t, u.name) = {}
  PROVE  HasRoot(AddEntry(t, u))
<1>1. CASE Len(t) < UserMax
  <2> DEFINE a == Append(t, u)
  <2>1. AddEntry(t, u) = a
    BY <1>1 DEF AddEntry
  <2>2. /\ Len(a) = Len(t) + 1
        /\ \A i \in 1..Len(t) : a[i] = t[i]
    BY <1>1, AppendTable
  <2> HIDE DEF a
  <2>3. PICK i \in 1..Len(t) : t[i].name = ROOT
    BY FindIs DEF HasRoot
  <2>4. i \in 1..Len(a) /\ a[i].name = ROOT
    BY <2>2, <2>3, LenProperties DEF IsTable
  <2>5. HasRoot(a)
    BY <2>4, FindIs DEF HasRoot
  <2> QED BY <2>1, <2>5
<1>2. CASE ~(Len(t) < UserMax)
  BY <1>2 DEF AddEntry
<1> QED BY <1>1, <1>2

LEMMA WithRootHasRoot ==
  ASSUME NEW t, IsTable(t), HasRoot(t) \/ Len(t) < UserMax
  PROVE  HasRoot(WithRoot(t))
<1>1. CASE HasRoot(t)
  BY <1>1 DEF WithRoot, HasRoot
<1>2. CASE ~HasRoot(t)
  <2>1. WithRoot(t) = Append(t, RootAccount)
    BY <1>2 DEF WithRoot, HasRoot, AddEntry
  <2>2. /\ Len(Append(t, RootAccount)) = Len(t) + 1
        /\ Append(t, RootAccount)[Len(t) + 1] = RootAccount
    BY <1>2, RootIsAccount, AppendTable DEF HasRoot
  <2>3. Len(t) + 1 \in 1..Len(Append(t, RootAccount))
    BY <2>2, LenProperties DEF IsTable
  <2> QED BY <2>1, <2>2, <2>3, RootIsAccount, FindIs DEF HasRoot
<1> QED BY <1>1, <1>2

LEMMA PassKeepsRoot ==
  ASSUME NEW t, IsTable(t), HasRoot(t), NEW i \in 1..Len(t), NEW p \in Passwords
  PROVE  HasRoot([t EXCEPT ![i].pass = p])
<1> DEFINE e == [t EXCEPT ![i].pass = p]
<1>1. /\ Len(e) = Len(t)
      /\ \A j \in 1..Len(t) : e[j] = IF j = i THEN [t[j] EXCEPT !.pass = p] ELSE t[j]
  BY PassChanged
<1> HIDE DEF e
<1>2. PICK j \in 1..Len(t) : t[j].name = ROOT
  BY FindIs DEF HasRoot
<1>3. t[j] \in Accounts
  BY TableEntry
<1>4. e[j].name = ROOT
  BY <1>1, <1>2, <1>3 DEF Accounts
<1>5. HasRoot(e)
  BY <1>1, <1>4, FindIs DEF HasRoot
<1> QED BY <1>5 DEF e

\* Away from a torn file the table that is loaded has ROOT.
LEMMA LoadHasRoot ==
  ASSUME HasRoot(LoadTable(passwd)), NEW t, NEW ok, Load(t, ok)
  PROVE  HasRoot(t)
BY RootHasRoot DEF Load

LEMMA SyncHasRoot ==
  ASSUME TablesInv, HasRoot(users), HasRoot(LoadTable(passwd)), NEW ok, Sync(users, ok)
  PROVE  HasRoot(LoadTable(passwd'))
<1>1. HasRoot(LoadTable(File(users)))
  BY TableFile DEF TablesInv
<1> QED BY <1>1, SyncWrites

\* While a command runs, or waits to be typed, the file is whole.
LEMMA NotTorn ==
  ASSUME TablesInv, RootInv, pc # "off", job.kind # "boot"
  PROVE  HasRoot(LoadTable(passwd))
BY DEF RootInv, Torn

LEMMA KindOfIdle ==
  ASSUME TablesInv, pc \in {"off", "login", "shell"}
  PROVE  job.kind = "none" /\ job = NoJob
BY NoJobKind DEF TablesInv, JobOK

LEMMA EmptyFile == LoadTable(File(<<>>)) = <<>> /\ Find(<<>>, ROOT) = {}
<1>1. Find(<<>>, ROOT) = {}
  BY EmptyTable, FindIs
<1> QED BY <1>1, EmptyTable, TableFile

LEMMA RootBoot == ASSUME TablesInv, RootInv, Boot PROVE RootInv'
<1>1. PICK t \in Tables, ok \in BOOLEAN :
        /\ Load(t, ok) /\ users' = WithRoot(t)
        /\ Goto("etc", [kind |-> "boot", loaded |-> ok /\ Find(t, ROOT) # {}])
  BY DEF Boot
<1>2. pc' = "etc" /\ job'.kind = "boot" /\ passwd' = passwd
  BY <1>1 DEF Goto, Boot, disk
<1>3. IsTable(t)
  BY <1>1, LoadedTable DEF TablesInv
<1>4. faults \in Nat /\ faults' \in Nat
  BY FaultsStep DEF Next, Start, RootInv
<1>5. CASE HasRoot(LoadTable(passwd))
  <2>1. HasRoot(users')
    BY <1>1, <1>3, <1>5, LoadHasRoot, WithRootHasRoot
  <2> QED BY <1>2, <1>4, <1>5, <2>1 DEF RootInv
<1>6. CASE Torn
  <2>1. ~Fault("read")
    BY <1>4, <1>6, Bounds DEF Torn, Fault
  <2>2. t = <<>> /\ faults' = faults
    BY <1>1, <1>6, <2>1, EmptyFile DEF Torn, Load, NoFault
  <2>3. job'.loaded = FALSE
    BY <1>1, <2>2, EmptyFile DEF Goto
  <2>4. HasRoot(users')
    BY <1>1, <1>3, <2>2, EmptyTable, WithRootHasRoot, Bounds
  <2>5. Torn'
    BY <1>2, <1>6, <2>2, <2>3 DEF Torn
  <2> QED BY <1>2, <1>4, <2>4, <2>5 DEF RootInv
<1> QED BY <1>5, <1>6 DEF RootInv

LEMMA RootBootDir == ASSUME TablesInv, RootInv, BootDir PROVE RootInv'
<1>1. /\ job.kind = "boot" /\ pc \in {"etc", "base"} /\ job' = job
      /\ users' = users /\ passwd' = passwd
      /\ pc' = IF pc = "etc" THEN "base" ELSE IF job.loaded THEN "ready" ELSE "sync"
  BY DEF BootDir, Goto
<1>2. HasRoot(users')
  BY <1>1 DEF RootInv
<1>3. faults \in Nat /\ faults' \in Nat
  BY FaultsStep DEF Next, Start, RootInv
<1>4. CASE HasRoot(LoadTable(passwd))
  BY <1>1, <1>2, <1>3, <1>4 DEF RootInv
<1>5. CASE Torn
  <2>1. ~(faults < MaxFaults)
    BY <1>3, <1>5, Bounds DEF Torn
  <2>2. faults' = faults /\ dirs' = dirs \cup {IF pc = "etc" THEN EtcDir ELSE HomeBase}
    BY <2>1 DEF BootDir, EnsureDir, Fault, NoFault
  <2>3. Torn'
    BY <1>1, <1>5, <2>2 DEF Torn
  <2> QED BY <1>1, <1>2, <1>3, <2>3 DEF RootInv
<1> QED BY <1>4, <1>5 DEF RootInv

LEMMA RootBootSync == ASSUME TablesInv, RootInv, BootSync PROVE RootInv'
<1>1. /\ job.kind = "boot" /\ pc = "sync" /\ job' = job /\ pc' = "ready"
      /\ users' = users /\ HasRoot(users)
  BY DEF BootSync, Goto, RootInv
<1>2. faults \in Nat /\ faults' \in Nat
  BY FaultsStep DEF Next, Start, RootInv
<1>3. PICK ok \in BOOLEAN : Sync(users, ok)
  BY DEF BootSync
<1>4. HasRoot(LoadTable(passwd'))
  <2>1. CASE HasRoot(LoadTable(passwd))
    BY <1>1, <1>3, <2>1, SyncHasRoot
  <2>2. CASE Torn
    <3>1. EtcDir \in dirs /\ ~Fault("write")
      BY <1>1, <1>2, <2>2, Bounds DEF Torn, Fault
    <3>2. passwd' = File(users)
      BY <1>3, <3>1 DEF Sync
    <3> QED BY <1>1, <3>2, TableFile DEF TablesInv
  <2> QED BY <2>1, <2>2 DEF RootInv
<1> QED BY <1>1, <1>2, <1>4 DEF RootInv

LEMMA RootAddDir == ASSUME TablesInv, RootInv, AddDir PROVE RootInv'
<1>1. job.kind = "add" /\ passwd' = passwd /\ pc \in {"etc", "base", "home"}
  BY DEF AddDir
<1>2. HasRoot(LoadTable(passwd')) /\ HasRoot(users)
  BY <1>1, NotTorn DEF RootInv
<1>3. HasRoot(AddEntry(users, job.user))
  BY <1>1, <1>2, AddKeepsRoot DEF TablesInv, AddOK
<1>4. users' = users \/ users' = AddEntry(users, job.user)
  BY DEF AddDir
<1>5. job' = job \/ job' = NoJob
  BY DEF AddDir, Goto, Return
<1>6. HasRoot(users')
  BY <1>2, <1>3, <1>4
<1>7. faults' \in Nat
  BY FaultsStep DEF Next, Step, RootInv
<1> QED BY <1>1, <1>2, <1>5, <1>6, <1>7, NoJobKind DEF RootInv

LEMMA RootCommand ==
  ASSUME TablesInv, RootInv, Next, pc \in {"login", "shell"},
         passwd' = passwd, job'.kind \in {"add", "passwd"} => HasRoot(users'), job'.kind # "boot"
  PROVE  RootInv'
<1>1. HasRoot(LoadTable(passwd))
  BY KindOfIdle, NotTorn
<1>2. faults' \in Nat
  BY FaultsStep DEF RootInv
<1> QED BY <1>1, <1>2 DEF RootInv

LEMMA RootStep == ASSUME RootGiven, OneTear, TablesInv, RootInv, Next PROVE RootInv'
<1>0. faults \in Nat /\ faults' \in Nat
  BY FaultsStep DEF RootInv
<1>1. ASSUME job' = NoJob, HasRoot(LoadTable(passwd')) PROVE RootInv'
  BY <1>0, <1>1, NoJobKind DEF RootInv
<1>2. CASE BootDone
  <2>1. job' = NoJob /\ pc = "ready" /\ passwd' = passwd
    BY <1>2 DEF BootDone, Goto, disk
  <2>2. HasRoot(LoadTable(passwd'))
    BY <2>1 DEF RootInv, Torn
  <2> QED BY <1>1, <2>1, <2>2
<1>3. CASE AddSync \/ PasswdSync
  <2>1. job' = NoJob /\ job.kind \in {"add", "passwd"} /\ pc = "sync"
    BY <1>3 DEF AddSync, PasswdSync, Return
  <2>2. HasRoot(LoadTable(passwd'))
    BY <1>3, <2>1, NotTorn, SyncHasRoot DEF AddSync, PasswdSync, RootInv
  <2> QED BY <1>1, <2>1, <2>2
<1>4. ASSUME NEW n \in Names, NEW p \in Passwords, Login(n, p) PROVE RootInv'
  <2>1. pc = "login" /\ passwd' = passwd
    BY <1>4 DEF Login, disk
  <2>2. job' = NoJob
    BY <1>4, <2>1, KindOfIdle DEF Login, Return
  <2> QED BY <2>1, <2>2, NoJobKind, RootCommand
<1>5. CASE Logout
  <2>1. pc = "shell" /\ passwd' = passwd /\ job' = job
    BY <1>5 DEF Logout, Begin, disk
  <2>2. job' = NoJob
    BY <2>1, KindOfIdle
  <2> QED BY <2>1, <2>2, NoJobKind, RootCommand
<1>6. ASSUME NEW n \in Names, NEW p \in Passwords, UserAdd(n, p) PROVE RootInv'
  <2>1. PICK t \in Tables, ok \in BOOLEAN :
          /\ Load(t, ok) /\ users' = t
          /\ job' = NoJob \/ job'.kind = "add"
    BY <1>6 DEF UserAdd, Return, Goto
  <2>2. pc = "shell" /\ passwd' = passwd
    BY <1>6 DEF UserAdd, Begin, disk
  <2>3. HasRoot(users')
    BY <2>1, <2>2, KindOfIdle, NotTorn, LoadHasRoot
  <2>4. job'.kind # "boot"
    BY <2>1, NoJobKind
  <2> QED BY <2>2, <2>3, <2>4, RootCommand
<1>7. ASSUME NEW old, NEW new \in Passwords, Passwd(old, new) PROVE RootInv'
  <2>1. PICK t \in Tables, ok \in BOOLEAN :
          /\ Load(t, ok)
          /\ \/ \E i \in 1..Len(t) : users' = [t EXCEPT ![i].pass = new]
             \/ users' = t
    BY <1>7 DEF Passwd
  <2>2. job' = NoJob \/ job'.kind = "passwd"
    BY <1>7 DEF Passwd, Return, Goto
  <2>3. pc = "shell" /\ passwd' = passwd
    BY <1>7 DEF Passwd, Begin, disk
  <2>4. HasRoot(t) /\ IsTable(t)
    BY <2>1, <2>3, KindOfIdle, NotTorn, LoadHasRoot, LoadedTable DEF TablesInv
  <2>5. HasRoot(users')
    <3>1. \A i \in 1..Len(t) : HasRoot([t EXCEPT ![i].pass = new])
      BY <2>4, PassKeepsRoot
    <3> QED BY <2>1, <2>4, <3>1
  <2>6. job'.kind # "boot"
    BY <2>2, NoJobKind
  <2> QED BY <2>3, <2>5, <2>6, RootCommand
<1>8. ASSUME NEW d, ChangeDir(d) \/ Rmdir(d) \/ Mkdir(d) PROVE RootInv'
  <2>1. pc = "shell" /\ passwd' = passwd /\ job' = NoJob
    BY <1>8 DEF ChangeDir, Rmdir, Mkdir, Begin, Return, disk
  <2> QED BY <2>1, NoJobKind, RootCommand
<1>9. ASSUME NEW file \in Edits \cup {NoFile}, Edit(file) PROVE RootInv'
  <2>1. job' = NoJob /\ passwd' = file
    BY <1>9 DEF Edit, Return
  <2>2. HasRoot(LoadTable(NoFile))
    BY RootHasRoot DEF LoadTable, NoFile
  <2>3. HasRoot(LoadTable(file))
    BY <2>2 DEF RootGiven
  <2> QED BY <1>1, <2>1, <2>3
<1>10. CASE Crash
  <2>1. pc' = "off" /\ job' = NoJob /\ faults' = faults + 1 /\ faults < MaxFaults
    BY <1>10 DEF Crash, Fault
  <2>2. HasRoot(LoadTable(passwd))
    BY <1>0, <2>1, Bounds DEF RootInv, Torn
  <2>3. CASE passwd' = passwd
    BY <1>1, <2>1, <2>2, <2>3
  <2>4. CASE "torn" \in FaultKinds /\ passwd' = File(<<>>)
    <3>1. faults' >= MaxFaults
      BY <1>0, <2>1, <2>4, Bounds DEF OneTear
    <3>2. Torn'
      BY <2>1, <2>4, <3>1 DEF Torn
    <3> QED BY <1>0, <2>1, <3>2, NoJobKind DEF RootInv
  <2> QED BY <1>10, <2>3, <2>4 DEF Crash, Fault
<1> QED BY <1>2, <1>3, <1>4, <1>5, <1>6, <1>7, <1>8, <1>9, <1>10, StepCases,
           RootBoot, RootBootDir, RootBootSync, RootAddDir

\* The login prompt never locks everyone out (user_init, user_load_passwd), if
\* nobody takes ROOT out of the file by hand and a write of the file that power
\* was lost in is not followed by another fault.
THEOREM RootAlwaysLogsIn ==
  ASSUME RootGiven, OneTear PROVE Spec => []RootCanLogIn
<1>1. Init => RootInv
  BY NoJobKind DEF Init, RootInv, RootGiven
<1>2. ASSUME TablesInv, RootInv, [Next]_vars PROVE RootInv'
  <2>1. CASE UNCHANGED vars
    BY <2>1, <1>2 DEF vars, RootInv, Torn
  <2> QED BY <2>1, <1>2, RootStep
<1>3. ASSUME TablesInv, RootInv PROVE RootCanLogIn
  BY <1>3, NotTorn, KindOfIdle DEF RootCanLogIn, HasRoot
<1> QED BY <1>1, <1>2, <1>3, TablesInvariant, PTL DEF Spec
-----------------------------------------------------------------------------
(* No uid is given twice. *)

UidOK(t, m) ==
  /\ \A i, j \in 1..Len(t) : t[i].uid = t[j].uid => i = j
  /\ \A i \in 1..Len(t) : t[i].uid <= m /\ (t[i].uid = 0 => t[i].name = ROOT)

\* The assumption: the files that were not written by the kernel give no uid
\* twice, 0 to nobody but ROOT, and none so great that the 16 bits overflow.
UidsGiven(top) ==
  /\ top \in Nat /\ FirstUid <= top + 1 /\ top + MaxOps <= MaxUid
  /\ \A file \in Disks \cup Edits : UidOK(LoadTable(file), top)

UidInv(top) ==
  /\ ops \in 0..MaxOps
  /\ UidOK(users, top + ops)
  /\ UidOK(LoadTable(passwd), top + ops)
  /\ job.kind = "add" /\ pc # "sync" =>
       /\ job.user.uid \in 1..top + ops
       /\ \A i \in 1..Len(users) : users[i].uid # job.user.uid

LEMMA UidMore ==
  ASSUME NEW t, IsTable(t), NEW m \in Nat, NEW n \in Nat, UidOK(t, m), m <= n
  PROVE  UidOK(t, n)
<1>1. \A i \in 1..Len(t) : t[i].uid \in Nat
  BY TableEntry, Bounds DEF Accounts
<1>2. \A i \in 1..Len(t) : t[i].uid <= n
  BY <1>1 DEF UidOK
<1> QED BY <1>2 DEF UidOK

LEMMA UidEmpty == ASSUME NEW m \in Nat PROVE UidOK(<<>>, m)
<1>1. 1..Len(<<>>) = {}
  BY EmptyTable
<1> QED BY <1>1 DEF UidOK

LEMMA UidRoot == ASSUME NEW m \in Nat PROVE UidOK(<<RootAccount>>, m)
<1>1. Len(<<RootAccount>>) = 1 /\ <<RootAccount>>[1] = RootAccount
  OBVIOUS
<1>2. RootAccount.uid = 0 /\ RootAccount.name = ROOT
  BY DEF RootAccount, Account
<1>3. \A i \in 1..1 : i = 1
  OBVIOUS
<1> QED BY <1>1, <1>2, <1>3 DEF UidOK

LEMMA UidAdded ==
  ASSUME NEW t, IsTable(t), NEW u \in Accounts, Find(t, u.name) = {},
         NEW m \in Nat, UidOK(t, m), u.uid <= m, u.uid = 0 => u.name = ROOT,
         \A i \in 1..Len(t) : t[i].uid # u.uid
  PROVE  UidOK(AddEntry(t, u), m)
<1>1. CASE Len(t) < UserMax
  <2> DEFINE a == Append(t, u)
  <2>1. /\ Len(a) = Len(t) + 1 /\ a[Len(t) + 1] = u
        /\ \A i \in 1..Len(t) : a[i] = t[i]
    BY <1>1, AppendTable
  <2>2. AddEntry(t, u) = a
    BY <1>1 DEF AddEntry
  <2> HIDE DEF a
  <2>3. \A i \in 1..Len(a) : i \in 1..Len(t) \/ i = Len(t) + 1
    BY <2>1, LenProperties DEF IsTable
  <2>4. ASSUME NEW i \in 1..Len(a), NEW j \in 1..Len(a), a[i].uid = a[j].uid PROVE i = j
    <3>1. CASE i \in 1..Len(t) /\ j \in 1..Len(t)
      BY <2>1, <2>4, <3>1 DEF UidOK
    <3>2. CASE i \in 1..Len(t) /\ j = Len(t) + 1
      BY <2>1, <2>4, <3>2
    <3>3. CASE j \in 1..Len(t) /\ i = Len(t) + 1
      BY <2>1, <2>4, <3>3
    <3> QED BY <2>3, <3>1, <3>2, <3>3
  <2>5. ASSUME NEW i \in 1..Len(a) PROVE a[i].uid <= m /\ (a[i].uid = 0 => a[i].name = ROOT)
    <3>1. CASE i \in 1..Len(t)
      BY <2>1, <3>1 DEF UidOK
    <3>2. CASE i = Len(t) + 1
      BY <2>1, <3>2
    <3> QED BY <2>3, <3>1, <3>2
  <2>6. UidOK(a, m)
    BY <2>4, <2>5 DEF UidOK
  <2> QED BY <2>2, <2>6
<1>2. CASE ~(Len(t) < UserMax)
  BY <1>2 DEF AddEntry
<1> QED BY <1>1, <1>2

LEMMA UidWithRoot ==
  ASSUME NEW t, IsTable(t), NEW m \in Nat, UidOK(t, m)
  PROVE  UidOK(WithRoot(t), m)
<1>1. CASE Find(t, ROOT) = {}
  <2>1. RootAccount.uid = 0 /\ RootAccount.name = ROOT /\ RootAccount \in Accounts
    BY RootIsAccount DEF RootAccount, Account
  <2>2. \A i \in 1..Len(t) : t[i].uid # RootAccount.uid
    BY <1>1, <2>1, FindIs DEF UidOK
  <2>3. UidOK(AddEntry(t, RootAccount), m)
    BY <1>1, <2>1, <2>2, UidAdded
  <2> QED BY <1>1, <2>3 DEF WithRoot
<1>2. CASE Find(t, ROOT) # {}
  BY <1>2 DEF WithRoot
<1> QED BY <1>1, <1>2

LEMMA UidPassChanged ==
  ASSUME NEW t, IsTable(t), NEW m, UidOK(t, m), NEW i \in 1..Len(t), NEW p \in Passwords
  PROVE  UidOK([t EXCEPT ![i].pass = p], m)
<1> DEFINE e == [t EXCEPT ![i].pass = p]
<1>1. /\ Len(e) = Len(t)
      /\ \A j \in 1..Len(t) : e[j] = IF j = i THEN [t[j] EXCEPT !.pass = p] ELSE t[j]
  BY PassChanged
<1> HIDE DEF e
<1>2. ASSUME NEW j \in 1..Len(t) PROVE e[j].uid = t[j].uid /\ e[j].name = t[j].name
  <2>1. t[j] \in Accounts
    BY TableEntry
  <2> QED BY <1>1, <2>1 DEF Accounts
<1>3. UidOK(e, m)
  BY <1>1, <1>2 DEF UidOK
<1> QED BY <1>3 DEF e

\* The uid of a new account is greater than every other, and no more than one.
LEMMA NewUidFresh ==
  ASSUME NEW t, IsTable(t), NEW m \in Nat, UidOK(t, m), FirstUid <= m + 1, m < MaxUid
  PROVE  /\ NewUid(t) \in 1..m + 1
         /\ \A i \in 1..Len(t) : t[i].uid # NewUid(t)
<1> DEFINE U == {FirstUid - 1} \cup {t[i].uid : i \in 1..Len(t)}
<1>1. \A i \in 1..Len(t) : t[i].uid \in Nat /\ t[i].uid <= m
  BY TableEntry, Bounds DEF Accounts, UidOK
<1>2. U \subseteq Nat /\ U # {} /\ (\A x \in U : x <= m) /\ FirstUid - 1 \in U
  BY <1>1, Bounds
<1>3. \A i \in 1..Len(t) : t[i].uid \in U
  OBVIOUS
<1> HIDE DEF U
<1>4. \E x \in U : \A y \in U : x >= y
  BY <1>2, GreatestNat
<1>5. Max(U) \in U /\ \A y \in U : Max(U) >= y
  BY <1>4 DEF Max
<1>6. Max(U) \in Nat /\ Max(U) <= m
  BY <1>2, <1>5
<1>7. (Max(U) + 1) % (MaxUid + 1) = Max(U) + 1
  <2>1. Max(U) + 1 \in 0..MaxUid
    BY <1>6, Bounds
  <2> QED BY <2>1, Bounds
<1>8. NewUid(t) = Max(U) + 1
  BY <1>7 DEF NewUid, U
<1>9. ASSUME NEW i \in 1..Len(t) PROVE t[i].uid # NewUid(t)
  BY <1>1, <1>3, <1>5, <1>6, <1>8
<1>10. NewUid(t) \in 1..m + 1
  BY <1>6, <1>8
<1> QED BY <1>9, <1>10

LEMMA UidLoaded ==
  ASSUME TablesInv, NEW m \in Nat, UidOK(LoadTable(passwd), m), NEW t, NEW ok, Load(t, ok)
  PROVE  UidOK(t, m)
BY LoadedTable, UidRoot DEF TablesInv

LEMMA Sums ==
  /\ \A i, j \in Nat : i + j \in Nat /\ i <= i + j
  /\ \A i, j, k \in Nat : j <= k => i + j <= i + k
OBVIOUS

\* A later step leaves the tables as they were, with a greater limit.
LEMMA UidLater ==
  ASSUME NEW top \in Nat, TablesInv, UidInv(top), ops' \in 0..MaxOps, ops <= ops'
  PROVE  /\ UidOK(users, top + ops')
         /\ UidOK(LoadTable(passwd), top + ops')
         /\ IsTable(LoadTable(passwd))
<1>1. IsTable(users) /\ IsTable(LoadTable(passwd))
  BY LoadIsTable DEF TablesInv
<1>2. top + ops \in Nat /\ top + ops' \in Nat /\ top + ops <= top + ops'
  <2>1. ops \in Nat /\ ops' \in Nat
    BY Bounds DEF UidInv
  <2> QED BY <2>1, Sums
<1> QED BY <1>1, <1>2, UidMore DEF UidInv

LEMMA OpsStep ==
  ASSUME NEW top, UidInv(top), Next
  PROVE  ops' \in 0..MaxOps /\ ops <= ops' /\ ops' <= ops + 1
<1>1. ops' = ops \/ (ops < MaxOps /\ ops' = ops + 1)
  BY StepCases DEF Boot, BootDir, BootSync, BootDone, AddDir, AddSync,
     PasswdSync,
     Login, Logout, UserAdd, Passwd, ChangeDir, Edit, Rmdir, Mkdir, Crash, Begin
<1> QED BY <1>1, Bounds DEF UidInv

\* The table that is written, or was there, keeps the limit.
LEMMA UidWritten ==
  ASSUME NEW top \in Nat, TablesInv, UidInv(top), ops' \in 0..MaxOps, ops <= ops',
         passwd' = passwd \/ passwd' = File(users) \/ passwd' = File(<<>>)
  PROVE  UidOK(LoadTable(passwd'), top + ops')
<1>1. UidOK(users, top + ops') /\ UidOK(LoadTable(passwd), top + ops')
  BY UidLater
<1>2. LoadTable(File(users)) = users
  BY TableFile DEF TablesInv
<1>3. UidOK(LoadTable(File(<<>>)), top + ops')
  BY EmptyFile, UidEmpty, Bounds DEF UidInv
<1> QED BY <1>1, <1>2, <1>3

LEMMA UidStep ==
  ASSUME NEW top \in Nat, UidsGiven(top), TablesInv, UidInv(top), Next
  PROVE  UidInv(top)'
<1> DEFINE m == top + ops'
<1>0. ops' \in 0..MaxOps /\ ops <= ops' /\ ops' <= ops + 1 /\ ops \in 0..MaxOps
  BY OpsStep DEF UidInv
<1>1. m \in Nat /\ UidOK(users, m) /\ UidOK(LoadTable(passwd), m)
  <2>1. ops' \in Nat
    BY <1>0, Bounds
  <2>2. UidOK(users, top + ops') /\ UidOK(LoadTable(passwd), top + ops')
    BY <1>0, UidLater
  <2> QED BY <2>1, <2>2, Sums
<1>2. ASSUME NEW t, NEW ok, Load(t, ok) PROVE IsTable(t) /\ UidOK(t, m)
  BY <1>1, <1>2, UidLoaded, LoadedTable DEF TablesInv
<1>3. ASSUME UidOK(users', m), UidOK(LoadTable(passwd'), m),
             job'.kind = "add" => pc' = "sync"
      PROVE  UidInv(top)'
  BY <1>0, <1>3 DEF UidInv
<1> HIDE DEF m
<1>4. CASE Boot
  <2>1. PICK t, ok : Load(t, ok) /\ users' = WithRoot(t) /\ job'.kind = "boot"
    BY <1>4 DEF Boot, Goto
  <2>2. UidOK(users', m)
    BY <1>1, <1>2, <2>1, UidWithRoot
  <2>3. passwd' = passwd
    BY <1>4 DEF Boot, disk
  <2> QED BY <1>1, <1>3, <2>1, <2>2, <2>3
<1>5. CASE BootDir \/ BootDone
  <2>1. passwd' = passwd /\ users' = users /\ (job' = job \/ job' = NoJob) /\ job.kind = "boot"
    BY <1>5 DEF BootDir, BootDone, Goto, disk
  <2> QED BY <1>1, <1>3, <2>1, NoJobKind
<1>6. CASE BootSync \/ AddSync \/ PasswdSync
  <2>1. /\ passwd' = passwd \/ passwd' = File(users)
        /\ users' = users
    BY <1>6, SyncWrites DEF BootSync, AddSync, PasswdSync
  <2>2. job'.kind # "add"
    BY <1>6, NoJobKind DEF BootSync, AddSync, PasswdSync, Return, Goto
  <2>3. UidOK(LoadTable(passwd'), m)
    BY <1>0, <2>1, UidWritten DEF m
  <2> QED BY <1>1, <1>3, <2>1, <2>2, <2>3
<1>7. CASE AddDir
  <2>1. passwd' = passwd /\ job.kind = "add" /\ pc \in {"etc", "base", "home"} /\ ops' = ops
    BY <1>7 DEF AddDir
  <2>2. /\ job.user \in Accounts /\ Find(users, job.user.name) = {} /\ IsTable(users)
        /\ job.user.uid \in 1..top + ops /\ \A i \in 1..Len(users) : users[i].uid # job.user.uid
    BY <2>1 DEF TablesInv, AddOK, UidInv
  <2>3. job.user.uid \in Nat /\ job.user.uid <= m /\ job.user.uid # 0
    BY <1>0, <2>1, <2>2 DEF m
  <2>4. UidOK(AddEntry(users, job.user), m)
    BY <1>1, <2>2, <2>3, UidAdded
  <2>5. CASE users' = users /\ (job' = NoJob \/ job' = job)
    <3>1. job' = job => UidInv(top)'
      BY <1>0, <1>1, <2>1, <2>2, <2>5 DEF UidInv, m
    <3> QED BY <1>1, <1>3, <2>1, <2>5, <3>1, NoJobKind
  <2>6. CASE users' = AddEntry(users, job.user) /\ pc' = "sync"
    BY <1>1, <1>3, <2>1, <2>4, <2>6
  <2> QED BY <1>7, <2>5, <2>6 DEF AddDir, Return, Goto
<1>8. ASSUME NEW n, NEW p, Login(n, p) PROVE UidInv(top)'
  <2>1. PICK t, ok : Load(t, ok) /\ users' = t
    BY <1>8 DEF Login
  <2>2. passwd' = passwd /\ pc = "login"
    BY <1>8 DEF Login, disk
  <2>3. job' = NoJob
    BY <1>8, <2>2, KindOfIdle DEF Login, Return
  <2> QED BY <1>1, <1>2, <1>3, <2>1, <2>2, <2>3, NoJobKind
<1>9. CASE Logout
  <2>1. passwd' = passwd /\ users' = users /\ job' = job /\ pc = "shell"
    BY <1>9 DEF Logout, Begin, disk
  <2>2. job'.kind = "none"
    BY <2>1, KindOfIdle
  <2> QED BY <1>1, <1>3, <2>1, <2>2
<1>10. ASSUME NEW n \in Names, NEW p \in Passwords, UserAdd(n, p) PROVE UidInv(top)'
  <2> DEFINE u(t) == Account(n, NewUid(t), Home(n), p)
  <2>1. PICK t, ok :
          /\ Load(t, ok) /\ users' = t
          /\ \/ Return(FALSE)
             \/ Goto("etc", [kind |-> "add", user |-> u(t)])
    BY <1>10 DEF UserAdd
  <2>2. passwd' = passwd /\ ops < MaxOps /\ ops' = ops + 1
    BY <1>10 DEF UserAdd, disk, Begin
  <2>3. IsTable(t) /\ UidOK(users', m)
    BY <1>2, <2>1
  <2>4. CASE Return(FALSE)
    <3>1. job' = NoJob
      BY <2>4 DEF Return
    <3> QED BY <1>1, <1>3, <2>2, <2>3, <3>1, NoJobKind
  <2>5. CASE Goto("etc", [kind |-> "add", user |-> u(t)])
    <3>1. UidOK(t, top + ops)
      <4>1. top + ops \in Nat
        BY <1>0
      <4> QED BY <2>1, <4>1, UidLoaded DEF UidInv
    <3>2. top + ops \in Nat /\ FirstUid <= top + ops + 1 /\ top + ops < MaxUid
      BY <1>0, <2>2, Bounds DEF UidsGiven
    <3>3. /\ NewUid(t) \in 1..top + ops + 1
          /\ \A i \in 1..Len(t) : t[i].uid # NewUid(t)
      BY <2>3, <3>1, <3>2, NewUidFresh
    <3>4. job'.user.uid = NewUid(t)
      BY <2>5 DEF Goto, Account
    <3>5. NewUid(t) \in 1..top + ops'
      BY <1>0, <2>2, <3>3
    <3> QED BY <1>0, <1>1, <2>1, <2>2, <2>3, <3>3, <3>4, <3>5 DEF UidInv, m
  <2> QED BY <2>1, <2>4, <2>5
<1>11. ASSUME NEW old, NEW new \in Passwords, Passwd(old, new) PROVE UidInv(top)'
  <2>1. PICK t, ok :
          /\ Load(t, ok)
          /\ \/ \E i \in 1..Len(t) : users' = [t EXCEPT ![i].pass = new]
             \/ users' = t
    BY <1>11 DEF Passwd
  <2>2. passwd' = passwd /\ (job' = NoJob \/ job'.kind = "passwd")
    BY <1>11 DEF Passwd, Return, Goto, disk
  <2>3. \A i \in 1..Len(t) : UidOK([t EXCEPT ![i].pass = new], m)
    BY <1>2, <2>1, UidPassChanged
  <2>4. UidOK(users', m)
    BY <1>2, <2>1, <2>3
  <2> QED BY <1>1, <1>3, <2>2, <2>4, NoJobKind
<1>12. ASSUME NEW d, ChangeDir(d) \/ Rmdir(d) \/ Mkdir(d) PROVE UidInv(top)'
  <2>1. passwd' = passwd /\ users' = users /\ job' = NoJob
    BY <1>12 DEF ChangeDir, Rmdir, Mkdir, Return, disk
  <2> QED BY <1>1, <1>3, <2>1, NoJobKind
<1>13. ASSUME NEW file \in Edits \cup {NoFile}, Edit(file) PROVE UidInv(top)'
  <2>1. passwd' = file /\ users' = users /\ job' = NoJob
    BY <1>13 DEF Edit, Return
  <2>2. UidOK(LoadTable(NoFile), m)
    BY <1>1, UidRoot DEF LoadTable, NoFile
  <2>3. ASSUME file \in Edits PROVE UidOK(LoadTable(file), m)
    <3>1. file \in Files
      BY <2>3, SessionAssumption
    <3>2. IsTable(LoadTable(file))
      BY <3>1, LoadIsTable
    <3>3. top <= m
      <4>1. ops' \in Nat
        BY <1>0, Bounds
      <4> QED BY <4>1, Sums DEF m
    <3> QED BY <1>1, <2>3, <3>2, <3>3, UidMore DEF UidsGiven
  <2> QED BY <1>1, <1>3, <2>1, <2>2, <2>3, NoJobKind
<1>14. CASE Crash
  <2>1. /\ passwd' = passwd \/ passwd' = File(<<>>)
        /\ users' = <<>> /\ job' = NoJob
    BY <1>14 DEF Crash
  <2>2. UidOK(users', m)
    BY <1>1, <2>1, UidEmpty
  <2>3. UidOK(LoadTable(passwd'), m)
    BY <1>0, <2>1, UidWritten DEF m
  <2> QED BY <1>3, <2>1, <2>2, <2>3, NoJobKind
<1> QED BY <1>4, <1>5, <1>6, <1>7, <1>8, <1>9, <1>10, <1>11, <1>12, <1>13,
           <1>14, StepCases

\* useradd never gives out a uid that is taken (user_add, user_next_uid), if
\* the files written by hand give none twice and the 16 bits do not overflow.
THEOREM UidsAlwaysUnique ==
  ASSUME NEW top, UidsGiven(top) PROVE Spec => []UidsUnique
<1>1. Init => UidInv(top)
  <2> SUFFICES ASSUME Init PROVE UidInv(top)
    OBVIOUS
  <2>1. ops = 0 /\ users = <<>> /\ passwd \in Disks /\ job.kind = "none"
    BY NoJobKind DEF Init
  <2>2. top + ops = top /\ top \in Nat
    BY <2>1 DEF UidsGiven
  <2>3. UidOK(users, top + ops) /\ UidOK(LoadTable(passwd), top + ops)
    BY <2>1, <2>2, UidEmpty DEF UidsGiven
  <2> QED BY <2>1, <2>3, Bounds DEF UidInv
<1>2. ASSUME TablesInv, UidInv(top), [Next]_vars PROVE UidInv(top)'
  <2>1. CASE UNCHANGED vars
    BY <2>1, <1>2 DEF vars, UidInv
  <2>2. top \in Nat
    BY DEF UidsGiven
  <2> QED BY <2>1, <2>2, <1>2, UidStep
<1>3. ASSUME TablesInv, UidInv(top) PROVE UidsUnique
  <2> DEFINE t == LoadTable(passwd)
  <2>1. IsTable(t) /\ InEffect \subseteq ToSet(t)
    BY <1>3, LoadHolds, LoadIsTable DEF TablesInv
  <2>2. \A i, j \in 1..Len(t) : t[i].uid = t[j].uid => i = j
    BY <1>3 DEF UidInv, UidOK
  <2> HIDE DEF t
  <2>3. ASSUME NEW u \in InEffect, NEW v \in InEffect, u.uid = v.uid PROVE u = v
    <3>1. PICK i \in 1..Len(t) : t[i] = u
      BY <2>1, Elements
    <3>2. PICK j \in 1..Len(t) : t[j] = v
      BY <2>1, Elements
    <3> QED BY <2>2, <2>3, <3>1, <3>2
  <2> QED BY <2>3 DEF UidsUnique
<1> QED BY <1>1, <1>2, <1>3, TablesInvariant, PTL DEF Spec
=============================================================================
