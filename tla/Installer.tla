------------------------------ MODULE Installer ------------------------------
(***************************************************************************)
(* The installer (seolsem_installer/bootloader/installer.asm): it asks for *)
(* confirmation and accounts, takes the kernel floppy, partitions and      *)
(* formats the first hard disk as FAT32, copies stage 2 and KERNEL.BIN,    *)
(* takes the program floppy, copies BIN/*, makes the accounts and, last,   *)
(* writes the root directory.                                              *)
(*                                                                         *)
(* The hard disk is a function on the LBAs written so far.  A procedure    *)
(* that writes appends its sector operations to todo, and Step carries     *)
(* them out one at a time: between two of them an operation may fail for   *)
(* good (three attempts are one operation here) or the power may go, and   *)
(* the installer may be started again on what the disk then holds.         *)
(***************************************************************************)
EXTENDS Integers, SequencesExt

CONSTANTS
  WordSize,     \* 65536: an LBA is a pair of words, DX:AX
  PartStart,    \* PART_START_LBA
  Res,          \* dst_res, reserved sectors of the partition
  PerSec,       \* FAT32 entries in a sector (128)
  DirSlots,     \* directory entries in a sector (16)
  MaxSpc,       \* the sectors per cluster tried first (32)
  Fat32Min,     \* the clusters from which the kernel takes a FAT for a FAT32
  MinClusters,  \* 65525 + 16
  BufSeg,       \* BUF_SEG, the segment of the sector buffer
  Stage2Max,    \* the sectors of stage 2 that boot32.asm loads
  BinMax,       \* BIN_MAX_FILES
  MaxUsers,     \* MAX_INSTALL_USERS
  Swaps,        \* floppy swaps before giving up (5)
  ROOT,         \* the account that is always made
  Names,        \* user names that may be typed
  Passwords,    \* passwords that may be typed
  Floppies,     \* the floppies at hand
  HddSizes,     \* sectors of the hard disk
  MaxRuns,      \* bound: starts of the installer
  MaxFaults     \* bound: operations that fail for good, and power failures

NoDisk == [id |-> "none"]
NoEntry == [kind |-> "none"]
File(n, s, c) == [kind |-> "file", name |-> n, secs |-> s, chain |-> c]
Dir(fs) == [kind |-> "dir", files |-> fs]

ASSUME InstallerAssumption ==
  /\ {PartStart, Res, MinClusters, Stage2Max, BinMax} \subseteq Nat
  /\ {MaxUsers, BufSeg} \subseteq Nat
  /\ {WordSize, PerSec, DirSlots, MaxSpc, Swaps} \subseteq Nat \ {0}
  /\ PartStart > 0 /\ Res >= 2 + Stage2Max
  /\ BufSeg < WordSize /\ Fat32Min \in Nat
  \* Smaller disks are left out: on one of less than 2080 sectors the unchecked
  \* subtractions at installer.asm:4089 and :4123 wrap, and the search for a
  \* layout goes on with about 2^32 sectors.
  /\ HddSizes \subseteq Nat /\ \A s \in HddSizes : s >= PartStart + Res
  /\ {MaxRuns, MaxFaults} \subseteq Nat
  /\ NoDisk \notin Floppies

VARIABLES
  pc,       \* the procedure to run next, or where the installer waits or ended
  todo,     \* the sector operations of the running procedure
  hdd,      \* the sectors written on the hard disk
  size,     \* its sectors, dst_secs
  floppy,   \* the floppy in the source drive
  retry,    \* src_retry_left
  users,    \* inst_user_names and inst_user_passes
  rootpw,   \* inst_root_pass
  spc,      \* dst_spc
  fatSecs,  \* dst_fat_secs
  next,     \* dst_next_cluster
  at,       \* where the files are: dst_*_cluster, and KERNEL.BIN's size
  runs, faults

memory == <<floppy, retry, users, rootpw, spc, fatSecs, next, at>>
vars == <<pc, todo, hdd, size, memory, runs, faults>>

Ceil(a, b) == (a + b - 1) \div b
-----------------------------------------------------------------------------
(* Sectors of the hard disk. *)

Old == [k |-> "old"]     \* what was there before
Zero == [k |-> "zero"]
Free == 0                \* FAT entries
Eoc == -1
Bad == -2                \* what a sector that is no FAT sector reads as

HddSec(l) == IF l \in DOMAIN hdd THEN hdd[l] ELSE Old
Entry(s, i) == CASE s.k = "fat" -> s.entry[i]
                 [] s.k = "zero" -> Free
                 [] OTHER -> Bad
FatSector(e) == [k |-> "fat", entry |-> e]
Patched(s, i, v) ==
  FatSector([j \in 0..PerSec - 1 |-> IF j = i THEN v ELSE Entry(s, j)])

FileSector(d, n, i) == [k |-> "file", disk |-> d.id, name |-> n, i |-> i]
Slot(n, d, c, s) == [name |-> n, dir |-> d, first |-> c, secs |-> s]
DirSector(slots) == [k |-> "dir", slots |-> slots]
PasswdSector(t) == [k |-> "passwd", lines |-> t]

Word(l) == l % WordSize
High(l) == WordSize * (l \div WordSize)

FatLba(c) == PartStart + Res + c \div PerSec
DataLba == PartStart + Res + 2 * fatSecs
ClusterLba(c) == DataLba + (c - 2) * spc

\* fat32_set_entry: AX is loaded with BUF_SEG before the second write.
MirrorLba(c) == High(FatLba(c) + fatSecs) + BufSeg
\* copy_file_to_dst: INC leaves CF alone, so that the high word never steps.
CopyLba(l, i) == High(l) + Word(l + i)
-----------------------------------------------------------------------------
(* Sector operations. *)

Write(l, s) == [op |-> "write", lba |-> l, sec |-> s]
Link(c, v) == [op |-> "link", cluster |-> c, value |-> v]
Mirror(c) == [op |-> "mirror", cluster |-> c]
Read == [op |-> "read"]
Fail == [op |-> "fail"]

Put(l, s) ==
  hdd' = [x \in DOMAIN hdd \cup {l} |-> IF x = l THEN s ELSE hdd[x]]

Perform(o) ==
  CASE o.op = "write" -> Put(o.lba, o.sec)
    [] o.op = "link" ->
         LET l == FatLba(o.cluster)
         IN Put(l, Patched(HddSec(l), o.cluster % PerSec, o.value))
    [] o.op = "mirror" -> Put(MirrorLba(o.cluster), HddSec(FatLba(o.cluster)))
    [] OTHER -> UNCHANGED hdd

\* fat32_alloc_chain: n clusters from first on, each entry in two writes.
AllocChain(first, n) ==
  FlattenSeq([i \in 1..n |->
    LET c == first + i - 1
    IN <<Link(c, IF i = n THEN Eoc ELSE c + 1), Mirror(c)>>])
FirstOf(first, n) == IF n = 0 THEN 0 ELSE first

\* bytes_to_clusters_ceil, of a size in sectors.
ClustersOf_Floor(secs) == secs \div spc
ClustersOf(secs) == Ceil(secs, spc)

\* copy_file_to_dst: fails where the source chain ends early.
CopyFile(d, f, first) ==
  [i \in 1..spc * ClustersOf(f.secs) |->
     LET l == CopyLba(ClusterLba(first), i - 1)
     IN IF i > f.secs THEN Write(l, Zero)
        ELSE IF i <= f.chain * d.spc THEN Write(l, FileSector(d, f.name, i))
        ELSE Fail]

\* One cluster: its first sector, and the rest zeroed.
WriteCluster(c, s) ==
  [i \in 1..spc |-> Write(ClusterLba(c) + i - 1, IF i = 1 THEN s ELSE Zero)]

Dots(c, parent) == <<Slot(".", TRUE, c, 0), Slot("..", TRUE, parent, 0)>>
-----------------------------------------------------------------------------
(* Waiting, failing, starting again. *)

Ended == {"halt", "done", "off"}
NoWhere == [kernel |-> Bad, ksecs |-> 0, bin |-> Bad, files |-> <<>>,
            etc |-> Bad, home |-> Bad, passwd |-> Bad, homes |-> <<>>]

FreshMemory ==
  /\ floppy' = NoDisk /\ retry' = 0 /\ users' = <<>> /\ rootpw' = ""
  /\ spc' = 1 /\ fatSecs' = 1 /\ next' = 2 /\ at' = NoWhere

Init ==
  /\ pc = "confirm" /\ todo = <<>> /\ hdd = <<>> /\ size \in HddSizes
  /\ floppy = NoDisk /\ retry = 0 /\ users = <<>> /\ rootpw = ""
  /\ spc = 1 /\ fatSecs = 1 /\ next = 2 /\ at = NoWhere
  /\ runs = 1 /\ faults = 0

Fault == faults < MaxFaults /\ faults' = faults + 1
NoFault == UNCHANGED faults
Goto(label) == pc' = label /\ UNCHANGED <<todo, hdd, size, runs>>
At(label) == pc = label /\ todo = <<>>

\* A fatal_* handler: a message, a key, and INT 19h.
Halt == pc' = "halt" /\ todo' = <<>> /\ UNCHANGED <<hdd, size, runs, memory>>

Step ==
  /\ todo # <<>>
  /\ \/ /\ Head(todo) # Fail
        /\ Perform(Head(todo)) /\ todo' = Tail(todo)
        /\ UNCHANGED <<pc, size, memory, runs, faults>>
     \/ Head(todo) = Fail /\ Halt /\ NoFault
     \/ Halt /\ Fault

PowerOff ==
  /\ pc \notin Ended
  /\ pc' = "off" /\ todo' = <<>> /\ FreshMemory /\ Fault
  /\ UNCHANGED <<hdd, size, runs>>

Restart ==
  /\ pc \in Ended /\ runs < MaxRuns
  /\ pc' = "confirm" /\ todo' = <<>> /\ runs' = runs + 1 /\ FreshMemory
  /\ UNCHANGED <<hdd, size, faults>>

\* A procedure queues its operations; the next one follows them.
Queue(label, ops, following) ==
  /\ At(label) /\ todo' = ops /\ pc' = following
  /\ UNCHANGED <<hdd, size, floppy, retry, users, rootpw, spc, fatSecs, runs,
                 faults>>
-----------------------------------------------------------------------------
(* Confirmation and accounts. *)

\* ui_confirm_install
Confirm ==
  /\ At("confirm") /\ (Goto("root_password") \/ Goto("halt"))
  /\ UNCHANGED <<memory, faults>>

\* prompt_users
SetRootPassword(p) ==
  /\ At("root_password") /\ Goto("users") /\ rootpw' = p /\ users' = <<>>
  /\ UNCHANGED <<floppy, retry, spc, fatSecs, next, at, faults>>

IsDuplicate(n) == \E i \in 1..Len(users) : users[i].name = n

AddUser(n, p) ==
  /\ At("users") /\ Len(users) < MaxUsers
  /\ ~IsDuplicate(n) /\ p # ""
  /\ users' = Append(users, [name |-> n, pass |-> p])
  /\ UNCHANGED <<pc, todo, hdd, size, floppy, retry, rootpw, spc, fatSecs, next,
                 at, runs, faults>>

UsersDone ==
  /\ At("users") /\ Goto("geometry") /\ UNCHANGED <<memory, faults>>
-----------------------------------------------------------------------------
(* The kernel floppy. *)

Geometry ==
  /\ At("geometry")
  /\ \/ Goto("source") /\ UNCHANGED <<memory, faults>>
     \/ Halt /\ Fault

\* try_prepare_source_disk
Prepared(d, role) == d # NoDisk /\ d.sig /\ role \in d.roles

\* What the user does at a prompt: any floppy, or none, is in the drive.
Insert(d) ==
  /\ floppy' = d
  /\ UNCHANGED <<users, rootpw, spc, fatSecs, next, at>>

\* The second drive is looked at first.
TryB(d) ==
  /\ At("source") /\ Insert(d)
  /\ \/ Prepared(d, "kernel") /\ Goto("validate") /\ UNCHANGED <<retry, faults>>
     \/ ~Prepared(d, "kernel") /\ Goto("swap") /\ retry' = Swaps /\ NoFault
     \/ Goto("swap") /\ retry' = Swaps /\ Fault

\* One attempt of a swap loop failed.
Retry_Forever(label) == Goto(label) /\ UNCHANGED retry
Retry(label) ==
  retry' = retry - 1 /\ Goto(IF retry = 1 THEN "halt" ELSE label)

Swap(d) ==
  /\ At("swap") /\ Insert(d)
  /\ \/ Prepared(d, "kernel") /\ Goto("validate") /\ UNCHANGED <<retry, faults>>
     \/ ~Prepared(d, "kernel") /\ Retry("swap") /\ NoFault
     \/ Retry("swap") /\ Fault

\* parse_src_bpb, the guard on stage 2, verify_source_seolsem_image
Verified(d) == d.bpb /\ d.stage2 <= Stage2Max /\ d.kernel.kind = "file"

Validate_Unchecked ==
  /\ At("validate") /\ Goto("layout") /\ spc' = MaxSpc /\ fatSecs' = 1
  /\ UNCHANGED <<floppy, retry, users, rootpw, next, at, faults>>
Validate ==
  /\ At("validate")
  /\ \/ /\ Verified(floppy) /\ Goto("layout") /\ spc' = MaxSpc /\ fatSecs' = 1
        /\ UNCHANGED <<floppy, retry, users, rootpw, next, at, faults>>
     \/ ~Verified(floppy) /\ Halt /\ NoFault
     \/ Halt /\ Fault

\* calc_dst_layout_fat32: one round of the search for the size of the FAT.
DataSecs == size - PartStart - Res - 2 * fatSecs
Clusters == DataSecs \div spc
FatNeeded == Ceil(Clusters + 2, PerSec)

Layout ==
  /\ At("layout") /\ NoFault
  /\ \/ /\ DataSecs >= 0 /\ FatNeeded # fatSecs
        /\ Goto("layout") /\ fatSecs' = FatNeeded /\ UNCHANGED spc
     \/ /\ DataSecs >= 0 /\ FatNeeded = fatSecs /\ Clusters >= MinClusters
        /\ Goto("mbr") /\ UNCHANGED <<spc, fatSecs>>
     \/ /\ DataSecs >= 0 /\ FatNeeded = fatSecs /\ Clusters < MinClusters
        /\ spc > 1 /\ Goto("layout") /\ spc' = spc \div 2 /\ fatSecs' = 1
     \/ /\ \/ DataSecs < 0
           \/ spc = 1 /\ FatNeeded = fatSecs /\ Clusters < MinClusters
        /\ Goto("halt") /\ UNCHANGED <<spc, fatSecs>>
  /\ UNCHANGED <<floppy, retry, users, rootpw, next, at>>
-----------------------------------------------------------------------------
(* Partition and format. *)

WriteMbr ==
  /\ Queue("mbr", <<Write(0, [k |-> "mbr", secs |-> size - PartStart])>>, "vbr")
  /\ UNCHANGED <<next, at>>

\* create_fat32_vbr and create_fs_info
WriteVbr ==
  /\ Queue("vbr", <<Write(PartStart, [k |-> "vbr", spc |-> spc, fat |-> fatSecs,
                                total |-> size - PartStart]),
                    Write(PartStart + 1, [k |-> "fsinfo"])>>, "fat")
  /\ UNCHANGED <<next, at>>

\* clear_fat32_tables: both copies, then the first sector of each.
FirstFatSector ==
  FatSector([i \in 0..PerSec - 1 |-> IF i <= 2 THEN Eoc ELSE Free])
ClearFat ==
  /\ Queue("fat",
       [i \in 1..2 * fatSecs |-> Write(PartStart + Res + i - 1, Zero)]
         \o <<Write(PartStart + Res, FirstFatSector),
              Write(PartStart + Res + fatSecs, FirstFatSector)>>, "root")
  /\ UNCHANGED <<next, at>>

InitRoot_Skipped == Queue("root", <<>>, "stage2") /\ UNCHANGED <<next, at>>
InitRoot ==
  /\ Queue("root", WriteCluster(2, Zero), "stage2")
  /\ UNCHANGED <<next, at>>

\* copy_stage2_to_hdd
CopyStage2 ==
  /\ Queue("stage2",
       [i \in 1..floppy.stage2 |->
          Write(PartStart + 1 + i, FileSector(floppy, "stage2", i))], "load")
  /\ UNCHANGED <<next, at>>

\* The FAT and the root directory of the floppy.
LoadSource == Queue("load", <<Read>>, "kernel") /\ UNCHANGED <<next, at>>
-----------------------------------------------------------------------------
(* install_fs_fat32 *)

CopyKernel ==
  LET f == floppy.kernel
      n == ClustersOf(f.secs)
      c == FirstOf(3, n)
  IN /\ Queue("kernel", AllocChain(3, n) \o CopyFile(floppy, f, c), "prompt")
     /\ next' = 3 + n
     /\ at' = [at EXCEPT !.kernel = c, !.ksecs = f.secs]

\* The swap loop starts once the kernel is copied.
PromptProgram ==
  /\ At("prompt") /\ Goto("swap_program") /\ retry' = Swaps
  /\ UNCHANGED <<floppy, users, rootpw, spc, fatSecs, next, at, faults>>

\* try_prepare_source_disk, parse_src_bpb, verify_program_files_in_loaded_root
HasPrograms(d) == Prepared(d, "program") /\ d.bpb /\ d.bin.kind = "dir"

SwapProgram(d) ==
  /\ At("swap_program") /\ Insert(d)
  /\ \/ HasPrograms(d) /\ Goto("bin") /\ UNCHANGED <<retry, faults>>
     \/ ~HasPrograms(d) /\ Retry("swap_program") /\ NoFault
     \/ Retry("swap_program") /\ Fault

\* parse_src_bin_dir: plain files only, as many as the table takes.
BinFiles(d) ==
  LET fs == d.bin.files
      found[i \in 0..Len(fs)] ==
        IF i = 0 THEN <<>>
        ELSE IF fs[i].kind = "file" /\ Len(found[i - 1]) < BinMax
             THEN Append(found[i - 1], fs[i]) ELSE found[i - 1]
  IN found[Len(fs)]

AllocBin ==
  /\ Queue("bin", <<Read>> \o AllocChain(next, 1), "bin_files")
  /\ next' = next + 1 /\ at' = [at EXCEPT !.bin = next]

CopyBinFile ==
  /\ At("bin_files") /\ Len(at.files) < Len(BinFiles(floppy))
  /\ LET f == BinFiles(floppy)[Len(at.files) + 1]
         n == ClustersOf(f.secs)
         c == FirstOf(next, n)
     IN /\ Queue("bin_files", AllocChain(next, n) \o CopyFile(floppy, f, c),
                 "bin_files")
        /\ next' = next + n
        /\ at' = [at EXCEPT !.files = Append(@, c)]

\* write_dst_bin_dir: one cluster, however many files there are.
BinSlots(d, a) ==
  Dots(a.bin, 0) \o
  [i \in 1..Len(BinFiles(d)) |->
     Slot(BinFiles(d)[i].name, FALSE, a.files[i], BinFiles(d)[i].secs)]
SectorOf(slots, i) ==
  SubSeq(slots, DirSlots * (i - 1) + 1, Min({Len(slots), DirSlots * i}))
WriteBinDir ==
  /\ At("bin_files") /\ Len(at.files) = Len(BinFiles(floppy))
  /\ Queue("bin_files",
       [i \in 1..spc |->
          Write(ClusterLba(at.bin) + i - 1,
                DirSector(SectorOf(BinSlots(floppy, at), i)))],
       "accounts")
  /\ UNCHANGED <<next, at>>
-----------------------------------------------------------------------------
(* install_users_fat32 and the root directory *)

Uid(i) == i
Line(n, u, home, p) == [name |-> n, uid |-> u, home |-> home, pass |-> p]

\* build_passwd_buf
Passwd(us, pw) ==
  <<Line(ROOT, 0, "", pw)>> \o
  [i \in 1..Len(us) |-> Line(us[i].name, Uid(i), us[i].name, us[i].pass)]

\* /ETC, /HOME, /ETC/PASSWD and the home directories, one cluster each.
AllocUsers ==
  LET n == Len(users) + 3
  IN /\ Queue("accounts",
               FlattenSeq([i \in 1..n |-> AllocChain(next + i - 1, 1)]),
               "users_data")
     /\ next' = next + n
     /\ at' = [at EXCEPT !.etc = next, !.home = next + 1, !.passwd = next + 2,
                         !.homes = [i \in 1..Len(users) |-> next + 2 + i]]

WriteHomes ==
  FlattenSeq([i \in 1..Len(users) |->
    WriteCluster(at.homes[i], DirSector(Dots(at.homes[i], at.home)))])

\* write_home_dir_cluster: an entry for every user
HomeSlots(us, a) ==
  Dots(a.home, 0) \o
  [i \in 1..Len(us) |-> Slot(us[i].name, TRUE, a.homes[i], 0)]

EtcSlots(a) == Dots(a.etc, 0) \o <<Slot("PASSWD", FALSE, a.passwd, 1)>>

WriteUsers ==
  /\ Queue("users_data",
       WriteCluster(at.passwd, PasswdSector(Passwd(users, rootpw)))
         \o WriteHomes
         \o WriteCluster(at.home, DirSector(HomeSlots(users, at)))
         \o WriteCluster(at.etc, DirSector(EtcSlots(at))), "root_dir")
  /\ UNCHANGED <<next, at>>

\* write_root_dir_cluster_fat32
RootSlots(a) ==
  <<Slot("KERNEL.BIN", FALSE, a.kernel, a.ksecs), Slot("BIN", TRUE, a.bin, 0),
    Slot("ETC", TRUE, a.etc, 0), Slot("HOME", TRUE, a.home, 0)>>
WriteRootDir ==
  /\ Queue("root_dir", <<Write(DataLba, DirSector(RootSlots(at)))>>, "reboot")
  /\ UNCHANGED <<next, at>>

\* reboot_hdd_after_key
Finish == At("reboot") /\ Goto("done") /\ UNCHANGED <<memory, faults>>
-----------------------------------------------------------------------------
Program ==
  \/ Geometry \/ Validate \/ Layout
  \/ WriteMbr \/ WriteVbr \/ ClearFat \/ InitRoot \/ CopyStage2 \/ LoadSource
  \/ CopyKernel \/ PromptProgram \/ AllocBin \/ CopyBinFile \/ WriteBinDir
  \/ AllocUsers \/ WriteUsers \/ WriteRootDir \/ Finish \/ Step

Answer ==
  \E d \in Floppies \cup {NoDisk} : TryB(d) \/ Swap(d) \/ SwapProgram(d)

Next ==
  \/ Program \/ Answer
  \/ Confirm \/ UsersDone \/ PowerOff \/ Restart
  \/ \E p \in Passwords : SetRootPassword(p)
  \/ \E n \in Names, p \in Passwords : AddUser(n, p)

\* The processor goes on, and somebody answers the prompts for a floppy.
Fairness == WF_vars(Program) /\ WF_vars(Answer)
Spec == Init /\ [][Next]_vars /\ Fairness
-----------------------------------------------------------------------------
(* What an installation needs of the floppies and of the hard disk.        *)

\* A layout the search accepts for a disk of s sectors: k to a cluster, n to a
\* FAT.
CountOf(s, k, n) == (s - PartStart - Res - 2 * n) \div k
Accepted(s, k, n) ==
  /\ s - PartStart - Res - 2 * n >= 0
  /\ Ceil(CountOf(s, k, n) + 2, PerSec) = n /\ CountOf(s, k, n) >= MinClusters

KernelDisks == {d \in Floppies : Prepared(d, "kernel") /\ Verified(d)}
ProgramDisks == {d \in Floppies : HasPrograms(d)}
Plain(d) == {d.bin.files[i] : i \in 1..Len(d.bin.files)}

\* The disks make_fat12_image.py builds: the kernel disk has boot code and a
\* kernel that is not empty, the program disk a BIN with files of names that
\* differ from "." and "..", no more of them than the table takes.
KernelDiskOK(d) ==
  /\ d.stage2 \in Nat \ {0}
  /\ d.kernel.name = "KERNEL.BIN" /\ d.kernel.secs \in Nat \ {0}
ProgramDiskOK(d) ==
  /\ d.bin.files \in Seq(Plain(d))
  /\ \A f \in Plain(d) : f.kind = "file" =>
       /\ f.secs \in Nat /\ f.name \notin {".", ".."}
       /\ \E i \in 1..Len(BinFiles(d)) : BinFiles(d)[i] = f

\* The clusters the first files of BIN take together.
Taken(d, k) ==
  LET taken[i \in 0..Len(BinFiles(d))] ==
        IF i = 0 THEN 0 ELSE taken[i - 1] + Ceil(BinFiles(d)[i].secs, k)
  IN taken
\* The first cluster that stays free: root, kernel, BIN, its files, /ETC, /HOME,
\* PASSWD and the homes come before it.
Top(d, e, k) ==
  3 + Ceil(d.kernel.secs, k) + 1 + Taken(e, k)[Len(BinFiles(e))] + 3 + MaxUsers

\* The system fits; the sectors it takes lie within one multiple of WordSize (see
\* CopyLba), and no second copy of a FAT sector falls on them (see MirrorLba).
DiskFits(s, k, n) ==
  \A d \in KernelDisks, e \in ProgramDisks :
    LET data == PartStart + Res + 2 * n
        last == data + (Top(d, e, k) - 2) * k - 1
    IN /\ Top(d, e, k) <= CountOf(s, k, n) + 2
       /\ Len(BinFiles(e)) + 2 <= DirSlots * k
       /\ High(data) = High(last)
       /\ \A c \in 3..Top(d, e, k) - 1 :
            High(FatLba(c) + n) + BufSeg \notin
              {0} \cup (PartStart..PartStart + Res + n - 1) \cup (data..last)

\* The machine, the names that may be typed and the floppies.  validate_username
\* lets no "." pass; that it lets ROOT pass is left out here.
SourcesOK ==
  /\ PerSec > 3 /\ Fat32Min <= MinClusters
  /\ Names \cap {ROOT, ".", ".."} = {}
  /\ ProgramDisks # {}
  /\ \A d \in KernelDisks : KernelDiskOK(d)
  /\ \A d \in ProgramDisks : ProgramDiskOK(d)
-----------------------------------------------------------------------------
(* Properties.  What the disk holds is read as the boot loader and the     *)
(* kernel read it: through the first FAT, with the layout of the boot      *)
(* sector.                                                                 *)

InPartition(o) ==
  CASE o.op = "write" ->
         /\ o.lba < size
         /\ o.lba < PartStart => o.lba = 0 /\ o.sec.k = "mbr"
    [] o.op \in {"link", "mirror"} ->
         o.cluster <= Clusters + 1 /\ FatLba(o.cluster) < PartStart + Res + fatSecs
    [] OTHER -> TRUE

\* The comment "Validate source media before any destructive write to HDD":
\* no sector of the hard disk changes unless the floppy in the drive is a
\* Seolsem kernel disk that can be installed, or the kernel is copied and it is
\* a program disk.  No cluster beyond the last one is handed out, and outside of
\* the partition only the partition table is written.
ValidatedFirst ==
  [][hdd' # hdd =>
       /\ InPartition(Head(todo))
       /\ floppy # NoDisk /\ floppy.sig /\ floppy.bpb
       /\ \/ /\ "kernel" \in floppy.roles /\ floppy.kernel.kind = "file"
             /\ Res >= 2 + floppy.stage2
          \/ /\ "program" \in floppy.roles /\ floppy.bin.kind = "dir"
             /\ at.kernel # Bad]_vars

Vbr == HddSec(PartStart)
DiskData == PartStart + Res + 2 * Vbr.fat
DiskLba(c) == DiskData + (c - 2) * Vbr.spc
FatOf(c) == Entry(HddSec(FatLba(c)), c % PerSec)

\* The cluster after n steps along the chain of c.
Along(c, n) == LET f[i \in 0..n] == IF i = 0 THEN c ELSE FatOf(f[i - 1]) IN f[n]
\* The chain of c has n clusters.
HasChain(c, n) ==
  IF n = 0 THEN c = 0
  ELSE /\ \A i \in 0..n - 1 : Along(c, i) >= 2
       /\ Along(c, n) = Eoc
ChainSector(c, i) ==
  HddSec(DiskLba(Along(c, i \div Vbr.spc)) + (i % Vbr.spc))

DirOf(c) == UNION {LET s == HddSec(DiskLba(c) + i)
                   IN IF s.k = "dir" THEN {s.slots[j] : j \in 1..Len(s.slots)}
                      ELSE {} : i \in 0..Vbr.spc - 1}
Named(c, n) == {s \in DirOf(c) : s.name = n}

WholeFile(s, d) ==
  /\ HasChain(s.first, Ceil(s.secs, Vbr.spc))
  /\ \A i \in 1..s.secs : ChainSector(s.first, i - 1) = FileSector(d, s.name, i)
WholeDir(c, parent) ==
  /\ HasChain(c, 1)
  /\ \A s \in Named(c, ".") : s.first = c
  /\ \A s \in Named(c, "..") : s.first = parent
  /\ Named(c, ".") # {} /\ Named(c, "..") # {}

\* The boot loader finds stage 2 and a kernel of which it loads all clusters:
\* only an end of chain that comes too early stops it (sima.asm:395).  A listed
\* kernel whose first cluster is free is left out: that is the listing of an
\* old installation over a FAT just cleared, and sima.asm, which goes on at
\* cluster 0, may enter what it finds there.
KernelBoots ==
  /\ HddSec(0).k = "mbr" /\ Vbr.k = "vbr"
  /\ HddSec(PartStart + 2).k = "file"
  /\ \E s \in Named(2, "KERNEL.BIN") :
       /\ FatOf(s.first) # Free
       /\ \A i \in 1..Ceil(s.secs, Vbr.spc) - 1 : Along(s.first, i) # Eoc

WholeKernel ==
  \E d \in Floppies, s \in Named(2, "KERNEL.BIN") :
    /\ d.kernel.kind = "file" /\ s.secs = d.kernel.secs /\ WholeFile(s, d)
    /\ \A i \in 1..d.stage2 :
         HddSec(PartStart + 1 + i) = FileSector(d, "stage2", i)

\* BIN lists the plain files of a program disk, each whole.
WholeBin ==
  \E b \in Named(2, "BIN"), d \in Floppies :
    /\ d.bin.kind = "dir" /\ WholeDir(b.first, 0)
    /\ \A f \in Plain(d) : f.kind = "file" =>
         \E s \in Named(b.first, f.name) : s.secs = f.secs /\ WholeFile(s, d)

\* Every account of PASSWD has a uid and a home directory of its own.
WholeAccounts ==
  \E e \in Named(2, "ETC"), h \in Named(2, "HOME") :
    /\ WholeDir(e.first, 0) /\ WholeDir(h.first, 0)
    /\ \E p \in Named(e.first, "PASSWD") :
         /\ HasChain(p.first, 1)
         /\ LET t == ChainSector(p.first, 0).lines IN
            /\ t[1].name = ROOT /\ t[1].uid = 0
            /\ \A i, j \in 1..Len(t) : i # j =>
                 t[i].uid # t[j].uid /\ t[i].name # t[j].name
            /\ \A i \in 2..Len(t) : \E s \in Named(h.first, t[i].home) :
                 /\ WholeDir(s.first, h.first)
                 /\ \A r \in DirOf(h.first) : r # s => r.first # s.first

SystemWhole == WholeKernel /\ WholeBin /\ WholeAccounts

\* The root directory is written last, and the old one is cleared before
\* anything is copied: whenever the power goes and whatever fails, a hard disk
\* that boots has the whole system on it, be it the new one or the one that was
\* there.
BootsComplete == KernelBoots => SystemWhole

\* fat_load_bpb and determine_fat_type of the kernel: it has the clusters counted
\* by the boot sector taken for those of a FAT32.
MountsAsFat32 ==
  (Vbr.total - (DiskData - PartStart)) \div Vbr.spc >= Fat32Min

\* An installation that says "Success" has left a disk that boots, that the
\* kernel takes for the FAT32 it is, and that has the accounts that were entered.
Complete ==
  pc = "done" =>
    /\ KernelBoots /\ SystemWhole /\ MountsAsFat32
    /\ \E e \in Named(2, "ETC") : \E p \in Named(e.first, "PASSWD") :
         LET t == ChainSector(p.first, 0).lines IN
         /\ t[1].pass = rootpw /\ Len(t) = Len(users) + 1
         /\ \A i \in 1..Len(users) :
              t[i + 1].name = users[i].name /\ t[i + 1].pass = users[i].pass

\* From the first look at the disks on, an installation succeeds or stops with a
\* message: the swap prompts do not ask for ever.
InstallEnds == pc = "geometry" ~> pc \in Ended

\* "Iteratively solve FAT size", and otherwise "Layout calculation failed.": the
\* search for the layout ends.
LayoutEnds == pc = "layout" ~> pc # "layout"
=============================================================================
