------------------------------- MODULE Boot -------------------------------
(* The boot path of Seolsem: from the sector the BIOS loads to the jump     *)
(* into the kernel.  On a hard disk mbr.asm reads the boot sector of the    *)
(* active partition; boot.asm (floppy, FAT12) or boot32.asm (hard disk,     *)
(* FAT32) loads stage 2 with load_img of read.asm; stage 2, sima.asm, finds *)
(* KERNEL.BIN in the root directory, follows its cluster chain through the  *)
(* FAT, and jumps into the image.                                           *)
(*                                                                          *)
(* A sector is its LBA; memory is counted in sectors from the segment       *)
(* 0x1000 stage 2 runs in, and each cell holds the LBA last read into it.   *)
EXTENDS Integers, Sequences

CONSTANTS
  Spt, Heads, Cyls,  \* the geometry int 13h AH=08h reports
  Gap,               \* sectors from stage 2 (0x1000) to KERNEL_LOAD_SEG (0x1080)
  Window,            \* sectors in the 64 KiB an offset reaches
  FatBuf, RootBuf,   \* FAT_BUF_SEG and ROOT_BUF_SEG, in sectors
  MemTop,            \* the first sector beyond the memory modelled
  SecBytes,          \* bytes in a sector
  PerSector,         \* directory entries in a sector
  PerFat,            \* FAT entries in a sector
  Fat16Min, Fat32Min,  \* the clusters from which the kernel takes a FAT for a
                     \* FAT16 and a FAT32: 4085 and 65525
  Byte,              \* values of a byte of an LBA
  Statuses,          \* error codes a failing int 13h leaves in AH
  EntrySec,          \* the sector of the image that holds its entry point
  Disks,             \* the disks to start from
  FaultKinds,        \* what may fail: subset of {"bios", "early", "chs", "edd"}
  MaxFaults          \* bound on the failures of a behaviour

(* The disk is laid out as the image builder or the installer lays it out:  *)
(* stage 2 fits in the sectors loaded and below the kernel's segment, and   *)
(* the kernel fits between that segment and the FAT buffer; a FAT32 has the *)
(* clusters calc_dst_layout_fat32 gives it.                                 *)
ASSUME BootAssumption ==
  /\ Spt \in Nat \ {0} /\ Heads \in 1..255 /\ Cyls \in Nat \ {0}
  /\ Window \in Nat \ {0} /\ Gap \in Nat /\ FatBuf < RootBuf /\ RootBuf < MemTop
  /\ Fat16Min \in Nat /\ Fat32Min \in Nat /\ Fat16Min <= Fat32Min
  /\ \A d \in Disks :
       /\ d.stage2 <= Gap /\ (~d.fat32 => d.stage2 <= d.reserved - 1)
       /\ d.size > 0 /\ Gap * SecBytes + d.size <= FatBuf * SecBytes /\ d.spc > 0
       /\ d.fat32 => (d.total - d.reserved - d.fats * d.fatSecs) \div d.spc >= Fat32Min

VARIABLES
  disk,     \* the disk in the drive
  edd,      \* whether the BIOS offers int 13h extensions for the drive
  pc,       \* what runs next
  img,      \* load_img: next LBA, its CHS position, sectors left, segment
  mem,      \* memory
  io,       \* read_sectors_lba: next LBA, sectors left, ES:BX, caller
  ptr,      \* ES:BX of the kernel load
  cluster,  \* cur_cluster
  left,     \* kernel_size
  slot,     \* the root entry the scan looks at, and the entries left (CX)
  faults    \* failures so far

vars == <<disk, edd, pc, img, mem, io, ptr, cluster, left, slot, faults>>
scanning == <<cluster, left, slot>>

----------------------------------------------------------------------------
(* The disk.                                                                *)

None == -1
Failed == -2   \* no sector
SetMin(S) == CHOOSE i \in S : \A j \in S : i <= j
SetMax(S) == CHOOSE i \in S : \A j \in S : i >= j
Eoc == 0       \* an end-of-chain mark; clusters are numbered from 2
Clusters(d) == DOMAIN d.next
Ceil(a, b) == (a + b - 1) \div b
FatStart(d) == d.hidden + d.reserved
RootStart(d) == FatStart(d) + d.fats * d.fatSecs
RootDirSectors(d) == IF d.fat32 THEN 0 ELSE Ceil(d.rootEnts, PerSector)
DataStart(d) == RootStart(d) + RootDirSectors(d)
ClusterLba(d, c) == DataStart(d) + ((c - 2) * d.spc)

(* Where the root directory's sectors are, in the order they are read: a    *)
(* fixed area on FAT12, on FAT32 the first cluster of the root's chain.     *)
RootLba(d) == IF d.fat32 THEN ClusterLba(d, d.root) ELSE RootStart(d)
RootSectors(d) == IF d.fat32 THEN d.spc ELSE RootDirSectors(d)
RootEntries(d) == IF d.fat32 THEN d.spc * PerSector ELSE d.rootEnts

(* Stage 2: the sectors after the boot sector on FAT12; on FAT32 a fixed    *)
(* window of Gap sectors after the boot and FSInfo sectors.                 *)
Stage2Lba(d) == d.hidden + (IF d.fat32 THEN 2 ELSE 1)
Stage2Count(d) == IF d.fat32 THEN Gap ELSE d.reserved - 1

(* The entries of the partition table that are marked active.               *)
Active(d) == {i \in 1..Len(d.table) : d.table[i].active}

(* Where the partition mbr.asm boots may start: the first active one does.  *)
(* When there is none, SI points at 0x1BE and not at the table, which lies  *)
(* at 0x7BE by then, and the LBA is whatever low memory holds there.        *)
BootPart(d) ==
  IF Active(d) # {} THEN {d.table[SetMin(Active(d))].lba}
  ELSE {d.table[i].lba : i \in 1..Len(d.table)} \cup {Failed}

(* What a lookup in a buffer can yield: the entry, when the sector in the   *)
(* buffer is the one that holds it, and anything otherwise.                 *)
FatSector(c) == c \div PerFat
FatEntry(d, c, lba) ==
  IF c \in Clusters(d) /\ lba = FatStart(d) + FatSector(c)
  THEN {d.next[c]} ELSE Clusters(d) \cup {Eoc}
RootEntry(d, i, lba) ==
  IF lba = RootLba(d) + (i \div PerSector)
  THEN {IF i < Len(d.dir) THEN d.dir[i + 1] ELSE "end"}
  ELSE {"end", "gone", "other", "kernel"}

(* The kernel file: its sectors, in the order of its chain.                 *)
Sectors(d) == Ceil(d.size, SecBytes)
Chain(d) ==
  LET c[k \in 0..Sectors(d)] ==
        IF k = 0 THEN d.first ELSE IF c[k - 1] = Eoc THEN Eoc ELSE d.next[c[k - 1]]
  IN  c
LongEnough(d) == Chain(d)[(Sectors(d) - 1) \div d.spc] # Eoc
KernelLba(d, i) == ClusterLba(d, Chain(d)[i \div d.spc]) + (i % d.spc)

(* What else is fixed by the layout: the clusters the FAT lists lie in it,  *)
(* the BPB agrees with the partition table, a FAT12's FAT and the root      *)
(* directory fit their buffers, and stage 2 lies on cylinders that CHS can  *)
(* address and load_img's track byte can count.                             *)
LaidOut(d) ==
  /\ d.hdd \in BOOLEAN /\ d.fat32 = d.hdd
  /\ {d.hidden, d.reserved, d.fats, d.fatSecs, d.rootEnts, d.total, d.stage2} \subseteq Nat
  /\ d.spc \in Nat /\ d.size \in Nat /\ EntrySec < Sectors(d)
  /\ d.dir \in Seq({"kernel", "other", "gone", "end"})
  /\ d.table \in Seq([active : BOOLEAN, lba : Nat])
  /\ Clusters(d) \subseteq Nat \ {0, 1} /\ d.first \in Clusters(d)
  /\ \A c \in Clusters(d) : d.next[c] \in Clusters(d) \cup {Eoc} /\ FatSector(c) < d.fatSecs
  /\ d.fat32 => d.root \in Clusters(d) /\ d.rootEnts = 0 /\ d.hidden > 0
  /\ ~d.fat32 => FatBuf + d.fatSecs <= RootBuf /\ d.reserved > 0
  /\ RootBuf + RootSectors(d) <= MemTop
  /\ \A n \in {256, Cyls} : Stage2Lba(d) + Stage2Count(d) <= n * (Heads * Spt)
  /\ Active(d) # {} => d.table[SetMin(Active(d))].lba = d.hidden
  /\ d.fat32 => d.reserved + d.fats * d.fatSecs < d.total
ASSUME LayoutAssumption ==
  /\ {FatBuf, RootBuf, MemTop, EntrySec} \subseteq Nat
  /\ {SecBytes, PerSector, PerFat} \subseteq Nat \ {0}
  /\ \A d \in Disks : LaidOut(d)

----------------------------------------------------------------------------
(* The BIOS.                                                                *)

Chs(l) == [c |-> (l \div Spt) \div Heads, h |-> (l \div Spt) % Heads, s |-> (l % Spt) + 1]
AtChs(p) ==
  IF p.s \in 1..Spt /\ p.h \in 0..(Heads - 1) /\ p.c \in 0..(Cyls - 1)
  THEN (p.c * Heads + p.h) * Spt + p.s - 1 ELSE Failed

MayFault(k) == k \in FaultKinds /\ faults < MaxFaults
Fault(k) == MayFault(k) /\ faults' = faults + 1

NextChs_OffByOne(p) ==
  IF p.s + 1 < Spt THEN [p EXCEPT !.s = p.s + 1]
  ELSE IF p.h + 1 <= Heads - 1 THEN [p EXCEPT !.s = 1, !.h = p.h + 1]
  ELSE [s |-> 1, h |-> 0, c |-> (p.c + 1) % 256]

(* The next position of load_img, which counts sector, head and track (a    *)
(* byte) up by hand.                                                        *)
NextChs(p) ==
  IF p.s + 1 <= Spt THEN [p EXCEPT !.s = p.s + 1]
  ELSE IF p.h + 1 <= Heads - 1 THEN [p EXCEPT !.s = 1, !.h = p.h + 1]
  ELSE [s |-> 1, h |-> 0, c |-> (p.c + 1) % 256]

(* What read_sector_lba falls back on when the extended read fails: AH then *)
(* holds the status and DL the drive, so the CHS conversion starts from     *)
(* those.  A hard disk's drive number makes the division overflow: the      *)
(* processor traps and never comes back.                                    *)
Trapped == -3
Fallback(l, status) ==
  IF disk.hdd THEN Trapped ELSE AtChs(Chs((status * Byte) + (l % Byte)))

----------------------------------------------------------------------------
Init ==
  /\ disk \in Disks
  /\ edd \in (IF disk.hdd THEN BOOLEAN ELSE {FALSE})
  /\ pc = (IF disk.hdd THEN "mbr" ELSE "vbr")
  /\ img = [lba |-> 0, at |-> Chs(0), n |-> 0, seg |-> 0]
  /\ mem = [a \in 0..(MemTop - 1) |-> None]
  /\ io = [lba |-> 0, n |-> 0, es |-> 0, bx |-> 0, back |-> "fat"]
  /\ ptr = [es |-> Gap, bx |-> 0]
  /\ cluster = 0 /\ left = 0 /\ slot = [i |-> 0, cx |-> 0]
  /\ faults = 0

(* mbr.asm: read the boot sector of the active partition.                   *)
Mbr ==
  /\ pc = "mbr"
  /\ \/ /\ \E l \in BootPart(disk) :
             LET got == IF edd \/ l = Failed THEN l ELSE AtChs(Chs(l))
             IN  pc' = IF got = disk.hidden THEN "vbr" ELSE "hung"
        /\ UNCHANGED faults
     \/ Fault("early") /\ pc' = "hung"
  /\ UNCHANGED <<disk, edd, img, mem, io, ptr, scanning>>

(* boot.asm and boot32.asm, and load_img up to its loop: the BIOS resets    *)
(* the drive and reports the geometry, and the first LBA becomes CHS.       *)
LoadImg ==
  /\ pc = "vbr"
  /\ \/ /\ pc' = "stage1" /\ UNCHANGED faults
        /\ LET at == Chs(Stage2Lba(disk))
           IN  img' = [lba |-> Stage2Lba(disk), at |-> [at EXCEPT !.c = at.c % 256],
                       n |-> Stage2Count(disk), seg |-> 0]
     \/ Fault("bios") /\ pc' = "hung" /\ UNCHANGED img
  /\ UNCHANGED <<disk, edd, mem, io, ptr, scanning>>

(* One turn of read_data.                                                   *)
ReadData ==
  /\ pc = "stage1" /\ img.n > 0
  /\ LET got == IF edd THEN img.lba ELSE AtChs(img.at)
     IN  \E ok \in {got # Failed} \cup (IF MayFault("early") THEN {FALSE} ELSE {}) :
           IF ok
           THEN /\ mem' = [mem EXCEPT ![img.seg] = got]
                /\ img' = [img EXCEPT !.lba = IF edd THEN img.lba + 1 ELSE img.lba,
                                      !.at = IF edd THEN img.at ELSE NextChs(img.at),
                                      !.n = img.n - 1, !.seg = img.seg + 1]
                /\ UNCHANGED <<pc, faults>>
           ELSE /\ pc' = "hung"
                /\ faults' = IF got = Failed THEN faults ELSE faults + 1
                /\ UNCHANGED <<mem, img>>
  /\ UNCHANGED <<disk, edd, io, ptr, scanning>>

(* The boot sector jumps to 0x1000:0000.                                    *)
Stage1Done ==
  /\ pc = "stage1" /\ img.n = 0
  /\ pc' = "sima"
  /\ UNCHANGED <<disk, edd, img, mem, io, ptr, scanning, faults>>

----------------------------------------------------------------------------
(* sima.asm.                                                                *)

(* A call of read_sectors_lba: N sectors from LBA L to ES:BX.               *)
CallRead(l, n, es, bx, back) ==
  /\ pc' = "read"
  /\ io' = [lba |-> l, n |-> n, es |-> es, bx |-> bx, back |-> back]

(* From start to the first read: geometry, extensions, the BPB.  FAT12      *)
(* reads the whole FAT, FAT32 goes for the root directory's first cluster.  *)
Sima ==
  /\ pc = "sima"
  /\ \/ /\ IF disk.fat32
           THEN CallRead(RootLba(disk), RootSectors(disk), RootBuf, 0, "scan")
           ELSE CallRead(FatStart(disk), disk.fatSecs, FatBuf, 0, "root")
        /\ UNCHANGED faults
     \/ Fault("bios") /\ pc' = "disk_error" /\ UNCHANGED io
  /\ UNCHANGED <<disk, edd, img, mem, ptr, scanning>>

(* One sector of read_sectors_lba: ES:BX moves on by a sector, and ES by    *)
(* 64 KiB when BX wraps.                                                    *)
Advance(p) ==
  IF p.bx + 1 = Window THEN [p EXCEPT !.bx = 0, !.es = p.es + Window]
  ELSE [p EXCEPT !.bx = p.bx + 1]
ReadSector ==
  /\ pc = "read" /\ io.n > 0
  /\ \E got \in (IF edd THEN {io.lba} ELSE {AtChs(Chs(io.lba))})
                \cup (IF edd /\ MayFault("edd")
                      THEN {Fallback(io.lba, s) : s \in Statuses} ELSE {})
                \cup (IF ~edd /\ MayFault("chs") THEN {Failed} ELSE {}) :
            /\ faults' = IF got = io.lba THEN faults ELSE faults + 1
            /\ pc' = CASE got = Failed -> "disk_error"
                       [] got = Trapped -> "hung"
                       [] OTHER -> "read"
            /\ IF got \in {Failed, Trapped} THEN UNCHANGED <<mem, io>>
               ELSE /\ mem' = [mem EXCEPT ![io.es + io.bx] = got]
                    /\ io' = [Advance(io) EXCEPT !.lba = io.lba + 1, !.n = io.n - 1]
  /\ UNCHANGED <<disk, edd, img, ptr, scanning>>

(* kernel_size less a cluster, or zero when a cluster covers it.            *)
Remaining(l) ==
  LET bytes == disk.spc * SecBytes IN IF l <= bytes THEN 0 ELSE l - bytes

(* read_sectors_lba returns, and its caller goes on.                        *)
ReadDone ==
  /\ pc = "read" /\ io.n = 0
  /\ CASE io.back = "root" ->
            /\ CallRead(RootLba(disk), RootSectors(disk), RootBuf, 0, "scan")
            /\ UNCHANGED <<ptr, slot, left>>
       [] io.back = "scan" ->
            /\ pc' = "scan" /\ slot' = [i |-> 0, cx |-> RootEntries(disk)] /\ UNCHANGED <<io, ptr, left>>
       [] io.back = "kernel" ->
            /\ pc' = "next" /\ ptr' = [es |-> io.es, bx |-> io.bx]
            /\ left' = Remaining(left)
            /\ UNCHANGED <<io, slot>>
       [] io.back = "entry32" ->
            /\ pc' = "follow" /\ UNCHANGED <<io, ptr, slot, left>>
  /\ UNCHANGED <<disk, edd, img, mem, cluster, faults>>

FindKernel_NoSkip ==
  /\ pc = "scan"
  /\ \E e \in (IF slot.cx = 0 THEN {"end"}
               ELSE RootEntry(disk, slot.i, mem[RootBuf + slot.i \div PerSector])) :
       CASE e = "end" -> pc' = "not_found" /\ UNCHANGED <<scanning, ptr>>
         [] e = "kernel" ->
              /\ pc' = "load" /\ cluster' = disk.first /\ left' = disk.size
              /\ ptr' = [es |-> Gap, bx |-> 0] /\ UNCHANGED slot
         [] OTHER -> UNCHANGED <<pc, scanning, ptr>>
  /\ UNCHANGED <<disk, edd, img, mem, io, faults>>

(* .find_kernel: one directory entry.                                       *)
FindKernel ==
  /\ pc = "scan"
  /\ \E e \in (IF slot.cx = 0 THEN {"end"}
               ELSE RootEntry(disk, slot.i, mem[RootBuf + slot.i \div PerSector])) :
       CASE e = "end" -> pc' = "not_found" /\ UNCHANGED <<scanning, ptr>>
         [] e = "kernel" ->
              /\ pc' = "load" /\ cluster' = disk.first /\ left' = disk.size
              /\ ptr' = [es |-> Gap, bx |-> 0] /\ UNCHANGED slot
         [] OTHER ->
              /\ slot' = [i |-> slot.i + 1, cx |-> slot.cx - 1]
              /\ UNCHANGED <<pc, cluster, left, ptr>>
  /\ UNCHANGED <<disk, edd, img, mem, io, faults>>

(* .load_loop: the next cluster, or nothing is left.                        *)
LoadLoop ==
  /\ pc = "load"
  /\ IF left = 0 THEN pc' = "loaded" /\ UNCHANGED io
     ELSE CallRead(ClusterLba(disk, cluster), disk.spc, ptr.es, ptr.bx, "kernel")
  /\ UNCHANGED <<disk, edd, img, mem, ptr, scanning, faults>>

(* get_next_cluster_32: on FAT12 from the FAT in memory, on FAT32 from the  *)
(* one FAT sector that holds the entry, read first.                         *)
FatAddr_First == FatBuf
FatAddr == FatBuf + (IF disk.fat32 THEN 0 ELSE FatSector(cluster))
NextCluster32 ==
  /\ pc = "next"
  /\ IF disk.fat32
     THEN CallRead(FatStart(disk) + FatSector(cluster), 1, FatBuf, 0, "entry32")
     ELSE pc' = "follow" /\ UNCHANGED io
  /\ UNCHANGED <<disk, edd, img, mem, ptr, scanning, faults>>

Follow_NoEocCheck ==
  /\ pc = "follow"
  /\ \E n \in FatEntry(disk, cluster, mem[FatAddr]) : pc' = "load" /\ cluster' = n
  /\ UNCHANGED <<disk, edd, img, mem, io, ptr, left, slot, faults>>

(* An end of chain before the size is used up is an error; otherwise the    *)
(* entry is the next cluster.                                               *)
Follow ==
  /\ pc = "follow"
  /\ \E n \in FatEntry(disk, cluster, mem[FatAddr]) :
       /\ pc' = IF left # 0 /\ n = Eoc THEN "hung" ELSE "load"
       /\ cluster' = n
  /\ UNCHANGED <<disk, edd, img, mem, io, ptr, left, slot, faults>>

(* kernel_loaded: the opcode at the entry must be 0xEB, as it is in the     *)
(* kernel's own sector and may be in any other.                             *)
KernelLoaded ==
  /\ pc = "loaded"
  /\ \E ok \in (IF mem[Gap + EntrySec] = KernelLba(disk, EntrySec)
                THEN {TRUE} ELSE BOOLEAN) :
       pc' = IF ok THEN "kernel" ELSE "hung"
  /\ UNCHANGED <<disk, edd, img, mem, io, ptr, scanning, faults>>

(* disk_error and kernel_not_found wait for a key and restart the machine.  *)
Reboot ==
  /\ pc \in {"disk_error", "not_found"}
  /\ pc' = (IF disk.hdd THEN "mbr" ELSE "vbr")
  /\ UNCHANGED <<disk, edd, img, mem, io, ptr, scanning, faults>>

----------------------------------------------------------------------------
(* fs_init of the kernel, which reads the hard disk for itself.             *)

FatType(clusters) ==
  IF clusters < Fat16Min THEN "fat12"
  ELSE IF clusters < Fat32Min THEN "fat16" ELSE "fat32"

(* mbr_find_partition_start: of the entries that are not empty the first    *)
(* active one, and otherwise the last.                                      *)
PartitionStart_First(d) ==
  d.table[SetMin({i \in 1..Len(d.table) : d.table[i].lba # 0})].lba
PartitionStart(d) ==
  LET used == {i \in 1..Len(d.table) : d.table[i].lba # 0}
      on == used \cap Active(d)
  IN  IF on # {} THEN d.table[SetMin(on)].lba
      ELSE IF used # {} THEN d.table[SetMax(used)].lba ELSE Failed

(* fat_load_bpb: where the FAT and the data start and how wide an entry of  *)
(* the FAT is taken to be; nothing when the volume is refused.              *)
Mounted(d) ==
  LET base == PartitionStart(d)
      fat == base + d.reserved
      rootSecs == Ceil(d.rootEnts, PerSector)
      data == fat + d.fats * d.fatSecs + rootSecs
      type == FatType((d.total - (data - base)) \div d.spc)
  IN  IF \/ base # d.hidden \/ data - base >= d.total
         \/ type = "fat32" /\ d.root < 2
      THEN {} ELSE {[fat |-> fat, data |-> data, type |-> type]}

Step == \/ Mbr \/ LoadImg \/ ReadData \/ Stage1Done
        \/ Sima \/ ReadSector \/ ReadDone \/ FindKernel
        \/ LoadLoop \/ NextCluster32 \/ Follow \/ KernelLoaded
Next == Step \/ Reboot

(* The processor keeps running; the key that restarts the machine may never *)
(* come.                                                                    *)
Spec == Init /\ [][Next]_vars /\ WF_vars(Step)

----------------------------------------------------------------------------
(* The scan can reach the kernel's entry.                                   *)
Listed(d) ==
  \E i \in 1..Len(d.dir) :
    /\ i <= RootEntries(d) /\ d.dir[i] = "kernel"
    /\ \A j \in 1..i : d.dir[j] # "end"

(* Control reaches the kernel only with the whole file in memory, sector    *)
(* after sector in the order of its cluster chain, whatever restarts and    *)
(* failures came before: a chain that ends early is never started           *)
(* (.load_loop, .check_eoc32, kernel_loaded).                               *)
KernelWhole ==
  pc = "kernel" =>
    /\ LongEnough(disk)
    /\ \A i \in 0..(Sectors(disk) - 1) : mem[Gap + i] = KernelLba(disk, i)

(* Stage 2 in memory is stage 2 on the disk for as long as it runs: load_img*)
(* brought its sectors in order, by extended reads or by counting CHS, and  *)
(* nothing stage 2 loads falls on stage 2 itself (KERNEL_LOAD_SEG).         *)
LoaderIntact ==
  pc \notin {"mbr", "vbr", "stage1", "hung"} =>
    \A i \in 0..(disk.stage2 - 1) : mem[i] = Stage2Lba(disk) + i

(* A sound disk boots: without a failing BIOS call no error stop is reached *)
(* when the directory lists the kernel, the chain holds its size and, on a  *)
(* hard disk, a partition is active; and the kernel then mounts the volume  *)
(* stage 2 loaded it from, the FAT and the data where stage 2 found them.   *)
(* (stage 2 goes by the BPB's hidden sectors and by FATSz16 = 0, the kernel *)
(* by the partition table and the number of clusters.)                      *)
SoundBoots ==
  faults = 0 /\ Listed(disk) /\ LongEnough(disk) /\ (disk.hdd => Active(disk) # {}) =>
    /\ pc \notin {"hung", "disk_error", "not_found"}
    /\ pc = "kernel" /\ disk.hdd =>
         Mounted(disk) = {[fat |-> FatStart(disk), data |-> DataStart(disk),
                           type |-> "fat32"]}

(* Every boot comes to an end, in the kernel or in a stop the user can see: *)
(* the size counter ends the load even along a chain that loops.            *)
BootEnds ==
  pc \in {"mbr", "vbr"} ~> pc \in {"kernel", "hung", "disk_error", "not_found"}

(* "Prefer EDD (LBA) read when available; fall back to CHS on failure"      *)
(* (sima.asm, read_sector_lba): a sector asked for is read, or the error is *)
(* reported.                                                                *)
FallsBack ==
  [][pc = "read" /\ io.n > 0 =>
       pc' = "disk_error" \/ mem'[io.es + io.bx] = io.lba]_vars
=============================================================================
