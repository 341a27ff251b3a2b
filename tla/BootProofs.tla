----------------------------- MODULE BootProofs -----------------------------
(***************************************************************************)
(* The boot path, for every geometry, every laid out disk and every pattern*)
(* of failures.  The kernel's load is followed cluster by cluster: a number*)
(* k of clusters of the chain is in memory, one sector after the other from*)
(* the segment 0x1080 on, and kernel_size is what the other clusters still *)
(* hold.  On FAT12 the FAT lies in memory behind the kernel and is intact  *)
(* only while bytes are left: the last cluster may run over it, which      *)
(* .check_eoc32 then no longer looks at.                                   *)
(***************************************************************************)
EXTENDS Boot, SequenceTheorems, Induction, TLAPS

-----------------------------------------------------------------------------
(* Arithmetic. *)

LEMMA DivMod ==
  ASSUME NEW a \in Nat, NEW b \in Nat, b > 0
  PROVE  /\ a \div b \in Nat
         /\ a % b \in Nat /\ a % b < b
<1>1. a \div b \in Nat
  OBVIOUS
<1>2. a % b \in 0..b - 1
  OBVIOUS
<1> QED BY <1>1, <1>2

LEMMA DivModIs ==
  ASSUME NEW a \in Nat, NEW b \in Nat, b > 0
  PROVE  a = b * (a \div b) + (a % b)
OBVIOUS

LEMMA DivUnique ==
  ASSUME NEW k \in Nat, NEW b \in Nat, NEW p \in Nat, p < b
  PROVE  /\ (k * b + p) \div b = k
         /\ (k * b + p) % b = p
<1>1. (k * b + p) \div b = k
  OBVIOUS
<1>2. (k * b + p) % b = p
  OBVIOUS
<1> QED BY <1>1, <1>2

LEMMA DivLess ==
  ASSUME NEW a \in Nat, NEW b \in Nat, b > 0, NEW k \in Nat
  PROVE  a \div b < k <=> a < k * b
OBVIOUS

LEMMA CeilLess ==
  ASSUME NEW a \in Nat, NEW b \in Nat, b > 0, NEW k \in Nat
  PROVE  k < Ceil(a, b) <=> k * b < a
BY DEF Ceil

LEMMA CeilNat ==
  ASSUME NEW a \in Nat, NEW b \in Nat, b > 0
  PROVE  Ceil(a, b) \in Nat
<1>1. a + b - 1 \in Nat
  OBVIOUS
<1> QED BY <1>1 DEF Ceil

LEMMA TimesNat == ASSUME NEW a \in Nat, NEW b \in Nat PROVE a * b \in Nat
OBVIOUS

LEMMA TimesNext ==
  ASSUME NEW a \in Nat, NEW b \in Nat PROVE (a + 1) * b = a * b + b
OBVIOUS

LEMMA TimesAssoc ==
  ASSUME NEW a \in Nat, NEW b \in Nat, NEW c \in Nat PROVE (a * b) * c = a * (b * c)
OBVIOUS

LEMMA TimesSum ==
  ASSUME NEW a \in Nat, NEW b \in Nat, NEW c \in Nat PROVE (a + b) * c = a * c + b * c
OBVIOUS

LEMMA TimesLess ==
  ASSUME NEW a \in Nat, NEW b \in Nat, NEW c \in Nat, a * c < b * c PROVE a < b
OBVIOUS

LEMMA TimesMore ==
  ASSUME NEW a \in Nat, NEW b \in Nat, b > 0 PROVE a <= a * b
OBVIOUS
-----------------------------------------------------------------------------
(* The disk. *)

LEMMA Bounds ==
  /\ Spt \in Nat /\ Spt > 0 /\ Heads \in Nat /\ Heads > 0 /\ Cyls \in Nat /\ Cyls > 0
  /\ Window \in Nat /\ Window > 0 /\ Gap \in Nat
  /\ FatBuf \in Nat /\ RootBuf \in Nat /\ MemTop \in Nat /\ EntrySec \in Nat
  /\ FatBuf < RootBuf /\ RootBuf < MemTop
  /\ SecBytes \in Nat /\ SecBytes > 0 /\ PerSector \in Nat /\ PerSector > 0
  /\ PerFat \in Nat /\ PerFat > 0
<1>1. {FatBuf, RootBuf, MemTop, EntrySec} \subseteq Nat
  BY LayoutAssumption
<1>2. {SecBytes, PerSector, PerFat} \subseteq Nat \ {0}
  BY LayoutAssumption
<1>3. SecBytes \in Nat \ {0} /\ PerSector \in Nat \ {0} /\ PerFat \in Nat \ {0}
  BY <1>2
<1>4. /\ Spt \in Nat \ {0} /\ Heads \in 1..255 /\ Cyls \in Nat \ {0}
      /\ Window \in Nat \ {0} /\ Gap \in Nat /\ FatBuf < RootBuf /\ RootBuf < MemTop
  BY BootAssumption
<1> QED BY <1>1, <1>3, <1>4

LEMMA DiskBounds ==
  ASSUME NEW d \in Disks
  PROVE  /\ d.hdd \in BOOLEAN /\ d.fat32 = d.hdd
         /\ d.hidden \in Nat /\ d.reserved \in Nat /\ d.fats \in Nat
         /\ d.fatSecs \in Nat /\ d.rootEnts \in Nat /\ d.total \in Nat
         /\ d.stage2 \in Nat /\ d.stage2 <= Gap
         /\ d.spc \in Nat /\ d.spc > 0 /\ d.size \in Nat /\ d.size > 0
<1>1. LaidOut(d)
  BY LayoutAssumption
<1>2. {d.hidden, d.reserved, d.fats, d.fatSecs, d.rootEnts, d.total, d.stage2} \subseteq Nat
  BY <1>1 DEF LaidOut
<1>3. d.stage2 <= Gap /\ d.size > 0 /\ d.spc > 0
  BY BootAssumption
<1>4. /\ d.hdd \in BOOLEAN /\ d.fat32 = d.hdd /\ d.spc \in Nat /\ d.size \in Nat
  BY <1>1 DEF LaidOut
<1> QED BY <1>2, <1>3, <1>4

LEMMA FatBounds ==
  ASSUME NEW d \in Disks
  PROVE  /\ Clusters(d) \subseteq Nat \ {0, 1} /\ d.first \in Clusters(d)
         /\ \A c \in Clusters(d) : /\ d.next[c] \in Clusters(d) \cup {Eoc}
                                  /\ FatSector(c) < d.fatSecs /\ FatSector(c) \in Nat
         /\ d.fat32 => d.root \in Clusters(d)
         /\ ~d.fat32 => FatBuf + d.fatSecs <= RootBuf
         /\ RootBuf + RootSectors(d) <= MemTop
<1>1. LaidOut(d)
  BY LayoutAssumption
<1>2. ASSUME NEW c \in Clusters(d) PROVE FatSector(c) \in Nat
  <2>1. c \in Nat
    BY <1>1 DEF LaidOut
  <2> QED BY <2>1, Bounds, DivMod DEF FatSector
<1> QED BY <1>1, <1>2 DEF LaidOut

LEMMA Places ==
  ASSUME NEW d \in Disks
  PROVE  /\ FatStart(d) \in Nat /\ RootStart(d) \in Nat /\ DataStart(d) \in Nat
         /\ RootDirSectors(d) \in Nat /\ RootSectors(d) \in Nat /\ RootLba(d) \in Nat
         /\ Stage2Lba(d) \in Nat /\ Stage2Count(d) \in Nat /\ d.stage2 <= Stage2Count(d)
         /\ \A c \in Clusters(d) : ClusterLba(d, c) \in Nat
<1>1. FatStart(d) \in Nat
  BY DiskBounds DEF FatStart
<1>2. RootStart(d) \in Nat
  <2>1. d.fats * d.fatSecs \in Nat
    BY DiskBounds, TimesNat
  <2> QED BY <1>1, <2>1 DEF RootStart
<1>3. RootDirSectors(d) \in Nat
  BY DiskBounds, Bounds, CeilNat DEF RootDirSectors
<1>4. DataStart(d) \in Nat
  BY <1>2, <1>3 DEF DataStart
<1>5. ASSUME NEW c \in Clusters(d) PROVE ClusterLba(d, c) \in Nat
  <2>1. c - 2 \in Nat
    BY FatBounds
  <2>2. (c - 2) * d.spc \in Nat
    BY <2>1, DiskBounds, TimesNat
  <2> QED BY <1>4, <2>2 DEF ClusterLba
<1>6. RootSectors(d) \in Nat /\ RootLba(d) \in Nat
  BY <1>2, <1>3, <1>5, DiskBounds, FatBounds DEF RootSectors, RootLba
<1>7. Stage2Lba(d) \in Nat /\ Stage2Count(d) \in Nat /\ d.stage2 <= Stage2Count(d)
  <2>1. ~d.fat32 => d.reserved > 0
    BY LayoutAssumption DEF LaidOut
  <2>2. ~d.fat32 => d.stage2 <= d.reserved - 1
    BY BootAssumption
  <2> QED BY <2>1, <2>2, DiskBounds, Bounds DEF Stage2Lba, Stage2Count
<1> QED BY <1>1, <1>2, <1>3, <1>4, <1>5, <1>6, <1>7

LEMMA KernelFits ==
  ASSUME NEW d \in Disks
  PROVE  /\ Sectors(d) \in Nat /\ Sectors(d) > 0
         /\ Gap + Sectors(d) <= FatBuf /\ EntrySec < Sectors(d)
<1>1. Sectors(d) \in Nat
  BY DiskBounds, Bounds, CeilNat DEF Sectors
<1>2. 0 < Sectors(d)
  <2>1. 0 * SecBytes < d.size
    BY DiskBounds, Bounds
  <2> QED BY <2>1, DiskBounds, Bounds, CeilLess DEF Sectors
<1>3. Gap + Sectors(d) <= FatBuf
  <2> DEFINE s == Sectors(d) - 1
  <2>1. s \in Nat /\ s < Sectors(d)
    BY <1>1, <1>2
  <2>2. s * SecBytes < d.size
    BY <2>1, DiskBounds, Bounds, CeilLess DEF Sectors
  <2> HIDE DEF s
  <2>3. Gap * SecBytes + d.size <= FatBuf * SecBytes
    BY BootAssumption
  <2>4. (Gap + s) * SecBytes = Gap * SecBytes + s * SecBytes
    BY <2>1, Bounds, TimesSum
  <2>5. /\ Gap * SecBytes \in Nat /\ s * SecBytes \in Nat /\ FatBuf * SecBytes \in Nat
    BY <2>1, Bounds, TimesNat
  <2>6. (Gap + s) * SecBytes < FatBuf * SecBytes
    <3> DEFINE x == Gap * SecBytes
               y == s * SecBytes
               z == FatBuf * SecBytes
    <3>1. x \in Nat /\ y \in Nat /\ z \in Nat /\ y < d.size /\ x + d.size <= z
      BY <2>2, <2>3, <2>5
    <3>2. (Gap + s) * SecBytes = x + y
      BY <2>4
    <3> HIDE DEF x, y, z
    <3>3. x + y < z
      BY <3>1, DiskBounds
    <3> QED BY <3>2, <3>3 DEF z
  <2>7. Gap + s < FatBuf
    BY <2>1, <2>6, Bounds, TimesLess
  <2> QED BY <2>7, <2>1, <1>1, Bounds DEF s
<1>4. EntrySec < Sectors(d)
  BY LayoutAssumption DEF LaidOut
<1> QED BY <1>1, <1>2, <1>3, <1>4
-----------------------------------------------------------------------------
(* The kernel's chain: after k clusters, Loaded(d, k) sectors have been     *)
(* read and Left(d, k) bytes are left.                                      *)

Loaded(d, k) == k * d.spc
Left(d, k) ==
  IF d.size <= k * (d.spc * SecBytes) THEN 0 ELSE d.size - k * (d.spc * SecBytes)

LEMMA LoadedSteps ==
  ASSUME NEW d \in Disks, NEW k \in Nat
  PROVE  /\ Loaded(d, k) \in Nat /\ k <= Loaded(d, k)
         /\ Loaded(d, 0) = 0
         /\ Loaded(d, k + 1) = Loaded(d, k) + d.spc
<1>1. d.spc \in Nat /\ d.spc > 0
  BY DiskBounds
<1> QED BY <1>1, TimesNat, TimesMore, TimesNext DEF Loaded

LEMMA LeftSteps ==
  ASSUME NEW d \in Disks, NEW k \in Nat
  PROVE  /\ Left(d, 0) = d.size /\ Left(d, k) \in Nat
         /\ Left(d, k) # 0 <=> Loaded(d, k) < Sectors(d)
         /\ LET bytes == d.spc * SecBytes
            IN  Left(d, k + 1) = IF Left(d, k) <= bytes THEN 0 ELSE Left(d, k) - bytes
<1> DEFINE bytes == d.spc * SecBytes
<1>1. d.spc \in Nat /\ d.spc > 0 /\ d.size \in Nat /\ d.size > 0
  BY DiskBounds
<1>2. bytes \in Nat
  BY <1>1, Bounds, TimesNat
<1>3. Loaded(d, k) \in Nat
  BY LoadedSteps
<1>4. Loaded(d, k) < Sectors(d) <=> Loaded(d, k) * SecBytes < d.size
  BY <1>1, <1>3, Bounds, CeilLess DEF Sectors
<1>5. Loaded(d, k) * SecBytes = k * bytes
  BY <1>1, Bounds, TimesAssoc DEF Loaded
<1> HIDE DEF bytes
<1>6. k * bytes \in Nat /\ (k + 1) * bytes = k * bytes + bytes /\ 0 * bytes = 0
  BY <1>2, TimesNat, TimesNext
<1> DEFINE x == k * bytes
           y == (k + 1) * bytes
<1>7. Left(d, k) = (IF d.size <= x THEN 0 ELSE d.size - x)
  BY DEF Left, bytes
<1>8. Left(d, k + 1) = (IF d.size <= y THEN 0 ELSE d.size - y)
  BY DEF Left, bytes
<1>9. x \in Nat /\ y = x + bytes
  BY <1>6
<1> HIDE DEF x, y
<1>10. Left(d, k) \in Nat /\ (Left(d, k) # 0 <=> x < d.size)
  BY <1>1, <1>7, <1>9
<1>11. Left(d, k + 1) = IF Left(d, k) <= bytes THEN 0 ELSE Left(d, k) - bytes
  BY <1>1, <1>2, <1>7, <1>8, <1>9
<1>12. Left(d, 0) = d.size
  BY <1>1, <1>6 DEF Left, bytes
<1>13. Left(d, k) # 0 <=> Loaded(d, k) < Sectors(d)
  BY <1>4, <1>5, <1>10 DEF x
<1> QED BY <1>10, <1>11, <1>12, <1>13 DEF bytes

\* Sector p of cluster number k of the kernel.
LEMMA SectorOf ==
  ASSUME NEW d \in Disks, NEW k \in Nat, NEW p \in Nat, p < d.spc
  PROVE  KernelLba(d, Loaded(d, k) + p) = ClusterLba(d, Chain(d)[k]) + p
BY DiskBounds, DivUnique DEF KernelLba, Loaded

LEMMA ClusterOf ==
  ASSUME NEW d \in Disks, NEW k \in Nat, NEW i \in Nat
  PROVE  /\ i \div d.spc \in Nat
         /\ i \div d.spc < k <=> i < Loaded(d, k)
<1>1. d.spc \in Nat /\ d.spc > 0
  BY DiskBounds
<1> QED BY <1>1, DivMod, DivLess DEF Loaded

\* The chain is followed link by link, and stays in the FAT.
LEMMA ChainSteps ==
  ASSUME NEW d \in Disks
  PROVE  /\ Chain(d)[0] = d.first
         /\ \A k \in 1..Sectors(d) :
              Chain(d)[k] = IF Chain(d)[k - 1] = Eoc THEN Eoc ELSE d.next[Chain(d)[k - 1]]
<1> DEFINE N == Sectors(d)
           At(k, g) == IF k = 0 THEN d.first
                       ELSE IF g[k - 1] = Eoc THEN Eoc ELSE d.next[g[k - 1]]
           Sound(n, g) == /\ g = [k \in 0..n |-> g[k]]
                          /\ \A k \in 0..n : g[k] = At(k, g)
           T == {n \in Nat : \E g : Sound(n, g)}
<1>0. N \in Nat
  BY KernelFits
<1>1. 0 \in T
  <2> DEFINE g == [k \in 0..0 |-> d.first]
  <2>1. g[0] = d.first /\ \A k \in 0..0 : k = 0
    OBVIOUS
  <2>2. g = [k \in 0..0 |-> g[k]]
    OBVIOUS
  <2> HIDE DEF g
  <2>3. Sound(0, g)
    BY <2>1, <2>2
  <2> QED BY <2>3
<1>2. ASSUME NEW n \in Nat, n \in T PROVE n + 1 \in T
  <2>1. PICK g : Sound(n, g)
    BY <1>2
  <2> DEFINE x == IF g[n] = Eoc THEN Eoc ELSE d.next[g[n]]
             h == [k \in 0..n + 1 |-> IF k = n + 1 THEN x ELSE g[k]]
  <2>2. \A k \in 0..n : h[k] = g[k]
    OBVIOUS
  <2>3. h[n + 1] = x
    OBVIOUS
  <2>4. h = [k \in 0..n + 1 |-> h[k]]
    OBVIOUS
  <2>5. x = IF h[n] = Eoc THEN Eoc ELSE d.next[h[n]]
    BY <2>2
  <2> HIDE DEF h, x
  <2>6. ASSUME NEW k \in 0..n + 1 PROVE h[k] = At(k, h)
    <3>1. CASE k = n + 1
      BY <3>1, <2>3, <2>5
    <3>2. CASE k \in 0..n
      <4> HIDE DEF At
      <4>1. g[k] = At(k, g)
        BY <2>1, <3>2
      <4>2. k # 0 => k - 1 \in 0..n
        BY <3>2
      <4>3. At(k, g) = At(k, h)
        BY <2>2, <4>2 DEF At
      <4> QED BY <2>2, <3>2, <4>1, <4>3
    <3> QED BY <3>1, <3>2
  <2>7. Sound(n + 1, h)
    BY <2>4, <2>6
  <2> HIDE DEF Sound
  <2> QED BY <2>7
<1> HIDE DEF T
<1>3. \A n \in Nat : n \in T
  BY <1>1, <1>2, NatSetInduction
<1>4. PICK g : Sound(N, g)
  BY <1>0, <1>3 DEF T
<1>5. g = [k \in 0..N |-> At(k, g)]
  <2> HIDE DEF At
  <2> QED BY <1>4
<1> DEFINE C == CHOOSE c : c = [k \in 0..N |-> At(k, c)]
<1>6. C = [k \in 0..N |-> At(k, C)]
  <2> HIDE DEF At
  <2> QED BY <1>5
<1>7. Chain(d) = C
  BY DEF Chain, N
<1> HIDE DEF C, N
<1>8. C[0] = d.first
  BY <1>0, <1>6
<1>9. ASSUME NEW k \in 1..N
      PROVE  C[k] = IF C[k - 1] = Eoc THEN Eoc ELSE d.next[C[k - 1]]
  <2>1. k \in 0..N /\ k # 0
    BY <1>0
  <2> QED BY <1>6, <2>1
<1> QED BY <1>7, <1>8, <1>9 DEF N

LEMMA ChainIn ==
  ASSUME NEW d \in Disks
  PROVE  \A k \in 0..Sectors(d) : Chain(d)[k] \in Clusters(d) \cup {Eoc}
<1> DEFINE T == {n \in Nat : n <= Sectors(d) => Chain(d)[n] \in Clusters(d) \cup {Eoc}}
<1>1. 0 \in T
  BY ChainSteps, FatBounds
<1>2. ASSUME NEW n \in Nat, n \in T PROVE n + 1 \in T
  <2>1. CASE n + 1 <= Sectors(d)
    <3>1. n + 1 \in 1..Sectors(d) /\ (n + 1) - 1 = n
      BY <2>1, KernelFits
    <3>2. Chain(d)[n] \in Clusters(d) \cup {Eoc}
      BY <1>2, <2>1, KernelFits
    <3>3. Chain(d)[n + 1] = IF Chain(d)[n] = Eoc THEN Eoc ELSE d.next[Chain(d)[n]]
      BY <3>1, ChainSteps
    <3> QED BY <3>2, <3>3, FatBounds
  <2> QED BY <2>1
<1> HIDE DEF T
<1>3. \A n \in Nat : n \in T
  BY <1>1, <1>2, NatSetInduction
<1> QED BY <1>3, KernelFits DEF T

\* A link of the chain before the last one read.
LEMMA ChainNext ==
  ASSUME NEW d \in Disks, NEW k \in Nat, k < Sectors(d), Chain(d)[k] # Eoc
  PROVE  Chain(d)[k] \in Clusters(d) /\ Chain(d)[k + 1] = d.next[Chain(d)[k]]
<1>1. k \in 0..Sectors(d) /\ k + 1 \in 1..Sectors(d) /\ (k + 1) - 1 = k
  BY KernelFits
<1> QED BY <1>1, ChainIn, ChainSteps

\* A chain that has ended stays ended.
LEMMA ChainEnds ==
  ASSUME NEW d \in Disks, NEW j \in Nat, NEW i \in Nat, i <= j, j <= Sectors(d),
         Chain(d)[j] # Eoc
  PROVE  Chain(d)[i] # Eoc
<1> DEFINE T == {n \in Nat : i + n <= Sectors(d) /\ Chain(d)[i] = Eoc
                               => Chain(d)[i + n] = Eoc}
<1>1. 0 \in T
  OBVIOUS
<1>2. ASSUME NEW n \in Nat, n \in T PROVE n + 1 \in T
  <2>1. CASE i + n + 1 <= Sectors(d) /\ Chain(d)[i] = Eoc
    <3>1. i + (n + 1) \in 1..Sectors(d) /\ (i + (n + 1)) - 1 = i + n /\ i + n <= Sectors(d)
      BY <2>1, KernelFits
    <3>2. Chain(d)[i + n] = Eoc
      BY <1>2, <2>1, <3>1
    <3> QED BY <3>1, <3>2, ChainSteps
  <2> QED BY <2>1, KernelFits
<1> HIDE DEF T
<1>3. \A n \in Nat : n \in T
  BY <1>1, <1>2, NatSetInduction
<1>4. j - i \in Nat /\ i + (j - i) = j
  OBVIOUS
<1> QED BY <1>3, <1>4 DEF T
-----------------------------------------------------------------------------
(* CHS addresses. *)

\* A sector read by the CHS address of its LBA is that sector, or none.
LEMMA ChsOf ==
  ASSUME NEW l \in Nat
  PROVE  /\ AtChs(Chs(l)) \in {l, Failed}
         /\ Chs(l).s \in 1..Spt /\ Chs(l).h \in 0..Heads - 1 /\ Chs(l).c \in Nat
         /\ (Chs(l).c * Heads + Chs(l).h) * Spt + Chs(l).s - 1 = l
<1> DEFINE t == l \div Spt
           s == l % Spt
           c == t \div Heads
           h == t % Heads
<1>1. Chs(l) = [c |-> c, h |-> h, s |-> s + 1]
  BY DEF Chs
<1>2. t \in Nat /\ s \in Nat /\ s < Spt /\ l = Spt * t + s
  BY Bounds, DivMod, DivModIs
<1> HIDE DEF t, s
<1>3. c \in Nat /\ h \in Nat /\ h < Heads /\ t = Heads * c + h
  BY <1>2, Bounds, DivMod, DivModIs
<1> HIDE DEF c, h
<1>4. c * Heads = Heads * c /\ t * Spt = Spt * t
  BY <1>2, <1>3, Bounds
<1>5. (c * Heads + h) * Spt + s = l
  BY <1>2, <1>3, <1>4
<1>6. (c * Heads + h) * Spt + (s + 1) - 1 = l
  <2>1. (c * Heads + h) * Spt \in Nat
    BY <1>2, <1>3, Bounds, TimesNat
  <2> QED BY <2>1, <1>2, <1>5
<1>7. s + 1 \in 1..Spt /\ h \in 0..Heads - 1
  BY <1>2, <1>3, Bounds
<1> QED BY <1>1, <1>3, <1>6, <1>7 DEF AtChs

\* A sector on the first n cylinders has a cylinder number below n.
LEMMA CylinderBelow ==
  ASSUME NEW c \in Nat, NEW h \in Nat, NEW s \in 1..Spt, NEW l \in Nat, NEW n \in Nat,
         (c * Heads + h) * Spt + s - 1 = l, l < n * (Heads * Spt)
  PROVE  c < n
<1>1. (c * Heads) * Spt \in Nat /\ h * Spt \in Nat
  BY Bounds, TimesNat
<1>2. (c * Heads + h) * Spt = (c * Heads) * Spt + h * Spt
  BY Bounds, TimesNat, TimesSum
<1>3. (c * Heads) * Spt = c * (Heads * Spt)
  BY Bounds, TimesAssoc
<1> DEFINE x == (c * Heads) * Spt
           y == h * Spt
           z == (c * Heads + h) * Spt
<1>4. x \in Nat /\ y \in Nat /\ z = x + y /\ z + s - 1 = l
  BY <1>1, <1>2
<1> HIDE DEF x, y, z
<1>5. x <= l
  BY <1>4, Bounds
<1> DEFINE m == Heads * Spt
<1>6. m \in Nat
  BY Bounds, TimesNat
<1>7. c * m <= l /\ l < n * m
  BY <1>3, <1>5 DEF x
<1> HIDE DEF m
<1>8. c * m \in Nat /\ n * m \in Nat
  BY <1>6, TimesNat
<1>9. c * m < n * m
  BY <1>7, <1>8
<1> QED BY <1>6, <1>9, TimesLess

LEMMA ChsIn ==
  ASSUME NEW l \in Nat, l < Cyls * (Heads * Spt)
  PROVE  AtChs(Chs(l)) = l
<1> DEFINE p == Chs(l)
<1>1. /\ p.s \in 1..Spt /\ p.h \in 0..Heads - 1 /\ p.c \in Nat
      /\ (p.c * Heads + p.h) * Spt + p.s - 1 = l
  BY ChsOf
<1> HIDE DEF p
<1>2. p.h \in Nat
  BY <1>1, Bounds
<1>3. p.c < Cyls
  BY <1>1, <1>2, Bounds, CylinderBelow
<1>4. p.c \in 0..Cyls - 1
  BY <1>1, <1>3, Bounds
<1>5. AtChs(p) = (p.c * Heads + p.h) * Spt + p.s - 1
  BY <1>1, <1>4 DEF AtChs
<1> QED BY <1>1, <1>5 DEF p

\* The address of sector l in what load_img counts with.
Position(p, l) ==
  /\ p.s \in 1..Spt /\ p.h \in 0..Heads - 1 /\ p.c \in 0..255
  /\ (p.c * Heads + p.h) * Spt + p.s - 1 = l

Addresses == [c : Nat, h : Nat, s : Nat]

LEMMA NextAddress ==
  ASSUME NEW p \in Addresses PROVE NextChs(p) \in Addresses
<1>1. p.c \in Nat /\ p.h \in Nat /\ p.s \in Nat
  BY DEF Addresses
<1>2. (p.c + 1) % 256 \in Nat
  BY <1>1
<1>3. ASSUME NEW x \in Nat
      PROVE  [p EXCEPT !.s = x] \in Addresses /\ [p EXCEPT !.s = 1, !.h = x] \in Addresses
  BY DEF Addresses
<1>4. [p EXCEPT !.s = p.s + 1] \in Addresses /\ [p EXCEPT !.s = 1, !.h = p.h + 1] \in Addresses
  <2>1. p.s + 1 \in Nat /\ p.h + 1 \in Nat
    BY <1>1
  <2> QED BY <1>3, <2>1
<1>5. [s |-> 1, h |-> 0, c |-> (p.c + 1) % 256] \in Addresses
  BY <1>2 DEF Addresses
<1> QED BY <1>4, <1>5 DEF NextChs

LEMMA NextPosition ==
  ASSUME NEW p \in Addresses, NEW l \in Nat, Position(p, l), l + 1 < 256 * (Heads * Spt)
  PROVE  Position(NextChs(p), l + 1)
<1> DEFINE q == NextChs(p)
<1>1. /\ p.s \in 1..Spt /\ p.h \in 0..Heads - 1 /\ p.c \in 0..255
      /\ (p.c * Heads + p.h) * Spt + p.s - 1 = l
      /\ p.c \in Nat /\ p.h \in Nat /\ p.s \in Nat
  BY DEF Position, Addresses
<1>0. /\ p.s \in 1..Spt /\ p.h \in 0..Heads - 1 /\ p.c \in 0..255
      /\ p.c \in Nat /\ p.h \in Nat /\ p.s \in Nat
  BY <1>1
<1>2. (p.c * Heads + p.h) * Spt \in Nat
  <2>1. p.c * Heads \in Nat
    BY <1>0, Bounds, TimesNat
  <2>2. p.c * Heads + p.h \in Nat
    BY <1>0, <2>1
  <2> QED BY <2>2, Bounds, TimesNat
<1>3. CASE p.s + 1 <= Spt
  <2>1. q.s = p.s + 1 /\ q.h = p.h /\ q.c = p.c
    BY <1>3 DEF NextChs, Addresses
  <2>2. (p.c * Heads + p.h) * Spt + (p.s + 1) - 1 = l + 1
    BY <1>1, <1>2
  <2>3. p.s + 1 \in 1..Spt
    BY <1>1, <1>3, Bounds
  <2> QED BY <1>1, <2>1, <2>2, <2>3 DEF Position
<1>4. CASE ~(p.s + 1 <= Spt)
  <2>1. p.s = Spt
    BY <1>0, <1>4, Bounds
  <2> DEFINE t == p.c * Heads + p.h
  <2>2. t \in Nat /\ t * Spt \in Nat
    BY <1>1, Bounds, TimesNat
  <2>3. (t + 1) * Spt = t * Spt + Spt
    BY <2>2, Bounds, TimesNext
  <2> DEFINE u == t * Spt
  <2>4. u \in Nat /\ u + Spt - 1 = l /\ (t + 1) * Spt = u + Spt
    BY <1>1, <2>1, <2>2, <2>3
  <2> HIDE DEF u
  <2>5. (t + 1) * Spt = l + 1
    BY <2>4, Bounds
  <2>6. CASE p.h + 1 <= Heads - 1
    <3>1. q.s = 1 /\ q.h = p.h + 1 /\ q.c = p.c
      BY <1>4, <2>6 DEF NextChs, Addresses
    <3>2. p.c * Heads \in Nat
      BY <1>1, Bounds, TimesNat
    <3>3. p.c * Heads + (p.h + 1) = t + 1
      BY <1>1, <3>2
    <3>4. (p.c * Heads + (p.h + 1)) * Spt + 1 - 1 = l + 1
      BY <2>5, <3>3
    <3>5. p.h + 1 \in 0..Heads - 1 /\ 1 \in 1..Spt
      BY <1>1, <2>6, Bounds, SMTT(40)
    <3> QED BY <1>1, <3>1, <3>4, <3>5 DEF Position
  <2>7. CASE ~(p.h + 1 <= Heads - 1)
    <3>1. p.h + 1 = Heads
      BY <1>0, <2>7, Bounds
    <3>2. q.s = 1 /\ q.h = 0 /\ q.c = (p.c + 1) % 256
      BY <1>4, <2>7 DEF NextChs
    <3>3. (p.c + 1) * Heads = p.c * Heads + Heads /\ p.c * Heads \in Nat
      BY <1>1, Bounds, TimesNext, TimesNat
    <3>4. t + 1 = (p.c + 1) * Heads
      BY <1>1, <3>1, <3>3, Bounds
    <3>5. ((p.c + 1) * Heads + 0) * Spt + 1 - 1 = l + 1
      <4>1. (p.c + 1) * Heads \in Nat
        BY <1>1, Bounds, TimesNat
      <4> QED BY <2>5, <3>4, <4>1
    <3>6. p.c + 1 < 256
      <4>1. p.c + 1 \in Nat /\ 0 \in Nat /\ 1 \in 1..Spt /\ l + 1 \in Nat
        BY <1>1, Bounds
      <4> QED BY <3>5, <4>1, CylinderBelow
    <3>7. (p.c + 1) % 256 = p.c + 1 /\ p.c + 1 \in 0..255
      BY <1>1, <3>6
    <3>8. 0 \in 0..Heads - 1 /\ 1 \in 1..Spt
      BY Bounds
    <3> QED BY <3>2, <3>5, <3>7, <3>8 DEF Position
  <2> QED BY <2>6, <2>7
<1> QED BY <1>3, <1>4

LEMMA FirstPosition ==
  ASSUME NEW l \in Nat, l < 256 * (Heads * Spt)
  PROVE  Position([Chs(l) EXCEPT !.c = Chs(l).c % 256], l)
<1> DEFINE p == Chs(l)
<1>1. /\ p.s \in 1..Spt /\ p.h \in 0..Heads - 1 /\ p.c \in Nat
      /\ (p.c * Heads + p.h) * Spt + p.s - 1 = l
  BY ChsOf
<1>2. p = [c |-> p.c, h |-> p.h, s |-> p.s]
  BY DEF Chs
<1> HIDE DEF p
<1>3. p.h \in Nat
  BY <1>1, Bounds
<1>4. p.c < 256
  BY <1>1, <1>3, CylinderBelow
<1>5. p.c % 256 = p.c /\ p.c \in 0..255
  BY <1>1, <1>4
<1>6. [p EXCEPT !.c = p.c % 256] = p
  BY <1>2, <1>5
<1> QED BY <1>1, <1>5, <1>6 DEF Position, p
-----------------------------------------------------------------------------
(* The invariant. *)

Stops == {"hung", "disk_error", "not_found"}
Labels == {"mbr", "vbr", "stage1", "sima", "read", "scan", "load", "next", "follow",
           "loaded", "kernel"} \cup Stops

TypeInv ==
  /\ disk \in Disks /\ edd \in BOOLEAN /\ (edd => disk.hdd)
  /\ pc \in Labels
  /\ img \in [lba : Nat, at : Addresses, n : Nat, seg : Nat]
  /\ mem \in [0..MemTop - 1 -> Int]
  /\ io \in [lba : Nat, n : Nat, es : Nat, bx : Nat,
             back : {"root", "scan", "kernel", "entry32", "fat"}]
  /\ pc = "read" => io.back # "fat"
  /\ ptr \in [es : Nat, bx : Nat]
  /\ cluster \in Clusters(disk) \cup {Eoc} /\ left \in Nat
  /\ slot \in [i : Nat, cx : Nat]
  /\ faults \in Nat

\* While load_img runs: where it is, and what it has loaded.
Stage1Inv ==
  pc = "stage1" =>
    /\ img.seg + img.n = Stage2Count(disk)
    /\ \A i \in 0..disk.stage2 - 1 : i < img.seg => mem[i] = Stage2Lba(disk) + i
    /\ edd => img.lba = Stage2Lba(disk) + img.seg
    /\ ~edd /\ img.n > 0 => Position(img.at, Stage2Lba(disk) + img.seg)

\* The sectors from LBA l on are in memory from sector a on.
Copied(a, l, n) == \A j \in Nat : j < n => mem[a + j] = l + j

FatIntact == ~disk.fat32 => Copied(FatBuf, FatStart(disk), disk.fatSecs)

\* read_sectors_lba is on its way through the n sectors from LBA l on.
Reading(a, l, n) ==
  /\ io.n <= n /\ io.es + io.bx = a + (n - io.n) /\ io.lba = l + (n - io.n)

\* The first n sectors of the kernel are in memory.
KernelUpTo(n) ==
  \A i \in Nat : i < n /\ i < Sectors(disk) => mem[Gap + i] = KernelLba(disk, i)

\* k clusters of the kernel have been loaded.
Progress(k) ==
  /\ left = Left(disk, k)
  /\ ptr.es + ptr.bx = Gap + Loaded(disk, k)
  /\ KernelUpTo(Loaded(disk, k))
  /\ \A j \in Nat : j < k => Chain(disk)[j] # Eoc

\* cluster is the last one loaded.
Follows ==
  /\ cluster # Eoc /\ (left # 0 => FatIntact)
  /\ \E k \in Nat : Progress(k + 1) /\ cluster = Chain(disk)[k]

ReadInv ==
  /\ io.back = "root" =>
       /\ ~disk.fat32 /\ Reading(FatBuf, FatStart(disk), disk.fatSecs)
       /\ Copied(FatBuf, FatStart(disk), disk.fatSecs - io.n)
  /\ io.back = "scan" =>
       /\ FatIntact /\ Reading(RootBuf, RootLba(disk), RootSectors(disk))
       /\ Copied(RootBuf, RootLba(disk), RootSectors(disk) - io.n)
  /\ io.back = "kernel" =>
       /\ cluster # Eoc /\ (io.es + io.bx <= FatBuf => FatIntact)
       /\ Reading(ptr.es + ptr.bx, ClusterLba(disk, cluster), disk.spc)
       /\ \E k \in Nat : /\ Progress(k) /\ cluster = Chain(disk)[k] /\ left # 0
                         /\ KernelUpTo(Loaded(disk, k) + (disk.spc - io.n))
  /\ io.back = "entry32" =>
       /\ disk.fat32 /\ Follows
       /\ Reading(FatBuf, FatStart(disk) + FatSector(cluster), 1)
       /\ Copied(FatBuf, FatStart(disk) + FatSector(cluster), 1 - io.n)

KernelInv ==
  /\ pc = "read" => ReadInv
  /\ pc = "scan" => FatIntact /\ Copied(RootBuf, RootLba(disk), RootSectors(disk))
  /\ pc = "load" =>
       /\ left # 0 => cluster # Eoc /\ FatIntact
       /\ \E k \in Nat : Progress(k) /\ (left # 0 => cluster = Chain(disk)[k])
  /\ pc = "next" => Follows
  /\ pc = "follow" =>
       /\ Follows
       /\ disk.fat32 => mem[FatBuf] = FatStart(disk) + FatSector(cluster)
  /\ pc = "loaded" => left = 0 /\ \E k \in Nat : Progress(k)
  /\ KernelWhole

BootInv == TypeInv /\ Stage1Inv /\ LoaderIntact /\ KernelInv
-----------------------------------------------------------------------------
(* Its steps, first the boot sectors. *)

LEMMA InitInv == Init => BootInv
<1> SUFFICES ASSUME Init PROVE BootInv
  OBVIOUS
<1>1. Chs(0) \in Addresses
  <2>1. Chs(0).h \in Nat /\ Chs(0).c \in Nat /\ Chs(0).s \in Nat
    BY Bounds, ChsOf
  <2> QED BY <2>1 DEF Chs, Addresses
<1>2. mem \in [0..MemTop - 1 -> Int]
  BY DEF Init, None
<1>3. disk \in Disks /\ edd \in BOOLEAN /\ (edd => disk.hdd) /\ pc \in {"mbr", "vbr"}
  BY DEF Init
<1>4. /\ img \in [lba : Nat, at : Addresses, n : Nat, seg : Nat]
      /\ ptr \in [es : Nat, bx : Nat] /\ slot \in [i : Nat, cx : Nat]
  BY <1>1, Bounds DEF Init
<1>5. /\ io \in [lba : Nat, n : Nat, es : Nat, bx : Nat,
                back : {"root", "scan", "kernel", "entry32", "fat"}]
      /\ cluster = Eoc /\ left \in Nat /\ faults \in Nat
  BY DEF Init, Eoc
<1>6. TypeInv
  BY <1>2, <1>3, <1>4, <1>5 DEF TypeInv, Labels
<1> QED BY <1>3, <1>6 DEF BootInv, Stage1Inv, LoaderIntact, KernelInv, KernelWhole

LEMMA MbrInv == ASSUME BootInv, Mbr PROVE BootInv'
<1>1. pc' \in {"vbr", "hung"} /\ faults' \in Nat
  BY DEF BootInv, TypeInv, Mbr, Fault
<1>2. TypeInv'
  BY <1>1 DEF BootInv, TypeInv, Mbr, scanning, Labels, Stops
<1> QED BY <1>1, <1>2 DEF BootInv, Stage1Inv, LoaderIntact, KernelInv, KernelWhole

LEMMA RebootInv == ASSUME BootInv, Reboot PROVE BootInv'
<1>1. pc' \in {"vbr", "mbr"}
  BY DEF Reboot
<1>2. TypeInv'
  BY <1>1 DEF BootInv, TypeInv, Reboot, scanning, Labels, Stops
<1> QED BY <1>1, <1>2 DEF BootInv, Stage1Inv, LoaderIntact, KernelInv, KernelWhole

LEMMA Stage2Below ==
  ASSUME NEW d \in Disks
  PROVE  /\ Stage2Lba(d) + Stage2Count(d) <= 256 * (Heads * Spt)
         /\ Stage2Lba(d) + Stage2Count(d) <= Cyls * (Heads * Spt)
<1>1. LaidOut(d)
  BY LayoutAssumption
<1> QED BY <1>1 DEF LaidOut

LEMMA LoadImgInv == ASSUME BootInv, LoadImg PROVE BootInv'
<1>1. CASE pc' = "hung"
  <2>1. faults' \in Nat /\ img' = img
    BY <1>1 DEF BootInv, TypeInv, LoadImg, Fault
  <2>2. TypeInv'
    BY <1>1, <2>1 DEF BootInv, TypeInv, LoadImg, scanning, Labels, Stops
  <2> QED BY <1>1, <2>2 DEF BootInv, Stage1Inv, LoaderIntact, KernelInv, KernelWhole
<1>2. CASE pc' = "stage1"
  <2> DEFINE l == Stage2Lba(disk)
             n == Stage2Count(disk)
             at == [Chs(l) EXCEPT !.c = Chs(l).c % 256]
  <2>1. disk \in Disks /\ disk' = disk /\ edd' = edd /\ mem' = mem /\ faults' = faults
    BY <1>2 DEF BootInv, TypeInv, LoadImg
  <2>2. img' = [lba |-> l, at |-> at, n |-> n, seg |-> 0]
    BY <1>2 DEF LoadImg
  <2>3. l \in Nat /\ n \in Nat
    BY <2>1, Places
  <2>4. at \in Addresses
    <3>1. Chs(l).h \in Nat /\ Chs(l).c \in Nat /\ Chs(l).s \in Nat
      BY <2>3, Bounds, ChsOf
    <3>2. Chs(l).c % 256 \in Nat
      BY <3>1
    <3> QED BY <3>1, <3>2 DEF Chs, Addresses
  <2>5. n > 0 => Position(at, l)
    <3>1. SUFFICES ASSUME n > 0 PROVE Position(at, l)
      OBVIOUS
    <3> DEFINE m == 256 * (Heads * Spt)
    <3>2. m \in Nat
      BY Bounds, TimesNat
    <3>3. l + n <= m
      BY <2>1, Stage2Below
    <3> HIDE DEF l, n, m
    <3>4. l < m
      BY <2>3, <3>1, <3>2, <3>3
    <3> QED BY <2>3, <3>4, FirstPosition DEF m
  <2> HIDE DEF at
  <2>6. TypeInv'
    <3>1. img' \in [lba : Nat, at : Addresses, n : Nat, seg : Nat]
      BY <2>2, <2>3, <2>4
    <3> QED BY <1>2, <2>1, <3>1 DEF BootInv, TypeInv, LoadImg, scanning, Labels
  <2>7. Stage1Inv'
    BY <2>1, <2>2, <2>3, <2>5, DiskBounds DEF Stage1Inv
  <2> QED BY <1>2, <2>6, <2>7 DEF BootInv, LoaderIntact, KernelInv, KernelWhole
<1> QED BY <1>1, <1>2 DEF LoadImg

LEMMA ReadDataInv == ASSUME BootInv, ReadData PROVE BootInv'
<1> DEFINE l == Stage2Lba(disk)
           n == Stage2Count(disk)
           got == IF edd THEN img.lba ELSE AtChs(img.at)
<1>1. /\ disk \in Disks /\ disk' = disk /\ edd' = edd
      /\ img \in [lba : Nat, at : Addresses, n : Nat, seg : Nat]
      /\ faults \in Nat /\ faults' \in Nat
  BY DEF BootInv, TypeInv, ReadData, MayFault
<1>2. CASE pc' = "hung" /\ UNCHANGED <<mem, img>>
  <2>1. TypeInv'
    BY <1>1, <1>2 DEF BootInv, TypeInv, ReadData, scanning, Labels, Stops
  <2> QED BY <1>2, <2>1 DEF BootInv, Stage1Inv, LoaderIntact, KernelInv, KernelWhole
<1>3. CASE /\ pc' = pc /\ got # Failed
           /\ mem' = [mem EXCEPT ![img.seg] = got]
           /\ img' = [img EXCEPT !.lba = IF edd THEN img.lba + 1 ELSE img.lba,
                                 !.at = IF edd THEN img.at ELSE NextChs(img.at),
                                 !.n = img.n - 1, !.seg = img.seg + 1]
  <2>1. pc = "stage1" /\ img.n > 0
    BY DEF ReadData
  <2>2. /\ img'.seg = img.seg + 1 /\ img'.n = img.n - 1
        /\ img'.lba = (IF edd THEN img.lba + 1 ELSE img.lba)
        /\ img'.at = (IF edd THEN img.at ELSE NextChs(img.at))
    BY <1>1, <1>3
  <2>3. /\ img.seg + img.n = n
        /\ \A i \in 0..disk.stage2 - 1 : i < img.seg => mem[i] = l + i
        /\ edd => img.lba = l + img.seg
        /\ ~edd => Position(img.at, l + img.seg)
    BY <2>1 DEF BootInv, Stage1Inv
  <2>4. l \in Nat /\ n \in Nat /\ disk.stage2 \in Nat /\ disk.stage2 <= Gap
    BY <1>1, Places, DiskBounds
  <2>5. img.at \in Addresses /\ img.seg \in Nat /\ img.n \in Nat /\ img.lba \in Nat
    BY <1>1
  <2> HIDE DEF l, n
  <2>6. got = l + img.seg
    <3>1. CASE edd
      BY <2>3, <3>1
    <3>2. CASE ~edd
      <4>1. Position(img.at, l + img.seg) /\ AtChs(img.at) # Failed
        BY <1>3, <2>3, <3>2
      <4> QED BY <3>2, <4>1 DEF Position, AtChs
    <3> QED BY <3>1, <3>2
  <2>7. NextChs(img.at) \in Addresses
    BY <2>5, NextAddress
  <2>8. img' \in [lba : Nat, at : Addresses, n : Nat, seg : Nat]
    <3>1. img.n - 1 \in Nat /\ img.seg + 1 \in Nat /\ img.lba + 1 \in Nat
      BY <2>1, <2>5
    <3> QED BY <1>1, <1>3, <2>7, <3>1
  <2>9. mem' \in [0..MemTop - 1 -> Int] /\ \A i \in 0..MemTop - 1 :
             mem'[i] = IF i = img.seg THEN got ELSE mem[i]
    <3>1. mem \in [0..MemTop - 1 -> Int] /\ got \in Int
      BY <2>4, <2>5, <2>6 DEF BootInv, TypeInv
    <3> HIDE DEF got
    <3> QED BY <1>3, <3>1
  <2>10. TypeInv'
    BY <1>1, <1>3, <2>8, <2>9 DEF BootInv, TypeInv, ReadData, scanning
  <2>11. img'.seg + img'.n = n
    BY <2>2, <2>3, <2>4, <2>5
  <2>12. \A i \in 0..disk.stage2 - 1 : i < img'.seg => mem'[i] = l + i
    <3> SUFFICES ASSUME NEW i \in 0..disk.stage2 - 1, i < img.seg + 1
                 PROVE  mem'[i] = l + i
      BY <2>2
    <3>1. i \in 0..MemTop - 1
      BY <1>1, <2>4, Bounds, KernelFits
    <3>2. i = img.seg \/ i < img.seg
      BY <2>4, <2>5
    <3> QED BY <2>3, <2>6, <2>9, <3>1, <3>2
  <2>13. edd => img'.lba = l + img'.seg
    BY <2>2, <2>3, <2>4, <2>5
  <2>14. ~edd /\ img'.n > 0 => Position(img'.at, l + img'.seg)
    <3> SUFFICES ASSUME ~edd, img'.n > 0 PROVE Position(NextChs(img.at), l + (img.seg + 1))
      BY <2>2
    <3> DEFINE m == 256 * (Heads * Spt)
               x == l + img.seg
    <3>1. m \in Nat
      BY Bounds, TimesNat
    <3>2. l + n <= m
      BY <1>1, Stage2Below DEF l, n
    <3>3. x \in Nat /\ x + 1 < l + n /\ l + (img.seg + 1) = x + 1
      BY <2>2, <2>3, <2>4, <2>5
    <3>4. Position(img.at, x)
      BY <2>3
    <3> HIDE DEF m, x
    <3>5. x + 1 < m
      BY <2>4, <3>1, <3>2, <3>3
    <3> QED BY <2>5, <3>3, <3>4, <3>5, NextPosition DEF m
  <2>15. Stage1Inv'
    BY <1>1, <2>11, <2>12, <2>13, <2>14 DEF Stage1Inv, l, n
  <2> QED BY <1>3, <2>1, <2>10, <2>15 DEF BootInv, LoaderIntact, KernelInv, KernelWhole
<1> QED BY <1>2, <1>3 DEF ReadData

LEMMA Stage1DoneInv == ASSUME BootInv, Stage1Done PROVE BootInv'
<1>1. TypeInv'
  BY DEF BootInv, TypeInv, Stage1Done, scanning, Labels
<1>2. LoaderIntact'
  <2>1. disk \in Disks /\ img.seg \in Nat /\ img.n \in Nat
    BY DEF BootInv, TypeInv
  <2>2. pc = "stage1" /\ img.n = 0 /\ mem' = mem /\ disk' = disk /\ pc' = "sima"
    BY DEF Stage1Done
  <2>3. /\ img.seg + img.n = Stage2Count(disk)
        /\ \A i \in 0..disk.stage2 - 1 : i < img.seg => mem[i] = Stage2Lba(disk) + i
    BY <2>2 DEF BootInv, Stage1Inv
  <2>4. disk.stage2 \in Nat /\ disk.stage2 <= img.seg
    BY <2>1, <2>2, <2>3, Places, DiskBounds
  <2>5. ASSUME NEW i \in 0..disk.stage2 - 1 PROVE mem[i] = Stage2Lba(disk) + i
    BY <2>1, <2>3, <2>4
  <2> QED BY <2>2, <2>5 DEF LoaderIntact
<1> QED BY <1>1, <1>2 DEF BootInv, Stage1Done, Stage1Inv, KernelInv, KernelWhole
-----------------------------------------------------------------------------
(* Stage 2 reads. *)

\* One sector of read_sectors_lba: it stops, or the sector asked for is read.
LEMMA SectorRead ==
  ASSUME TypeInv, ReadSector
  PROVE  \/ /\ pc' \in {"disk_error", "hung"} /\ UNCHANGED <<mem, io>>
            /\ faults' \in Nat /\ faults' > faults
         \/ /\ pc' = "read" /\ faults' = faults
            /\ mem' = [mem EXCEPT ![io.es + io.bx] = io.lba]
            /\ io'.es + io'.bx = io.es + io.bx + 1 /\ io'.lba = io.lba + 1
            /\ io'.n = io.n - 1 /\ io'.back = io.back
            /\ io' \in [lba : Nat, n : Nat, es : Nat, bx : Nat,
                        back : {"root", "scan", "kernel", "entry32", "fat"}]
<1>1. /\ io.lba \in Nat /\ io.n \in Nat /\ io.es \in Nat /\ io.bx \in Nat /\ io.n > 0
      /\ faults \in Nat
      /\ io \in [lba : Nat, n : Nat, es : Nat, bx : Nat,
                 back : {"root", "scan", "kernel", "entry32", "fat"}]
  BY DEF TypeInv, ReadSector
<1>2. PICK got \in {io.lba, Failed, Trapped} :
        /\ faults' = IF got = io.lba THEN faults ELSE faults + 1
        /\ pc' = CASE got = Failed -> "disk_error"
                   [] got = Trapped -> "hung"
                   [] OTHER -> "read"
        /\ IF got \in {Failed, Trapped} THEN UNCHANGED <<mem, io>>
           ELSE /\ mem' = [mem EXCEPT ![io.es + io.bx] = got]
                /\ io' = [Advance(io) EXCEPT !.lba = io.lba + 1, !.n = io.n - 1]
  <2>1. edd => \A s \in Statuses : Fallback(io.lba, s) = Trapped
    BY DEF TypeInv, Fallback
  <2>2. AtChs(Chs(io.lba)) \in {io.lba, Failed}
    BY <1>1, ChsOf
  <2> QED BY <2>1, <2>2 DEF ReadSector
<1>3. io.lba # Failed /\ io.lba # Trapped /\ Failed # Trapped
  BY <1>1 DEF Failed, Trapped
<1>4. CASE got \in {Failed, Trapped}
  BY <1>1, <1>2, <1>3, <1>4
<1>5. CASE got = io.lba
  <2> DEFINE q == Advance(io)
  <2>1. /\ q \in [lba : Nat, n : Nat, es : Nat, bx : Nat,
                  back : {"root", "scan", "kernel", "entry32", "fat"}]
        /\ q.es + q.bx = io.es + io.bx + 1 /\ q.back = io.back
    <3>1. CASE io.bx + 1 = Window
      <4>1. q = [io EXCEPT !.bx = 0, !.es = io.es + Window]
        BY <3>1 DEF Advance
      <4>2. io.es + Window \in Nat /\ io.es + Window + 0 = io.es + io.bx + 1
        BY <1>1, <3>1, Bounds
      <4>3. ASSUME NEW x \in Nat
            PROVE  LET r == [io EXCEPT !.bx = 0, !.es = x]
                   IN  /\ r \in [lba : Nat, n : Nat, es : Nat, bx : Nat,
                                 back : {"root", "scan", "kernel", "entry32", "fat"}]
                       /\ r.es = x /\ r.bx = 0 /\ r.back = io.back
        BY <1>1
      <4> QED BY <4>1, <4>2, <4>3
    <3>2. CASE io.bx + 1 # Window
      <4>1. q = [io EXCEPT !.bx = io.bx + 1]
        BY <3>2 DEF Advance
      <4>2. io.bx + 1 \in Nat
        BY <1>1
      <4> QED BY <1>1, <4>1, <4>2
    <3> QED BY <3>1, <3>2
  <2> HIDE DEF q
  <2>2. ASSUME NEW x \in Nat, NEW y \in Nat
        PROVE  LET r == [q EXCEPT !.lba = x, !.n = y]
               IN  /\ r \in [lba : Nat, n : Nat, es : Nat, bx : Nat,
                             back : {"root", "scan", "kernel", "entry32", "fat"}]
                   /\ r.es = q.es /\ r.bx = q.bx /\ r.back = q.back /\ r.lba = x /\ r.n = y
    BY <2>1
  <2>3. io.lba + 1 \in Nat /\ io.n - 1 \in Nat
    BY <1>1
  <2>4. io' = [q EXCEPT !.lba = io.lba + 1, !.n = io.n - 1]
    BY <1>2, <1>3, <1>5 DEF q
  <2>5. /\ io' \in [lba : Nat, n : Nat, es : Nat, bx : Nat,
                    back : {"root", "scan", "kernel", "entry32", "fat"}]
        /\ io'.es = q.es /\ io'.bx = q.bx /\ io'.back = q.back /\ io'.lba = io.lba + 1
        /\ io'.n = io.n - 1
    BY <2>2, <2>3, <2>4
  <2>6. pc' = "read" /\ faults' = faults /\ mem' = [mem EXCEPT ![io.es + io.bx] = io.lba]
    BY <1>2, <1>3, <1>5
  <2> QED BY <2>1, <2>5, <2>6
<1> QED BY <1>2, <1>4, <1>5

\* What a write to the memory changes.
LEMMA Elsewhere ==
  ASSUME NEW S, NEW m \in [S -> Int], NEW b, NEW x \in Int,
         NEW m2, m2 = [m EXCEPT ![b] = x]
  PROVE  /\ m2 \in [S -> Int]
         /\ \A i \in S : i # b => m2[i] = m[i]
         /\ b \in S => m2[b] = x
OBVIOUS

\* One more sector of a reading.
LEMMA ReadGoes ==
  ASSUME TypeInv, NEW a \in Nat, NEW l \in Nat, NEW n \in Nat, io.n > 0,
         Reading(a, l, n), mem' = [mem EXCEPT ![io.es + io.bx] = io.lba],
         io'.es + io'.bx = io.es + io.bx + 1, io'.lba = io.lba + 1, io'.n = io.n - 1
  PROVE  /\ n - io.n \in Nat /\ n - io.n < n /\ n - io'.n = (n - io.n) + 1
         /\ io'.n <= n /\ io'.es + io'.bx = a + (n - io'.n) /\ io'.lba = l + (n - io'.n)
         /\ a + n <= MemTop /\ Copied(a, l, n - io.n)
              => \A j \in Nat : j < n - io'.n => mem'[a + j] = l + j
<1> DEFINE p == n - io.n
           q == n - (io.n - 1)
<1>1. io.n \in Nat /\ mem \in [0..MemTop - 1 -> Int]
  BY DEF TypeInv
<1>2. io.es + io.bx = a + p /\ io.lba = l + p /\ io.n <= n
  BY DEF Reading
<1>3. /\ p \in Nat /\ p < n /\ q = p + 1 /\ io.n - 1 <= n
      /\ a + p + 1 = a + q /\ l + p + 1 = l + q
  BY <1>1, <1>2, SMTT(40)
<1>4. /\ io'.n <= n /\ n - io'.n = q
  BY <1>3
<1>5. io'.es + io'.bx = a + q /\ io'.lba = l + q
  BY <1>2, <1>3
<1>6. ASSUME a + n <= MemTop, Copied(a, l, p), NEW j \in Nat, j < p + 1
      PROVE  mem'[a + j] = l + j
  <2>1. mem' = [mem EXCEPT ![a + p] = l + p]
    BY <1>2
  <2>2. j < p => mem[a + j] = l + j
    BY <1>6 DEF Copied
  <2> HIDE DEF p, q
  <2>3. a + j \in 0..MemTop - 1 /\ (j < p \/ j = p) /\ (a + j = a + p => j = p)
    BY <1>3, <1>6, Bounds
  <2> QED BY <1>1, <2>1, <2>2, <2>3
<1> QED BY <1>3, <1>4, <1>5, <1>6

\* Nothing stage 2 reads goes below the kernel's segment.
LEMMA ReadsAbove ==
  ASSUME TypeInv, ReadInv, pc = "read"
  PROVE  Gap <= io.es + io.bx
<1>1. disk \in Disks /\ io.back \in {"root", "scan", "kernel", "entry32"} /\ io.n \in Nat
  BY DEF TypeInv
<1>2. Gap <= FatBuf
  BY <1>1, KernelFits, Bounds
<1>3. CASE io.back = "root"
  BY <1>1, <1>2, <1>3, DiskBounds, Bounds DEF ReadInv, Reading
<1>4. CASE io.back = "scan"
  BY <1>1, <1>2, <1>4, Places, Bounds DEF ReadInv, Reading
<1>5. CASE io.back = "kernel"
  <2>1. Reading(ptr.es + ptr.bx, ClusterLba(disk, cluster), disk.spc)
    BY <1>5 DEF ReadInv
  <2>2. PICK k \in Nat : Progress(k)
    BY <1>5 DEF ReadInv
  <2>3. ptr.es + ptr.bx = Gap + Loaded(disk, k) /\ Loaded(disk, k) \in Nat
    BY <1>1, <2>2, LoadedSteps DEF Progress
  <2> QED BY <1>1, <2>1, <2>3, DiskBounds, Bounds DEF Reading
<1>6. CASE io.back = "entry32"
  BY <1>1, <1>2, <1>6, Bounds DEF ReadInv, Reading
<1> QED BY <1>1, <1>3, <1>4, <1>5, <1>6

LEMMA ReadSectorInv == ASSUME BootInv, ReadSector PROVE BootInv'
<1> DEFINE a == io.es + io.bx
           Records == [lba : Nat, n : Nat, es : Nat, bx : Nat,
                       back : {"root", "scan", "kernel", "entry32", "fat"}]
<1>1. /\ TypeInv /\ ReadInv /\ LoaderIntact /\ pc = "read" /\ io.n > 0
      /\ UNCHANGED <<disk, edd, img, ptr, cluster, left, slot>>
  BY DEF BootInv, KernelInv, ReadSector, scanning
<1>2. CASE /\ pc' \in {"disk_error", "hung"} /\ UNCHANGED <<mem, io>>
           /\ faults' \in Nat /\ faults' > faults
  <2>1. TypeInv'
    BY <1>1, <1>2 DEF TypeInv, Labels, Stops
  <2>2. LoaderIntact'
    BY <1>1, <1>2 DEF LoaderIntact
  <2> QED BY <1>2, <2>1, <2>2 DEF BootInv, Stage1Inv, KernelInv, KernelWhole
<1>3. CASE /\ pc' = "read" /\ faults' = faults
           /\ mem' = [mem EXCEPT ![a] = io.lba]
           /\ io'.es + io'.bx = a + 1 /\ io'.lba = io.lba + 1
           /\ io'.n = io.n - 1 /\ io'.back = io.back /\ io' \in Records
  <2>1. /\ disk \in Disks /\ io.lba \in Nat /\ io.n \in Nat /\ a \in Nat
        /\ mem \in [0..MemTop - 1 -> Int] /\ cluster \in Clusters(disk) \cup {Eoc}
        /\ io.back \in {"root", "scan", "kernel", "entry32"}
    BY <1>1 DEF TypeInv
  <2>2. Gap <= a
    BY <1>1, ReadsAbove
  <2>3. /\ mem' \in [0..MemTop - 1 -> Int]
        /\ \A i \in 0..MemTop - 1 : i # a => mem'[i] = mem[i]
        /\ a \in 0..MemTop - 1 => mem'[a] = io.lba
    <3>1. io.lba \in Int
      BY <2>1
    <3> HIDE DEF a
    <3> QED BY <1>3, <2>1, <3>1, Elsewhere
  <2>4. TypeInv'
    BY <1>1, <1>3, <2>1, <2>3 DEF TypeInv
  <2>5. LoaderIntact'
    <3>1. disk.stage2 \in Nat /\ disk.stage2 <= Gap /\ Gap <= FatBuf
      BY <2>1, DiskBounds, KernelFits, Bounds
    <3>2. ASSUME NEW i \in 0..disk.stage2 - 1 PROVE mem'[i] = Stage2Lba(disk) + i
      <4>1. i \in 0..MemTop - 1 /\ i # a
        BY <2>1, <2>2, <3>1, Bounds
      <4>2. mem[i] = Stage2Lba(disk) + i
        BY <1>1 DEF LoaderIntact
      <4> QED BY <2>3, <4>1, <4>2
    <3> QED BY <1>1, <3>2 DEF LoaderIntact
  <2> DEFINE fatStart == FatStart(disk)
             rootLba == RootLba(disk)
  <2>6. CASE io.back = "root"
    <3>1. /\ ~disk.fat32 /\ Reading(FatBuf, FatStart(disk), disk.fatSecs)
          /\ Copied(FatBuf, FatStart(disk), disk.fatSecs - io.n)
      BY <1>1, <2>6 DEF ReadInv
    <3>2. /\ FatBuf \in Nat /\ FatStart(disk) \in Nat /\ disk.fatSecs \in Nat
          /\ FatBuf + disk.fatSecs <= MemTop
      <4>1. FatBuf + disk.fatSecs <= RootBuf
        BY <2>1, <3>1, FatBounds
      <4>2. FatStart(disk) \in Nat /\ disk.fatSecs \in Nat
        BY <2>1, Places, DiskBounds
      <4> QED BY <4>1, <4>2, Bounds
    <3>3. /\ io'.n <= disk.fatSecs /\ io'.es + io'.bx = FatBuf + (disk.fatSecs - io'.n)
          /\ io'.lba = FatStart(disk) + (disk.fatSecs - io'.n)
          /\ \A j \in Nat : j < disk.fatSecs - io'.n => mem'[FatBuf + j] = FatStart(disk) + j
      <4> DEFINE n == disk.fatSecs
                 l == FatStart(disk)
      <4>1. Reading(FatBuf, l, n) /\ Copied(FatBuf, l, n - io.n)
        BY <3>1
      <4>2. FatBuf \in Nat /\ l \in Nat /\ n \in Nat /\ FatBuf + n <= MemTop
        BY <3>2
      <4> HIDE DEF n, l
      <4>3. /\ io'.n <= n /\ io'.es + io'.bx = FatBuf + (n - io'.n) /\ io'.lba = l + (n - io'.n)
            /\ \A j \in Nat : j < n - io'.n => mem'[FatBuf + j] = l + j
        BY <1>1, <1>3, <4>1, <4>2, ReadGoes
      <4> QED BY <4>3 DEF n, l
    <3>4. ReadInv'
      BY <1>1, <1>3, <2>6, <3>1, <3>3 DEF ReadInv, Reading, Copied
    <3> QED BY <1>3, <2>4, <2>5, <3>4 DEF BootInv, Stage1Inv, KernelInv, KernelWhole
  <2>7. CASE io.back = "scan"
    <3>1. /\ FatIntact /\ Reading(RootBuf, RootLba(disk), RootSectors(disk))
          /\ Copied(RootBuf, RootLba(disk), RootSectors(disk) - io.n)
      BY <1>1, <2>7 DEF ReadInv
    <3>2. /\ RootBuf \in Nat /\ RootLba(disk) \in Nat /\ RootSectors(disk) \in Nat
          /\ RootBuf + RootSectors(disk) <= MemTop
      BY <2>1, Bounds, Places, FatBounds
    <3>3. /\ io'.n <= RootSectors(disk) /\ io'.es + io'.bx = RootBuf + (RootSectors(disk) - io'.n)
          /\ io'.lba = RootLba(disk) + (RootSectors(disk) - io'.n)
          /\ \A j \in Nat : j < RootSectors(disk) - io'.n => mem'[RootBuf + j] = RootLba(disk) + j
      <4> DEFINE n == RootSectors(disk)
                 l == RootLba(disk)
      <4>1. Reading(RootBuf, l, n) /\ Copied(RootBuf, l, n - io.n)
        BY <3>1
      <4>2. RootBuf \in Nat /\ l \in Nat /\ n \in Nat /\ RootBuf + n <= MemTop
        BY <3>2
      <4> HIDE DEF n, l
      <4>3. /\ io'.n <= n /\ io'.es + io'.bx = RootBuf + (n - io'.n) /\ io'.lba = l + (n - io'.n)
            /\ \A j \in Nat : j < n - io'.n => mem'[RootBuf + j] = l + j
        BY <1>1, <1>3, <4>1, <4>2, ReadGoes
      <4> QED BY <4>3 DEF n, l
    <3>4. a >= RootBuf
      BY <2>1, <3>1, <3>2 DEF Reading
    <3>5. FatIntact'
      <4> SUFFICES ASSUME ~disk.fat32, NEW j \in Nat, j < disk.fatSecs
                   PROVE  mem'[FatBuf + j] = FatStart(disk) + j
        BY <1>1 DEF FatIntact, Copied
      <4>1. FatBuf + disk.fatSecs <= RootBuf /\ disk.fatSecs \in Nat
        BY <2>1, DiskBounds, FatBounds
      <4>2. FatBuf + j \in 0..MemTop - 1 /\ FatBuf + j # a
        BY <2>1, <3>4, <4>1, Bounds
      <4>3. mem[FatBuf + j] = FatStart(disk) + j
        BY <3>1 DEF FatIntact, Copied
      <4> QED BY <2>3, <4>2, <4>3
    <3>6. ReadInv'
      BY <1>1, <1>3, <2>7, <3>3, <3>5 DEF ReadInv, Reading, Copied
    <3> QED BY <1>3, <2>4, <2>5, <3>6 DEF BootInv, Stage1Inv, KernelInv, KernelWhole
  <2>8. CASE io.back = "kernel"
    <3> DEFINE n == disk.spc
               s == ptr.es + ptr.bx
               l == ClusterLba(disk, cluster)
    <3>1. /\ cluster # Eoc /\ (a <= FatBuf => FatIntact) /\ Reading(s, l, n)
      BY <1>1, <2>8 DEF ReadInv
    <3>2. PICK k \in Nat : /\ Progress(k) /\ cluster = Chain(disk)[k] /\ left # 0
                           /\ KernelUpTo(Loaded(disk, k) + (n - io.n))
      BY <1>1, <2>8 DEF ReadInv
    <3> DEFINE p == n - io.n
               b == Loaded(disk, k)
    <3>3. /\ n \in Nat /\ l \in Nat /\ b \in Nat /\ p \in Nat /\ p < n /\ io.n <= n
          /\ s = Gap + b /\ a = Gap + (b + p) /\ io.lba = l + p /\ n - io'.n = p + 1
      <4>1. n \in Nat /\ l \in Nat /\ b \in Nat
        BY <2>1, <3>1, DiskBounds, Places, LoadedSteps
      <4>2. s = Gap + b
        BY <3>2 DEF Progress
      <4>3. io.n <= n /\ a = s + (n - io.n) /\ io.lba = l + (n - io.n)
        BY <3>1 DEF Reading
      <4>0. Reading(s, l, n) /\ s \in Nat
        <5>1. s \in Nat
          <6> HIDE DEF b, s
          <6> QED BY <4>1, <4>2, Bounds
        <5> QED BY <3>1, <5>1
      <4> HIDE DEF n, l, b, s
      <4>4. p \in Nat /\ p < n /\ n - io'.n = p + 1
        BY <1>1, <1>3, <4>0, <4>1, ReadGoes
      <4>5. a = s + p /\ io.lba = l + p
        BY <4>3
      <4> HIDE DEF p
      <4>6. a = Gap + (b + p)
        BY <4>1, <4>2, <4>4, <4>5, Bounds
      <4> QED BY <4>1, <4>2, <4>3, <4>4, <4>5, <4>6
    <3>4. KernelLba(disk, b + p) = l + p
      BY <2>1, <3>2, <3>3, SectorOf
    <3>5. Sectors(disk) \in Nat /\ Gap + Sectors(disk) <= FatBuf
      BY <2>1, KernelFits
    <3>6. ASSUME NEW i \in Nat, i < b + (n - io'.n), i < Sectors(disk)
          PROVE  mem'[Gap + i] = KernelLba(disk, i)
      <4> HIDE DEF n, l, b, s, a, p
      <4>1. Gap + i \in 0..MemTop - 1
        BY <3>5, <3>6, Bounds
      <4>2. i < b + p \/ i = b + p
        BY <3>3, <3>6
      <4>3. CASE i = b + p
        BY <2>3, <3>3, <3>4, <4>1, <4>3
      <4>4. CASE i < b + p
        <5>1. Gap + i # a
          BY <3>3, <4>4, Bounds
        <5>2. mem[Gap + i] = KernelLba(disk, i)
          BY <3>2, <3>6, <4>4 DEF KernelUpTo, b, p, n
        <5> QED BY <2>3, <4>1, <5>1, <5>2
      <4> QED BY <4>2, <4>3, <4>4
    <3>7. Progress(k)'
      <4>1. ASSUME NEW i \in Nat, i < Loaded(disk, k), i < Sectors(disk)
            PROVE  mem'[Gap + i] = KernelLba(disk, i)
        <5>1. i < b + (n - io'.n)
          BY <3>3, <4>1
        <5> QED BY <3>6, <4>1, <5>1
      <4>2. KernelUpTo(Loaded(disk, k))'
        BY <1>1, <4>1 DEF KernelUpTo
      <4> QED BY <1>1, <3>2, <4>2 DEF Progress
    <3>8. KernelUpTo(Loaded(disk, k) + (disk.spc - io.n))'
      BY <1>1, <3>6 DEF KernelUpTo
    <3>9. a + 1 <= FatBuf => FatIntact'
      <4> SUFFICES ASSUME a < FatBuf, ~disk.fat32, NEW j \in Nat, j < disk.fatSecs
                   PROVE  mem'[FatBuf + j] = FatStart(disk) + j
        BY <1>1, <2>1, Bounds DEF FatIntact, Copied
      <4>1. FatBuf + disk.fatSecs <= RootBuf /\ disk.fatSecs \in Nat
        BY <2>1, DiskBounds, FatBounds
      <4>2. FatBuf + j \in 0..MemTop - 1 /\ FatBuf + j # a
        BY <2>1, <4>1, Bounds
      <4>3. FatIntact
        BY <2>1, <3>1, Bounds
      <4>4. mem[FatBuf + j] = FatStart(disk) + j
        BY <4>3 DEF FatIntact, Copied
      <4> QED BY <2>3, <4>2, <4>4
    <3>10. Reading(ptr.es + ptr.bx, ClusterLba(disk, cluster), disk.spc)'
      <4>1. io'.n <= n /\ io'.es + io'.bx = s + (n - io'.n) /\ io'.lba = l + (n - io'.n)
        <5>1. s \in Nat
          <6> HIDE DEF b, s
          <6> QED BY <3>3, Bounds
        <5>2. a = s + (n - io.n) /\ io.lba = l + (n - io.n)
          BY <3>1 DEF Reading
        <5>3. Reading(s, l, n)
          BY <3>1
        <5> HIDE DEF n, l, b, s
        <5> QED BY <1>1, <1>3, <3>3, <5>1, <5>3, ReadGoes
      <4> QED BY <1>1, <4>1 DEF Reading
    <3>11. ReadInv'
      <4>1. io'.back = "kernel" /\ cluster' # Eoc /\ left' # 0 /\ cluster' = Chain(disk')[k]
        BY <1>1, <1>3, <2>8, <3>1, <3>2
      <4>2. io'.es + io'.bx <= FatBuf => FatIntact'
        BY <1>3, <3>9
      <4> QED BY <3>7, <3>8, <3>10, <4>1, <4>2 DEF ReadInv
    <3> QED BY <1>3, <2>4, <2>5, <3>11 DEF BootInv, Stage1Inv, KernelInv, KernelWhole
  <2>9. CASE io.back = "entry32"
    <3> DEFINE l == FatStart(disk) + FatSector(cluster)
    <3>1. disk.fat32 /\ Follows /\ Reading(FatBuf, l, 1) /\ Copied(FatBuf, l, 1 - io.n)
      BY <1>1, <2>9 DEF ReadInv
    <3>2. cluster \in Clusters(disk)
      BY <2>1, <3>1 DEF Follows
    <3>3. /\ FatBuf \in Nat /\ l \in Nat /\ 1 \in Nat /\ FatBuf + 1 <= MemTop
      <4>1. FatStart(disk) \in Nat /\ FatSector(cluster) \in Nat
        BY <2>1, <3>2, Places, FatBounds
      <4> QED BY <4>1, Bounds
    <3>4. /\ io'.n <= 1 /\ io'.es + io'.bx = FatBuf + (1 - io'.n)
          /\ io'.lba = l + (1 - io'.n)
          /\ \A j \in Nat : j < 1 - io'.n => mem'[FatBuf + j] = l + j
      <4> HIDE DEF l
      <4> QED BY <1>1, <1>3, <3>1, <3>3, ReadGoes
    <3>5. PICK k \in Nat : Progress(k + 1) /\ cluster = Chain(disk)[k]
      BY <3>1 DEF Follows
    <3>6. a >= FatBuf
      BY <2>1, <3>1, Bounds DEF Reading
    <3>7. Progress(k + 1)'
      <4>1. ASSUME NEW i \in Nat, i < Loaded(disk, k + 1), i < Sectors(disk)
            PROVE  mem'[Gap + i] = KernelLba(disk, i)
        <5>1. Gap + i \in 0..MemTop - 1 /\ Gap + i # a
          BY <2>1, <3>6, <4>1, KernelFits, Bounds, SMTT(40)
        <5>2. mem[Gap + i] = KernelLba(disk, i)
          BY <3>5, <4>1 DEF Progress, KernelUpTo
        <5> QED BY <2>3, <5>1, <5>2
      <4>2. KernelUpTo(Loaded(disk, k + 1))'
        BY <1>1, <4>1 DEF KernelUpTo
      <4> QED BY <1>1, <3>5, <4>2 DEF Progress
    <3>8. Follows'
      <4>1. FatIntact'
        BY <1>1, <3>1 DEF FatIntact
      <4>2. cluster' # Eoc /\ cluster' = Chain(disk')[k]
        BY <1>1, <3>1, <3>5 DEF Follows
      <4> QED BY <3>7, <4>1, <4>2 DEF Follows
    <3>9. ReadInv'
      BY <1>1, <1>3, <2>9, <3>1, <3>4, <3>8 DEF ReadInv, Reading, Copied
    <3> QED BY <1>3, <2>4, <2>5, <3>9 DEF BootInv, Stage1Inv, KernelInv, KernelWhole
  <2> QED BY <2>1, <2>6, <2>7, <2>8, <2>9
<1> QED BY <1>1, <1>2, <1>3, SectorRead

\* A step that leaves the memory alone.
LEMMA LoaderKept ==
  ASSUME LoaderIntact, UNCHANGED <<disk, mem>>, pc \notin {"mbr", "vbr", "stage1", "hung"}
  PROVE  LoaderIntact'
BY DEF LoaderIntact

\* A read that begins: the invariant of io.
LEMMA CallType ==
  ASSUME NEW l \in Nat, NEW n \in Nat, NEW es \in Nat, NEW bx \in Nat,
         NEW back \in {"root", "scan", "kernel", "entry32"}, CallRead(l, n, es, bx, back)
  PROVE  /\ io' \in [lba : Nat, n : Nat, es : Nat, bx : Nat,
                     back : {"root", "scan", "kernel", "entry32", "fat"}]
         /\ io'.lba = l /\ io'.n = n /\ io'.es = es /\ io'.bx = bx /\ io'.back = back
         /\ pc' = "read"
BY DEF CallRead

LEMMA SimaInv == ASSUME BootInv, Sima PROVE BootInv'
<1>1. /\ TypeInv /\ disk \in Disks /\ pc = "sima"
      /\ UNCHANGED <<disk, edd, img, mem, ptr, cluster, left, slot>>
  BY DEF BootInv, TypeInv, Sima, scanning
<1>2. LoaderIntact'
  BY <1>1, LoaderKept DEF BootInv
<1>3. CASE pc' = "disk_error" /\ UNCHANGED io
  <2>1. faults' \in Nat
    BY <1>1, <1>3 DEF TypeInv, Sima, Fault, CallRead
  <2>2. TypeInv'
    BY <1>1, <1>3, <2>1 DEF TypeInv, Labels, Stops
  <2> QED BY <1>2, <1>3, <2>2 DEF BootInv, Stage1Inv, KernelInv, KernelWhole
<1>4. CASE disk.fat32 /\ CallRead(RootLba(disk), RootSectors(disk), RootBuf, 0, "scan")
           /\ UNCHANGED faults
  <2> DEFINE l == RootLba(disk)
             n == RootSectors(disk)
  <2>1. l \in Nat /\ n \in Nat /\ RootBuf \in Nat
    BY <1>1, Places, Bounds
  <2> HIDE DEF l, n
  <2>2. /\ io' \in [lba : Nat, n : Nat, es : Nat, bx : Nat,
                    back : {"root", "scan", "kernel", "entry32", "fat"}]
        /\ io'.lba = l /\ io'.n = n /\ io'.es = RootBuf /\ io'.bx = 0 /\ io'.back = "scan"
        /\ pc' = "read"
    BY <1>4, <2>1, CallType DEF l, n
  <2>3. TypeInv'
    BY <1>1, <1>4, <2>2 DEF TypeInv, Labels
  <2>4. n - io'.n = 0 /\ io'.n <= n /\ io'.es + io'.bx = RootBuf + 0 /\ io'.lba = l + 0
    BY <2>1, <2>2
  <2>5. ReadInv'
    BY <1>1, <1>4, <2>2, <2>4 DEF ReadInv, FatIntact, Reading, Copied, l, n
  <2> QED BY <1>2, <2>2, <2>3, <2>5 DEF BootInv, Stage1Inv, KernelInv, KernelWhole
<1>5. CASE ~disk.fat32 /\ CallRead(FatStart(disk), disk.fatSecs, FatBuf, 0, "root")
           /\ UNCHANGED faults
  <2> DEFINE l == FatStart(disk)
             n == disk.fatSecs
  <2>1. l \in Nat /\ n \in Nat /\ FatBuf \in Nat
    BY <1>1, Places, DiskBounds, Bounds
  <2> HIDE DEF l, n
  <2>2. /\ io' \in [lba : Nat, n : Nat, es : Nat, bx : Nat,
                    back : {"root", "scan", "kernel", "entry32", "fat"}]
        /\ io'.lba = l /\ io'.n = n /\ io'.es = FatBuf /\ io'.bx = 0 /\ io'.back = "root"
        /\ pc' = "read"
    BY <1>5, <2>1, CallType DEF l, n
  <2>3. TypeInv'
    BY <1>1, <1>5, <2>2 DEF TypeInv, Labels
  <2>4. n - io'.n = 0 /\ io'.n <= n /\ io'.es + io'.bx = FatBuf + 0 /\ io'.lba = l + 0
    BY <2>1, <2>2
  <2>5. ReadInv'
    BY <1>1, <1>5, <2>2, <2>4 DEF ReadInv, Reading, Copied, l, n
  <2> QED BY <1>2, <2>2, <2>3, <2>5 DEF BootInv, Stage1Inv, KernelInv, KernelWhole
<1> QED BY <1>3, <1>4, <1>5 DEF Sima

\* When nothing is left of the size the whole kernel is in memory.
LEMMA LoadedWhole ==
  ASSUME BootInv, pc = "loaded"
  PROVE  /\ LongEnough(disk)
         /\ \A i \in 0..Sectors(disk) - 1 : mem[Gap + i] = KernelLba(disk, i)
<1>0. TypeInv /\ disk \in Disks /\ pc = "loaded"
  BY DEF BootInv, TypeInv
<1>1. PICK k \in Nat : Progress(k) /\ left = 0
  BY <1>0 DEF BootInv, KernelInv
<1> DEFINE s == Sectors(disk)
<1>2. /\ s \in Nat /\ s > 0 /\ left = Left(disk, k) /\ Loaded(disk, k) \in Nat
  BY <1>0, <1>1, KernelFits, LoadedSteps DEF Progress
<1>3. s <= Loaded(disk, k)
  BY <1>0, <1>1, <1>2, LeftSteps
<1>4. ASSUME NEW i \in 0..s - 1 PROVE mem[Gap + i] = KernelLba(disk, i)
  <2>1. i \in Nat /\ i < s /\ i < Loaded(disk, k)
    BY <1>2, <1>3
  <2> QED BY <1>1, <2>1 DEF Progress, KernelUpTo
<1>5. LongEnough(disk)
  <2> DEFINE j == (s - 1) \div disk.spc
  <2>1. s - 1 \in Nat /\ s - 1 < Loaded(disk, k)
    BY <1>2, <1>3
  <2>2. j \in Nat /\ j < k
    BY <1>0, <2>1, ClusterOf
  <2>3. Chain(disk)[j] # Eoc
    BY <1>1, <2>2 DEF Progress
  <2> QED BY <2>3 DEF LongEnough
<1> QED BY <1>4, <1>5

LEMMA KernelLoadedInv == ASSUME BootInv, KernelLoaded PROVE BootInv'
<1>1. /\ TypeInv /\ disk \in Disks /\ pc = "loaded" /\ pc' \in {"kernel", "hung"}
      /\ UNCHANGED <<disk, edd, img, mem, io, ptr, cluster, left, slot, faults>>
  BY DEF BootInv, TypeInv, KernelLoaded, scanning
<1>2. LoaderIntact'
  BY <1>1, LoaderKept DEF BootInv
<1>3. TypeInv'
  BY <1>1 DEF TypeInv, Labels, Stops
<1>4. KernelWhole'
  BY <1>1, LoadedWhole DEF KernelWhole
<1> QED BY <1>1, <1>2, <1>3, <1>4 DEF BootInv, Stage1Inv, KernelInv

LEMMA FindKernelInv == ASSUME BootInv, FindKernel PROVE BootInv'
<1>1. /\ TypeInv /\ disk \in Disks /\ pc = "scan" /\ FatIntact
      /\ Copied(RootBuf, RootLba(disk), RootSectors(disk))
      /\ UNCHANGED <<disk, edd, img, mem, io, faults>>
  BY DEF BootInv, TypeInv, KernelInv, FindKernel
<1>2. LoaderIntact'
  BY <1>1, LoaderKept DEF BootInv
<1>3. CASE pc' = "not_found" /\ UNCHANGED <<scanning, ptr>>
  <2>1. TypeInv'
    BY <1>1, <1>3 DEF TypeInv, scanning, Labels, Stops
  <2> QED BY <1>2, <1>3, <2>1 DEF BootInv, Stage1Inv, KernelInv, KernelWhole
<1>4. CASE /\ pc' = "load" /\ cluster' = disk.first /\ left' = disk.size
           /\ ptr' = [es |-> Gap, bx |-> 0] /\ UNCHANGED slot
  <2>1. /\ disk.first \in Clusters(disk) /\ Clusters(disk) \subseteq Nat \ {0, 1}
        /\ disk.size \in Nat /\ Gap \in Nat
    BY <1>1, FatBounds, DiskBounds, Bounds
  <2>2. TypeInv'
    BY <1>1, <1>4, <2>1 DEF TypeInv, Labels
  <2>3. ptr'.es + ptr'.bx = Gap + Loaded(disk, 0)
    BY <1>1, <1>4, <2>1, LoadedSteps
  <2>4. left' = Left(disk, 0) /\ Loaded(disk, 0) = 0
    BY <1>1, <1>4, LeftSteps, LoadedSteps
  <2>5. KernelUpTo(Loaded(disk, 0))'
    BY <1>1, <2>4 DEF KernelUpTo
  <2>6. Progress(0)'
    BY <1>1, <2>3, <2>4, <2>5 DEF Progress
  <2>7. cluster' = Chain(disk)[0] /\ cluster' # Eoc /\ FatIntact'
    BY <1>1, <1>4, <2>1, ChainSteps DEF FatIntact, Copied, Eoc
  <2>8. KernelInv'
    BY <1>1, <1>4, <2>6, <2>7 DEF KernelInv, KernelWhole
  <2> QED BY <1>2, <1>4, <2>2, <2>8 DEF BootInv, Stage1Inv
<1>5. CASE /\ slot.cx # 0 /\ slot' = [i |-> slot.i + 1, cx |-> slot.cx - 1]
           /\ UNCHANGED <<pc, cluster, left, ptr>>
  <2>1. slot' \in [i : Nat, cx : Nat]
    <3>1. slot.i + 1 \in Nat /\ slot.cx - 1 \in Nat
      BY <1>1, <1>5 DEF TypeInv
    <3> QED BY <1>5, <3>1
  <2>2. TypeInv'
    BY <1>1, <1>5, <2>1 DEF TypeInv
  <2>3. FatIntact' /\ Copied(RootBuf, RootLba(disk), RootSectors(disk))'
    BY <1>1 DEF FatIntact, Copied
  <2> QED BY <1>1, <1>2, <1>5, <2>2, <2>3 DEF BootInv, Stage1Inv, KernelInv, KernelWhole
<1> QED BY <1>3, <1>4, <1>5 DEF FindKernel

LEMMA LoadLoopInv == ASSUME BootInv, LoadLoop PROVE BootInv'
<1>1. /\ TypeInv /\ disk \in Disks /\ pc = "load"
      /\ UNCHANGED <<disk, edd, img, mem, ptr, cluster, left, slot, faults>>
  BY DEF BootInv, TypeInv, LoadLoop, scanning
<1>2. LoaderIntact'
  BY <1>1, LoaderKept DEF BootInv
<1>3. PICK k \in Nat : Progress(k) /\ (left # 0 => cluster = Chain(disk)[k])
  BY <1>1 DEF BootInv, KernelInv
<1>4. left # 0 => cluster # Eoc /\ FatIntact
  BY <1>1 DEF BootInv, KernelInv
<1>5. Progress(k)'
  BY <1>1, <1>3 DEF Progress, KernelUpTo
<1>6. CASE left = 0 /\ pc' = "loaded" /\ UNCHANGED io
  <2>1. TypeInv'
    BY <1>1, <1>6 DEF TypeInv, Labels
  <2> QED BY <1>1, <1>2, <1>5, <1>6, <2>1 DEF BootInv, Stage1Inv, KernelInv, KernelWhole
<1>7. CASE /\ left # 0
           /\ CallRead(ClusterLba(disk, cluster), disk.spc, ptr.es, ptr.bx, "kernel")
  <2> DEFINE l == ClusterLba(disk, cluster)
             n == disk.spc
  <2>1. cluster \in Clusters(disk) /\ ptr.es \in Nat /\ ptr.bx \in Nat
    BY <1>1, <1>4, <1>7 DEF TypeInv
  <2>2. l \in Nat /\ n \in Nat
    BY <1>1, <2>1, Places, DiskBounds
  <2> HIDE DEF l, n
  <2>3. /\ io' \in [lba : Nat, n : Nat, es : Nat, bx : Nat,
                    back : {"root", "scan", "kernel", "entry32", "fat"}]
        /\ io'.lba = l /\ io'.n = n /\ io'.es = ptr.es /\ io'.bx = ptr.bx
        /\ io'.back = "kernel" /\ pc' = "read"
    BY <1>7, <2>1, <2>2, CallType DEF l, n
  <2>4. TypeInv'
    BY <1>1, <2>3 DEF TypeInv, Labels
  <2>5. /\ n - io'.n = 0 /\ io'.n <= n /\ io'.lba = l + 0
        /\ io'.es + io'.bx = (ptr.es + ptr.bx) + 0
    BY <2>1, <2>2, <2>3
  <2>6. Reading(ptr.es + ptr.bx, ClusterLba(disk, cluster), disk.spc)'
    BY <1>1, <2>5 DEF Reading, l, n
  <2>7. KernelUpTo(Loaded(disk, k) + (disk.spc - io.n))'
    <3>1. Loaded(disk, k) \in Nat
      BY <1>1, LoadedSteps
    <3>2. Loaded(disk, k) + (disk.spc - io'.n) = Loaded(disk, k)
      BY <2>5, <3>1 DEF n
    <3> QED BY <1>1, <1>3, <3>2 DEF Progress, KernelUpTo
  <2>8. FatIntact' /\ cluster' # Eoc /\ left' # 0 /\ cluster' = Chain(disk')[k]
    BY <1>1, <1>3, <1>4, <1>7 DEF FatIntact, Copied
  <2>9. ReadInv'
    BY <1>5, <2>3, <2>6, <2>7, <2>8 DEF ReadInv
  <2> QED BY <1>2, <2>3, <2>4, <2>9 DEF BootInv, Stage1Inv, KernelInv, KernelWhole
<1> QED BY <1>6, <1>7 DEF LoadLoop

LEMMA FollowsKept ==
  ASSUME Follows, UNCHANGED <<disk, mem, ptr, cluster, left>>
  PROVE  Follows'
<1>1. PICK k \in Nat : Progress(k + 1) /\ cluster = Chain(disk)[k]
  BY DEF Follows
<1>2. Progress(k + 1)' /\ cluster' = Chain(disk')[k]
  BY <1>1 DEF Progress, KernelUpTo
<1>3. cluster' # Eoc /\ (left' # 0 => FatIntact')
  BY DEF Follows, FatIntact, Copied
<1> QED BY <1>2, <1>3 DEF Follows

LEMMA NextClusterInv == ASSUME BootInv, NextCluster32 PROVE BootInv'
<1>1. /\ TypeInv /\ disk \in Disks /\ pc = "next" /\ Follows
      /\ UNCHANGED <<disk, edd, img, mem, ptr, cluster, left, slot, faults>>
  BY DEF BootInv, TypeInv, NextCluster32, KernelInv, scanning
<1>2. LoaderIntact' /\ Follows'
  BY <1>1, LoaderKept, FollowsKept DEF BootInv
<1>3. CASE ~disk.fat32 /\ pc' = "follow" /\ UNCHANGED io
  <2>1. TypeInv'
    BY <1>1, <1>3 DEF TypeInv, Labels
  <2> QED BY <1>1, <1>2, <1>3, <2>1 DEF BootInv, Stage1Inv, KernelInv, KernelWhole
<1>4. CASE disk.fat32 /\ CallRead(FatStart(disk) + FatSector(cluster), 1, FatBuf, 0, "entry32")
  <2> DEFINE l == FatStart(disk) + FatSector(cluster)
  <2>1. l \in Nat /\ 1 \in Nat /\ 0 \in Nat /\ FatBuf \in Nat
    <3>1. cluster \in Clusters(disk)
      BY <1>1 DEF TypeInv, Follows
    <3>2. FatStart(disk) \in Nat /\ FatSector(cluster) \in Nat
      BY <1>1, <3>1, Places, FatBounds
    <3> QED BY <3>2, Bounds
  <2> HIDE DEF l
  <2>2. /\ io' \in [lba : Nat, n : Nat, es : Nat, bx : Nat,
                    back : {"root", "scan", "kernel", "entry32", "fat"}]
        /\ io'.lba = l /\ io'.n = 1 /\ io'.es = FatBuf /\ io'.bx = 0 /\ io'.back = "entry32"
        /\ pc' = "read"
    BY <1>4, <2>1, CallType DEF l
  <2>3. TypeInv'
    BY <1>1, <2>2 DEF TypeInv, Labels
  <2>4. 1 - io'.n = 0 /\ io'.n <= 1 /\ io'.es + io'.bx = FatBuf + 0 /\ io'.lba = l + 0
    BY <2>1, <2>2
  <2>5. Reading(FatBuf, FatStart(disk) + FatSector(cluster), 1)'
    BY <1>1, <2>4 DEF Reading, l
  <2>6. Copied(FatBuf, FatStart(disk) + FatSector(cluster), 1 - io.n)'
    BY <1>1, <2>4 DEF Copied, l
  <2>7. ReadInv'
    BY <1>1, <1>2, <1>4, <2>2, <2>5, <2>6 DEF ReadInv
  <2> QED BY <1>2, <2>2, <2>3, <2>7 DEF BootInv, Stage1Inv, KernelInv, KernelWhole
<1> QED BY <1>3, <1>4 DEF NextCluster32

\* The link that is followed is the chain's, as long as bytes are left.
LEMMA FollowLink ==
  ASSUME BootInv, Follow
  PROVE  /\ cluster \in Clusters(disk)
         /\ \E k \in Nat : /\ Progress(k + 1)
                           /\ left # 0 => cluster' = Chain(disk)[k + 1] /\ FatIntact
<1>1. /\ TypeInv /\ disk \in Disks /\ pc = "follow" /\ Follows
      /\ (disk.fat32 => mem[FatBuf] = FatStart(disk) + FatSector(cluster))
  BY DEF BootInv, TypeInv, Follow, KernelInv
<1>3. cluster \in Clusters(disk) /\ cluster \in Nat
  BY <1>1, FatBounds DEF TypeInv, Follows
<1>4. PICK k \in Nat : Progress(k + 1) /\ cluster = Chain(disk)[k]
  BY <1>1 DEF Follows
<1>6. cluster' \in FatEntry(disk, cluster, mem[FatAddr])
  BY DEF Follow
<1>8. left # 0 => cluster' = Chain(disk)[k + 1] /\ FatIntact
  <2> SUFFICES ASSUME left # 0 PROVE cluster' = Chain(disk)[k + 1] /\ FatIntact
    OBVIOUS
  <2>1. FatIntact
    BY <1>1 DEF Follows
  <2>2. mem[FatAddr] = FatStart(disk) + FatSector(cluster)
    <3>1. CASE disk.fat32
      BY <1>1, <3>1, Bounds DEF FatAddr
    <3>2. CASE ~disk.fat32
      <4>1. FatSector(cluster) \in Nat /\ FatSector(cluster) < disk.fatSecs
        BY <1>1, <1>3, FatBounds
      <4> QED BY <2>1, <3>2, <4>1 DEF FatIntact, Copied, FatAddr
    <3> QED BY <3>1, <3>2
  <2>3. cluster' = disk.next[cluster]
    BY <1>3, <1>6, <2>2 DEF FatEntry
  <2>4. k < Sectors(disk) /\ Chain(disk)[k] # Eoc
    <3>1. Loaded(disk, k + 1) < Sectors(disk) /\ k + 1 <= Loaded(disk, k + 1)
      <4>1. k + 1 \in Nat /\ left = Left(disk, k + 1)
        BY <1>4 DEF Progress
      <4> QED BY <1>1, <4>1, LeftSteps, LoadedSteps
    <3>2. Loaded(disk, k + 1) \in Nat /\ Sectors(disk) \in Nat
      BY <1>1, LoadedSteps, KernelFits
    <3>3. k < Sectors(disk)
      BY <3>1, <3>2
    <3> QED BY <1>1, <1>4, <3>3 DEF Follows
  <2>5. Chain(disk)[k + 1] = disk.next[Chain(disk)[k]]
    BY <1>1, <2>4, ChainNext
  <2> QED BY <1>4, <2>1, <2>3, <2>5
<1> QED BY <1>3, <1>4, <1>8

LEMMA FollowInv == ASSUME BootInv, Follow PROVE BootInv'
<1>1. /\ TypeInv /\ disk \in Disks /\ pc = "follow"
      /\ UNCHANGED <<disk, edd, img, mem, io, ptr, left, slot, faults>>
  BY DEF BootInv, TypeInv, Follow
<1>2. LoaderIntact'
  BY <1>1, LoaderKept DEF BootInv
<1>3. cluster \in Clusters(disk)
  BY FollowLink
<1>4. PICK k \in Nat : /\ Progress(k + 1)
                       /\ left # 0 => cluster' = Chain(disk)[k + 1] /\ FatIntact
  BY FollowLink
<1>5. Progress(k + 1)'
  BY <1>1, <1>4 DEF Progress, KernelUpTo
<1>6. cluster' \in FatEntry(disk, cluster, mem[FatAddr])
  BY DEF Follow
<1>7. TypeInv'
  <2>1. cluster' \in Clusters(disk) \cup {Eoc}
    BY <1>1, <1>3, <1>6, FatBounds DEF FatEntry
  <2>2. pc' \in {"hung", "load"}
    BY DEF Follow
  <2> QED BY <1>1, <2>1, <2>2 DEF TypeInv, Labels, Stops
<1>9. CASE pc' = "hung"
  BY <1>2, <1>7, <1>9 DEF BootInv, Stage1Inv, KernelInv, KernelWhole
<1>10. CASE pc' = "load" /\ ~(left # 0 /\ cluster' = Eoc)
  <2>1. left' # 0 => cluster' # Eoc /\ FatIntact' /\ cluster' = Chain(disk')[k + 1]
    BY <1>1, <1>4, <1>10 DEF FatIntact, Copied
  <2>2. k + 1 \in Nat
    OBVIOUS
  <2>3. \E n \in Nat : Progress(n)' /\ (left' # 0 => cluster' = Chain(disk')[n])
    BY <1>5, <2>1, <2>2
  <2>4. KernelInv'
    BY <1>10, <2>1, <2>3 DEF KernelInv, KernelWhole
  <2> QED BY <1>2, <1>7, <1>10, <2>4 DEF BootInv, Stage1Inv
<1> QED BY <1>9, <1>10 DEF Follow

LEMMA ReadDoneInv == ASSUME BootInv, ReadDone PROVE BootInv'
<1>1. /\ TypeInv /\ disk \in Disks /\ pc = "read" /\ ReadInv /\ io.n = 0
      /\ io.back \in {"root", "scan", "kernel", "entry32"}
      /\ UNCHANGED <<disk, edd, img, mem, cluster, faults>>
  BY DEF BootInv, TypeInv, ReadDone, KernelInv
<1>2. LoaderIntact'
  BY <1>1, LoaderKept DEF BootInv
<1>3. CASE io.back = "root"
  <2> DEFINE l == RootLba(disk)
             n == RootSectors(disk)
  <2>1. l \in Nat /\ n \in Nat /\ RootBuf \in Nat /\ disk.fatSecs \in Nat
    BY <1>1, Places, Bounds, DiskBounds
  <2>2. CallRead(l, n, RootBuf, 0, "scan") /\ UNCHANGED <<ptr, slot, left>>
    BY <1>3 DEF ReadDone
  <2> HIDE DEF l, n
  <2>3. /\ io' \in [lba : Nat, n : Nat, es : Nat, bx : Nat,
                    back : {"root", "scan", "kernel", "entry32", "fat"}]
        /\ io'.lba = l /\ io'.n = n /\ io'.es = RootBuf /\ io'.bx = 0 /\ io'.back = "scan"
        /\ pc' = "read"
    BY <2>1, <2>2, CallType
  <2>4. TypeInv'
    BY <1>1, <2>2, <2>3 DEF TypeInv, Labels
  <2>5. n - io'.n = 0 /\ io'.n <= n /\ io'.es + io'.bx = RootBuf + 0 /\ io'.lba = l + 0
    BY <2>1, <2>3
  <2>6. FatIntact'
    <3>1. disk.fatSecs - io.n = disk.fatSecs
      BY <1>1, <2>1
    <3>2. Copied(FatBuf, FatStart(disk), disk.fatSecs)
      BY <1>1, <1>3, <3>1 DEF ReadInv
    <3> QED BY <1>1, <3>2 DEF FatIntact, Copied
  <2>7. ReadInv'
    BY <1>1, <2>3, <2>5, <2>6 DEF ReadInv, Reading, Copied, l, n
  <2> QED BY <1>2, <2>3, <2>4, <2>7 DEF BootInv, Stage1Inv, KernelInv, KernelWhole
<1>4. CASE io.back = "scan"
  <2>1. pc' = "scan" /\ slot' = [i |-> 0, cx |-> RootEntries(disk)] /\ UNCHANGED <<io, ptr, left>>
    BY <1>4 DEF ReadDone
  <2>2. RootEntries(disk) \in Nat
    BY <1>1, DiskBounds, Bounds, TimesNat DEF RootEntries
  <2>3. TypeInv'
    BY <1>1, <2>1, <2>2 DEF TypeInv, Labels
  <2>4. RootSectors(disk) - io.n = RootSectors(disk)
    BY <1>1, Places
  <2>5. FatIntact /\ Copied(RootBuf, RootLba(disk), RootSectors(disk))
    BY <1>1, <1>4, <2>4 DEF ReadInv
  <2>6. FatIntact' /\ Copied(RootBuf, RootLba(disk), RootSectors(disk))'
    BY <1>1, <2>5 DEF FatIntact, Copied
  <2> QED BY <1>2, <2>1, <2>3, <2>6 DEF BootInv, Stage1Inv, KernelInv, KernelWhole
<1>5. CASE io.back = "kernel"
  <2>1. /\ pc' = "next" /\ ptr' = [es |-> io.es, bx |-> io.bx] /\ left' = Remaining(left)
        /\ UNCHANGED <<io, slot>>
    BY <1>5 DEF ReadDone
  <2>2. PICK k \in Nat : /\ Progress(k) /\ cluster = Chain(disk)[k] /\ left # 0
                         /\ KernelUpTo(Loaded(disk, k) + (disk.spc - io.n))
    BY <1>1, <1>5 DEF ReadInv
  <2>3. /\ cluster # Eoc /\ (io.es + io.bx <= FatBuf => FatIntact)
        /\ Reading(ptr.es + ptr.bx, ClusterLba(disk, cluster), disk.spc)
    BY <1>1, <1>5 DEF ReadInv
  <2>4. disk.spc \in Nat /\ disk.spc - io.n = disk.spc /\ Loaded(disk, k) \in Nat
    BY <1>1, DiskBounds, LoadedSteps
  <2>5. Loaded(disk, k) + (disk.spc - io.n) = Loaded(disk, k + 1)
    BY <1>1, <2>4, LoadedSteps
  <2>6. ptr'.es + ptr'.bx = Gap + Loaded(disk, k + 1)
    <3>1. io.es + io.bx = (ptr.es + ptr.bx) + disk.spc
      BY <2>3, <2>4 DEF Reading
    <3>2. ptr.es + ptr.bx = Gap + Loaded(disk, k)
      BY <2>2 DEF Progress
    <3>3. Loaded(disk, k + 1) = Loaded(disk, k) + disk.spc
      BY <1>1, LoadedSteps
    <3>4. io.es + io.bx = Gap + Loaded(disk, k + 1)
      BY <2>4, <3>1, <3>2, <3>3, Bounds
    <3> QED BY <2>1, <3>4
  <2>7. left' = Left(disk, k + 1)
    BY <1>1, <2>1, <2>2, LeftSteps DEF Progress, Remaining
  <2>8. KernelUpTo(Loaded(disk, k + 1))'
    BY <1>1, <2>2, <2>5 DEF KernelUpTo
  <2>9. \A j \in Nat : j < k + 1 => Chain(disk)[j] # Eoc
    <3>1. \A j \in Nat : j < k + 1 => j < k \/ j = k
      OBVIOUS
    <3> QED BY <2>2, <2>3, <3>1 DEF Progress
  <2>10. Progress(k + 1)'
    BY <1>1, <2>6, <2>7, <2>8, <2>9 DEF Progress
  <2>11. left' # 0 => FatIntact'
    <3> SUFFICES ASSUME left' # 0 PROVE FatIntact'
      OBVIOUS
    <3>1. Loaded(disk, k + 1) < Sectors(disk)
      BY <1>1, <2>7, LeftSteps
    <3>2. Gap + Loaded(disk, k + 1) <= FatBuf
      BY <1>1, <3>1, KernelFits, LoadedSteps, Bounds
    <3>3. io.es + io.bx <= FatBuf
      BY <2>1, <2>6, <3>2
    <3> QED BY <1>1, <2>3, <3>3 DEF FatIntact, Copied
  <2>12. Follows'
    BY <1>1, <2>2, <2>3, <2>10, <2>11 DEF Follows
  <2>13. TypeInv'
    <3>1. left' \in Nat
      BY <1>1, <2>7, LeftSteps
    <3>2. ptr' \in [es : Nat, bx : Nat]
      BY <1>1, <2>1 DEF TypeInv
    <3> QED BY <1>1, <2>1, <3>1, <3>2 DEF TypeInv, Labels
  <2> QED BY <1>2, <2>1, <2>12, <2>13 DEF BootInv, Stage1Inv, KernelInv, KernelWhole
<1>6. CASE io.back = "entry32"
  <2>1. pc' = "follow" /\ UNCHANGED <<io, ptr, slot, left>>
    BY <1>6 DEF ReadDone
  <2>2. Follows /\ Copied(FatBuf, FatStart(disk) + FatSector(cluster), 1 - io.n)
    BY <1>1, <1>6 DEF ReadInv
  <2>3. TypeInv'
    BY <1>1, <2>1 DEF TypeInv, Labels
  <2>4. Follows'
    BY <1>1, <2>1, <2>2, FollowsKept
  <2>5. mem[FatBuf] = FatStart(disk) + FatSector(cluster)
    <3> DEFINE l == FatStart(disk) + FatSector(cluster)
    <3>1. l \in Nat
      <4>1. cluster \in Clusters(disk)
        BY <1>1, <2>2 DEF TypeInv, Follows
      <4> QED BY <1>1, <4>1, Places, FatBounds
    <3>2. Copied(FatBuf, l, 1 - io.n)
      BY <2>2
    <3> HIDE DEF l
    <3>3. 0 \in Nat /\ 0 < 1 - io.n
      BY <1>1
    <3>4. mem[FatBuf + 0] = l + 0
      BY <3>2, <3>3 DEF Copied
    <3> QED BY <3>1, <3>4, Bounds DEF l
  <2> QED BY <1>1, <1>2, <2>1, <2>3, <2>4, <2>5 DEF BootInv, Stage1Inv, KernelInv, KernelWhole
<1> QED BY <1>1, <1>3, <1>4, <1>5, <1>6
-----------------------------------------------------------------------------
LEMMA StepInv == ASSUME BootInv, [Next]_vars PROVE BootInv'
<1>1. CASE UNCHANGED vars
  <2>1. TypeInv' /\ Stage1Inv' /\ LoaderIntact'
    BY <1>1 DEF BootInv, TypeInv, Stage1Inv, LoaderIntact, vars, Position
  <2>2. ASSUME ReadInv PROVE ReadInv'
    BY <1>1, <2>2 DEF vars, ReadInv, FatIntact, Reading, Copied, Follows, Progress, KernelUpTo
  <2>3. KernelInv'
    BY <1>1, <2>2 DEF vars, BootInv, KernelInv, KernelWhole, FatIntact, Copied, Follows, Progress,
                      KernelUpTo
  <2> QED BY <2>1, <2>3 DEF BootInv
<1>2. CASE Next
  BY <1>2, MbrInv, LoadImgInv, ReadDataInv, Stage1DoneInv, SimaInv, ReadSectorInv,
     ReadDoneInv, FindKernelInv, LoadLoopInv, NextClusterInv, FollowInv, KernelLoadedInv,
     RebootInv DEF Next, Step
<1> QED BY <1>1, <1>2

\* The inductive invariant of the boot path: what has been read, whichever
\* call fails and however often the machine restarts (read_sectors_lba,
\* load_img, .load_loop).
THEOREM BootInvHolds == Spec => []BootInv
BY InitInv, StepInv, PTL DEF Spec

\* Stage 2 in memory is the one on the disk, for every geometry and every disk
\* laid out for it: load_img reads it in order and stage 2 keeps clear of it.
THEOREM LoaderAlwaysIntact == Spec => []LoaderIntact
<1>1. BootInv => LoaderIntact
  BY DEF BootInv
<1> QED BY <1>1, BootInvHolds, PTL

\* A kernel that is entered is whole and in order, whatever its chain, its
\* size and its disk are and whatever fails on the way (.load_loop,
\* .check_eoc32).
THEOREM KernelAlwaysWhole == Spec => []KernelWhole
<1>1. BootInv => KernelWhole
  BY DEF BootInv, KernelInv
<1> QED BY <1>1, BootInvHolds, PTL
-----------------------------------------------------------------------------
(* A sound disk boots. *)

Sound ==
  /\ faults = 0 /\ Listed(disk) /\ LongEnough(disk) /\ (disk.hdd => Active(disk) # {})

\* The scan has not passed the kernel's entry.
SoundInv ==
  /\ pc = "mbr" => disk.hdd
  /\ Sound =>
       /\ pc \notin Stops
       /\ pc = "scan" =>
            /\ slot.i + slot.cx = RootEntries(disk)
            /\ \A j \in 1..Len(disk.dir) : j <= slot.i => disk.dir[j] # "kernel"

LEMMA Geometry ==
  ASSUME NEW d \in Disks
  PROVE  d.fat32 => AtChs(Chs(d.hidden)) = d.hidden
<1> SUFFICES ASSUME d.fat32 PROVE AtChs(Chs(d.hidden)) = d.hidden
  OBVIOUS
<1> DEFINE m == Cyls * (Heads * Spt)
<1>1. m \in Nat
  BY Bounds, TimesNat
<1>2. Stage2Lba(d) + Stage2Count(d) <= m /\ Stage2Lba(d) = d.hidden + 2
  BY Stage2Below DEF Stage2Lba
<1>3. Stage2Count(d) \in Nat /\ d.hidden \in Nat
  BY Places, DiskBounds
<1> HIDE DEF m
<1>4. d.hidden < m
  BY <1>1, <1>2, <1>3
<1> QED BY <1>3, <1>4, ChsIn DEF m

LEMMA MbrSound ==
  ASSUME TypeInv, SoundInv, Mbr, faults' = 0, disk.hdd, Active(disk) # {} PROVE pc' = "vbr"
<1>1. disk \in Disks /\ faults \in Nat
  BY DEF TypeInv
<1>2. disk.table[SetMin(Active(disk))].lba = disk.hidden
  BY <1>1, LayoutAssumption DEF LaidOut
<1>3. BootPart(disk) = {disk.hidden}
  BY <1>2 DEF BootPart
<1>4. disk.fat32 /\ disk.hidden \in Nat /\ disk.hidden # Failed
  BY <1>1, DiskBounds DEF Failed
<1>5. AtChs(Chs(disk.hidden)) = disk.hidden
  BY <1>1, <1>4, Geometry
<1>6. ~Fault("early")
  BY <1>1 DEF Fault
<1>7. PICK l \in BootPart(disk) :
        LET got == IF edd \/ l = Failed THEN l ELSE AtChs(Chs(l))
        IN  pc' = IF got = disk.hidden THEN "vbr" ELSE "hung"
  BY <1>6 DEF Mbr
<1> QED BY <1>3, <1>4, <1>5, <1>7

\* load_img meets no address beyond the geometry.
LEMMA Stage1Found ==
  ASSUME TypeInv, Stage1Inv, pc = "stage1", img.n > 0
  PROVE  (IF edd THEN img.lba ELSE AtChs(img.at)) # Failed
<1> DEFINE l == Stage2Lba(disk)
           n == Stage2Count(disk)
           x == l + img.seg
           m == Cyls * (Heads * Spt)
           p == img.at
<1>1. disk \in Disks /\ img.lba \in Nat /\ img.seg \in Nat /\ img.n \in Nat
  BY DEF TypeInv
<1>2. CASE edd
  BY <1>1, <1>2 DEF Failed
<1>3. CASE ~edd
  <2>1. Position(p, x) /\ img.seg + img.n = n
    BY <1>3 DEF Stage1Inv
  <2>2. /\ p.s \in 1..Spt /\ p.h \in 0..Heads - 1 /\ p.c \in Nat /\ p.h \in Nat
        /\ (p.c * Heads + p.h) * Spt + p.s - 1 = x
    <3>1. /\ p.s \in 1..Spt /\ p.h \in 0..Heads - 1 /\ p.c \in 0..255
          /\ (p.c * Heads + p.h) * Spt + p.s - 1 = x
      BY <2>1 DEF Position
    <3> HIDE DEF p, x
    <3>2. p.c \in Nat /\ p.h \in Nat
      BY <3>1, Bounds
    <3> QED BY <3>1, <3>2
  <2>3. l \in Nat /\ n \in Nat /\ l + n <= m /\ m \in Nat
    BY <1>1, Places, Stage2Below, Bounds, TimesNat
  <2>4. x \in Nat /\ x < m
    <3> HIDE DEF l, n, m
    <3> QED BY <1>1, <2>1, <2>3
  <2> HIDE DEF x, p
  <2>5. p.c < Cyls
    BY <2>2, <2>4, Bounds, CylinderBelow
  <2>6. p.c \in 0..Cyls - 1
    BY <2>2, <2>5, Bounds
  <2>7. AtChs(p) = x
    BY <2>2, <2>6 DEF AtChs
  <2> QED BY <1>3, <2>4, <2>7 DEF Failed, p
<1> QED BY <1>2, <1>3

LEMMA RootHolds ==
  ASSUME NEW d \in Disks, NEW i \in Nat, i < RootEntries(d)
  PROVE  i \div PerSector \in Nat /\ i \div PerSector < RootSectors(d)
<1>1. i \div PerSector \in Nat
  BY Bounds, DivMod
<1>2. CASE d.fat32
  <2>1. i < d.spc * PerSector /\ d.spc \in Nat
    BY <1>2, DiskBounds DEF RootEntries
  <2>2. i \div PerSector < d.spc
    BY <2>1, Bounds, DivLess
  <2> QED BY <1>1, <1>2, <2>2 DEF RootSectors
<1>3. CASE ~d.fat32
  <2>1. i < d.rootEnts /\ d.rootEnts \in Nat
    BY <1>3, DiskBounds DEF RootEntries
  <2> DEFINE q == i \div PerSector
  <2>2. PerSector * q <= i
    <3>1. i = PerSector * q + (i % PerSector) /\ i % PerSector \in Nat
      BY Bounds, DivMod, DivModIs
    <3>2. PerSector * q \in Nat
      BY <1>1, Bounds, TimesNat
    <3> DEFINE z == PerSector * q
               r == i % PerSector
    <3>3. z \in Nat /\ r \in Nat /\ i = z + r
      BY <3>1, <3>2
    <3> HIDE DEF z, r
    <3>4. z <= i
      BY <3>3
    <3> QED BY <3>4 DEF z
  <2>3. q \in Nat
    BY <1>1
  <2> HIDE DEF q
  <2>4. q * PerSector = PerSector * q /\ PerSector * q \in Nat
    BY <2>3, Bounds, TimesNat
  <2>5. q * PerSector < d.rootEnts
    <3> DEFINE z == PerSector * q
    <3> HIDE DEF z
    <3>1. z \in Nat /\ z <= i /\ q * PerSector = z
      BY <2>2, <2>4 DEF z
    <3> QED BY <2>1, <3>1
  <2>6. q < Ceil(d.rootEnts, PerSector)
    BY <2>1, <2>3, <2>5, Bounds, CeilLess
  <2> QED BY <1>1, <1>3, <2>6 DEF RootSectors, RootDirSectors, q
<1> QED BY <1>2, <1>3

LEMMA ScanSound ==
  ASSUME BootInv, SoundInv, Sound, FindKernel PROVE SoundInv'
<1>1. /\ disk \in Disks /\ mem \in [0..MemTop - 1 -> Int] /\ slot.i \in Nat /\ slot.cx \in Nat
      /\ pc = "scan" /\ Copied(RootBuf, RootLba(disk), RootSectors(disk))
  BY DEF BootInv, TypeInv, KernelInv, FindKernel
<1>2. UNCHANGED <<disk, faults>>
  BY DEF FindKernel
<1>3. /\ slot.i + slot.cx = RootEntries(disk)
      /\ \A j \in 1..Len(disk.dir) : j <= slot.i => disk.dir[j] # "kernel"
  BY <1>1 DEF SoundInv
<1>4. Len(disk.dir) \in Nat
  <2>1. disk.dir \in Seq({"kernel", "other", "gone", "end"})
    BY <1>1, LayoutAssumption DEF LaidOut
  <2> QED BY <2>1, LenProperties
<1>5. PICK n \in 1..Len(disk.dir) : /\ n <= RootEntries(disk) /\ disk.dir[n] = "kernel"
                                    /\ \A j \in 1..n : disk.dir[j] # "end"
  BY DEF Sound, Listed
<1>6. slot.i < n /\ slot.i < RootEntries(disk) /\ slot.cx # 0 /\ slot.i < Len(disk.dir)
  <2>1. slot.i < n
    BY <1>1, <1>3, <1>4, <1>5
  <2>2. RootEntries(disk) \in Nat
    BY <1>1, <1>3
  <2> QED BY <1>1, <1>3, <1>4, <1>5, <2>1, <2>2
<1> DEFINE q == slot.i \div PerSector
<1>7. mem[RootBuf + q] = RootLba(disk) + q
  <2>1. q \in Nat /\ q < RootSectors(disk)
    BY <1>1, <1>6, RootHolds
  <2> HIDE DEF q
  <2> QED BY <1>1, <2>1 DEF Copied
<1>8. RootEntry(disk, slot.i, mem[RootBuf + q]) = {disk.dir[slot.i + 1]}
  BY <1>6, <1>7 DEF RootEntry
<1>9. disk.dir[slot.i + 1] # "end"
  <2>1. slot.i + 1 \in 1..n
    BY <1>1, <1>4, <1>5, <1>6
  <2> QED BY <1>5, <2>1
<1>10. CASE disk.dir[slot.i + 1] = "kernel"
  <2>1. pc' = "load"
    BY <1>6, <1>8, <1>10 DEF FindKernel
  <2> QED BY <2>1 DEF SoundInv, Stops
<1>11. CASE disk.dir[slot.i + 1] # "kernel"
  <2>1. slot' = [i |-> slot.i + 1, cx |-> slot.cx - 1] /\ pc' = pc
    <3>1. \E e \in {disk.dir[slot.i + 1]} :
            CASE e = "end" -> pc' = "not_found" /\ UNCHANGED <<scanning, ptr>>
              [] e = "kernel" ->
                   /\ pc' = "load" /\ cluster' = disk.first /\ left' = disk.size
                   /\ ptr' = [es |-> Gap, bx |-> 0] /\ UNCHANGED slot
              [] OTHER ->
                   /\ slot' = [i |-> slot.i + 1, cx |-> slot.cx - 1]
                   /\ UNCHANGED <<pc, cluster, left, ptr>>
      BY <1>6, <1>8 DEF FindKernel
    <3> DEFINE e == disk.dir[slot.i + 1]
    <3>2. e # "end" /\ e # "kernel"
      BY <1>9, <1>11
    <3> HIDE DEF e
    <3>3. CASE e = "end"
      BY <3>2, <3>3
    <3>4. CASE e # "end"
      <4>1. \E x \in {e} :
            CASE x = "end" -> pc' = "not_found" /\ UNCHANGED <<scanning, ptr>>
              [] x = "kernel" ->
                   /\ pc' = "load" /\ cluster' = disk.first /\ left' = disk.size
                   /\ ptr' = [es |-> Gap, bx |-> 0] /\ UNCHANGED slot
              [] OTHER ->
                   /\ slot' = [i |-> slot.i + 1, cx |-> slot.cx - 1]
                   /\ UNCHANGED <<pc, cluster, left, ptr>>
        BY <3>1 DEF e
      <4> QED BY <3>2, <4>1
    <3> QED BY <3>3, <3>4
  <2>2. slot.i + 1 + (slot.cx - 1) = RootEntries(disk)
    <3> DEFINE a == slot.i
               b == slot.cx
    <3>1. a \in Nat /\ b \in Nat /\ a + b = RootEntries(disk)
      BY <1>1, <1>3
    <3> HIDE DEF a, b
    <3>2. a + 1 + (b - 1) = a + b
      BY <3>1
    <3> QED BY <3>1, <3>2 DEF a, b
  <2>3. ASSUME NEW j \in 1..Len(disk.dir), j <= slot.i + 1 PROVE disk.dir[j] # "kernel"
    <3>1. j <= slot.i \/ j = slot.i + 1
      BY <1>1, <1>4, <2>3
    <3> QED BY <1>3, <1>11, <3>1
  <2>4. slot'.i + slot'.cx = RootEntries(disk)
    BY <2>1, <2>2
  <2> QED BY <1>1, <1>2, <2>1, <2>3, <2>4 DEF SoundInv, Stops
<1> QED BY <1>10, <1>11

\* A chain that holds the size does not end while bytes are left.
LEMMA FollowSound ==
  ASSUME BootInv, SoundInv, Sound, Follow PROVE pc' = "load"
<1>1. disk \in Disks /\ LongEnough(disk)
  BY DEF BootInv, TypeInv, Sound
<1>2. PICK k \in Nat : /\ Progress(k + 1)
                       /\ left # 0 => cluster' = Chain(disk)[k + 1] /\ FatIntact
  BY FollowLink
<1>3. SUFFICES ASSUME left # 0 PROVE cluster' # Eoc
  BY DEF Follow
<1> DEFINE s == Sectors(disk)
           j == (s - 1) \div disk.spc
<1>4. s \in Nat /\ s > 0 /\ s - 1 \in Nat /\ k + 1 \in Nat /\ Loaded(disk, k + 1) \in Nat
  BY <1>1, KernelFits, LoadedSteps
<1>5. Loaded(disk, k + 1) < s
  <2>1. k + 1 \in Nat /\ left = Left(disk, k + 1)
    BY <1>2 DEF Progress
  <2> QED BY <1>1, <1>3, <2>1, LeftSteps
<1>6. j \in Nat /\ (j < k + 1 <=> s - 1 < Loaded(disk, k + 1))
  BY <1>1, <1>4, ClusterOf
<1>7. k + 1 <= j
  <2> HIDE DEF s, j
  <2> QED BY <1>4, <1>5, <1>6
<1>8. j <= s
  <2>1. disk.spc \in Nat /\ disk.spc > 0
    BY <1>1, DiskBounds
  <2>2. j < s <=> s - 1 < Loaded(disk, s)
    BY <1>1, <1>4, ClusterOf
  <2>3. s <= Loaded(disk, s) /\ Loaded(disk, s) \in Nat
    BY <1>1, <1>4, LoadedSteps
  <2> HIDE DEF s, j
  <2> QED BY <1>4, <1>6, <2>2, <2>3
<1>9. Chain(disk)[j] # Eoc
  BY <1>1 DEF LongEnough
<1>10. j \in Nat /\ k + 1 \in Nat
  BY <1>4, <1>6
<1> HIDE DEF j
<1>11. Chain(disk)[k + 1] # Eoc
  <2>1. j <= Sectors(disk)
    BY <1>8
  <2> QED BY <1>1, <1>7, <1>9, <1>10, <2>1, ChainEnds
<1> QED BY <1>2, <1>3, <1>11

LEMMA SoundStep == ASSUME BootInv, SoundInv, [Next]_vars PROVE SoundInv'
<1>1. CASE UNCHANGED vars
  BY <1>1 DEF SoundInv, Sound, vars
<1>2. ASSUME Next PROVE SoundInv'
  <2>1. disk' = disk /\ faults \in Nat /\ TypeInv /\ disk \in Disks
    BY <1>2 DEF BootInv, TypeInv, Next, Step, Mbr, LoadImg, ReadData, Stage1Done, Sima,
                ReadSector, ReadDone, FindKernel, LoadLoop, NextCluster32, Follow, KernelLoaded,
                Reboot
  <2>2. pc' = "mbr" => disk'.hdd
    <3>1. CASE Reboot
      BY <3>1 DEF Reboot
    <3>2. CASE Step
      <4>1. pc' # "mbr" \/ pc' = pc
        <5>1. CASE Mbr \/ LoadImg \/ Stage1Done \/ Sima \/ LoadLoop \/ NextCluster32
          BY <5>1 DEF Mbr, LoadImg, Stage1Done, Sima, LoadLoop, NextCluster32, CallRead
        <5>2. CASE ReadData
          BY <5>2 DEF ReadData
        <5>3. CASE ReadSector
          BY <2>1, <5>3, SectorRead
        <5>4. CASE ReadDone
          <6>1. io.back \in {"root", "scan", "kernel", "entry32"}
            BY <2>1, <5>4 DEF TypeInv, ReadDone
          <6> QED BY <5>4, <6>1 DEF ReadDone, CallRead
        <5>5. CASE FindKernel
          BY <5>5 DEF FindKernel
        <5>6. CASE Follow \/ KernelLoaded
          BY <5>6 DEF Follow, KernelLoaded
        <5> QED BY <3>2, <5>1, <5>2, <5>3, <5>4, <5>5, <5>6 DEF Step
      <4> QED BY <2>1, <4>1 DEF SoundInv
    <3> QED BY <1>2, <3>1, <3>2 DEF Next
  <2>3. SUFFICES ASSUME Sound'
                 PROVE  /\ pc' \notin Stops
                        /\ pc' = "scan" =>
                             /\ slot'.i + slot'.cx = RootEntries(disk)
                             /\ \A j \in 1..Len(disk.dir) : j <= slot'.i => disk.dir[j] # "kernel"
    BY <2>1, <2>2 DEF SoundInv
  <2>4. faults' = 0
    BY <2>3 DEF Sound
  <2>5. \A k : ~Fault(k)
    BY <2>1, <2>4 DEF Fault
  <2>6. faults = 0
    <3>1. CASE ReadSector
      BY <2>1, <2>4, <3>1, SectorRead
    <3>2. CASE ReadData
      BY <2>1, <2>4, <3>2 DEF ReadData
    <3>3. CASE ~ReadSector /\ ~ReadData
      <4>1. faults' = faults
        BY <1>2, <2>5, <3>3
           DEF Next, Step, Mbr, LoadImg, Stage1Done, Sima, ReadDone, FindKernel, LoadLoop,
               NextCluster32, Follow, KernelLoaded, Reboot
      <4> QED BY <2>4, <4>1
    <3> QED BY <3>1, <3>2, <3>3
  <2>7. Sound
    BY <2>1, <2>3, <2>6 DEF Sound
  <2>8. CASE Mbr
    <3>1. disk.hdd
      BY <2>8 DEF SoundInv, Mbr
    <3>2. pc' = "vbr"
      BY <2>1, <2>4, <2>7, <2>8, <3>1, MbrSound DEF Sound
    <3> QED BY <3>2 DEF Stops
  <2>9. CASE LoadImg
    <3>1. pc' = "stage1"
      BY <2>5, <2>9 DEF LoadImg
    <3> QED BY <3>1 DEF Stops
  <2>10. CASE ReadData
    <3>1. pc = "stage1" /\ (IF edd THEN img.lba ELSE AtChs(img.at)) # Failed
      BY <2>10, <2>1, Stage1Found DEF BootInv, ReadData
    <3>2. pc' = pc
      BY <2>4, <2>6, <2>10, <3>1 DEF ReadData
    <3> QED BY <3>1, <3>2 DEF Stops
  <2>11. CASE Stage1Done
    BY <2>11 DEF Stage1Done, Stops
  <2>12. CASE Sima
    <3>1. pc' = "read"
      BY <2>5, <2>12 DEF Sima, CallRead
    <3> QED BY <3>1 DEF Stops
  <2>13. CASE ReadSector
    <3>1. pc' = "read"
      BY <2>1, <2>4, <2>6, <2>13, SectorRead
    <3> QED BY <3>1 DEF Stops
  <2>14. CASE ReadDone
    <3>1. CASE io.back = "scan"
      <4>1. pc' = "scan" /\ slot' = [i |-> 0, cx |-> RootEntries(disk)]
        BY <2>14, <3>1 DEF ReadDone
      <4>2. RootEntries(disk) \in Nat
        BY <2>1, DiskBounds, Bounds, TimesNat DEF RootEntries
      <4>3. slot'.i = 0 /\ slot'.cx = RootEntries(disk) /\ 0 + RootEntries(disk) = RootEntries(disk)
        BY <4>1, <4>2
      <4>4. slot'.i + slot'.cx = RootEntries(disk)
        BY <4>3
      <4>5. \A j \in 1..Len(disk.dir) : ~(j <= 0)
        OBVIOUS
      <4> QED BY <4>1, <4>3, <4>4, <4>5 DEF Stops
    <3>2. CASE io.back # "scan"
      <4>1. io.back \in {"root", "kernel", "entry32"}
        BY <2>1, <2>14, <3>2 DEF TypeInv, ReadDone
      <4>2. pc' \in {"read", "next", "follow"}
        BY <2>14, <4>1 DEF ReadDone, CallRead
      <4> QED BY <4>2 DEF Stops
    <3> QED BY <3>1, <3>2
  <2>15. CASE FindKernel
    BY <2>1, <2>3, <2>7, <2>15, ScanSound DEF SoundInv
  <2>16. CASE LoadLoop
    BY <2>16 DEF LoadLoop, CallRead, Stops
  <2>17. CASE NextCluster32
    BY <2>17 DEF NextCluster32, CallRead, Stops
  <2>18. CASE Follow
    BY <2>7, <2>18, FollowSound DEF Stops
  <2>19. CASE KernelLoaded
    <3>1. EntrySec \in 0..Sectors(disk) - 1 /\ pc = "loaded"
      BY <2>1, <2>19, KernelFits, Bounds DEF KernelLoaded
    <3>2. mem[Gap + EntrySec] = KernelLba(disk, EntrySec)
      BY <3>1, LoadedWhole
    <3>3. pc' = "kernel"
      BY <2>19, <3>2 DEF KernelLoaded
    <3> QED BY <3>3 DEF Stops
  <2>20. CASE Reboot
    <3>1. pc \in Stops
      BY <2>20 DEF Reboot, Stops
    <3> QED BY <2>7, <3>1 DEF SoundInv
  <2> QED BY <1>2, <2>8, <2>9, <2>10, <2>11, <2>12, <2>13, <2>14, <2>15, <2>16, <2>17, <2>18,
             <2>19, <2>20 DEF Next, Step
<1> QED BY <1>1, <1>2

\* The kernel finds the volume stage 2 loaded it from.
LEMMA MountsVolume ==
  ASSUME NEW d \in Disks, d.hdd, Active(d) # {}
  PROVE  Mounted(d) = {[fat |-> FatStart(d), data |-> DataStart(d), type |-> "fat32"]}
<1> DEFINE used == {i \in 1..Len(d.table) : d.table[i].lba # 0}
           on == used \cap Active(d)
           first == SetMin(Active(d))
<1>1. /\ d.fat32 /\ d.root \in Clusters(d) /\ d.rootEnts = 0 /\ d.hidden > 0
      /\ d.table[first].lba = d.hidden /\ Clusters(d) \subseteq Nat \ {0, 1}
      /\ d.reserved + d.fats * d.fatSecs < d.total
  BY LayoutAssumption, DiskBounds DEF LaidOut
<1>2. Active(d) \subseteq Nat /\ Active(d) \subseteq 1..Len(d.table)
  BY DEF Active
<1>3. first \in Active(d) /\ \A j \in Active(d) : first <= j
  <2>1. \E x \in Active(d) : \A y \in Active(d) : x <= y
    BY <1>2, LeastNat
  <2> QED BY <2>1 DEF SetMin
<1> HIDE DEF first
<1>4. first \in on
  BY <1>1, <1>2, <1>3
<1>5. SetMin(on) = first
  <2>1. on \subseteq Active(d)
    OBVIOUS
  <2>2. \A i \in on : (\A j \in on : i <= j) => i = first
    <3> HIDE DEF on
    <3> QED BY <1>2, <1>3, <1>4, <2>1
  <2> HIDE DEF on
  <2> QED BY <1>3, <1>4, <2>1, <2>2 DEF SetMin
<1>6. PartitionStart(d) = d.hidden
  BY <1>1, <1>4, <1>5 DEF PartitionStart
<1> DEFINE r == d.reserved + d.fats * d.fatSecs
           base == d.hidden
           fat == base + d.reserved
           rootSecs == Ceil(d.rootEnts, PerSector)
           data == fat + d.fats * d.fatSecs + rootSecs
           clusters == (d.total - (data - base)) \div d.spc
           type == FatType(clusters)
<1>7. rootSecs = 0
  <2>1. rootSecs \in Nat
    BY DiskBounds, Bounds, CeilNat
  <2>2. 0 < rootSecs <=> 0 * PerSector < d.rootEnts
    BY DiskBounds, Bounds, CeilLess
  <2>3. 0 * PerSector = 0
    BY Bounds
  <2> HIDE DEF rootSecs
  <2> QED BY <1>1, <2>1, <2>2, <2>3
<1>8. /\ data = d.hidden + r /\ data - base = r /\ d.total - (data - base) = d.total - r
      /\ data = DataStart(d) /\ fat = FatStart(d)
  <2> DEFINE z == d.fats * d.fatSecs
  <2>1. z \in Nat
    BY DiskBounds, TimesNat
  <2>2. DataStart(d) = d.hidden + d.reserved + z + 0
    BY <1>1 DEF DataStart, RootStart, FatStart, RootDirSectors
  <2>3. data = d.hidden + d.reserved + z + 0 /\ r = d.reserved + z
    BY <1>7
  <2>4. fat = FatStart(d)
    BY DEF FatStart
  <2> HIDE DEF z, r, data
  <2> QED BY <2>1, <2>2, <2>3, <2>4, DiskBounds
<1>9. (d.total - r) \div d.spc >= Fat32Min
  <2>1. (d.total - d.reserved - d.fats * d.fatSecs) \div d.spc >= Fat32Min
    BY <1>1, BootAssumption
  <2>2. d.total - r = d.total - d.reserved - d.fats * d.fatSecs
    <3> DEFINE z == d.fats * d.fatSecs
    <3>1. z \in Nat
      BY DiskBounds, TimesNat
    <3> HIDE DEF z
    <3>2. d.total - (d.reserved + z) = d.total - d.reserved - z
      BY <3>1, DiskBounds
    <3> QED BY <3>2 DEF z
  <2> QED BY <2>1, <2>2
<1>10. type = "fat32"
  <2>1. Fat16Min \in Nat /\ Fat32Min \in Nat /\ Fat16Min <= Fat32Min
    BY BootAssumption
  <2>2. clusters >= Fat32Min /\ clusters \in Nat
    <3>1. d.total - r \in Nat
      <4> DEFINE z == d.fats * d.fatSecs
      <4>1. z \in Nat /\ d.reserved + z < d.total
        BY <1>1, DiskBounds, TimesNat
      <4> HIDE DEF z
      <4>2. d.total - (d.reserved + z) \in Nat
        BY <4>1, DiskBounds
      <4> QED BY <4>2 DEF z
    <3> HIDE DEF r
    <3>2. (d.total - r) \div d.spc \in Nat
      BY <3>1, DiskBounds, DivMod
    <3> QED BY <1>8, <1>9, <3>2
  <2> HIDE DEF clusters
  <2>3. ~(clusters < Fat16Min) /\ ~(clusters < Fat32Min)
    BY <2>1, <2>2
  <2> QED BY <2>3 DEF FatType
<1>11. r < d.total /\ d.root >= 2
  BY <1>1
<1> HIDE DEF type, data, fat, r
<1>12. Mounted(d) =
         IF \/ base # d.hidden \/ data - base >= d.total
            \/ type = "fat32" /\ d.root < 2
         THEN {} ELSE {[fat |-> fat, data |-> data, type |-> type]}
  BY <1>6 DEF Mounted, type, data, fat
<1>13. ~(data - base >= d.total) /\ ~(d.root < 2)
  <2>1. r \in Int /\ d.total \in Nat /\ d.root \in Nat
    <3>1. d.fats * d.fatSecs \in Nat
      BY DiskBounds, TimesNat
    <3> QED BY <1>1, <3>1, DiskBounds DEF r
  <2> QED BY <1>8, <1>11, <2>1
<1> QED BY <1>8, <1>10, <1>12, <1>13

\* Without a failing call no error stop is reached on a sound disk, whatever
\* its geometry, its clusters and its directory are, and the kernel finds its
\* volume (.find_kernel, .check_eoc32, fat_load_bpb).
THEOREM SoundAlwaysBoots == Spec => []SoundBoots
<1>1. Init => SoundInv
  <2> SUFFICES ASSUME Init PROVE SoundInv
    OBVIOUS
  <2>1. pc = IF disk.hdd THEN "mbr" ELSE "vbr"
    BY DEF Init
  <2> QED BY <2>1 DEF SoundInv, Stops
<1>2. BootInv /\ SoundInv /\ [Next]_vars => SoundInv'
  BY SoundStep
<1>3. BootInv /\ SoundInv => SoundBoots
  <2> SUFFICES ASSUME BootInv, SoundInv, Sound
               PROVE  /\ pc \notin Stops
                      /\ pc = "kernel" /\ disk.hdd =>
                           Mounted(disk) = {[fat |-> FatStart(disk), data |-> DataStart(disk),
                                             type |-> "fat32"]}
    BY DEF SoundBoots, Sound, Stops
  <2>1. disk \in Disks
    BY DEF BootInv, TypeInv
  <2> QED BY <2>1, MountsVolume DEF SoundInv, Sound
<1> QED BY <1>1, <1>2, <1>3, BootInvHolds, PTL DEF Spec
=============================================================================
