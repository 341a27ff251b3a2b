-------------------------- MODULE InstallerProofs --------------------------
(***************************************************************************)
(* The installer, for every set of floppies and disk sizes that an         *)
(* installation fits (Installable), any number of runs and faults.         *)
(*                                                                         *)
(* The invariant says what the disk holds or will hold once the queue of   *)
(* the running procedure is done (WillBe, WillLink), part after part in    *)
(* the order of the installation, and that what is queued stays within its *)
(* own sectors and clusters.  A fault freezes the disk anywhere, so it     *)
(* must also say that nothing of the old system is left to boot before     *)
(* anything of the new one is there (ClearInv): the first sector of the    *)
(* FAT that is cleared unlinks the old kernel, which lies at cluster 3     *)
(* because the layout depends on the size of the disk alone (SettledOnce). *)
(*                                                                         *)
(* The last part reads an installation that is there as the boot loader    *)
(* and the kernel do, and finds it whole.                                  *)
(***************************************************************************)
EXTENDS Installer, SequenceTheorems, Induction, TLAPS

(* Sequences of operations. *)

\* o is one of the operations of T.
InSeq(T, o) == \E i \in 1..Len(T) : T[i] = o
IsSeq(T) == \E U : T \in Seq(U)

\* An empty queue.
LEMMA EmptyHas == IsSeq(<<>>) /\ \A o : ~InSeq(<<>>, o)
BY DEF InSeq, IsSeq

\* A sequence given by a table of its members.
LEMMA TableSeq ==
  ASSUME NEW m \in Nat, NEW T, T = [i \in 1..m |-> T[i]]
  PROVE  /\ IsSeq(T) /\ Len(T) = m
         /\ \A o : InSeq(T, o) <=> \E i \in 1..m : T[i] = o
<1> DEFINE U == {T[i] : i \in 1..m}
<1>1. T \in [1..m -> U]
  OBVIOUS
<1>2. T \in Seq(U)
  BY <1>1, IsASeq
<1>3. Len(T) = m
  BY <1>1, <1>2, LenProperties
<1> QED
  BY <1>2, <1>3 DEF InSeq, IsSeq

LEMMA HeadTailHas ==
  ASSUME NEW T, IsSeq(T), T # <<>>
  PROVE  /\ IsSeq(Tail(T)) /\ InSeq(T, Head(T))
         /\ \A o : InSeq(T, o) <=> o = Head(T) \/ InSeq(Tail(T), o)
<1>1. PICK U : T \in Seq(U)
  BY DEF IsSeq
<1>2. /\ Head(T) = T[1] /\ Tail(T) \in Seq(U)
      /\ Len(Tail(T)) = Len(T) - 1
      /\ \A i \in 1..Len(Tail(T)) : Tail(T)[i] = T[i + 1]
  BY <1>1, HeadTailProperties
<1>3. Len(T) \in Nat /\ Len(T) > 0
  BY <1>1, LenProperties, EmptySeq
<1>4. ASSUME NEW o, InSeq(T, o) PROVE o = Head(T) \/ InSeq(Tail(T), o)
  <2>1. PICK i \in 1..Len(T) : T[i] = o
    BY <1>4 DEF InSeq
  <2>2. CASE i = 1
    BY <2>1, <2>2, <1>2
  <2>3. CASE i # 1
    <3>1. i - 1 \in 1..Len(Tail(T)) /\ (i - 1) + 1 = i
      BY <2>3, <1>2, <1>3
    <3> QED BY <3>1, <2>1, <1>2 DEF InSeq
  <2> QED BY <2>2, <2>3
<1>5. ASSUME NEW o, InSeq(Tail(T), o) PROVE InSeq(T, o)
  <2>1. PICK i \in 1..Len(Tail(T)) : Tail(T)[i] = o
    BY <1>5 DEF InSeq
  <2>2. i + 1 \in 1..Len(T) /\ T[i + 1] = o
    BY <2>1, <1>2, <1>3
  <2> QED BY <2>2 DEF InSeq
<1>6. InSeq(T, Head(T))
  BY <1>2, <1>3 DEF InSeq
<1> QED
  BY <1>2, <1>4, <1>5, <1>6 DEF IsSeq

\* What a concatenation holds, and a flattened sequence.
LEMMA ConcatHas ==
  ASSUME NEW T, IsSeq(T), NEW R, IsSeq(R)
  PROVE  /\ IsSeq(T \o R)
         /\ \A o : InSeq(T \o R, o) <=> InSeq(T, o) \/ InSeq(R, o)
<1>1. PICK A : T \in Seq(A)
  BY DEF IsSeq
<1>2. PICK B : R \in Seq(B)
  BY DEF IsSeq
<1> DEFINE U == A \cup B
<1>3. T \in Seq(U) /\ R \in Seq(U)
  BY <1>1, <1>2
<1> HIDE DEF U
<1>4. /\ T \o R \in Seq(U)
      /\ Len(T \o R) = Len(T) + Len(R)
      /\ \A i \in 1..Len(T) + Len(R) : (T \o R)[i] =
           IF i <= Len(T) THEN T[i] ELSE R[i - Len(T)]
  BY <1>3, ConcatProperties
<1>5. Len(T) \in Nat /\ Len(R) \in Nat
  BY <1>3, LenProperties
<1>6. ASSUME NEW o, InSeq(T \o R, o) PROVE InSeq(T, o) \/ InSeq(R, o)
  <2>1. PICK i \in 1..Len(T) + Len(R) : (T \o R)[i] = o
    BY <1>6, <1>4 DEF InSeq
  <2>2. CASE i <= Len(T)
    BY <2>1, <2>2, <1>4, <1>5 DEF InSeq
  <2>3. CASE ~(i <= Len(T))
    <3>1. i - Len(T) \in 1..Len(R)
      BY <2>3, <1>5
    <3> QED BY <3>1, <2>1, <2>3, <1>4 DEF InSeq
  <2> QED BY <2>2, <2>3
<1>7. ASSUME NEW o, InSeq(T, o) PROVE InSeq(T \o R, o)
  <2>1. PICK i \in 1..Len(T) : T[i] = o
    BY <1>7 DEF InSeq
  <2>2. i \in 1..Len(T) + Len(R) /\ i <= Len(T)
    BY <1>5
  <2> QED BY <2>1, <2>2, <1>4 DEF InSeq
<1>8. ASSUME NEW o, InSeq(R, o) PROVE InSeq(T \o R, o)
  <2>1. PICK i \in 1..Len(R) : R[i] = o
    BY <1>8 DEF InSeq
  <2>2. /\ i + Len(T) \in 1..Len(T) + Len(R)
        /\ ~(i + Len(T) <= Len(T)) /\ (i + Len(T)) - Len(T) = i
    BY <1>5
  <2> QED BY <2>1, <2>2, <1>4 DEF InSeq
<1> QED
  BY <1>4, <1>6, <1>7, <1>8 DEF IsSeq

\* FlattenSeq puts the sequences of a table one after the other.
LEMMA FlattenSteps ==
  ASSUME NEW m \in Nat \ {0}, NEW B, B = [i \in 1..m |-> B[i]]
  PROVE  \E g : /\ g[1] = B[1]
                /\ \A i \in 2..m : g[i] = g[i - 1] \o B[i]
                /\ FlattenSeq(B) = g[m]
<1> DEFINE Is(i, g) == IF i = 1 THEN B[1] ELSE g[i - 1] \o B[i]
           S == {j \in Nat : \E g : \A i \in 1..j : g[i] = Is(i, g)}
<1>1. 0 \in S
  OBVIOUS
<1>2. ASSUME NEW j \in Nat, j \in S PROVE j + 1 \in S
  <2>1. PICK g : \A i \in 1..j : g[i] = Is(i, g)
    BY <1>2
  <2> DEFINE h == [i \in 1..j + 1 |-> IF i = j + 1 THEN Is(i, g) ELSE g[i]]
  <2>2. \A i \in 1..j : h[i] = g[i]
    OBVIOUS
  <2>3. h[j + 1] = Is(j + 1, g)
    OBVIOUS
  <2> HIDE DEF h
  <2>4. \A i \in 1..j + 1 : h[i] = Is(i, h)
    <3> SUFFICES ASSUME NEW i \in 1..j + 1 PROVE h[i] = Is(i, h)
      OBVIOUS
    <3>0. h[i] = Is(i, g)
      <4>1. i \in 1..j \/ i = j + 1
        OBVIOUS
      <4> HIDE DEF Is
      <4> QED BY <4>1, <2>1, <2>2, <2>3
    <3>1. CASE i = 1
      BY <3>0, <3>1
    <3>2. CASE i # 1
      <4>1. i - 1 \in 1..j /\ h[i - 1] = g[i - 1]
        BY <3>2, <2>2
      <4>2. h[i] = g[i - 1] \o B[i]
        BY <3>0, <3>2
      <4> QED BY <4>1, <4>2, <3>2
    <3> QED BY <3>1, <3>2
  <2> HIDE DEF Is
  <2> QED BY <2>4
<1>3. m \in S
  <2> HIDE DEF S
  <2> QED BY <1>1, <1>2, NatSetInduction
<1>4. PICK g : \A i \in 1..m : g[i] = Is(i, g)
  BY <1>3
<1>5. Len(B) = m
  BY TableSeq
<1> DEFINE G == [i \in 1..Len(B) |-> g[i]]
           Built(f) == [i \in 1..Len(B) |-> IF i = 1 THEN B[i] ELSE f[i - 1] \o B[i]]
<1>6. \A i \in 1..m : G[i] = Is(i, G)
  <2>1. \A i \in 1..m : G[i] = g[i]
    BY <1>5
  <2>2. \A i \in 1..m : i # 1 => i - 1 \in 1..m
    OBVIOUS
  <2> HIDE DEF G
  <2> QED BY <1>4, <2>1, <2>2
<1>7. G = Built(G)
  <2>1. G = [i \in 1..Len(B) |-> G[i]]
    OBVIOUS
  <2> HIDE DEF G
  <2>2. \A i \in 1..Len(B) : G[i] = IF i = 1 THEN B[i] ELSE G[i - 1] \o B[i]
    BY <1>5, <1>6
  <2> QED BY <2>1, <2>2
<1> DEFINE C == CHOOSE f : f = Built(f)
<1>8. C = Built(C)
  <2> HIDE DEF G, Built
  <2> QED BY <1>7
<1>9. FlattenSeq(B) = C[Len(B)]
  BY <1>5 DEF FlattenSeq
<1>10. \A i \in 1..m : C[i] = IF i = 1 THEN B[i] ELSE C[i - 1] \o B[i]
  <2> HIDE DEF C
  <2> QED BY <1>8, <1>5
<1> HIDE DEF C
<1>11. /\ C[1] = B[1]
       /\ \A i \in 2..m : C[i] = C[i - 1] \o B[i]
  <2>1. 1 \in 1..m /\ \A i \in 2..m : i \in 1..m /\ i # 1
    OBVIOUS
  <2> QED BY <2>1, <1>10
<1> QED BY <1>5, <1>9, <1>11

LEMMA FlattenHas ==
  ASSUME NEW m \in Nat, NEW B, B = [i \in 1..m |-> B[i]], \A i \in 1..m : IsSeq(B[i])
  PROVE  /\ IsSeq(FlattenSeq(B))
         /\ \A o : InSeq(FlattenSeq(B), o) <=> \E i \in 1..m : InSeq(B[i], o)
<1>1. CASE m = 0
  <2>1. Len(B) = 0 /\ B = <<>>
    BY <1>1, TableSeq
  <2>2. FlattenSeq(B) = <<>>
    BY <2>1 DEF FlattenSeq
  <2> QED BY <1>1, <2>2, EmptyHas
<1>2. CASE m # 0
  <2>1. PICK g : /\ g[1] = B[1]
                 /\ \A i \in 2..m : g[i] = g[i - 1] \o B[i]
                 /\ FlattenSeq(B) = g[m]
    BY <1>2, FlattenSteps
  <2> DEFINE Ok(j) == /\ IsSeq(g[j])
                      /\ \A o : InSeq(g[j], o) <=> \E i \in 1..j : InSeq(B[i], o)
             S == {j \in Nat : j \in 1..m => Ok(j)}
  <2>2. 0 \in S
    OBVIOUS
  <2>3. ASSUME NEW j \in Nat, j \in S PROVE j + 1 \in S
    <3> SUFFICES ASSUME j + 1 \in 1..m PROVE Ok(j + 1)
      OBVIOUS
    <3>1. CASE j = 0
      BY <3>1, <2>1
    <3>2. CASE j # 0
      <4>1. Ok(j) /\ j + 1 \in 2..m /\ (j + 1) - 1 = j
        BY <3>2, <2>3
      <4>2. g[j + 1] = g[j] \o B[j + 1]
        BY <4>1, <2>1
      <4>3. IsSeq(B[j + 1])
        OBVIOUS
      <4>4. /\ IsSeq(g[j + 1])
            /\ \A o : InSeq(g[j + 1], o) <=> InSeq(g[j], o) \/ InSeq(B[j + 1], o)
        BY <4>1, <4>2, <4>3, ConcatHas
      <4>5. ASSUME NEW o
            PROVE  InSeq(g[j + 1], o) <=> \E i \in 1..j + 1 : InSeq(B[i], o)
        <5>1. \A i \in 1..j + 1 : i \in 1..j \/ i = j + 1
          OBVIOUS
        <5>2. 1..j \subseteq 1..j + 1 /\ j + 1 \in 1..j + 1
          OBVIOUS
        <5>3. InSeq(g[j], o) <=> \E i \in 1..j : InSeq(B[i], o)
          BY <4>1
        <5> QED BY <4>4, <5>1, <5>2, <5>3
      <4> QED BY <4>4, <4>5
    <3> QED BY <3>1, <3>2
  <2>4. m \in S
    <3> HIDE DEF S
    <3> QED BY <2>2, <2>3, NatSetInduction
  <2> QED BY <2>1, <2>4, <1>2
<1> QED BY <1>1, <1>2
-----------------------------------------------------------------------------
(* Arithmetic. *)

\* The assumptions on the constants, one by one.
LEMMA Sizes ==
  /\ PartStart \in Nat /\ PartStart > 0 /\ Res \in Nat /\ Res >= 2 + Stage2Max
  /\ Stage2Max \in Nat /\ MinClusters \in Nat /\ BinMax \in Nat /\ MaxUsers \in Nat
  /\ BufSeg \in Nat /\ Fat32Min \in Nat
  /\ WordSize \in Nat \ {0} /\ PerSec \in Nat \ {0} /\ DirSlots \in Nat \ {0}
  /\ MaxSpc \in Nat \ {0}
  /\ HddSizes \subseteq Nat /\ \A s \in HddSizes : s >= PartStart + Res
BY InstallerAssumption

LEMMA DivModIs ==
  ASSUME NEW a \in Nat, NEW b \in Nat, b > 0
  PROVE  a = b * (a \div b) + (a % b)
OBVIOUS

\* Division with a remainder, and how Ceil rounds up.
LEMMA DivMod ==
  ASSUME NEW a \in Nat, NEW b \in Nat \ {0}
  PROVE  /\ a \div b \in Nat /\ a % b \in 0..b - 1
         /\ a = b * (a \div b) + (a % b)
<1>1. a \div b \in Nat
  OBVIOUS
<1>2. a % b \in 0..b - 1
  OBVIOUS
<1>3. a = b * (a \div b) + (a % b)
  BY DivModIs
<1> QED BY <1>1, <1>2, <1>3

LEMMA DivLess ==
  ASSUME NEW a \in Nat, NEW b \in Nat \ {0}, NEW m \in Nat
  PROVE  a \div b < m <=> a < m * b
OBVIOUS

LEMMA DivMonotone ==
  ASSUME NEW a \in Nat, NEW b \in Nat \ {0}, NEW c \in Nat, a <= c
  PROVE  a \div b <= c \div b
OBVIOUS

LEMMA CeilIs ==
  ASSUME NEW a \in Nat, NEW b \in Nat \ {0}
  PROVE  /\ Ceil(a, b) \in Nat /\ a <= Ceil(a, b) * b
         /\ Ceil(a, b) * b < a + b /\ (a > 0 => Ceil(a, b) > 0)
<1>1. a + b - 1 \in Nat
  OBVIOUS
<1> DEFINE q == (a + b - 1) \div b
<1>2. /\ q \in Nat /\ (a + b - 1) % b \in 0..b - 1
      /\ a + b - 1 = b * q + ((a + b - 1) % b)
  BY <1>1, DivMod
<1> DEFINE m == (a + b - 1) % b
           t == q * b
<1>3. q \in Nat /\ m \in 0..b - 1 /\ a + b - 1 = t + m
  BY <1>2 DEF q
<1>4. a > 0 => q > 0
  <2>1. q = 0 => t = 0
    BY <1>2 DEF t
  <2> HIDE DEF m, t
  <2> QED BY <1>3, <2>1
<1>5. a <= t /\ t < a + b
  <2>1. t \in Nat
    BY <1>3
  <2> HIDE DEF m, t
  <2> QED BY <1>3, <2>1
<1> QED BY <1>3, <1>4, <1>5 DEF Ceil, q

LEMMA CeilNat ==
  ASSUME NEW a \in Nat, NEW b \in Nat \ {0}
  PROVE  Ceil(a, b) \in Nat /\ (a > 0 => Ceil(a, b) > 0)
BY CeilIs

LEMMA TimesLess ==
  ASSUME NEW a \in Nat, NEW b \in Nat, NEW m \in Nat, a <= b
  PROVE  a * m <= b * m /\ a * m \in Nat
OBVIOUS
-----------------------------------------------------------------------------
(* The layout of the hard disk: n sectors to a FAT, k to a cluster.         *)

DataStart(n) == PartStart + Res + 2 * n
\* The first sector of cluster c.
Start(k, n, c) == DataStart(n) + (c - 2) * k
\* Where the second copy of the FAT sector of c goes.
MirrorAt(n, c) == High(FatLba(c) + n) + BufSeg

Sec(D, l) == IF l \in DOMAIN D THEN D[l] ELSE Old
\* The FAT's entry of c.
Ent(D, c) == Entry(Sec(D, FatLba(c)), c % PerSec)

\* What a sector reads as after a write.
LEMMA PutSec ==
  ASSUME NEW l, NEW x, Put(l, x), NEW y
  PROVE  Sec(hdd', y) = IF y = l THEN x ELSE Sec(hdd, y)
BY DEF Put, Sec

\* fat32_set_entry changes one entry of its sector.
LEMMA PatchedEntry ==
  ASSUME NEW s, NEW i \in 0..PerSec - 1, NEW j \in 0..PerSec - 1, NEW v
  PROVE  Entry(Patched(s, i, v), j) = IF j = i THEN v ELSE Entry(s, j)
<1> DEFINE e == [m \in 0..PerSec - 1 |-> IF m = i THEN v ELSE Entry(s, m)]
<1>1. Patched(s, i, v) = FatSector(e)
  BY DEF Patched
<1>2. e[j] = IF j = i THEN v ELSE Entry(s, j)
  OBVIOUS
<1> HIDE DEF e
<1>3. Entry(FatSector(e), j) = e[j]
  BY DEF Entry, FatSector
<1> QED BY <1>1, <1>2, <1>3

\* Where the entry of a cluster is.
LEMMA FatPlace ==
  ASSUME NEW c \in Nat
  PROVE  /\ FatLba(c) \in Nat /\ FatLba(c) >= PartStart + Res
         /\ c % PerSec \in 0..PerSec - 1
<1>1. PerSec \in Nat \ {0} /\ PartStart \in Nat /\ Res \in Nat
  BY Sizes
<1>2. c \div PerSec \in Nat /\ c % PerSec \in 0..PerSec - 1
  BY <1>1, DivMod
<1> QED BY <1>1, <1>2 DEF FatLba

LEMMA FatPlaceOf ==
  ASSUME NEW c \in Nat, NEW b \in Nat, FatLba(c) = FatLba(b), c % PerSec = b % PerSec
  PROVE  c = b
<1>0. PerSec \in Nat \ {0} /\ PartStart \in Nat /\ Res \in Nat
  BY Sizes
<1>1. /\ c \div PerSec \in Nat /\ c % PerSec \in Nat
      /\ b \div PerSec \in Nat /\ b % PerSec \in Nat
      /\ c = PerSec * (c \div PerSec) + (c % PerSec)
      /\ b = PerSec * (b \div PerSec) + (b % PerSec)
  <2>1. /\ c \div PerSec \in Nat /\ c % PerSec \in 0..PerSec - 1
        /\ c = PerSec * (c \div PerSec) + (c % PerSec)
    BY <1>0, DivMod
  <2>2. /\ b \div PerSec \in Nat /\ b % PerSec \in 0..PerSec - 1
        /\ b = PerSec * (b \div PerSec) + (b % PerSec)
    BY <1>0, DivMod
  <2> HIDE <1>0
  <2>3. \A x \in 0..PerSec - 1 : x \in Nat
    BY <1>0
  <2> QED BY <2>1, <2>2, <2>3
<1>2. c \div PerSec = b \div PerSec
  BY <1>0, <1>1 DEF FatLba
<1>3. PerSec * (c \div PerSec) = PerSec * (b \div PerSec)
  BY <1>2
<1> DEFINE p == PerSec * (c \div PerSec)
           q == PerSec * (b \div PerSec)
<1>4. c = p + (c % PerSec) /\ b = q + (b % PerSec) /\ p = q
  BY <1>1, <1>3
<1> HIDE DEF p, q
<1> QED BY <1>4
-----------------------------------------------------------------------------
(* What will be on the disk D once the operations of T are carried out.     *)

Touches(n, o, l) ==
  \/ o.op = "write" /\ o.lba = l
  \/ o.op = "link" /\ FatLba(o.cluster) = l
  \/ o.op = "mirror" /\ MirrorAt(n, o.cluster) = l
\* o changes the entry of c.
Changes(n, o, c) ==
  \/ o.op = "write" /\ o.lba = FatLba(c)
  \/ o.op = "link" /\ o.cluster = c
  \/ o.op = "mirror" /\ MirrorAt(n, o.cluster) = FatLba(c)

\* Sector l holds x, and nothing that is still to come says otherwise.
WillBe(D, T, n, l, x) ==
  /\ Sec(D, l) = x \/ InSeq(T, Write(l, x))
  /\ \A o : InSeq(T, o) /\ Touches(n, o, l) => o = Write(l, x)
\* The entry of c is v, likewise.
WillLink(D, T, n, c, v) ==
  /\ Ent(D, c) = v \/ InSeq(T, Link(c, v))
  /\ \A o : InSeq(T, o) /\ Changes(n, o, c) => o = Link(c, v)

IsOp(o) ==
  \/ \E l, x : o = Write(l, x)
  \/ \E c \in Nat : \E v : o = Link(c, v)
  \/ \E c \in Nat : o = Mirror(c)
  \/ o = Read \/ o = Fail

LEMMA OpFields ==
  /\ \A l, x : /\ Write(l, x).op = "write" /\ Write(l, x).lba = l
               /\ Write(l, x).sec = x
  /\ \A c, v : /\ Link(c, v).op = "link" /\ Link(c, v).cluster = c
               /\ Link(c, v).value = v
  /\ \A c : Mirror(c).op = "mirror" /\ Mirror(c).cluster = c
  /\ Read.op = "read" /\ Fail.op = "fail"
BY DEF Write, Link, Mirror, Read, Fail

\* With nothing queued, what will be there is there.
LEMMA WillDone ==
  ASSUME NEW D, NEW n
  PROVE  /\ \A l, x : WillBe(D, <<>>, n, l, x) <=> Sec(D, l) = x
         /\ \A c, v : WillLink(D, <<>>, n, c, v) <=> Ent(D, c) = v
BY EmptyHas DEF WillBe, WillLink

\* What an operation does to the sectors.
LEMMA PerformSec ==
  ASSUME NEW o, IsOp(o), Perform(o), NEW l
  PROVE  ~Touches(fatSecs, o, l) => Sec(hdd', l) = Sec(hdd, l)
<1> SUFFICES ASSUME ~Touches(fatSecs, o, l) PROVE Sec(hdd', l) = Sec(hdd, l)
  OBVIOUS
<1>1. ASSUME NEW m, NEW x, o = Write(m, x) PROVE Sec(hdd', l) = Sec(hdd, l)
  <2>1. Put(m, x) /\ l # m
    BY <1>1, OpFields DEF Perform, Touches
  <2> QED BY <2>1, PutSec
<1>2. ASSUME NEW c \in Nat, NEW v, o = Link(c, v) PROVE Sec(hdd', l) = Sec(hdd, l)
  <2>1. Put(FatLba(c), Patched(HddSec(FatLba(c)), c % PerSec, v)) /\ l # FatLba(c)
    BY <1>2, OpFields DEF Perform, Touches
  <2> QED BY <2>1, PutSec
<1>3. ASSUME NEW c \in Nat, o = Mirror(c) PROVE Sec(hdd', l) = Sec(hdd, l)
  <2>1. Put(MirrorLba(c), HddSec(FatLba(c))) /\ l # MirrorLba(c)
    BY <1>3, OpFields DEF Perform, Touches, MirrorAt, MirrorLba
  <2> QED BY <2>1, PutSec
<1>4. CASE o = Read \/ o = Fail
  <2>1. hdd' = hdd
    BY <1>4, OpFields DEF Perform
  <2> QED BY <2>1
<1> QED BY <1>1, <1>2, <1>3, <1>4 DEF IsOp

\* What the operations do to the disk.
LEMMA PerformWrite ==
  ASSUME NEW l, NEW x, Perform(Write(l, x))
  PROVE  Sec(hdd', l) = x
<1>1. Put(l, x)
  BY OpFields DEF Perform
<1> QED BY <1>1, PutSec

LEMMA PerformLink ==
  ASSUME NEW c \in Nat, NEW v, Perform(Link(c, v)), NEW b \in Nat
  PROVE  Ent(hdd', b) = IF b = c THEN v ELSE Ent(hdd, b)
<1>1. Put(FatLba(c), Patched(HddSec(FatLba(c)), c % PerSec, v))
  BY OpFields DEF Perform
<1>2. Sec(hdd', FatLba(b)) = IF FatLba(b) = FatLba(c)
        THEN Patched(Sec(hdd, FatLba(c)), c % PerSec, v) ELSE Sec(hdd, FatLba(b))
  BY <1>1, PutSec DEF HddSec, Sec
<1>3. c % PerSec \in 0..PerSec - 1 /\ b % PerSec \in 0..PerSec - 1
  BY FatPlace
<1>4. CASE FatLba(b) = FatLba(c)
  <2>1. Ent(hdd', b) = IF b % PerSec = c % PerSec THEN v
                       ELSE Entry(Sec(hdd, FatLba(c)), b % PerSec)
    BY <1>2, <1>3, <1>4, PatchedEntry DEF Ent
  <2>2. b % PerSec = c % PerSec <=> b = c
    BY <1>4, FatPlaceOf
  <2> QED BY <2>1, <2>2, <1>4 DEF Ent
<1>5. CASE FatLba(b) # FatLba(c)
  BY <1>2, <1>5 DEF Ent
<1> QED BY <1>4, <1>5

LEMMA PerformEnt ==
  ASSUME NEW o, IsOp(o), Perform(o), NEW b \in Nat
  PROVE  ~Changes(fatSecs, o, b) => Ent(hdd', b) = Ent(hdd, b)
<1> SUFFICES ASSUME ~Changes(fatSecs, o, b) PROVE Ent(hdd', b) = Ent(hdd, b)
  OBVIOUS
<1>1. ASSUME NEW c \in Nat, NEW v, o = Link(c, v) PROVE Ent(hdd', b) = Ent(hdd, b)
  <2>1. b # c
    BY <1>1, OpFields DEF Changes
  <2> QED BY <1>1, <2>1, PerformLink
<1>2. CASE \A c \in Nat : \A v : o # Link(c, v)
  <2>1. ~Touches(fatSecs, o, FatLba(b))
    BY <1>2, OpFields DEF Changes, Touches, IsOp
  <2> QED BY <2>1, PerformSec DEF Ent
<1> QED BY <1>1, <1>2

\* A step carries out the next operation, and what will be still will be.
Does == /\ todo # <<>> /\ IsSeq(todo) /\ IsOp(Head(todo))
        /\ Perform(Head(todo)) /\ todo' = Tail(todo)

\* What will be there once the queue is done, will be after its first operation.
LEMMA StepWillBe ==
  ASSUME Does, NEW l, NEW x, WillBe(hdd, todo, fatSecs, l, x)
  PROVE  WillBe(hdd', todo', fatSecs, l, x)
<1> DEFINE h == Head(todo)
<1>1. \A o : InSeq(todo, o) <=> o = h \/ InSeq(todo', o)
  BY HeadTailHas DEF Does
<1>2. \A o : InSeq(todo', o) /\ Touches(fatSecs, o, l) => o = Write(l, x)
  BY <1>1 DEF WillBe
<1>3. CASE Touches(fatSecs, h, l)
  <2>1. h = Write(l, x)
    BY <1>1, <1>3 DEF WillBe
  <2>2. Sec(hdd', l) = x
    BY <2>1, PerformWrite DEF Does
  <2> QED BY <2>2, <1>2 DEF WillBe
<1>4. CASE ~Touches(fatSecs, h, l)
  <2>1. Sec(hdd', l) = Sec(hdd, l)
    BY <1>4, PerformSec DEF Does
  <2>2. h # Write(l, x)
    BY <1>4, OpFields DEF Touches
  <2>3. InSeq(todo, Write(l, x)) => InSeq(todo', Write(l, x))
    BY <1>1, <2>2
  <2> QED BY <1>2, <2>1, <2>3 DEF WillBe
<1> QED BY <1>3, <1>4

LEMMA StepWillLink ==
  ASSUME Does, NEW c \in Nat, NEW v, WillLink(hdd, todo, fatSecs, c, v)
  PROVE  WillLink(hdd', todo', fatSecs, c, v)
<1> DEFINE h == Head(todo)
<1>1. \A o : InSeq(todo, o) <=> o = h \/ InSeq(todo', o)
  BY HeadTailHas DEF Does
<1>2. \A o : InSeq(todo', o) /\ Changes(fatSecs, o, c) => o = Link(c, v)
  BY <1>1 DEF WillLink
<1>3. CASE Changes(fatSecs, h, c)
  <2>1. h = Link(c, v)
    BY <1>1, <1>3 DEF WillLink
  <2>2. Ent(hdd', c) = v
    BY <2>1, PerformLink DEF Does
  <2> QED BY <2>2, <1>2 DEF WillLink
<1>4. CASE ~Changes(fatSecs, h, c)
  <2>1. Ent(hdd', c) = Ent(hdd, c)
    BY <1>4, PerformEnt DEF Does
  <2>2. h # Link(c, v)
    BY <1>4, OpFields DEF Changes
  <2>3. InSeq(todo, Link(c, v)) => InSeq(todo', Link(c, v))
    BY <1>1, <2>2
  <2> QED BY <1>2, <2>1, <2>3 DEF WillLink
<1> QED BY <1>3, <1>4

\* The operations of a part write sectors lo to hi - 1 and link the clusters
\* from a to b - 1.
Within(T, lo, hi, a, b) ==
  \A o : InSeq(T, o) =>
    \/ \E l \in lo..hi - 1 : \E x : o = Write(l, x)
    \/ \E c \in a..b - 1 : o = Mirror(c) \/ \E v : o = Link(c, v)
    \/ o = Read \/ o = Fail
-----------------------------------------------------------------------------
(* The search for the layout.                                               *)

\* One round of calc_dst_layout_fat32 on the pair y, sectors to a cluster and
\* sectors to a FAT.
NextTry(s, y) ==
  LET k == y[1]  n == y[2]
      needed == Ceil(CountOf(s, k, n) + 2, PerSec)
  IN IF s - PartStart - Res - 2 * n < 0 THEN y
     ELSE IF needed # n THEN <<k, needed>>
     ELSE IF CountOf(s, k, n) < MinClusters /\ k > 1 THEN <<k \div 2, 1>>
     ELSE y

\* The search comes from y to x.
Reaches(s, y, x) ==
  \A X : y \in X /\ (\A z \in X : NextTry(s, z) \in X) => x \in X
Settled(s, k, n) ==
  /\ k \in 1..MaxSpc /\ n \in Nat
  /\ Accepted(s, k, n) /\ Reaches(s, <<MaxSpc, 1>>, <<k, n>>)

\* What the theorems assume: the floppies are as make_fat12_image.py builds them,
\* and whichever layout the search settles at has room for the system.
Installable ==
  /\ SourcesOK
  /\ \A s \in HddSizes : \A k, n : Settled(s, k, n) => DiskFits(s, k, n)

\* The clusters below t: they exist, copy_file_to_dst reaches them, and no second
\* copy of their FAT entries falls on what counts.
Room(s, k, n, t) ==
  /\ t \in Nat /\ t >= 4 /\ t <= CountOf(s, k, n) + 2
  /\ High(DataStart(n)) = High(Start(k, n, t) - 1)
  /\ \A c \in 3..t - 1 :
       MirrorAt(n, c) \notin
         {0} \cup (PartStart..PartStart + Res + n - 1)
             \cup (DataStart(n)..Start(k, n, t) - 1)
-----------------------------------------------------------------------------
(* What an installation puts where: from the kernel disk d and the program  *)
(* disk e, for the users us and the password pw of ROOT.                    *)

BinAt(d, k) == 3 + Ceil(d.kernel.secs, k)
FileAt(d, e, k, i) == BinAt(d, k) + 1 + Taken(e, k)[i - 1]
UsersAt(d, e, k) == BinAt(d, k) + 1 + Taken(e, k)[Len(BinFiles(e))]
FilesAt(d, e, k, m) ==
  [i \in 1..m |-> FirstOf(FileAt(d, e, k, i), Ceil(BinFiles(e)[i].secs, k))]

\* The values of at: the kernel is allocated; BIN and files fs are; all is.
KernelPlan(d) ==
  [kernel |-> 3, ksecs |-> d.kernel.secs, bin |-> Bad, files |-> <<>>,
   etc |-> Bad, home |-> Bad, passwd |-> Bad, homes |-> <<>>]
BinPlan(d, k, fs) ==
  [kernel |-> 3, ksecs |-> d.kernel.secs, bin |-> BinAt(d, k), files |-> fs,
   etc |-> Bad, home |-> Bad, passwd |-> Bad, homes |-> <<>>]
FullPlan(d, e, k, us) ==
  [kernel |-> 3, ksecs |-> d.kernel.secs, bin |-> BinAt(d, k),
   files |-> FilesAt(d, e, k, Len(BinFiles(e))), etc |-> UsersAt(d, e, k),
   home |-> UsersAt(d, e, k) + 1, passwd |-> UsersAt(d, e, k) + 2,
   homes |-> [i \in 1..Len(us) |-> UsersAt(d, e, k) + 2 + i]]

MbrSec(s) == [k |-> "mbr", secs |-> s - PartStart]
VbrSec(s, k, n) == [k |-> "vbr", spc |-> k, fat |-> n, total |-> s - PartStart]

\* Cluster c: its first sector holds x, the others nothing.
Cluster(D, T, k, n, c, x) ==
  \A i \in 1..k :
    WillBe(D, T, n, Start(k, n, c) + i - 1, IF i = 1 THEN x ELSE Zero)
Stage2There(D, T, n, d) ==
  \A i \in 1..d.stage2 :
    WillBe(D, T, n, PartStart + 1 + i, FileSector(d, "stage2", i))
\* File f of the floppy d, from cluster c on.
FileThere(D, T, k, n, d, f, c) ==
  /\ \A i \in 1..Ceil(f.secs, k) :
       WillLink(D, T, n, c + i - 1, IF i = Ceil(f.secs, k) THEN Eoc ELSE c + i)
  /\ \A i \in 1..f.secs :
       WillBe(D, T, n, Start(k, n, c) + i - 1, FileSector(d, f.name, i))
FilesThere(D, T, k, n, d, e, m) ==
  \A i \in 1..m : FileThere(D, T, k, n, e, BinFiles(e)[i], FileAt(d, e, k, i))
BinThere(D, T, k, n, e, a) ==
  \A i \in 1..k : WillBe(D, T, n, Start(k, n, a.bin) + i - 1,
                         DirSector(SectorOf(BinSlots(e, a), i)))
UserLinks(D, T, n, us, a) ==
  /\ WillLink(D, T, n, a.etc, Eoc) /\ WillLink(D, T, n, a.home, Eoc)
  /\ WillLink(D, T, n, a.passwd, Eoc)
  /\ \A i \in 1..Len(us) : WillLink(D, T, n, a.homes[i], Eoc)
UserData(D, T, k, n, us, pw, a) ==
  /\ Cluster(D, T, k, n, a.passwd, PasswdSector(Passwd(us, pw)))
  /\ \A i \in 1..Len(us) :
       Cluster(D, T, k, n, a.homes[i], DirSector(Dots(a.homes[i], a.home)))
  /\ Cluster(D, T, k, n, a.home, DirSector(HomeSlots(us, a)))
  /\ Cluster(D, T, k, n, a.etc, DirSector(EtcSlots(a)))

\* Names that differ, none of them ROOT's.
UsersOK(us) ==
  /\ us \in Seq([name : Names, pass : Passwords]) /\ Len(us) <= MaxUsers
  /\ \A i, j \in 1..Len(us) : i # j => us[i].name # us[j].name

\* The disk D holds a whole installation.
Installed(D, s, k, n, d, e, us, pw) ==
  LET a == FullPlan(d, e, k, us) IN
  /\ d \in KernelDisks /\ e \in ProgramDisks /\ UsersOK(us)
  /\ Sec(D, 0) = MbrSec(s) /\ Sec(D, PartStart) = VbrSec(s, k, n)
  /\ Stage2There(D, <<>>, n, d)
  /\ FileThere(D, <<>>, k, n, d, d.kernel, 3)
  /\ WillLink(D, <<>>, n, a.bin, Eoc)
  /\ FilesThere(D, <<>>, k, n, d, e, Len(BinFiles(e)))
  /\ BinThere(D, <<>>, k, n, e, a)
  /\ UserLinks(D, <<>>, n, us, a) /\ UserData(D, <<>>, k, n, us, pw, a)
  /\ Cluster(D, <<>>, k, n, 2, DirSector(RootSlots(a)))

RootBlank(D, k, n) == \A i \in 1..k : Sec(D, Start(k, n, 2) + i - 1).k # "dir"
\* The listing of an old installation over a FAT just cleared.
RootOld(D, k, n) ==
  /\ Ent(D, 3) = Free
  /\ \E a : a.kernel = 3 /\ Sec(D, Start(k, n, 2)) = DirSector(RootSlots(a))
  /\ \A i \in 2..k : Sec(D, Start(k, n, 2) + i - 1).k # "dir"
\* A disk with the layout k, n, whatever happened to it.
Sound(D, s, k, n) ==
  /\ Sec(D, PartStart).k = "vbr" => Sec(D, PartStart) = VbrSec(s, k, n)
  /\ \/ RootBlank(D, k, n)
     \/ RootOld(D, k, n)
     \/ \E d, e, us, pw : Installed(D, s, k, n, d, e, us, pw)
-----------------------------------------------------------------------------
(* The inductive invariant.                                                 *)

Place ==
  [halt |-> 0, off |-> 0, confirm |-> 1, root_password |-> 2, users |-> 3,
   geometry |-> 4, source |-> 5, swap |-> 6, validate |-> 7, layout |-> 8,
   mbr |-> 9, vbr |-> 10, fat |-> 11, root |-> 12, stage2 |-> 13, load |-> 14,
   kernel |-> 15, prompt |-> 16, swap_program |-> 17, bin |-> 18,
   bin_files |-> 19, accounts |-> 20, users_data |-> 21, root_dir |-> 22,
   reboot |-> 23, done |-> 24]
P == Place[pc]

TypeInv ==
  /\ pc \in DOMAIN Place /\ size \in HddSizes
  /\ IsSeq(todo) /\ UsersOK(users)
  /\ P \in 1..15 => at = NoWhere
  /\ P = 7 => floppy \in Floppies /\ Prepared(floppy, "kernel")
  /\ P \in 8..16 => floppy \in KernelDisks
  /\ P \in 18..24 => floppy \in ProgramDisks
  /\ P = 8 => /\ spc \in 1..MaxSpc /\ fatSecs \in Nat
              /\ Reaches(size, <<MaxSpc, 1>>, <<spc, fatSecs>>)
  /\ P > 8 => Settled(size, spc, fatSecs)

\* What is queued where.
OpsInv(d) ==
  /\ P \in 0..9 \cup {17, 18, 24} => todo = <<>>
  /\ P = 10 => \A o : InSeq(todo, o) => o = Write(0, MbrSec(size))
  /\ P = 11 => \A o : InSeq(todo, o) =>
       \/ o = Write(PartStart, VbrSec(size, spc, fatSecs))
       \/ o = Write(PartStart + 1, [k |-> "fsinfo"])
  /\ P = 12 => \A o : InSeq(todo, o) =>
       \E l \in PartStart + Res..DataStart(fatSecs) - 1 :
         o = Write(l, Zero) \/ o = Write(l, FirstFatSector)
  /\ P = 13 => \A o : InSeq(todo, o) =>
       \E l \in DataStart(fatSecs)..Start(spc, fatSecs, 3) - 1 : o = Write(l, Zero)
  /\ P = 14 => Within(todo, PartStart + 2, PartStart + Res, 0, 0)
  /\ P = 15 => \A o : InSeq(todo, o) => o = Read
  /\ P \in {16} \cup 19..22 => \E e \in ProgramDisks :
       Within(todo, Start(spc, fatSecs, 3), Start(spc, fatSecs, Top(d, e, spc)),
              3, Top(d, e, spc))
  /\ P = 23 => \/ todo = <<>>
               \/ todo = <<Write(Start(spc, fatSecs, 2), DirSector(RootSlots(at)))>>

\* Where the next cluster and the files are.
PlanInv(d) ==
  /\ P \in 8..16 => d = floppy
  /\ P \in 16..18 => at = KernelPlan(d) /\ next = BinAt(d, spc)
  /\ P = 19 =>
       /\ Len(at.files) \in 0..Len(BinFiles(floppy))
       /\ at = BinPlan(d, spc, FilesAt(d, floppy, spc, Len(at.files)))
       /\ next = FileAt(d, floppy, spc, Len(at.files) + 1)
  /\ P = 20 =>
       /\ at = BinPlan(d, spc, FilesAt(d, floppy, spc, Len(BinFiles(floppy))))
       /\ next = UsersAt(d, floppy, spc)
  /\ P > 20 => at = FullPlan(d, floppy, spc, users)

\* What is on the disk, or will be when the queue is done.
BootFacts(d) ==
  /\ P > 9 => WillBe(hdd, todo, fatSecs, 0, MbrSec(size))
  /\ P > 10 =>
       WillBe(hdd, todo, fatSecs, PartStart, VbrSec(size, spc, fatSecs))
  /\ P > 12 /\ P < 23 => Cluster(hdd, todo, spc, fatSecs, 2, Zero)
  /\ P > 13 => Stage2There(hdd, todo, fatSecs, d)
\* Fail in the queue: a file of the floppy that ends too early.
FileFacts(d) ==
  ~InSeq(todo, Fail) =>
    /\ P > 15 => FileThere(hdd, todo, spc, fatSecs, d, d.kernel, 3)
    /\ P > 18 =>
         /\ WillLink(hdd, todo, fatSecs, at.bin, Eoc)
         /\ FilesThere(hdd, todo, spc, fatSecs, d, floppy, Len(at.files))
    /\ P > 19 => BinThere(hdd, todo, spc, fatSecs, floppy, at)
    /\ P > 20 => UserLinks(hdd, todo, fatSecs, users, at)
    /\ P > 21 => UserData(hdd, todo, spc, fatSecs, users, rootpw, at)
    /\ P > 22 => Cluster(hdd, todo, spc, fatSecs, 2, DirSector(RootSlots(at)))

\* The old system is gone before anything of the new one is there.
ClearInv ==
  /\ P = 12 => \/ Ent(hdd, 3) = Free
               \/ todo # <<>> /\ Head(todo) = Write(PartStart + Res, Zero)
  /\ P = 13 => Ent(hdd, 3) = Free
  /\ P \in 14..22 => RootBlank(hdd, spc, fatSecs)
  /\ P = 23 /\ todo # <<>> => RootBlank(hdd, spc, fatSecs)

DiskInv ==
  \/ hdd = <<>>
  \/ \E k, n : Settled(size, k, n) /\ Sound(hdd, size, k, n)

Running(d) ==
  /\ d \in KernelDisks
  /\ OpsInv(d) /\ PlanInv(d) /\ BootFacts(d) /\ FileFacts(d)
IInv ==
  /\ TypeInv /\ ClearInv /\ DiskInv
  /\ P < 8 => todo = <<>>
  /\ P >= 8 => \E d : Running(d)
-----------------------------------------------------------------------------
(* The search for the layout ends at one place at most.                     *)

\* The search stays where it accepts.
LEMMA NextOfAccepted ==
  ASSUME NEW s, NEW k, NEW n, Accepted(s, k, n), s \in Nat, k \in Nat \ {0}, n \in Nat
  PROVE  NextTry(s, <<k, n>>) = <<k, n>>
<1>1. <<k, n>>[1] = k /\ <<k, n>>[2] = n
  OBVIOUS
<1> DEFINE c == CountOf(s, k, n)
           r == Ceil(c + 2, PerSec)
<1>2. s - PartStart - Res - 2 * n >= 0 /\ r = n /\ c >= MinClusters
  BY DEF Accepted
<1>3. MinClusters \in Nat /\ PartStart \in Nat /\ Res \in Nat
  BY Sizes
<1>4. c \in Int
  BY <1>3 DEF CountOf
<1>5. ~(s - PartStart - Res - 2 * n < 0)
  BY <1>2, <1>3
<1>6. ~(c < MinClusters)
  BY <1>2, <1>3, <1>4
<1> QED BY <1>1, <1>2, <1>5, <1>6 DEF NextTry

LEMMA ReachesStep ==
  ASSUME NEW s, NEW y, NEW x, Reaches(s, y, x), y # x
  PROVE  Reaches(s, NextTry(s, y), x)
<1> SUFFICES ASSUME NEW X, NextTry(s, y) \in X, \A z \in X : NextTry(s, z) \in X
             PROVE  x \in X
  BY DEF Reaches
<1>1. \A z \in X \cup {y} : NextTry(s, z) \in X \cup {y}
  OBVIOUS
<1>2. x \in X \cup {y}
  BY <1>1 DEF Reaches
<1> QED BY <1>2

LEMMA ReachesOn ==
  ASSUME NEW s, NEW y, NEW x, Reaches(s, y, x)
  PROVE  Reaches(s, y, NextTry(s, x))
BY DEF Reaches

LEMMA NextOfPair ==
  ASSUME NEW s \in Nat, NEW y \in (Nat \ {0}) \X Nat
  PROVE  NextTry(s, y) \in (Nat \ {0}) \X Nat
<1> DEFINE k == y[1]
           n == y[2]
           room == s - PartStart - Res - 2 * n
           c == CountOf(s, k, n)
           r == Ceil(c + 2, PerSec)
<1>1. k \in Nat \ {0} /\ n \in Nat /\ y = <<k, n>>
  OBVIOUS
<1>2. PartStart \in Nat /\ Res \in Nat /\ PerSec \in Nat \ {0}
  BY Sizes
<1>3. CASE room < 0
  BY <1>3 DEF NextTry
<1>4. CASE ~(room < 0)
  <2>1. room \in Nat
    BY <1>1, <1>2, <1>4
  <2>2. c \in Nat
    <3>1. c = room \div k
      BY DEF CountOf
    <3> HIDE DEF k, room, c
    <3> QED BY <3>1, <2>1, <1>1, DivMod
  <2>3. r \in Nat
    <3>1. c + 2 \in Nat
      BY <2>2
    <3> HIDE DEF c
    <3> QED BY <3>1, <1>2, CeilIs
  <2>4. CASE r # n
    BY <2>3, <2>4, <1>1, <1>4 DEF NextTry
  <2>5. CASE r = n /\ c < MinClusters /\ k > 1
    <3>1. k \div 2 \in Nat \ {0}
      <4> HIDE DEF k
      <4> QED BY <1>1, <2>5
    <3>2. NextTry(s, y) = <<k \div 2, 1>>
      BY <2>5, <1>4 DEF NextTry
    <3> QED BY <3>1, <3>2
  <2>6. CASE r = n /\ ~(c < MinClusters /\ k > 1)
    BY <2>6, <1>4 DEF NextTry
  <2> QED BY <2>4, <2>5, <2>6
<1> QED BY <1>3, <1>4

\* Two searches on a disk of the same size settle at the same layout.
LEMMA SettledOnce ==
  ASSUME NEW s \in Nat, NEW k, NEW n, Settled(s, k, n),
         NEW h, NEW m, Settled(s, h, m)
  PROVE  k = h /\ n = m
<1> DEFINE x == <<k, n>>
           y == <<h, m>>
           start == <<MaxSpc, 1>>
           U == (Nat \ {0}) \X Nat
           X == {z \in U : Reaches(s, z, x)}
<1>1. NextTry(s, x) = x /\ NextTry(s, y) = y
  <2>1. /\ k \in Nat \ {0} /\ n \in Nat /\ Accepted(s, k, n)
        /\ h \in Nat \ {0} /\ m \in Nat /\ Accepted(s, h, m)
    BY Sizes DEF Settled
  <2> QED BY <2>1, NextOfAccepted
<1>2. Reaches(s, start, x) /\ Reaches(s, start, y)
  BY DEF Settled
<1>3. start \in U
  BY Sizes
<1>4. ASSUME NEW z \in X PROVE NextTry(s, z) \in X
  <2>1. z \in U /\ Reaches(s, z, x)
    OBVIOUS
  <2>2. NextTry(s, z) \in U
    BY <2>1, NextOfPair
  <2>3. CASE z = x
    BY <2>3, <1>1
  <2>4. CASE z # x
    <3>1. Reaches(s, NextTry(s, z), x)
      <4> HIDE DEF x, U, X
      <4> QED BY <2>1, <2>4, ReachesStep
    <3> QED BY <2>2, <3>1
  <2> QED BY <2>3, <2>4
<1>5. start \in X
  BY <1>2, <1>3
<1>6. y \in X
  <2> HIDE DEF X, y, start, x
  <2> QED BY <1>2, <1>4, <1>5 DEF Reaches
<1>7. Reaches(s, y, x)
  BY <1>6
<1>8. x \in {y}
  <2> HIDE DEF X, y, start, x
  <2>1. y \in {y} /\ \A z \in {y} : NextTry(s, z) \in {y}
    BY <1>1
  <2> QED BY <1>7, <2>1 DEF Reaches
<1> QED BY <1>8
-----------------------------------------------------------------------------
(* Sectors and clusters.                                                    *)

LEMMA StartIs ==
  ASSUME NEW k \in Nat \ {0}, NEW n \in Nat
  PROVE  /\ DataStart(n) \in Nat /\ DataStart(n) >= PartStart + Res + n
         /\ Start(k, n, 2) = DataStart(n) /\ Start(k, n, 3) = DataStart(n) + k
         /\ \A c \in Int : Start(k, n, c) \in Int
         /\ \A c \in Nat : c >= 2 => Start(k, n, c) >= DataStart(n)
<1>1. PartStart \in Nat /\ Res \in Nat
  BY Sizes
<1>2. DataStart(n) \in Nat /\ DataStart(n) >= PartStart + Res + n
  BY <1>1 DEF DataStart
<1>3. Start(k, n, 2) = DataStart(n)
  <2>1. (2 - 2) * k = 0
    OBVIOUS
  <2> QED BY <2>1, <1>2 DEF Start
<1>4. Start(k, n, 3) = DataStart(n) + k
  <2>1. (3 - 2) * k = k
    OBVIOUS
  <2> QED BY <2>1, <1>2 DEF Start
<1>5. \A c \in Int : Start(k, n, c) \in Int
  BY <1>2 DEF Start
<1>7. ASSUME NEW c \in Nat, c >= 2 PROVE Start(k, n, c) >= DataStart(n)
  <2>1. (c - 2) * k \in Nat
    <3>1. c - 2 \in Nat
      BY <1>7
    <3> QED BY <3>1
  <2> QED BY <2>1, <1>2 DEF Start
<1> QED BY <1>2, <1>3, <1>4, <1>5, <1>7

LEMMA StartPlus ==
  ASSUME NEW k \in Nat \ {0}, NEW n \in Nat, NEW c \in Int, NEW m \in Int
  PROVE  Start(k, n, c + m) = Start(k, n, c) + m * k
<1> DEFINE x == (c - 2) * k
           y == m * k
           z == (c + m - 2) * k
<1>1. z = x + y /\ x \in Int /\ y \in Int
  OBVIOUS
<1>2. Start(k, n, c + m) = DataStart(n) + z /\ Start(k, n, c) = DataStart(n) + x
  BY DEF Start
<1>3. DataStart(n) \in Nat
  BY StartIs
<1> HIDE DEF x, y, z
<1>4. DataStart(n) + z = (DataStart(n) + x) + y
  BY <1>1, <1>3
<1> QED BY <1>2, <1>4 DEF y

\* Clusters follow each other.
LEMMA StartOrder ==
  ASSUME NEW k \in Nat \ {0}, NEW n \in Nat, NEW c \in Int, NEW b \in Int, c < b
  PROVE  Start(k, n, c) + k <= Start(k, n, b)
<1>1. PICK j \in Nat : j = b - c
  OBVIOUS
<1>2. b = c + j /\ 1 <= j
  BY <1>1
<1>3. Start(k, n, c + j) = Start(k, n, c) + j * k
  <2>1. j \in Int
    BY <1>1
  <2> HIDE <1>1, <1>2
  <2> QED BY <2>1, StartPlus, Zenon
<1> DEFINE m == j * k
<1>4. k <= m /\ m \in Int
  <2>1. 1 * k <= j * k
    BY <1>2, TimesLess
  <2> QED BY <2>1
<1>5. Start(k, n, b) = Start(k, n, c) + m
  BY <1>2, <1>3
<1> HIDE DEF m
<1> QED BY <1>4, <1>5, StartIs

\* The numbers of a layout: FATs and clusters lie on the disk, one entry for each.
LEMMA LayNums ==
  ASSUME NEW s \in HddSizes, NEW k, NEW n, Settled(s, k, n)
  PROVE  /\ s \in Nat /\ k \in Nat \ {0} /\ k \in 1..MaxSpc /\ n \in 1..s
         /\ CountOf(s, k, n) \in Nat
         /\ DataStart(n) + CountOf(s, k, n) * k <= s
         /\ CountOf(s, k, n) + 2 <= n * PerSec
         /\ CountOf(s, k, n) >= MinClusters
<1>1. /\ s \in Nat /\ PartStart \in Nat /\ Res \in Nat /\ PerSec \in Nat \ {0}
      /\ MaxSpc \in Nat
  BY Sizes
<1>2. k \in 1..MaxSpc /\ n \in Nat /\ Accepted(s, k, n)
  BY DEF Settled
<1> DEFINE room == s - PartStart - Res - 2 * n
           c == CountOf(s, k, n)
<1>3. room \in Nat /\ Ceil(c + 2, PerSec) = n /\ c >= MinClusters
  BY <1>1, <1>2 DEF Accepted
<1>4. c = room \div k
  BY DEF CountOf
<1>5. c \in Nat /\ k * c <= room
  <2>1. k \in Nat \ {0}
    BY <1>1, <1>2
  <2> HIDE DEF room, c
  <2>2. c \in Nat /\ room % k \in 0..k - 1 /\ room = k * c + (room % k)
    BY <2>1, <1>3, <1>4, DivMod
  <2> DEFINE p == k * c
  <2>3. p \in Nat /\ room = p + (room % k)
    BY <2>1, <2>2
  <2>4. p <= room
    <3> HIDE DEF p
    <3> QED BY <2>2, <2>3
  <2> QED BY <2>2, <2>4
<1>6. c + 2 <= n * PerSec /\ n > 0
  <2>1. c + 2 \in Nat /\ c + 2 > 0
    BY <1>5
  <2> HIDE DEF c
  <2> QED BY <2>1, <1>1, <1>3, CeilIs
<1>7. DataStart(n) + c * k <= s
  <2>1. c * k = k * c /\ k * c \in Nat
    BY <1>1, <1>2, <1>5
  <2> DEFINE p == k * c
  <2>2. c * k = p /\ p \in Nat /\ p <= room
    BY <2>1, <1>5
  <2> HIDE DEF p, c
  <2> QED BY <2>2, <1>1, <1>2 DEF DataStart, room
<1>8. n <= s
  BY <1>1, <1>2, <1>3
<1> QED BY <1>1, <1>2, <1>3, <1>5, <1>6, <1>7, <1>8

\* The FAT has an entry for each cluster that exists.
LEMMA FatHolds ==
  ASSUME NEW s \in HddSizes, NEW k, NEW n, Settled(s, k, n),
         NEW c \in Nat, c <= CountOf(s, k, n) + 1
  PROVE  FatLba(c) \in PartStart + Res..PartStart + Res + n - 1
<1>1. PartStart \in Nat /\ Res \in Nat /\ PerSec \in Nat \ {0}
  BY Sizes
<1>2. n \in Nat /\ CountOf(s, k, n) \in Nat /\ CountOf(s, k, n) + 2 <= n * PerSec
  BY LayNums
<1>3. c \div PerSec < n
  <2>1. n * PerSec \in Int
    BY <1>1, <1>2
  <2>2. c < n * PerSec
    BY <1>2, <2>1
  <2> QED BY <1>1, <1>2, <2>2, DivLess
<1>4. c \div PerSec \in Nat
  BY <1>1, DivMod
<1> QED BY <1>1, <1>2, <1>3, <1>4 DEF FatLba

\* Cluster 3 is in the first sector of the FAT.
LEMMA FatOfThree ==
  ASSUME PerSec > 3
  PROVE  FatLba(3) = PartStart + Res /\ 3 % PerSec = 3
<1>1. PartStart \in Nat /\ Res \in Nat /\ PerSec \in Nat \ {0}
  BY Sizes
<1>2. 3 \div PerSec = 0 /\ 3 % PerSec = 3
  BY <1>1
<1> QED BY <1>1, <1>2 DEF FatLba

\* What follows from room for the clusters below t.
LEMMA RoomNums ==
  ASSUME NEW s \in HddSizes, NEW k, NEW n, Settled(s, k, n), NEW t, Room(s, k, n, t)
  PROVE  /\ Start(k, n, t) <= s
         /\ \A c \in 0..t - 1 :
              FatLba(c) \in PartStart + Res..PartStart + Res + n - 1
         /\ \A c \in 0..t - 1 : c <= CountOf(s, k, n) + 1
         /\ DataStart(n) + 2 * k <= Start(k, n, t)
<1>1. /\ k \in Nat \ {0} /\ n \in Nat /\ s \in Nat /\ CountOf(s, k, n) \in Nat
      /\ DataStart(n) + CountOf(s, k, n) * k <= s
  BY LayNums
<1>2. t \in Nat /\ t >= 4 /\ t <= CountOf(s, k, n) + 2
  BY DEF Room
<1>3. t - 2 \in Nat /\ t - 2 <= CountOf(s, k, n)
  BY <1>1, <1>2
<1>4. (t - 2) * k <= CountOf(s, k, n) * k /\ (t - 2) * k \in Nat
  BY <1>1, <1>3, TimesLess
<1>5. Start(k, n, t) <= s
  <2> DEFINE x == (t - 2) * k
             y == CountOf(s, k, n) * k
  <2>1. x <= y /\ x \in Nat /\ y \in Nat /\ DataStart(n) + y <= s
    BY <1>1, <1>4
  <2>2. Start(k, n, t) = DataStart(n) + x
    BY DEF Start
  <2> HIDE DEF x, y
  <2> QED BY <2>1, <2>2, <1>1, StartIs
<1>6. ASSUME NEW c \in 0..t - 1
      PROVE  /\ FatLba(c) \in PartStart + Res..PartStart + Res + n - 1
             /\ c <= CountOf(s, k, n) + 1
  <2>1. c \in Nat /\ c <= CountOf(s, k, n) + 1
    BY <1>1, <1>2
  <2> QED BY <2>1, FatHolds
<1>7. DataStart(n) + 2 * k <= Start(k, n, t)
  <2>1. Start(k, n, 3) + k <= Start(k, n, t)
    BY <1>1, <1>2, StartOrder
  <2> QED BY <2>1, <1>1, StartIs
<1> QED BY <1>5, <1>6, <1>7
-----------------------------------------------------------------------------
(* The files of BIN and the clusters they take.                             *)

\* A table each row of which is computed from the row before.
HasRows(m, S, a, step) ==
  \E f \in [0..m -> S] : f[0] = a /\ \A i \in 1..m : f[i] = step[<<i, f[i - 1]>>]
\* There is such a table: what a recursive function over 0..m rests on.
LEMMA Rows ==
  ASSUME NEW m \in Nat, NEW S, NEW a \in S, NEW step, step \in [(1..m) \X S -> S]
  PROVE  HasRows(m, S, a, step)
<1> DEFINE Good(j, f) == f[0] = a /\ \A i \in 1..j : f[i] = step[<<i, f[i - 1]>>]
           J == {j \in Nat : j <= m => \E f \in [0..j -> S] : Good(j, f)}
<1>1. 0 \in J
  <2>1. [i \in 0..0 |-> a] \in [0..0 -> S] /\ Good(0, [i \in 0..0 |-> a])
    OBVIOUS
  <2> QED BY <2>1
<1>2. ASSUME NEW j \in Nat, j \in J PROVE j + 1 \in J
  <2> SUFFICES ASSUME j + 1 <= m PROVE \E f \in [0..j + 1 -> S] : Good(j + 1, f)
    OBVIOUS
  <2>1. PICK f \in [0..j -> S] : Good(j, f)
    BY <1>2
  <2> DEFINE x == step[<<j + 1, f[j]>>]
             g == [i \in 0..j + 1 |-> IF i = j + 1 THEN x ELSE f[i]]
  <2>2. x \in S
    <3>1. <<j + 1, f[j]>> \in (1..m) \X S
      OBVIOUS
    <3> QED BY <3>1
  <2>3. g \in [0..j + 1 -> S] /\ g[j + 1] = x /\ \A i \in 0..j : g[i] = f[i]
    BY <2>2
  <2> HIDE DEF g
  <2>4. g[0] = a
    BY <2>1, <2>3
  <2>5. ASSUME NEW i \in 1..j + 1 PROVE g[i] = step[<<i, g[i - 1]>>]
    <3>1. CASE i = j + 1
      <4>1. i - 1 = j /\ j \in 0..j
        BY <3>1
      <4> QED BY <4>1, <3>1, <2>3
    <3>2. CASE i # j + 1
      <4>1. i \in 1..j /\ i - 1 \in 0..j /\ i \in 0..j
        BY <3>2
      <4> QED BY <4>1, <2>1, <2>3
    <3> QED BY <3>1, <3>2
  <2> QED BY <2>3, <2>4, <2>5
<1>3. m \in J
  <2> HIDE DEF J
  <2> QED BY <1>1, <1>2, NatSetInduction
<1> QED BY <1>3 DEF HasRows

LEMMA BinFilesSeq ==
  ASSUME NEW e, e.bin.files \in Seq(Plain(e))
  PROVE  BinFiles(e) \in Seq({f \in Plain(e) : f.kind = "file"})
<1> DEFINE fs == e.bin.files
           m == Len(fs)
           F == {f \in Plain(e) : f.kind = "file"}
           S == Seq(F)
           Row(i, x) == IF fs[i].kind = "file" /\ Len(x) < BinMax
                        THEN Append(x, fs[i]) ELSE x
           step == [p \in (1..m) \X S |-> Row(p[1], p[2])]
<1>1. m \in Nat
  BY LenProperties
<1>2. ASSUME NEW i \in 1..m, NEW x \in S PROVE Row(i, x) \in S
  <2>1. fs[i] \in Plain(e)
    BY DEF Plain
  <2>2. CASE fs[i].kind = "file"
    <3>1. fs[i] \in F
      BY <2>1, <2>2
    <3>2. Append(x, fs[i]) \in S
      <4> HIDE DEF F
      <4> QED BY <3>1, AppendProperties
    <3> QED BY <3>2
  <2>3. CASE fs[i].kind # "file"
    BY <2>3
  <2> QED BY <2>2, <2>3
<1>3. step \in [(1..m) \X S -> S]
  <2> HIDE DEF Row, S, m
  <2> QED BY <1>2
<1>4. \A i \in 1..m, x \in S : step[<<i, x>>] = Row(i, x)
  <2> HIDE DEF Row, S, m
  <2> QED OBVIOUS
<1>5. <<>> \in S
  OBVIOUS
<1> HIDE DEF step
<1>6. PICK f \in [0..m -> S] : f[0] = <<>> /\ \A i \in 1..m : f[i] = step[<<i, f[i - 1]>>]
  <2> HIDE DEF S, m
  <2>1. HasRows(m, S, <<>>, step)
    BY <1>1, <1>3, <1>5, Rows
  <2> QED BY <2>1 DEF HasRows
<1>7. \A i \in 1..m : f[i - 1] \in S /\ f[i] = Row(i, f[i - 1])
  <2>1. \A i \in 1..m : i - 1 \in 0..m
    BY <1>1
  <2>2. \A i \in 1..m : f[i - 1] \in S
    <3> HIDE DEF S, m
    <3> QED BY <2>1
  <2> HIDE DEF S, m, Row
  <2> QED BY <2>2, <1>4, <1>6
<1> DEFINE Built(g) == [i \in 0..Len(fs) |->
                          IF i = 0 THEN <<>>
                          ELSE IF fs[i].kind = "file" /\ Len(g[i - 1]) < BinMax
                               THEN Append(g[i - 1], fs[i]) ELSE g[i - 1]]
           C == CHOOSE g : g = Built(g)
<1>8. f = Built(f)
  <2>1. \A i \in 0..m : f[i] = Built(f)[i]
    <3> SUFFICES ASSUME NEW i \in 0..m PROVE f[i] = Built(f)[i]
      OBVIOUS
    <3>1. CASE i = 0
      BY <3>1, <1>6
    <3>2. CASE i # 0
      <4>1. i \in 1..m
        BY <3>2, <1>1
      <4> QED BY <4>1, <3>2, <1>7
    <3> QED BY <3>1, <3>2
  <2>2. f = [i \in 0..m |-> f[i]] /\ Built(f) = [i \in 0..m |-> Built(f)[i]]
    BY <1>6
  <2> HIDE DEF Built
  <2> QED BY <2>1, <2>2
<1>9. C = Built(C)
  <2> HIDE DEF Built
  <2> QED BY <1>8
<1>10. BinFiles(e) = C[m]
  BY DEF BinFiles
<1> HIDE DEF C
<1>11. \A i \in 0..m : C[i] = IF i = 0 THEN <<>> ELSE Row(i, C[i - 1])
  BY <1>9
<1> DEFINE J == {j \in Nat : j <= m => C[j] \in S}
<1>12. 0 \in J
  <2>1. C[0] = <<>>
    <3>1. 0 \in 0..m
      BY <1>1
    <3> HIDE DEF m, Row
    <3> QED BY <3>1, <1>11
  <2> QED BY <2>1, <1>5
<1>13. ASSUME NEW j \in Nat, j \in J PROVE j + 1 \in J
  <2> SUFFICES ASSUME j + 1 <= m PROVE C[j + 1] \in S
    OBVIOUS
  <2>1. C[j] \in S
    BY <1>1, <1>13
  <2>2. C[j + 1] = Row(j + 1, C[j])
    <3>1. j + 1 \in 0..m /\ j + 1 # 0 /\ (j + 1) - 1 = j
      BY <1>1
    <3> HIDE DEF Row, m
    <3> QED BY <3>1, <1>11
  <2>3. j + 1 \in 1..m
    BY <1>1
  <2> HIDE DEF Row, m, S
  <2> QED BY <2>1, <2>2, <2>3, <1>2
<1>14. m \in J
  <2> HIDE DEF J
  <2> QED BY <1>1, <1>12, <1>13, NatSetInduction
<1> QED BY <1>1, <1>10, <1>14

\* What BIN's files are.
LEMMA BinFilesAre ==
  ASSUME Installable, NEW e \in ProgramDisks
  PROVE  /\ Len(BinFiles(e)) \in Nat
         /\ IsSeq(BinFiles(e))
         /\ \A i \in 1..Len(BinFiles(e)) :
              /\ BinFiles(e)[i].secs \in Nat
              /\ BinFiles(e)[i].name \notin {".", ".."}
<1>1. ProgramDiskOK(e)
  BY DEF Installable, SourcesOK
<1> DEFINE F == {f \in Plain(e) : f.kind = "file"}
<1>2. BinFiles(e) \in Seq(F)
  BY <1>1, BinFilesSeq DEF ProgramDiskOK
<1>3. \A f \in F : f.secs \in Nat /\ f.name \notin {".", ".."}
  BY <1>1 DEF ProgramDiskOK
<1> HIDE DEF F
<1>4. Len(BinFiles(e)) \in Nat /\ \A i \in 1..Len(BinFiles(e)) : BinFiles(e)[i] \in F
  BY <1>2, LenProperties
<1> QED BY <1>2, <1>3, <1>4 DEF IsSeq

\* The clusters the files of BIN take, file by file.
LEMMA TakenIs ==
  ASSUME Installable, NEW e \in ProgramDisks, NEW k \in Nat \ {0}
  PROVE  /\ Taken(e, k)[0] = 0
         /\ \A i \in 0..Len(BinFiles(e)) : Taken(e, k)[i] \in Nat
         /\ \A i \in 1..Len(BinFiles(e)) :
              Taken(e, k)[i] = Taken(e, k)[i - 1] + Ceil(BinFiles(e)[i].secs, k)
<1> DEFINE m == Len(BinFiles(e))
           size1(i) == Ceil(BinFiles(e)[i].secs, k)
           step == [p \in (1..m) \X Nat |-> p[2] + size1(p[1])]
<1>1. m \in Nat /\ \A i \in 1..m : size1(i) \in Nat
  <2>1. Len(BinFiles(e)) \in Nat /\ \A i \in 1..Len(BinFiles(e)) : BinFiles(e)[i].secs \in Nat
    BY BinFilesAre
  <2> QED BY <2>1, CeilIs
<1> HIDE DEF m, size1
<1>2. step \in [(1..m) \X Nat -> Nat]
  BY <1>1
<1>3. \A i \in 1..m, x \in Nat : step[<<i, x>>] = x + size1(i)
  OBVIOUS
<1> HIDE DEF step
<1>4. PICK f \in [0..m -> Nat] : f[0] = 0 /\ \A i \in 1..m : f[i] = step[<<i, f[i - 1]>>]
  <2>1. HasRows(m, Nat, 0, step)
    BY <1>1, <1>2, Rows
  <2> QED BY <2>1 DEF HasRows
<1> DEFINE Built(g) == [i \in 0..Len(BinFiles(e)) |->
             IF i = 0 THEN 0 ELSE g[i - 1] + Ceil(BinFiles(e)[i].secs, k)]
           C == CHOOSE g : g = Built(g)
<1>5. \A i \in 1..m : f[i] = f[i - 1] + size1(i)
  <2>1. \A i \in 1..m : i - 1 \in 0..m
    BY <1>1
  <2> QED BY <2>1, <1>3, <1>4
<1>6. f = Built(f)
  <2>1. Built(f) = [i \in 0..m |-> IF i = 0 THEN 0 ELSE f[i - 1] + size1(i)]
    BY DEF m, size1
  <2>2. \A i \in 0..m : f[i] = IF i = 0 THEN 0 ELSE f[i - 1] + size1(i)
    <3>1. \A i \in 0..m : i = 0 \/ i \in 1..m
      BY <1>1
    <3> QED BY <3>1, <1>4, <1>5
  <2>3. f = [i \in 0..m |-> f[i]]
    OBVIOUS
  <2> HIDE DEF Built
  <2> QED BY <2>1, <2>2, <2>3
<1>7. C = Built(C)
  <2> HIDE DEF Built
  <2> QED BY <1>6
<1>8. Taken(e, k) = C
  BY DEF Taken
<1> HIDE DEF C
<1>9. \A i \in 0..m : C[i] = IF i = 0 THEN 0 ELSE C[i - 1] + size1(i)
  BY <1>7 DEF m, size1
<1>10. C[0] = 0 /\ \A i \in 1..m : C[i] = C[i - 1] + size1(i)
  <2>1. 0 \in 0..m /\ \A i \in 1..m : i \in 0..m /\ i # 0
    BY <1>1
  <2> HIDE DEF Built
  <2> QED BY <2>1, <1>9
<1> DEFINE J == {j \in Nat : j <= m => C[j] \in Nat}
<1>11. 0 \in J
  BY <1>10
<1>12. ASSUME NEW j \in Nat, j \in J PROVE j + 1 \in J
  <2> SUFFICES ASSUME j + 1 <= m PROVE C[j + 1] \in Nat
    OBVIOUS
  <2>1. C[j] \in Nat /\ j + 1 \in 1..m /\ (j + 1) - 1 = j
    BY <1>1, <1>12
  <2>2. C[j + 1] = C[j] + size1(j + 1)
    BY <2>1, <1>10
  <2> QED BY <2>1, <2>2, <1>1
<1>13. \A i \in 0..m : C[i] \in Nat
  <2>1. \A j \in Nat : j \in J
    <3> HIDE DEF J
    <3> QED BY <1>11, <1>12, NatSetInduction
  <2> QED BY <2>1, <1>1
<1> QED BY <1>8, <1>10, <1>13 DEF m, size1

\* The files lie one after the other, and the users' clusters behind them.
LEMMA FilesOrder ==
  ASSUME Installable, NEW d \in KernelDisks, NEW e \in ProgramDisks, NEW k \in Nat \ {0}
  PROVE  /\ d.kernel.secs \in Nat \ {0} /\ d.stage2 \in Nat \ {0}
         /\ BinAt(d, k) \in Nat /\ BinAt(d, k) >= 4
         /\ UsersAt(d, e, k) \in Nat /\ UsersAt(d, e, k) > BinAt(d, k)
         /\ \A i \in 1..Len(BinFiles(e)) + 1 :
              FileAt(d, e, k, i) \in Nat /\ FileAt(d, e, k, i) > BinAt(d, k)
         /\ FileAt(d, e, k, 1) = BinAt(d, k) + 1
         /\ FileAt(d, e, k, Len(BinFiles(e)) + 1) = UsersAt(d, e, k)
         /\ \A i \in 1..Len(BinFiles(e)) :
              /\ Ceil(BinFiles(e)[i].secs, k) \in Nat
              /\ FileAt(d, e, k, i + 1) = FileAt(d, e, k, i) + Ceil(BinFiles(e)[i].secs, k)
              /\ FileAt(d, e, k, i) <= UsersAt(d, e, k)
         /\ Top(d, e, k) = UsersAt(d, e, k) + 3 + MaxUsers
<1> DEFINE m == Len(BinFiles(e))
           b == Ceil(d.kernel.secs, k)
           T == Taken(e, k)
           size1(i) == Ceil(BinFiles(e)[i].secs, k)
<1>1. d.kernel.secs \in Nat \ {0} /\ d.stage2 \in Nat \ {0}
  BY DEF Installable, SourcesOK, KernelDiskOK
<1>2. b \in Nat /\ b > 0
  BY <1>1, CeilNat
<1>3. m \in Nat /\ \A i \in 1..m : size1(i) \in Nat
  <2>1. Len(BinFiles(e)) \in Nat /\ \A i \in 1..Len(BinFiles(e)) : BinFiles(e)[i].secs \in Nat
    BY BinFilesAre
  <2> QED BY <2>1, CeilIs
<1>4. /\ T[0] = 0 /\ \A i \in 0..m : T[i] \in Nat
      /\ \A i \in 1..m : T[i] = T[i - 1] + size1(i)
  BY TakenIs
<1>5. /\ BinAt(d, k) = 3 + b /\ UsersAt(d, e, k) = BinAt(d, k) + 1 + T[m]
      /\ \A i : FileAt(d, e, k, i) = BinAt(d, k) + 1 + T[i - 1]
      /\ Top(d, e, k) = 3 + b + 1 + T[m] + 3 + MaxUsers
  BY DEF BinAt, UsersAt, FileAt, Top
<1>6. MaxUsers \in Nat
  BY Sizes
<1> HIDE DEF m, b, T, size1
<1> DEFINE J == {j \in Nat : \A i \in 0..m : i + j = m => T[i] <= T[m]}
<1>7. 0 \in J
  BY <1>3, <1>4
<1>8. ASSUME NEW j \in Nat, j \in J PROVE j + 1 \in J
  <2> SUFFICES ASSUME NEW i \in 0..m, i + (j + 1) = m PROVE T[i] <= T[m]
    OBVIOUS
  <2>1. i + 1 \in 1..m /\ (i + 1) + j = m /\ (i + 1) - 1 = i /\ i + 1 \in 0..m
    BY <1>3
  <2>2. T[i + 1] <= T[m]
    BY <2>1, <1>8
  <2>3. T[i + 1] = T[i] + size1(i + 1)
    BY <2>1, <1>4
  <2>4. T[i] \in Nat /\ T[i + 1] \in Nat /\ T[m] \in Nat /\ size1(i + 1) \in Nat
    BY <2>1, <1>3, <1>4
  <2> QED BY <2>2, <2>3, <2>4
<1>9. \A i \in 0..m : T[i] <= T[m]
  <2>1. \A j \in Nat : j \in J
    <3> HIDE DEF J
    <3> QED BY <1>7, <1>8, NatSetInduction
  <2>2. \A i \in 0..m : m - i \in Nat /\ i + (m - i) = m
    BY <1>3
  <2> QED BY <2>1, <2>2
<1>10. BinAt(d, k) \in Nat /\ BinAt(d, k) >= 4
  BY <1>2, <1>5
<1>11. T[m] \in Nat
  BY <1>3, <1>4
<1>12. ASSUME NEW i \in 1..m + 1
       PROVE FileAt(d, e, k, i) \in Nat /\ FileAt(d, e, k, i) > BinAt(d, k)
  <2>1. i - 1 \in 0..m
    BY <1>3
  <2>2. T[i - 1] \in Nat
    BY <2>1, <1>4
  <2> QED BY <2>2, <1>5, <1>10
<1>13. ASSUME NEW i \in 1..m
       PROVE  /\ FileAt(d, e, k, i + 1) = FileAt(d, e, k, i) + size1(i)
              /\ FileAt(d, e, k, i) <= UsersAt(d, e, k)
  <2>1. i - 1 \in 0..m /\ (i + 1) - 1 = i /\ i \in 0..m
    BY <1>3
  <2>2. T[i] \in Nat /\ T[i - 1] \in Nat /\ T[i] = T[i - 1] + size1(i) /\ T[i - 1] <= T[m]
    BY <2>1, <1>4, <1>9
  <2>3. /\ FileAt(d, e, k, i + 1) = BinAt(d, k) + 1 + T[i]
        /\ FileAt(d, e, k, i) = BinAt(d, k) + 1 + T[i - 1]
    BY <2>1, <1>5
  <2> QED BY <2>2, <2>3, <1>3, <1>5, <1>10, <1>11
<1>14. FileAt(d, e, k, 1) = BinAt(d, k) + 1
  BY <1>4, <1>5, <1>10
<1>15. FileAt(d, e, k, m + 1) = UsersAt(d, e, k)
  <2>1. (m + 1) - 1 = m
    BY <1>3
  <2> QED BY <2>1, <1>5
<1>16. UsersAt(d, e, k) \in Nat /\ UsersAt(d, e, k) > BinAt(d, k)
  BY <1>5, <1>10, <1>11
<1>17. Top(d, e, k) = UsersAt(d, e, k) + 3 + MaxUsers
  BY <1>2, <1>5, <1>6, <1>11
<1> QED BY <1>1, <1>3, <1>10, <1>12, <1>13, <1>14, <1>15, <1>16, <1>17 DEF m, size1

\* Installable gives every layout the search settles at room for the system.
LEMMA RoomOf ==
  ASSUME Installable, NEW s \in HddSizes, NEW k, NEW n, Settled(s, k, n),
         NEW d \in KernelDisks, NEW e \in ProgramDisks
  PROVE  /\ Room(s, k, n, Top(d, e, k))
         /\ Len(BinFiles(e)) + 2 <= DirSlots * k
<1>1. /\ k \in 1..MaxSpc /\ k \in Nat \ {0} /\ n \in 1..s /\ n \in Nat /\ Accepted(s, k, n)
      /\ s \in Nat
  BY LayNums DEF Settled
<1>2. DiskFits(s, k, n)
  BY DEF Installable
<1> DEFINE t == Top(d, e, k)
           data == PartStart + Res + 2 * n
           last == data + (t - 2) * k - 1
<1>3. /\ t <= CountOf(s, k, n) + 2 /\ Len(BinFiles(e)) + 2 <= DirSlots * k
      /\ High(data) = High(last)
      /\ \A c \in 3..t - 1 :
           High(FatLba(c) + n) + BufSeg \notin
             {0} \cup (PartStart..PartStart + Res + n - 1) \cup (data..last)
  BY <1>2 DEF DiskFits
<1>4. /\ UsersAt(d, e, k) \in Nat /\ UsersAt(d, e, k) >= 4
      /\ t = UsersAt(d, e, k) + 3 + MaxUsers /\ MaxUsers \in Nat
  <2>1. /\ UsersAt(d, e, k) \in Nat /\ UsersAt(d, e, k) > BinAt(d, k)
        /\ BinAt(d, k) \in Nat /\ BinAt(d, k) >= 4
        /\ t = UsersAt(d, e, k) + 3 + MaxUsers
    BY <1>1, FilesOrder
  <2> QED BY <2>1, Sizes
<1>5. t \in Nat /\ t >= 4
  BY <1>4
<1>6. data = DataStart(n) /\ last = Start(k, n, t) - 1
  <2> DEFINE p == (t - 2) * k
  <2>1. p \in Int /\ last = data + p - 1 /\ Start(k, n, t) = data + p
    <3>1. t - 2 \in Int
      BY <1>5
    <3> HIDE DEF t
    <3> QED BY <1>1, <3>1 DEF DataStart, Start
  <2>2. data \in Int
    BY <1>1, Sizes
  <2> HIDE DEF p, data, last, t
  <2>3. last = Start(k, n, t) - 1
    BY <2>1, <2>2
  <2> QED BY <2>3 DEF data, DataStart
<1>7. \A c : High(FatLba(c) + n) + BufSeg = MirrorAt(n, c)
  BY DEF MirrorAt
<1> HIDE DEF t, data, last
<1> QED BY <1>3, <1>5, <1>6, <1>7 DEF Room, t
-----------------------------------------------------------------------------
(* What the procedures queue.                                               *)

\* T writes X[1] to X[m], from sector l on.
Fills(T, l, m, X) ==
  /\ IsSeq(T)
  /\ \A o : InSeq(T, o) <=> \E i \in 1..m : o = Write(l + i - 1, X[i])
\* T chains the clusters from c to c + m - 1.
Links(T, c, m) ==
  /\ IsSeq(T)
  /\ \A o : InSeq(T, o) <=>
       \E i \in 1..m : \/ o = Link(c + i - 1, IF i = m THEN Eoc ELSE c + i)
                       \/ o = Mirror(c + i - 1)

LEMMA TableFills ==
  ASSUME NEW T, NEW l \in Int, NEW m \in Nat, NEW X,
         T = [i \in 1..m |-> Write(l + i - 1, X[i])]
  PROVE  Fills(T, l, m, X)
<1>1. T = [i \in 1..m |-> T[i]] /\ \A i \in 1..m : T[i] = Write(l + i - 1, X[i])
  OBVIOUS
<1>2. /\ IsSeq(T)
      /\ \A o : InSeq(T, o) <=> \E i \in 1..m : T[i] = o
  BY <1>1, TableSeq
<1> QED BY <1>1, <1>2 DEF Fills

LEMMA PairHas ==
  ASSUME NEW x, NEW y
  PROVE  /\ IsSeq(<<x, y>>)
         /\ \A o : InSeq(<<x, y>>, o) <=> o = x \/ o = y
<1>1. <<x, y>> \in Seq({x, y}) /\ Len(<<x, y>>) = 2
  OBVIOUS
<1>2. <<x, y>>[1] = x /\ <<x, y>>[2] = y
  OBVIOUS
<1>3. \A i \in 1..2 : i = 1 \/ i = 2
  OBVIOUS
<1>4. 1 \in 1..2 /\ 2 \in 1..2
  OBVIOUS
<1>5. IsSeq(<<x, y>>)
  BY <1>1 DEF IsSeq
<1>6. ASSUME NEW o PROVE InSeq(<<x, y>>, o) <=> o = x \/ o = y
  <2>1. InSeq(<<x, y>>, o) <=> \E i \in 1..2 : <<x, y>>[i] = o
    BY <1>1 DEF InSeq
  <2> QED BY <2>1, <1>2, <1>3, <1>4
<1> QED BY <1>5, <1>6

LEMMA OneHas ==
  ASSUME NEW x
  PROVE  /\ IsSeq(<<x>>) /\ <<x>> # <<>> /\ Head(<<x>>) = x /\ Tail(<<x>>) = <<>>
         /\ \A o : InSeq(<<x>>, o) <=> o = x
<1>1. <<x>> \in Seq({x}) /\ Len(<<x>>) = 1 /\ <<x>>[1] = x
  OBVIOUS
<1>2. IsSeq(<<x>>)
  BY <1>1 DEF IsSeq
<1>3. ASSUME NEW o PROVE InSeq(<<x>>, o) <=> o = x
  <2>1. InSeq(<<x>>, o) <=> \E i \in 1..1 : <<x>>[i] = o
    BY <1>1 DEF InSeq
  <2> QED BY <2>1, <1>1
<1>4. <<x>> # <<>> /\ Head(<<x>>) = x /\ Tail(<<x>>) = <<>>
  OBVIOUS
<1> QED BY <1>2, <1>3, <1>4

\* What fat32_alloc_chain queues.
LEMMA AllocHas ==
  ASSUME NEW c \in Nat, NEW m \in Nat
  PROVE  Links(AllocChain(c, m), c, m)
<1> DEFINE v(i) == IF i = m THEN Eoc ELSE c + i
           B == [i \in 1..m |-> <<Link(c + i - 1, v(i)), Mirror(c + i - 1)>>]
<1>1. AllocChain(c, m) = FlattenSeq(B)
  <2> DEFINE A == [i \in 1..m |->
        LET x == c + i - 1
        IN <<Link(x, IF i = m THEN Eoc ELSE x + 1), Mirror(x)>>]
  <2>1. AllocChain(c, m) = FlattenSeq(A)
    BY DEF AllocChain
  <2>2. \A i \in 1..m : (c + i - 1) + 1 = c + i
    OBVIOUS
  <2>3. A = B
    BY <2>2
  <2> QED BY <2>1, <2>3
<1>2. B = [i \in 1..m |-> B[i]]
  OBVIOUS
<1>3. \A i \in 1..m : B[i] = <<Link(c + i - 1, v(i)), Mirror(c + i - 1)>>
  OBVIOUS
<1> HIDE DEF B, v
<1>4. ASSUME NEW i \in 1..m
      PROVE  /\ IsSeq(B[i])
             /\ \A o : InSeq(B[i], o) <=> o = Link(c + i - 1, v(i)) \/ o = Mirror(c + i - 1)
  BY <1>3, PairHas
<1>5. /\ IsSeq(FlattenSeq(B))
      /\ \A o : InSeq(FlattenSeq(B), o) <=> \E i \in 1..m : InSeq(B[i], o)
  <2> HIDE <1>3
  <2> QED BY <1>2, <1>4, FlattenHas
<1>6. /\ IsSeq(AllocChain(c, m))
      /\ \A o : InSeq(AllocChain(c, m), o) <=>
           \E i \in 1..m : o = Link(c + i - 1, v(i)) \/ o = Mirror(c + i - 1)
  <2> DEFINE A == AllocChain(c, m)
             F == FlattenSeq(B)
  <2>1. A = F /\ IsSeq(F) /\ \A o : InSeq(F, o) <=> \E i \in 1..m : InSeq(B[i], o)
    BY <1>1, <1>5
  <2> HIDE DEF A, F
  <2>2. ASSUME NEW o
        PROVE  InSeq(A, o) <=>
                 \E i \in 1..m : o = Link(c + i - 1, v(i)) \/ o = Mirror(c + i - 1)
    <3>1. InSeq(A, o) <=> \E i \in 1..m : InSeq(B[i], o)
      BY <2>1
    <3>2. \A i \in 1..m : InSeq(B[i], o) <=>
            o = Link(c + i - 1, v(i)) \/ o = Mirror(c + i - 1)
      BY <1>4
    <3> QED BY <3>1, <3>2
  <2> QED BY <2>1, <2>2 DEF A
<1> QED BY <1>6, Zenon DEF Links, v

\* The sectors of a cluster, and the links of a chain.
LEMMA FillsIs ==
  ASSUME NEW T, NEW l \in Int, NEW m \in Nat, NEW X, Fills(T, l, m, X), NEW n
  PROVE  /\ \A i \in 1..m :
              /\ InSeq(T, Write(l + i - 1, X[i]))
              /\ \A o : InSeq(T, o) /\ Touches(n, o, l + i - 1)
                          => o = Write(l + i - 1, X[i])
         /\ \A y : y \notin l..l + m - 1 =>
              \A o : InSeq(T, o) => ~Touches(n, o, y)
         /\ \A c : FatLba(c) \notin l..l + m - 1 =>
              \A o : InSeq(T, o) => ~Changes(n, o, c)
         /\ ~InSeq(T, Fail)
<1>1. \A o : InSeq(T, o) <=> \E i \in 1..m : o = Write(l + i - 1, X[i])
  BY DEF Fills
<1>2. \A i \in 1..m : l + i - 1 \in l..l + m - 1
  OBVIOUS
<1>3. \A i, j \in 1..m : l + i - 1 = l + j - 1 => i = j
  OBVIOUS
<1>4. ASSUME NEW o, NEW y, InSeq(T, o), Touches(n, o, y)
      PROVE  \E i \in 1..m : o = Write(l + i - 1, X[i]) /\ y = l + i - 1
  <2>1. PICK i \in 1..m : o = Write(l + i - 1, X[i])
    BY <1>1, <1>4
  <2>2. y = l + i - 1
    BY <2>1, <1>4, OpFields DEF Touches
  <2> QED BY <2>1, <2>2
<1>5. ASSUME NEW o, NEW c, InSeq(T, o), Changes(n, o, c)
      PROVE  FatLba(c) \in l..l + m - 1
  <2>1. PICK i \in 1..m : o = Write(l + i - 1, X[i])
    BY <1>1, <1>5
  <2>2. FatLba(c) = l + i - 1
    BY <2>1, <1>5, OpFields DEF Changes
  <2> QED BY <2>2, <1>2
<1>6. ~InSeq(T, Fail)
  BY <1>1, OpFields
<1> QED BY <1>1, <1>2, <1>3, <1>4, <1>5, <1>6

\* One link of a chain that T writes: it is there and nothing else changes it.
LinkThere(T, n, c, m, i) ==
  /\ InSeq(T, Link(c + i - 1, IF i = m THEN Eoc ELSE c + i))
  /\ \A o : InSeq(T, o) /\ Changes(n, o, c + i - 1)
              => o = Link(c + i - 1, IF i = m THEN Eoc ELSE c + i)

LEMMA LinksIs ==
  ASSUME NEW T, NEW c \in Nat, NEW m \in Nat, Links(T, c, m), NEW n
  PROVE  /\ \A i \in 1..m :
              (\A b \in c..c + m - 1 : MirrorAt(n, b) # FatLba(c + i - 1)) =>
                LinkThere(T, n, c, m, i)
         /\ \A b : b \notin c..c + m - 1 /\
                   (\A x \in c..c + m - 1 : MirrorAt(n, x) # FatLba(b)) =>
              \A o : InSeq(T, o) => ~Changes(n, o, b)
         /\ \A y : (\A b \in c..c + m - 1 : MirrorAt(n, b) # y /\ FatLba(b) # y) =>
              \A o : InSeq(T, o) => ~Touches(n, o, y)
         /\ ~InSeq(T, Fail)
<1> DEFINE v(i) == IF i = m THEN Eoc ELSE c + i
<1>1. \A o : InSeq(T, o) <=>
        \E i \in 1..m : o = Link(c + i - 1, v(i)) \/ o = Mirror(c + i - 1)
  BY DEF Links
<1> HIDE DEF v
<1>2. \A i \in 1..m : c + i - 1 \in c..c + m - 1
  OBVIOUS
<1>3. \A i, j \in 1..m : c + i - 1 = c + j - 1 => i = j
  OBVIOUS
<1>4. ASSUME NEW o, NEW b, InSeq(T, o), Changes(n, o, b)
      PROVE  \E i \in 1..m : \/ o = Link(c + i - 1, v(i)) /\ b = c + i - 1
                             \/ FatLba(b) = MirrorAt(n, c + i - 1)
  <2>1. PICK i \in 1..m : o = Link(c + i - 1, v(i)) \/ o = Mirror(c + i - 1)
    BY <1>1, <1>4
  <2> QED BY <2>1, <1>4, OpFields DEF Changes
<1>5. ASSUME NEW o, NEW y, InSeq(T, o), Touches(n, o, y)
      PROVE  \E b \in c..c + m - 1 : MirrorAt(n, b) = y \/ FatLba(b) = y
  <2>1. PICK i \in 1..m : o = Link(c + i - 1, v(i)) \/ o = Mirror(c + i - 1)
    BY <1>1, <1>5
  <2>2. MirrorAt(n, c + i - 1) = y \/ FatLba(c + i - 1) = y
    BY <2>1, <1>5, OpFields DEF Touches
  <2> QED BY <2>2, <1>2
<1>6. ~InSeq(T, Fail)
  BY <1>1, OpFields
<1>7. ASSUME NEW i \in 1..m,
             \A b \in c..c + m - 1 : MirrorAt(n, b) # FatLba(c + i - 1)
      PROVE  LinkThere(T, n, c, m, i)
  <2>1. ASSUME NEW o, InSeq(T, o), Changes(n, o, c + i - 1)
        PROVE  o = Link(c + i - 1, v(i))
    <3>1. PICK j \in 1..m : \/ o = Link(c + j - 1, v(j)) /\ c + i - 1 = c + j - 1
                            \/ FatLba(c + i - 1) = MirrorAt(n, c + j - 1)
      BY <2>1, <1>4
    <3>2. o = Link(c + j - 1, v(j)) /\ c + i - 1 = c + j - 1
      BY <3>1, <1>2, <1>7
    <3>3. i = j
      BY <3>2, <1>3
    <3> QED BY <3>2, <3>3
  <2>2. InSeq(T, Link(c + i - 1, v(i)))
    BY <1>1
  <2> QED BY <2>1, <2>2 DEF LinkThere, v
<1>8. ASSUME NEW b, b \notin c..c + m - 1,
             \A x \in c..c + m - 1 : MirrorAt(n, x) # FatLba(b), NEW o, InSeq(T, o)
      PROVE  ~Changes(n, o, b)
  BY <1>2, <1>4, <1>8
<1> QED BY <1>5, <1>6, <1>7, <1>8

LEMMA WithinFills ==
  ASSUME NEW T, NEW l \in Int, NEW m \in Nat, NEW X, Fills(T, l, m, X),
         NEW lo \in Int, NEW hi \in Int, lo <= l, l + m <= hi, NEW a, NEW b
  PROVE  Within(T, lo, hi, a, b)
<1>1. \A i \in 1..m : l + i - 1 \in lo..hi - 1
  OBVIOUS
<1> QED BY <1>1 DEF Fills, Within

LEMMA WithinLinks ==
  ASSUME NEW T, NEW c \in Nat, NEW m \in Nat, Links(T, c, m),
         NEW a \in Int, NEW b \in Int, a <= c, c + m <= b, NEW lo, NEW hi
  PROVE  Within(T, lo, hi, a, b)
<1>1. \A i \in 1..m : c + i - 1 \in a..b - 1
  OBVIOUS
<1> DEFINE v(i) == IF i = m THEN Eoc ELSE c + i
<1>2. \A o : InSeq(T, o) <=>
        \E i \in 1..m : o = Link(c + i - 1, v(i)) \/ o = Mirror(c + i - 1)
  BY DEF Links
<1> HIDE DEF v
<1> QED BY <1>1, <1>2 DEF Within

LEMMA WithinConcat ==
  ASSUME NEW T, IsSeq(T), NEW R, IsSeq(R), NEW lo, NEW hi, NEW a, NEW b,
         Within(T, lo, hi, a, b), Within(R, lo, hi, a, b)
  PROVE  Within(T \o R, lo, hi, a, b)
BY ConcatHas DEF Within

LEMMA WithinMore ==
  ASSUME NEW T, NEW lo \in Int, NEW hi \in Int, NEW a \in Int, NEW b \in Int,
         Within(T, lo, hi, a, b),
         NEW l2 \in Int, NEW h2 \in Int, NEW a2 \in Int, NEW b2 \in Int,
         l2 <= lo, hi <= h2, a2 <= a, b <= b2
  PROVE  Within(T, l2, h2, a2, b2)
<1>1. lo..hi - 1 \subseteq l2..h2 - 1 /\ a..b - 1 \subseteq a2..b2 - 1
  OBVIOUS
<1> QED BY <1>1 DEF Within
-----------------------------------------------------------------------------
(* The sectors copy_file_to_dst writes.                                     *)

LEMMA HighMonotone ==
  ASSUME NEW a \in Nat, NEW b \in Nat, a <= b
  PROVE  High(a) \in Nat /\ High(b) \in Nat /\ High(a) <= High(b)
<1>1. WordSize \in Nat \ {0}
  BY Sizes
<1> DEFINE x == a \div WordSize
           y == b \div WordSize
<1>2. x \in Nat /\ y \in Nat /\ x <= y
  BY <1>1, DivMod, DivMonotone
<1> HIDE DEF x, y
<1>3. x * WordSize <= y * WordSize /\ x * WordSize \in Nat /\ y * WordSize \in Nat
  BY <1>1, <1>2, TimesLess
<1>4. High(a) = WordSize * x /\ High(b) = WordSize * y
  BY DEF High, x, y
<1>5. WordSize * x = x * WordSize /\ WordSize * y = y * WordSize
  BY <1>1, <1>2
<1> QED BY <1>3, <1>4, <1>5

\* INC reaches every sector: the copy stays within a multiple of WordSize.
LEMMA CopyReaches ==
  ASSUME NEW lo \in Nat, NEW hi \in Nat, High(lo) = High(hi),
         NEW l \in Nat, NEW i \in Nat, lo <= l, l + i <= hi
  PROVE  CopyLba(l, i) = l + i
<1>1. l <= hi /\ lo <= l + i /\ l + i \in Nat
  OBVIOUS
<1>2. High(lo) <= High(l) /\ High(l) <= High(l + i) /\ High(l + i) <= High(hi)
  <2>1. l <= l + i
    OBVIOUS
  <2> QED BY <1>1, <2>1, HighMonotone
<1>3. High(lo) \in Nat /\ High(l) \in Nat /\ High(l + i) \in Nat
  BY <1>1, HighMonotone
<1>4. High(l) = High(l + i)
  BY <1>2, <1>3
<1> DEFINE x == l + i
<1>5. x = High(x) + Word(x)
  <2>1. WordSize \in Nat \ {0} /\ x \in Nat
    BY Sizes
  <2> HIDE DEF x
  <2> QED BY <2>1, DivMod DEF High, Word
<1> QED BY <1>4, <1>5 DEF CopyLba
-----------------------------------------------------------------------------
(* What stays when a procedure queues its operations.                       *)

\* The layout is found, and has room for the clusters below t.
Laid(t) ==
  /\ size \in HddSizes /\ Settled(size, spc, fatSecs) /\ Room(size, spc, fatSecs, t)
S(c) == Start(spc, fatSecs, c)

\* What lies where in the layout of the running installation.
LEMMA LaidIs ==
  ASSUME NEW t, Laid(t)
  PROVE  /\ t \in Nat /\ t >= 4 /\ spc \in Nat \ {0} /\ fatSecs \in Nat \ {0}
         /\ size \in Nat /\ PartStart \in Nat \ {0} /\ Res \in Nat
         /\ Res >= 2 + Stage2Max /\ Stage2Max \in Nat
         /\ DataStart(fatSecs) \in Nat
         /\ DataStart(fatSecs) >= PartStart + Res + fatSecs
         /\ S(2) = DataStart(fatSecs) /\ S(3) = DataStart(fatSecs) + spc
         /\ S(t) <= size /\ S(t) \in Nat
         /\ \A c \in Int : S(c) \in Int
<1>1. /\ t \in Nat /\ t >= 4 /\ size \in HddSizes /\ Settled(size, spc, fatSecs)
      /\ Room(size, spc, fatSecs, t)
  BY DEF Laid, Room
<1>2. spc \in Nat \ {0} /\ fatSecs \in 1..size /\ size \in Nat
  BY <1>1, LayNums
<1>3. /\ DataStart(fatSecs) \in Nat
      /\ DataStart(fatSecs) >= PartStart + Res + fatSecs
      /\ S(2) = DataStart(fatSecs) /\ S(3) = DataStart(fatSecs) + spc
      /\ \A c \in Int : S(c) \in Int
  BY <1>2, StartIs DEF S
<1>4. S(t) <= size /\ DataStart(fatSecs) + 2 * spc <= S(t)
  BY <1>1, RoomNums DEF S
<1>5. S(t) \in Int
  BY <1>1, <1>3
<1>6. S(t) \in Nat
  BY <1>2, <1>3, <1>4, <1>5
<1>7. /\ PartStart \in Nat \ {0} /\ Res \in Nat
      /\ Res >= 2 + Stage2Max /\ Stage2Max \in Nat
  BY Sizes
<1> QED BY <1>1, <1>2, <1>3, <1>4, <1>6, <1>7

LEMMA LaidOrder ==
  ASSUME NEW t, Laid(t), NEW a \in Int, NEW b \in Int
  PROVE  /\ a <= b => S(a) <= S(b)
         /\ a < b => S(a) + spc <= S(b)
<1>1. spc \in Nat \ {0} /\ fatSecs \in Nat /\ S(a) \in Int /\ S(b) \in Int
  BY LaidIs
<1>2. a < b => S(a) + spc <= S(b)
  BY <1>1, StartOrder DEF S
<1>3. a = b => S(a) = S(b)
  OBVIOUS
<1> QED BY <1>1, <1>2, <1>3

LEMMA LaidFat ==
  ASSUME NEW t, Laid(t), NEW c \in 3..t - 1
  PROVE  /\ FatLba(c) \in PartStart + Res..PartStart + Res + fatSecs - 1
         /\ FatLba(c) < DataStart(fatSecs)
         /\ MirrorAt(fatSecs, c) \notin
              {0} \cup (PartStart..PartStart + Res + fatSecs - 1)
                  \cup (DataStart(fatSecs)..S(t) - 1)
<1>1. c \in 0..t - 1
  BY LaidIs
<1>2. FatLba(c) \in PartStart + Res..PartStart + Res + fatSecs - 1
  BY <1>1, RoomNums DEF Laid
<1>3. FatLba(c) < DataStart(fatSecs)
  BY <1>2, LaidIs
<1> QED BY <1>2, <1>3 DEF Laid, Room, S

\* Sectors outside of what T writes, where no FAT is and no second copy falls.
LEMMA KeepSec ==
  ASSUME NEW t, Laid(t), NEW T, NEW lo, NEW hi, NEW g \in Nat, NEW h \in Nat,
         g >= 3, h <= t, Within(T, lo, hi, g, h),
         NEW l, l \notin lo..hi - 1,
         l \in {0} \cup (PartStart..PartStart + Res - 1)
                   \cup (DataStart(fatSecs)..S(t) - 1)
  PROVE  /\ \A o : InSeq(T, o) => ~Touches(fatSecs, o, l)
         /\ \A D, x : WillBe(D, <<>>, fatSecs, l, x) => WillBe(D, T, fatSecs, l, x)
<1>1. ASSUME NEW c \in g..h - 1 PROVE l # FatLba(c) /\ l # MirrorAt(fatSecs, c)
  <2>1. c \in 3..t - 1
    BY LaidIs
  <2> QED BY <2>1, LaidFat, LaidIs
<1>2. ASSUME NEW o, InSeq(T, o) PROVE ~Touches(fatSecs, o, l)
  BY <1>1, <1>2, OpFields DEF Within, Touches
<1> QED BY <1>2, WillDone DEF WillBe

\* A part that is queued later leaves links and sectors of earlier ones alone.
LEMMA KeepLink ==
  ASSUME NEW t, Laid(t), NEW T, NEW lo \in Int, NEW hi \in Int, NEW g \in Nat, NEW h \in Nat,
         g >= 3, h <= t, Within(T, lo, hi, g, h),
         lo >= DataStart(fatSecs) \/ hi <= PartStart + Res,
         NEW c \in 3..t - 1, c \notin g..h - 1
  PROVE  /\ \A o : InSeq(T, o) => ~Changes(fatSecs, o, c)
         /\ \A D, v : WillLink(D, <<>>, fatSecs, c, v) => WillLink(D, T, fatSecs, c, v)
<1>1. /\ FatLba(c) \notin lo..hi - 1
      /\ FatLba(c) \in PartStart..PartStart + Res + fatSecs - 1
  BY LaidFat, LaidIs
<1>2. ASSUME NEW b \in g..h - 1 PROVE FatLba(c) # MirrorAt(fatSecs, b)
  <2>1. b \in 3..t - 1
    BY LaidIs
  <2> QED BY <1>1, <2>1, LaidFat
<1>3. ASSUME NEW o, InSeq(T, o) PROVE ~Changes(fatSecs, o, c)
  BY <1>1, <1>2, <1>3, OpFields DEF Within, Changes
<1> QED BY <1>3, WillDone DEF WillLink

\* T writes the clusters from a to b - 1 and links those from g to h - 1.
Confined(T, t, a, b, g, h) ==
  /\ a \in 2..t /\ b \in a..t /\ g \in 3..t /\ h \in g..t
  /\ Within(T, S(a), S(b), g, h)
\* The clusters from x to y - 1 are others.
Apart(t, a, b, x, y) == x \in 2..t /\ y \in x..t /\ (y <= a \/ b <= x)

LEMMA KeepData ==
  ASSUME NEW t, Laid(t), NEW T, NEW a, NEW b, NEW g, NEW h, Confined(T, t, a, b, g, h),
         NEW x, NEW y, Apart(t, a, b, x, y), NEW l \in S(x)..S(y) - 1,
         NEW D, NEW v, WillBe(D, <<>>, fatSecs, l, v)
  PROVE  WillBe(D, T, fatSecs, l, v)
<1>1. /\ a \in Int /\ b \in Int /\ x \in Int /\ y \in Int /\ t \in Int
      /\ g \in Nat /\ h \in Nat /\ g >= 3 /\ h <= t /\ 2 <= x /\ y <= t
      /\ (y <= a \/ b <= x)
  BY LaidIs DEF Confined, Apart
<1>2. (y <= a => S(y) <= S(a)) /\ (b <= x => S(b) <= S(x))
  BY <1>1, LaidOrder
<1>3. S(2) <= S(x) /\ S(y) <= S(t)
  BY <1>1, LaidOrder
<1>4. /\ S(a) \in Int /\ S(b) \in Int /\ S(x) \in Int /\ S(y) \in Int /\ S(t) \in Int
      /\ S(2) = DataStart(fatSecs) /\ DataStart(fatSecs) \in Int
  BY <1>1, LaidIs
<1>5. l \notin S(a)..S(b) - 1
  BY <1>1, <1>2, <1>4
<1>6. l \in DataStart(fatSecs)..S(t) - 1
  BY <1>3, <1>4
<1> QED BY <1>1, <1>5, <1>6, KeepSec DEF Confined

LEMMA KeepBoot ==
  ASSUME NEW t, Laid(t), NEW T, NEW a, NEW b, NEW g, NEW h, Confined(T, t, a, b, g, h),
         NEW l \in {0} \cup (PartStart..PartStart + Res - 1),
         NEW D, NEW v, WillBe(D, <<>>, fatSecs, l, v)
  PROVE  WillBe(D, T, fatSecs, l, v)
<1>1. /\ a \in Int /\ b \in Int /\ t \in Int
      /\ g \in Nat /\ h \in Nat /\ g >= 3 /\ h <= t /\ 2 <= a
  BY LaidIs DEF Confined
<1>2. S(2) <= S(a)
  BY <1>1, LaidOrder
<1>3. l < S(2) /\ S(a) \in Int /\ S(b) \in Int /\ l \in Int /\ S(2) \in Int
  <2>1. S(a) \in Int /\ S(b) \in Int
    BY <1>1, LaidIs
  <2>2. /\ PartStart \in Nat /\ Res \in Nat /\ fatSecs \in Nat /\ S(2) \in Nat
        /\ S(2) >= PartStart + Res + fatSecs /\ fatSecs > 0
    BY LaidIs
  <2> QED BY <2>1, <2>2
<1>4. l \notin S(a)..S(b) - 1
  BY <1>2, <1>3
<1> QED BY <1>1, <1>4, KeepSec DEF Confined

LEMMA KeepChain ==
  ASSUME NEW t, Laid(t), NEW T, NEW a, NEW b, NEW g, NEW h, Confined(T, t, a, b, g, h),
         NEW c \in 3..t - 1, c \notin g..h - 1,
         NEW D, NEW v, WillLink(D, <<>>, fatSecs, c, v)
  PROVE  WillLink(D, T, fatSecs, c, v)
<1>1. /\ a \in Int /\ b \in Int /\ t \in Int
      /\ g \in Nat /\ h \in Nat /\ g >= 3 /\ h <= t /\ 2 <= a
  BY LaidIs DEF Confined
<1>2. S(2) <= S(a)
  BY <1>1, LaidOrder
<1>3. S(a) \in Int /\ S(b) \in Int /\ S(a) >= DataStart(fatSecs)
  BY <1>1, <1>2, LaidIs
<1> QED BY <1>1, <1>3, KeepLink DEF Confined

\* Cluster c takes the sectors from S(c) to S(c + 1) - 1.
LEMMA SectorsOf ==
  ASSUME NEW t, Laid(t), NEW c \in Int, NEW m \in Nat
  PROVE  /\ S(c + m) = S(c) + m * spc /\ m * spc \in Nat
         /\ \A i \in 1..m * spc : S(c) + i - 1 \in S(c)..S(c + m) - 1
<1>1. spc \in Nat \ {0} /\ fatSecs \in Nat /\ S(c) \in Int
  BY LaidIs
<1>2. S(c + m) = S(c) + m * spc
  <2>1. c \in Int /\ m \in Int
    OBVIOUS
  <2> QED BY <1>1, <2>1, StartPlus, Zenon DEF S
<1> DEFINE p == m * spc
<1>3. p \in Nat
  BY <1>1
<1>4. S(c + m) = S(c) + p
  BY <1>2
<1> HIDE DEF p
<1>5. \A i \in 1..p : S(c) + i - 1 \in S(c)..S(c + m) - 1
  BY <1>1, <1>3, <1>4
<1> QED BY <1>2, <1>3, <1>5 DEF p

LEMMA OneCluster ==
  ASSUME NEW t, Laid(t), NEW c \in Int
  PROVE  /\ S(c + 1) = S(c) + spc
         /\ \A i \in 1..spc : S(c) + i - 1 \in S(c)..S(c + 1) - 1
<1>1. spc \in Nat \ {0} /\ S(c) \in Int /\ fatSecs \in Nat
  BY LaidIs
<1>2. S(c + 1) = S(c) + 1 * spc
  <2>1. c \in Int /\ 1 \in Int
    OBVIOUS
  <2> QED BY <1>1, <2>1, StartPlus, Zenon DEF S
<1>3. S(c + 1) = S(c) + spc
  BY <1>1, <1>2
<1> QED BY <1>1, <1>3

LEMMA KeepCluster ==
  ASSUME NEW t, Laid(t), NEW T, NEW a, NEW b, NEW g, NEW h, Confined(T, t, a, b, g, h),
         NEW c \in 2..t - 1, c < a \/ b <= c,
         NEW D, NEW x, Cluster(D, <<>>, spc, fatSecs, c, x)
  PROVE  Cluster(D, T, spc, fatSecs, c, x)
<1>1. Apart(t, a, b, c, c + 1)
  <2>1. t \in Nat /\ a \in 2..t /\ b \in a..t
    BY LaidIs DEF Confined
  <2> QED BY <2>1 DEF Apart
<1>2. \A i \in 1..spc : S(c) + i - 1 \in S(c)..S(c + 1) - 1
  BY OneCluster, LaidIs
<1> QED BY <1>1, <1>2, KeepData DEF Cluster, S

\* The sectors and the clusters of a file.
LEMMA FileExtent ==
  ASSUME NEW t, Laid(t), NEW c \in Nat, NEW secs \in Nat
  PROVE  /\ Ceil(secs, spc) \in Nat
         /\ \A i \in 1..secs :
              /\ i \in 1..Ceil(secs, spc) * spc
              /\ S(c) + i - 1 \in S(c)..S(c + Ceil(secs, spc)) - 1
<1>1. spc \in Nat \ {0}
  BY LaidIs
<1> DEFINE m == Ceil(secs, spc)
           p == m * spc
<1>2. m \in Nat /\ secs <= p
  BY <1>1, CeilIs
<1> HIDE DEF m
<1>3. p \in Nat /\ \A i \in 1..p : S(c) + i - 1 \in S(c)..S(c + m) - 1
  <2>1. c \in Int
    OBVIOUS
  <2> QED BY <1>2, <2>1, SectorsOf, Zenon
<1> HIDE DEF p
<1>4. \A i \in 1..secs : i \in 1..p
  BY <1>2, <1>3
<1> QED BY <1>2, <1>3, <1>4 DEF m, p

LEMMA KeepFile ==
  ASSUME NEW t, Laid(t), NEW T, NEW a, NEW b, NEW g, NEW h, Confined(T, t, a, b, g, h),
         NEW f, f.secs \in Nat, NEW c \in 3..t,
         c + Ceil(f.secs, spc) <= t,
         c + Ceil(f.secs, spc) <= a \/ b <= c, c + Ceil(f.secs, spc) <= g \/ h <= c,
         NEW D, NEW d, FileThere(D, <<>>, spc, fatSecs, d, f, c)
  PROVE  FileThere(D, T, spc, fatSecs, d, f, c)
<1> DEFINE m == Ceil(f.secs, spc)
<1>1. /\ m \in Nat /\ c \in Nat /\ t \in Nat
      /\ \A i \in 1..f.secs : S(c) + i - 1 \in S(c)..S(c + m) - 1
  <2>1. t \in Nat /\ c \in Nat
    BY LaidIs
  <2>2. /\ Ceil(f.secs, spc) \in Nat
        /\ \A i \in 1..f.secs : S(c) + i - 1 \in S(c)..S(c + Ceil(f.secs, spc)) - 1
    BY <2>1, FileExtent
  <2> QED BY <2>1, <2>2
<1> HIDE DEF m
<1>2. g \in Nat /\ h \in Nat /\ a \in Nat /\ b \in Nat
  BY <1>1 DEF Confined
<1>3. Apart(t, a, b, c, c + m)
  BY <1>1, <1>2 DEF Apart, m
<1>4. ASSUME NEW i \in 1..f.secs
      PROVE  WillBe(D, T, fatSecs, S(c) + i - 1, FileSector(d, f.name, i))
  <2>1. WillBe(D, <<>>, fatSecs, S(c) + i - 1, FileSector(d, f.name, i))
    BY DEF FileThere, S
  <2> QED BY <2>1, <1>1, <1>3, KeepData
<1>5. ASSUME NEW i \in 1..m
      PROVE  WillLink(D, T, fatSecs, c + i - 1, IF i = m THEN Eoc ELSE c + i)
  <2>1. WillLink(D, <<>>, fatSecs, c + i - 1, IF i = m THEN Eoc ELSE c + i)
    BY DEF FileThere, m
  <2>2. c + i - 1 \in 3..t - 1 /\ c + i - 1 \notin g..h - 1
    BY <1>1, <1>2 DEF m
  <2> QED BY <2>1, <2>2, KeepChain
<1> QED BY <1>4, <1>5 DEF FileThere, S, m
-----------------------------------------------------------------------------
(* What will be there once a procedure's queue is done.                     *)

LEMMA WithinOps ==
  ASSUME NEW T, NEW lo, NEW hi, NEW g \in Nat, NEW h \in Nat, Within(T, lo, hi, g, h)
  PROVE  \A o : InSeq(T, o) => IsOp(o)
<1>1. \A c \in g..h - 1 : c \in Nat
  OBVIOUS
<1> QED BY <1>1 DEF Within, IsOp

\* Where the FAT entries of T's clusters are not, and their second copies.
LEMMA LinksMiss ==
  ASSUME NEW t, Laid(t), NEW c \in 3..t, NEW m \in Nat, c + m <= t,
         NEW T, Links(T, c, m)
  PROVE  /\ \A l \in DataStart(fatSecs)..S(t) - 1 :
              \A o : InSeq(T, o) => ~Touches(fatSecs, o, l)
         /\ \A b \in 3..t - 1, x \in c..c + m - 1 : MirrorAt(fatSecs, x) # FatLba(b)
<1>1. t \in Nat /\ c \in Nat
  BY LaidIs
<1>2. \A x \in c..c + m - 1 : x \in 3..t - 1
  BY <1>1
<1>3. ASSUME NEW b \in 3..t - 1, NEW x \in c..c + m - 1
      PROVE  MirrorAt(fatSecs, x) # FatLba(b)
  <2>1. FatLba(b) \in PartStart + Res..PartStart + Res + fatSecs - 1
    BY LaidFat
  <2>2. MirrorAt(fatSecs, x) \notin PartStart..PartStart + Res + fatSecs - 1
    BY <1>2, LaidFat
  <2>3. PartStart \in Nat /\ Res \in Nat /\ fatSecs \in Nat
    BY LaidIs
  <2> QED BY <2>1, <2>2, <2>3
<1>4. ASSUME NEW l \in DataStart(fatSecs)..S(t) - 1
      PROVE  \A o : InSeq(T, o) => ~Touches(fatSecs, o, l)
  <2>1. ASSUME NEW b \in c..c + m - 1
        PROVE  MirrorAt(fatSecs, b) # l /\ FatLba(b) # l
    <3>1. FatLba(b) < DataStart(fatSecs) /\ MirrorAt(fatSecs, b) # l
      BY <1>2, LaidFat
    <3>2. DataStart(fatSecs) \in Nat
      BY LaidIs
    <3> QED BY <3>1, <3>2
  <2> QED BY <1>1, <2>1, LinksIs
<1> QED BY <1>3, <1>4

\* T writes x at l, and nothing else there.
Gives(T, n, l, x) ==
  /\ InSeq(T, Write(l, x))
  /\ \A o : InSeq(T, o) /\ Touches(n, o, l) => o = Write(l, x)

\* Once queued, the sectors and links of a file will be there.
LEMMA FillsGives ==
  ASSUME NEW T, NEW l \in Int, NEW m \in Nat, NEW X, Fills(T, l, m, X), NEW n,
         NEW i \in 1..m
  PROVE  Gives(T, n, l + i - 1, X[i])
<1>1. \A o : InSeq(T, o) <=> \E j \in 1..m : o = Write(l + j - 1, X[j])
  BY DEF Fills
<1>2. ASSUME NEW o, InSeq(T, o), Touches(n, o, l + i - 1)
      PROVE  o = Write(l + i - 1, X[i])
  <2>1. PICK j \in 1..m : o = Write(l + j - 1, X[j])
    BY <1>1, <1>2
  <2>2. l + i - 1 = l + j - 1
    BY <2>1, <1>2, OpFields DEF Touches
  <2>3. i = j
    BY <2>2
  <2> QED BY <2>1, <2>3
<1>3. InSeq(T, Write(l + i - 1, X[i]))
  BY <1>1
<1> QED BY <1>2, <1>3 DEF Gives

CopyIs(d, f, c) ==
  LET R == CopyFile(d, f, c)
      q == Ceil(f.secs, spc) * spc
  IN /\ R = [i \in 1..q |-> R[i]]
     /\ \A i \in 1..q :
          R[i] = IF i > f.secs THEN Write(S(c) + i - 1, Zero)
                 ELSE IF i <= f.chain * d.spc
                 THEN Write(S(c) + i - 1, FileSector(d, f.name, i)) ELSE Fail
LEMMA CopyTable ==
  ASSUME NEW t, Laid(t), NEW c \in 3..t, NEW f, f.secs \in Nat,
         c + Ceil(f.secs, spc) <= t, NEW d, Ceil(f.secs, spc) > 0
  PROVE  CopyIs(d, f, c)
<1> DEFINE R == CopyFile(d, f, c)
           m == Ceil(f.secs, spc)
           q == m * spc
           To(i, l) == IF i > f.secs THEN Write(l, Zero)
                       ELSE IF i <= f.chain * d.spc
                       THEN Write(l, FileSector(d, f.name, i)) ELSE Fail
<1>1. t \in Nat /\ c \in Nat /\ spc \in Nat \ {0}
  BY LaidIs
<1>2. m \in Nat
  BY <1>1, CeilNat
<1>3. q \in Nat /\ spc * m = q
  <2> HIDE DEF m
  <2> QED BY <1>1, <1>2
<1>4. R = [i \in 1..spc * m |-> To(i, CopyLba(ClusterLba(c), i - 1))]
  BY DEF CopyFile, ClustersOf
<1>5. R = [i \in 1..q |-> To(i, CopyLba(ClusterLba(c), i - 1))]
  <2> HIDE DEF R, q, m, To
  <2> QED BY <1>3, <1>4
<1>6. ClusterLba(c) = S(c)
  BY DEF ClusterLba, DataLba, S, Start, DataStart
<1>7. ASSUME NEW i \in 1..q PROVE CopyLba(S(c), i - 1) = S(c) + i - 1
  <2> DEFINE lo == DataStart(fatSecs)
             hi == S(t) - 1
  <2>1. S(c) + i - 1 \in S(c)..S(c + m) - 1
    <3> HIDE DEF m
    <3>1. c \in Int
      BY <1>1
    <3>2. \A j \in 1..m * spc : S(c) + j - 1 \in S(c)..S(c + m) - 1
      BY <1>2, <3>1, SectorsOf, Zenon
    <3> QED BY <3>2
  <2>2. S(c + m) <= S(t) /\ S(2) <= S(c)
    <3>1. c + m \in Int /\ c + m <= t /\ 2 <= c /\ t \in Int /\ c \in Int /\ 2 \in Int
      BY <1>1, <1>2
    <3> QED BY <3>1, LaidOrder
  <2>3. /\ S(c) \in Int /\ S(c + m) \in Int /\ S(t) \in Nat /\ lo \in Nat /\ S(2) = lo
    <3>1. c + m \in Int /\ c \in Int
      BY <1>1, <1>2
    <3> QED BY <3>1, LaidIs
  <2>4. High(lo) = High(hi)
    BY DEF Laid, Room, S
  <2>5. i - 1 \in Nat
    <3> HIDE DEF q
    <3> QED OBVIOUS
  <2> HIDE DEF q, m, lo
  <2>6. S(c) \in Nat /\ lo <= S(c) /\ S(c) + (i - 1) <= hi /\ hi \in Nat
    BY <2>1, <2>2, <2>3, <2>5
  <2> HIDE DEF hi
  <2>7. CopyLba(S(c), i - 1) = S(c) + (i - 1)
    BY <2>3, <2>4, <2>5, <2>6, CopyReaches
  <2> QED BY <2>7
<1> HIDE DEF q, m
<1>8. ASSUME NEW i \in 1..q PROVE R[i] = To(i, S(c) + i - 1)
  <2>1. R[i] = To(i, CopyLba(ClusterLba(c), i - 1))
    <3> HIDE DEF R, To
    <3> QED BY <1>5
  <2> HIDE DEF R, To
  <2> QED BY <2>1, <1>6, <1>7
<1>9. R = [i \in 1..q |-> R[i]]
  <2> HIDE DEF R, To
  <2> QED BY <1>5
<1> QED BY <1>8, <1>9 DEF q, m, CopyIs

LEMMA CopyHas ==
  ASSUME NEW t, Laid(t), NEW c \in 3..t, NEW f, f.secs \in Nat,
         c + Ceil(f.secs, spc) <= t, NEW d
  PROVE  LET R == CopyFile(d, f, FirstOf(c, Ceil(f.secs, spc)))
             q == Ceil(f.secs, spc) * spc
             X == [i \in 1..q |-> IF i > f.secs THEN Zero ELSE FileSector(d, f.name, i)]
         IN /\ IsSeq(R) /\ Within(R, S(c), S(c + Ceil(f.secs, spc)), c, c)
            /\ ~InSeq(R, Fail) => Fills(R, S(c), q, X)
<1> DEFINE m == Ceil(f.secs, spc)
           q == m * spc
           R == CopyFile(d, f, FirstOf(c, m))
           x(i) == IF i > f.secs THEN Zero ELSE FileSector(d, f.name, i)
           X == [i \in 1..q |-> x(i)]
<1>1. t \in Nat /\ c \in Nat /\ spc \in Nat \ {0} /\ c \in Int /\ S(c) \in Int
  BY LaidIs
<1>2. m \in Nat
  BY <1>1, CeilNat
<1>3. q \in Nat
  <2> HIDE DEF m
  <2> QED BY <1>1, <1>2
<1>4. CASE m = 0
  <2>1. q = 0
    BY <1>1, <1>4
  <2>2. R = <<>>
    <3>1. R = [i \in 1..spc * m |-> R[i]]
      BY DEF CopyFile, ClustersOf
    <3>2. spc * m = 0
      BY <1>1, <1>4
    <3> HIDE DEF R, m
    <3> QED BY <3>1, <3>2, TableSeq
  <2>3. \A i \in 1..q : FALSE
    BY <2>1
  <2> HIDE DEF R, q, m, X
  <2>4. IsSeq(R) /\ \A o : ~InSeq(R, o)
    BY <2>2, EmptyHas
  <2>5. Within(R, S(c), S(c + m), c, c) /\ Fills(R, S(c), q, X)
    BY <2>3, <2>4 DEF Within, Fills
  <2> QED BY <2>4, <2>5 DEF R, q, m, X
<1>5. CASE m # 0
  <2>1. m > 0 /\ FirstOf(c, m) = c
    BY <1>2, <1>5 DEF FirstOf
  <2> DEFINE W(i) == IF i > f.secs THEN Write(S(c) + i - 1, Zero)
                     ELSE IF i <= f.chain * d.spc
                     THEN Write(S(c) + i - 1, FileSector(d, f.name, i)) ELSE Fail
  <2>2. R = [i \in 1..q |-> R[i]] /\ \A i \in 1..q : R[i] = W(i)
    <3> DEFINE R0 == CopyFile(d, f, c)
    <3>1. R0 = [i \in 1..q |-> R0[i]] /\ \A i \in 1..q : R0[i] = W(i)
      <4>1. Ceil(f.secs, spc) > 0
        BY <2>1
      <4>2. CopyIs(d, f, c)
        BY <4>1, CopyTable
      <4> QED BY <4>2 DEF CopyIs
    <3>2. R = R0
      BY <2>1
    <3> HIDE DEF R, R0, W, q
    <3> QED BY <3>1, <3>2
  <2>3. \A i \in 1..q : W(i) = Write(S(c) + i - 1, x(i)) \/ W(i) = Fail
    OBVIOUS
  <2>4. \A i \in 1..q : S(c) + i - 1 \in S(c)..S(c + m) - 1
    <3> HIDE DEF m
    <3> QED BY <1>1, <1>2, SectorsOf, Zenon
  <2> HIDE DEF R, m, q, W, x
  <2>5. /\ IsSeq(R)
        /\ \A o : InSeq(R, o) <=> \E i \in 1..q : R[i] = o
    BY <1>3, <2>2, TableSeq
  <2>6. Within(R, S(c), S(c + m), c, c)
    BY <2>2, <2>3, <2>4, <2>5 DEF Within
  <2>7. ASSUME ~InSeq(R, Fail) PROVE Fills(R, S(c), q, X)
    <3>1. \A i \in 1..q : R[i] = Write(S(c) + i - 1, X[i])
      <4>1. \A i \in 1..q : R[i] # Fail
        BY <2>5, <2>7
      <4> QED BY <4>1, <2>2, <2>3
    <3>2. R = [i \in 1..q |-> Write(S(c) + i - 1, X[i])]
      <4> HIDE DEF X
      <4> QED BY <3>1, <2>2
    <3> HIDE DEF X
    <3> QED BY <3>2, <1>1, <1>3, TableFills
  <2> QED BY <2>5, <2>6, <2>7 DEF R, m, q, x
<1> QED BY <1>4, <1>5

\* A file: its chain, and its sectors if the floppy has them all.
LEMMA CopyThere ==
  ASSUME NEW t, Laid(t), NEW c \in 3..t, NEW f, f.secs \in Nat,
         c + Ceil(f.secs, spc) <= t, NEW d, NEW T,
         T = AllocChain(c, Ceil(f.secs, spc))
               \o CopyFile(d, f, FirstOf(c, Ceil(f.secs, spc)))
  PROVE  /\ IsSeq(T)
         /\ Confined(T, t, c, c + Ceil(f.secs, spc), c, c + Ceil(f.secs, spc))
         /\ ~InSeq(T, Fail) => \A D : FileThere(D, T, spc, fatSecs, d, f, c)
<1> DEFINE m == Ceil(f.secs, spc)
           q == m * spc
           A == AllocChain(c, m)
           R == CopyFile(d, f, FirstOf(c, m))
           x(i) == IF i > f.secs THEN Zero ELSE FileSector(d, f.name, i)
           X == [i \in 1..q |-> x(i)]
<1>1. t \in Nat /\ c \in Nat /\ spc \in Nat \ {0} /\ c \in Int /\ S(c) \in Int
  BY LaidIs
<1>2. m \in Nat /\ \A i \in 1..f.secs :
        i \in 1..q /\ S(c) + i - 1 \in S(c)..S(c + m) - 1
  BY <1>1, FileExtent
<1>3. /\ IsSeq(R) /\ Within(R, S(c), S(c + m), c, c)
      /\ ~InSeq(R, Fail) => Fills(R, S(c), q, X)
  BY CopyHas
<1> HIDE DEF A, R, X
<1>4. Links(A, c, m)
  <2> HIDE DEF m
  <2> QED BY <1>1, <1>2, AllocHas DEF A
<1>5. T = A \o R
  BY DEF A, R
<1>6. q \in Nat /\ S(c + m) = S(c) + q
  <2> HIDE DEF m
  <2> QED BY <1>1, <1>2, SectorsOf, Zenon
<1> HIDE DEF m
<1>7. IsSeq(A) /\ IsSeq(T) /\ \A o : InSeq(T, o) <=> InSeq(A, o) \/ InSeq(R, o)
  <2>1. IsSeq(A)
    BY <1>4 DEF Links
  <2> QED BY <1>3, <1>5, <2>1, ConcatHas
<1>8. Confined(T, t, c, c + m, c, c + m)
  <2>1. S(c + m) \in Int /\ c + m \in Int
    BY <1>1, <1>2, LaidIs
  <2>2. Within(A, S(c), S(c + m), c, c + m)
    BY <1>1, <1>2, <1>4, <2>1, WithinLinks
  <2>3. Within(R, S(c), S(c + m), c, c + m)
    <3>1. c <= c + m /\ c <= c /\ S(c) <= S(c) /\ S(c + m) <= S(c + m)
      BY <1>1, <1>2, <2>1
    <3> QED BY <1>1, <1>3, <2>1, <3>1, WithinMore
  <2>4. Within(T, S(c), S(c + m), c, c + m)
    BY <1>3, <1>5, <1>7, <2>2, <2>3, WithinConcat
  <2>5. c \in 2..t /\ c + m \in c..t
    BY <1>1, <1>2 DEF m
  <2> QED BY <2>4, <2>5 DEF Confined
<1>9. ASSUME ~InSeq(T, Fail), NEW D PROVE FileThere(D, T, spc, fatSecs, d, f, c)
  <2>1. Fills(R, S(c), q, X)
    BY <1>3, <1>7, <1>9
  <2>2. /\ \A l \in DataStart(fatSecs)..S(t) - 1 :
              \A o : InSeq(A, o) => ~Touches(fatSecs, o, l)
        /\ \A b \in 3..t - 1, y \in c..c + m - 1 : MirrorAt(fatSecs, y) # FatLba(b)
    <3>1. c + m <= t
      BY DEF m
    <3> QED BY <1>2, <1>4, <3>1, LinksMiss
  <2>3. /\ S(c + m) \in Int /\ S(t) \in Int /\ DataStart(fatSecs) \in Int
        /\ DataStart(fatSecs) <= S(c) /\ S(c + m) <= S(t)
    <3>1. c + m \in Int /\ c + m <= t /\ 2 <= c /\ t \in Int /\ 2 \in Int
      BY <1>1, <1>2 DEF m
    <3>2. S(2) <= S(c) /\ S(c + m) <= S(t)
      BY <1>1, <3>1, LaidOrder
    <3> QED BY <3>1, <3>2, LaidIs
  <2>4. ASSUME NEW i \in 1..f.secs
        PROVE  WillBe(D, T, fatSecs, S(c) + i - 1, FileSector(d, f.name, i))
    <3> DEFINE l == S(c) + i - 1
               y == FileSector(d, f.name, i)
    <3>1. i \in 1..q /\ l \in S(c)..S(c + m) - 1
      BY <1>2
    <3>2. X[i] = y
      <4>1. ~(i > f.secs)
        OBVIOUS
      <4> QED BY <3>1, <4>1 DEF X
    <3>3. /\ InSeq(R, Write(l, X[i]))
          /\ \A o : InSeq(R, o) /\ Touches(fatSecs, o, l) => o = Write(l, X[i])
      <4> HIDE DEF q
      <4>1. Gives(R, fatSecs, S(c) + i - 1, X[i])
        BY <1>1, <1>6, <2>1, <3>1, FillsGives
      <4> QED BY <4>1 DEF Gives
    <3>4. l \in DataStart(fatSecs)..S(t) - 1
      <4> HIDE DEF l
      <4> QED BY <1>1, <2>3, <3>1
    <3> HIDE DEF l, y
    <3>5. WillBe(D, T, fatSecs, l, y)
      BY <1>7, <2>2, <3>2, <3>3, <3>4 DEF WillBe
    <3> QED BY <3>5 DEF l, y
  <2>5. ASSUME NEW i \in 1..m
        PROVE  WillLink(D, T, fatSecs, c + i - 1, IF i = m THEN Eoc ELSE c + i)
    <3> DEFINE b == c + i - 1
               v == IF i = m THEN Eoc ELSE c + i
    <3>1. b \in 3..t - 1
      BY <1>1, <1>2 DEF m
    <3>2. /\ InSeq(A, Link(b, v))
          /\ \A o : InSeq(A, o) /\ Changes(fatSecs, o, b) => o = Link(b, v)
      <4>1. \A y \in c..c + m - 1 : MirrorAt(fatSecs, y) # FatLba(b)
        <5> HIDE DEF b
        <5> QED BY <2>2, <3>1
      <4>2. c \in Nat /\ m \in Nat /\ Links(A, c, m)
        BY <1>1, <1>2, <1>4
      <4> HIDE DEF A, m
      <4>3. LinkThere(A, fatSecs, c, m, i)
        BY <4>1, <4>2, LinksIs
      <4> QED BY <4>3 DEF LinkThere
    <3> HIDE DEF b, v
    <3>3. FatLba(b) \notin S(c)..S(c) + q - 1
      <4> HIDE DEF q
      <4>1. FatLba(b) < DataStart(fatSecs) /\ FatLba(b) \in Int
        <5>1. FatLba(b) < DataStart(fatSecs)
          BY <3>1, LaidFat
        <5>2. b \in Nat
          BY <1>1, <3>1
        <5> QED BY <5>1, <5>2, FatPlace
      <4> QED BY <1>1, <2>3, <4>1
    <3>4. \A o : InSeq(R, o) => ~Changes(fatSecs, o, b)
      <4> HIDE DEF q
      <4> QED BY <1>1, <1>6, <2>1, <3>3, FillsIs
    <3>5. WillLink(D, T, fatSecs, b, v)
      BY <1>7, <3>2, <3>4 DEF WillLink
    <3> QED BY <3>5 DEF b, v
  <2> QED BY <2>4, <2>5 DEF FileThere, S, m
<1> QED BY <1>7, <1>8, <1>9 DEF m

LEMMA GivesWill ==
  ASSUME NEW T, NEW n, NEW l, NEW x, Gives(T, n, l, x)
  PROVE  \A D : WillBe(D, T, n, l, x)
BY DEF Gives, WillBe

\* T and R write different sectors.
LEMMA GivesConcat ==
  ASSUME NEW T, IsSeq(T), NEW R, IsSeq(R), NEW n, NEW l, NEW x,
         \/ Gives(T, n, l, x) /\ \A o : InSeq(R, o) => ~Touches(n, o, l)
         \/ Gives(R, n, l, x) /\ \A o : InSeq(T, o) => ~Touches(n, o, l)
  PROVE  Gives(T \o R, n, l, x)
BY ConcatHas DEF Gives

\* T writes the clusters from a to b - 1 and links none.
Fresh(T, a, b) == IsSeq(T) /\ Within(T, S(a), S(b), 3, 3) /\ ~InSeq(T, Fail)
ClusterGiven(T, c, x) ==
  \A i \in 1..spc : Gives(T, fatSecs, S(c) + i - 1, IF i = 1 THEN x ELSE Zero)

LEMMA FreshMiss ==
  ASSUME NEW t, Laid(t), NEW T, NEW a \in Int, NEW b \in Int, Fresh(T, a, b),
         NEW c \in Int, c < a \/ b <= c, NEW i \in 1..spc
  PROVE  \A o : InSeq(T, o) => ~Touches(fatSecs, o, S(c) + i - 1)
<1>1. S(a) \in Int /\ S(b) \in Int /\ S(c) \in Int /\ S(c + 1) \in Int /\ spc \in Nat
  BY LaidIs
<1>2. (c < a => S(c + 1) <= S(a)) /\ (b <= c => S(b) <= S(c))
  <2>1. c + 1 \in Int /\ (c < a => c + 1 <= a)
    OBVIOUS
  <2> QED BY <2>1, LaidOrder
<1>3. S(c) + i - 1 \in S(c)..S(c + 1) - 1
  BY OneCluster
<1>4. S(c) + i - 1 \notin S(a)..S(b) - 1
  <2> DEFINE l == S(c) + i - 1
  <2> HIDE DEF l
  <2>1. l \in S(c)..S(c + 1) - 1
    BY <1>3 DEF l
  <2>2. l \notin S(a)..S(b) - 1
    BY <1>1, <1>2, <2>1
  <2> QED BY <2>2 DEF l
<1>5. \A x \in 3..3 - 1 : FALSE
  OBVIOUS
<1> QED BY <1>4, <1>5, OpFields DEF Fresh, Within, Touches

LEMMA FreshConcat ==
  ASSUME NEW t, Laid(t), NEW T, NEW R, NEW a \in Int, NEW b \in Int, NEW c \in Int,
         NEW e \in Int, Fresh(T, a, b), Fresh(R, c, e)
  PROVE  /\ \A x \in Int, y \in Int : x <= a /\ x <= c /\ b <= y /\ e <= y
              => Fresh(T \o R, x, y)
         /\ \A v, z : ClusterGiven(T, v, z) /\ v \in Int /\ (v < c \/ e <= v)
              => ClusterGiven(T \o R, v, z)
         /\ \A v, z : ClusterGiven(R, v, z) /\ v \in Int /\ (v < a \/ b <= v)
              => ClusterGiven(T \o R, v, z)
<1>1. /\ IsSeq(T) /\ IsSeq(R) /\ ~InSeq(T, Fail) /\ ~InSeq(R, Fail)
      /\ Within(T, S(a), S(b), 3, 3) /\ Within(R, S(c), S(e), 3, 3)
  BY DEF Fresh
<1>2. /\ IsSeq(T \o R)
      /\ \A o : InSeq(T \o R, o) <=> InSeq(T, o) \/ InSeq(R, o)
  BY <1>1, ConcatHas
<1>3. ASSUME NEW x \in Int, NEW y \in Int, x <= a, x <= c, b <= y, e <= y
      PROVE  Fresh(T \o R, x, y)
  <2>1. S(x) <= S(a) /\ S(x) <= S(c) /\ S(b) <= S(y) /\ S(e) <= S(y)
    BY <1>3, LaidOrder
  <2>2. /\ S(x) \in Int /\ S(y) \in Int /\ S(a) \in Int /\ S(b) \in Int
        /\ S(c) \in Int /\ S(e) \in Int
    BY LaidIs
  <2>3. Within(T, S(x), S(y), 3, 3)
    BY <1>1, <2>1, <2>2, WithinMore
  <2>4. Within(R, S(x), S(y), 3, 3)
    BY <1>1, <2>1, <2>2, WithinMore
  <2>5. Within(T \o R, S(x), S(y), 3, 3)
    BY <1>1, <2>3, <2>4, WithinConcat
  <2> QED BY <1>1, <1>2, <2>5 DEF Fresh
<1>4. ASSUME NEW v \in Int, NEW z, ClusterGiven(T, v, z), v < c \/ e <= v
      PROVE  ClusterGiven(T \o R, v, z)
  <2> SUFFICES ASSUME NEW i \in 1..spc
               PROVE  Gives(T \o R, fatSecs, S(v) + i - 1, IF i = 1 THEN z ELSE Zero)
    BY DEF ClusterGiven
  <2>1. \A o : InSeq(R, o) => ~Touches(fatSecs, o, S(v) + i - 1)
    BY <1>4, FreshMiss
  <2>2. Gives(T, fatSecs, S(v) + i - 1, IF i = 1 THEN z ELSE Zero)
    BY <1>4 DEF ClusterGiven
  <2> DEFINE l == S(v) + i - 1
             w == IF i = 1 THEN z ELSE Zero
  <2> HIDE DEF l, w
  <2>3. Gives(T \o R, fatSecs, l, w)
    BY <1>1, <2>1, <2>2, GivesConcat DEF l, w
  <2> QED BY <2>3 DEF l, w
<1>5. ASSUME NEW v \in Int, NEW z, ClusterGiven(R, v, z), v < a \/ b <= v
      PROVE  ClusterGiven(T \o R, v, z)
  <2> SUFFICES ASSUME NEW i \in 1..spc
               PROVE  Gives(T \o R, fatSecs, S(v) + i - 1, IF i = 1 THEN z ELSE Zero)
    BY DEF ClusterGiven
  <2>1. \A o : InSeq(T, o) => ~Touches(fatSecs, o, S(v) + i - 1)
    BY <1>5, FreshMiss
  <2>2. Gives(R, fatSecs, S(v) + i - 1, IF i = 1 THEN z ELSE Zero)
    BY <1>5 DEF ClusterGiven
  <2> DEFINE l == S(v) + i - 1
             w == IF i = 1 THEN z ELSE Zero
  <2> HIDE DEF l, w
  <2>3. Gives(T \o R, fatSecs, l, w)
    BY <1>1, <2>1, <2>2, GivesConcat DEF l, w
  <2> QED BY <2>3 DEF l, w
<1> QED BY <1>3, <1>4, <1>5

\* One cluster, its sectors from a table.
LEMMA SectorsGiven ==
  ASSUME NEW t, Laid(t), NEW c \in Int, NEW X,
         NEW T, T = [i \in 1..spc |-> Write(ClusterLba(c) + i - 1, X[i])]
  PROVE  /\ Fresh(T, c, c + 1)
         /\ \A i \in 1..spc : Gives(T, fatSecs, S(c) + i - 1, X[i])
<1>1. spc \in Nat /\ S(c) \in Int /\ S(c + 1) \in Int /\ S(c + 1) = S(c) + spc
  <2>1. spc \in Nat /\ S(c) \in Int
    BY LaidIs
  <2>2. S(c + 1) = S(c) + spc
    BY OneCluster
  <2> QED BY <2>1, <2>2
<1>2. ClusterLba(c) = S(c)
  BY DEF ClusterLba, DataLba, S, Start, DataStart
<1>3. Fills(T, S(c), spc, X)
  BY <1>1, <1>2, TableFills
<1>4. Within(T, S(c), S(c + 1), 3, 3)
  <2>1. S(c) <= S(c) /\ S(c) + spc <= S(c + 1)
    BY <1>1
  <2> QED BY <1>1, <1>3, <2>1, WithinFills
<1>5. ~InSeq(T, Fail) /\ IsSeq(T)
  <2>1. IsSeq(T) /\ \A o : InSeq(T, o) <=> \E i \in 1..spc : o = Write(S(c) + i - 1, X[i])
    BY <1>3 DEF Fills
  <2> QED BY <2>1, OpFields
<1>6. \A i \in 1..spc : Gives(T, fatSecs, S(c) + i - 1, X[i])
  BY <1>1, <1>3, FillsGives
<1> QED BY <1>4, <1>5, <1>6 DEF Fresh

LEMMA ClusterWrite ==
  ASSUME NEW t, Laid(t), NEW c \in Int, NEW x
  PROVE  Fresh(WriteCluster(c, x), c, c + 1) /\ ClusterGiven(WriteCluster(c, x), c, x)
<1> DEFINE X == [i \in 1..spc |-> IF i = 1 THEN x ELSE Zero]
           T == WriteCluster(c, x)
<1>1. T = [i \in 1..spc |-> Write(ClusterLba(c) + i - 1, IF i = 1 THEN x ELSE Zero)]
  BY DEF WriteCluster
<1>2. T = [i \in 1..spc |-> Write(ClusterLba(c) + i - 1, X[i])]
  <2>1. \A i \in 1..spc : X[i] = IF i = 1 THEN x ELSE Zero
    OBVIOUS
  <2> HIDE DEF X, T
  <2> QED BY <1>1, <2>1
<1>3. \A i \in 1..spc : X[i] = IF i = 1 THEN x ELSE Zero
  OBVIOUS
<1> HIDE DEF X, T
<1>4. Fresh(T, c, c + 1) /\ \A i \in 1..spc : Gives(T, fatSecs, S(c) + i - 1, X[i])
  BY <1>2, SectorsGiven
<1> QED BY <1>3, <1>4 DEF ClusterGiven, T

LEMMA GivenCluster ==
  ASSUME NEW T, NEW c, NEW x, ClusterGiven(T, c, x)
  PROVE  \A D : Cluster(D, T, spc, fatSecs, c, x)
BY GivesWill DEF ClusterGiven, Cluster, S

\* Clusters of their own, one after the other from cluster c on.
LEMMA ClustersGiven ==
  ASSUME NEW t, Laid(t), NEW c \in Int, NEW m \in Nat, NEW X,
         NEW B, B = [i \in 1..m |-> WriteCluster(c + i - 1, X[i])]
  PROVE  /\ Fresh(FlattenSeq(B), c, c + m)
         /\ \A i \in 1..m : ClusterGiven(FlattenSeq(B), c + i - 1, X[i])
<1> DEFINE T == FlattenSeq(B)
<1>1. B = [i \in 1..m |-> B[i]] /\ \A i \in 1..m : B[i] = WriteCluster(c + i - 1, X[i])
  OBVIOUS
<1>2. ASSUME NEW i \in 1..m
      PROVE  Fresh(B[i], c + i - 1, c + i) /\ ClusterGiven(B[i], c + i - 1, X[i])
  <2>1. c + i - 1 \in Int /\ (c + i - 1) + 1 = c + i
    OBVIOUS
  <2> QED BY <1>1, <2>1, ClusterWrite
<1>3. /\ IsSeq(T)
      /\ \A o : InSeq(T, o) <=> \E i \in 1..m : InSeq(B[i], o)
  <2>1. \A i \in 1..m : IsSeq(B[i])
    BY <1>2 DEF Fresh
  <2> QED BY <1>1, <2>1, FlattenHas
<1> HIDE DEF T
<1>4. Within(T, S(c), S(c + m), 3, 3)
  <2>1. ASSUME NEW i \in 1..m PROVE Within(B[i], S(c), S(c + m), 3, 3)
    <3>1. S(c) <= S(c + i - 1) /\ S(c + i) <= S(c + m)
      <4>1. c + i - 1 \in Int /\ c + i \in Int /\ c + m \in Int
        OBVIOUS
      <4>2. c <= c + i - 1 /\ c + i <= c + m
        OBVIOUS
      <4> QED BY <4>1, <4>2, LaidOrder
    <3>2. S(c) \in Int /\ S(c + i - 1) \in Int /\ S(c + i) \in Int /\ S(c + m) \in Int
      <4>1. c + i - 1 \in Int /\ c + i \in Int /\ c + m \in Int
        OBVIOUS
      <4>2. \A x \in Int : S(x) \in Int
        BY LaidIs
      <4> QED BY <4>1, <4>2
    <3>3. Within(B[i], S(c + i - 1), S(c + i), 3, 3)
      BY <1>2 DEF Fresh
    <3>4. 3 <= 3 /\ 3 \in Int
      OBVIOUS
    <3> QED BY <3>1, <3>2, <3>3, <3>4, WithinMore
  <2> QED BY <1>3, <2>1 DEF Within
<1>5. ~InSeq(T, Fail)
  BY <1>2, <1>3 DEF Fresh
<1>6. ASSUME NEW i \in 1..m PROVE ClusterGiven(T, c + i - 1, X[i])
  <2> SUFFICES ASSUME NEW j \in 1..spc
      PROVE  Gives(T, fatSecs, S(c + i - 1) + j - 1, IF j = 1 THEN X[i] ELSE Zero)
    BY DEF ClusterGiven
  <2> DEFINE l == S(c + i - 1) + j - 1
             w == IF j = 1 THEN X[i] ELSE Zero
  <2>1. Gives(B[i], fatSecs, l, w)
    BY <1>2 DEF ClusterGiven
  <2>2. ASSUME NEW h \in 1..m, h # i
        PROVE  \A o : InSeq(B[h], o) => ~Touches(fatSecs, o, l)
    <3>1. /\ c + h - 1 \in Int /\ c + h \in Int /\ c + i - 1 \in Int
          /\ c + i - 1 < c + h - 1 \/ c + h <= c + i - 1
      BY <2>2
    <3>2. Fresh(B[h], c + h - 1, c + h)
      BY <1>2
    <3> QED BY <3>1, <3>2, FreshMiss
  <2> HIDE DEF l, w
  <2>3. Gives(T, fatSecs, l, w)
    BY <1>3, <2>1, <2>2 DEF Gives
  <2> QED BY <2>3 DEF l, w
<1> QED BY <1>3, <1>4, <1>5, <1>6 DEF Fresh, T
-----------------------------------------------------------------------------
(* Clusters of which each is a chain.                                       *)

\* T ends the chains of the clusters from c to c + m - 1, and may read.
Ends(T, c, m) ==
  /\ IsSeq(T)
  /\ \A i \in 1..m : InSeq(T, Link(c + i - 1, Eoc))
  /\ \A o : InSeq(T, o) =>
       o = Read \/ \E i \in 1..m : o = Link(c + i - 1, Eoc) \/ o = Mirror(c + i - 1)

\* Clusters that are each a chain of their own: directories, homes, PASSWD.
LEMMA AllocOne ==
  ASSUME NEW c \in Nat
  PROVE  Ends(AllocChain(c, 1), c, 1)
<1>1. Links(AllocChain(c, 1), c, 1)
  BY AllocHas
<1>2. \A i \in 1..1 : i = 1
  OBVIOUS
<1>3. 1 \in 1..1
  OBVIOUS
<1> QED BY <1>1, <1>2, <1>3 DEF Links, Ends

LEMMA ReadThenEnds ==
  ASSUME NEW T, NEW c, NEW m, Ends(T, c, m)
  PROVE  Ends(<<Read>> \o T, c, m)
<1>1. IsSeq(<<Read>>) /\ IsSeq(T) /\ \A o : InSeq(<<Read>>, o) <=> o = Read
  BY OneHas DEF Ends
<1>2. /\ IsSeq(<<Read>> \o T)
      /\ \A o : InSeq(<<Read>> \o T, o) <=> InSeq(<<Read>>, o) \/ InSeq(T, o)
  BY <1>1, ConcatHas
<1> QED BY <1>1, <1>2 DEF Ends

LEMMA AllocMany ==
  ASSUME NEW c \in Nat, NEW m \in Nat,
         NEW B, B = [i \in 1..m |-> AllocChain(c + i - 1, 1)]
  PROVE  Ends(FlattenSeq(B), c, m)
<1>1. B = [i \in 1..m |-> B[i]] /\ \A i \in 1..m : B[i] = AllocChain(c + i - 1, 1)
  OBVIOUS
<1>2. ASSUME NEW i \in 1..m
      PROVE  /\ IsSeq(B[i]) /\ InSeq(B[i], Link(c + i - 1, Eoc))
             /\ \A o : InSeq(B[i], o) =>
                  o = Read \/ o = Link(c + i - 1, Eoc) \/ o = Mirror(c + i - 1)
  <2>1. c + i - 1 \in Nat
    OBVIOUS
  <2>2. Ends(B[i], c + i - 1, 1)
    BY <1>1, <2>1, AllocOne
  <2>3. \A j \in 1..1 : (c + i - 1) + j - 1 = c + i - 1
    OBVIOUS
  <2>4. 1 \in 1..1
    OBVIOUS
  <2> QED BY <2>2, <2>3, <2>4 DEF Ends
<1>3. /\ IsSeq(FlattenSeq(B))
      /\ \A o : InSeq(FlattenSeq(B), o) <=> \E i \in 1..m : InSeq(B[i], o)
  <2>1. B = [i \in 1..m |-> B[i]] /\ \A i \in 1..m : IsSeq(B[i])
    BY <1>1, <1>2
  <2> QED BY <2>1, FlattenHas
<1> DEFINE T == FlattenSeq(B)
<1> HIDE DEF T
<1>4. \A o : InSeq(T, o) <=> \E i \in 1..m : InSeq(B[i], o)
  BY <1>3 DEF T
<1>5. ASSUME NEW o, InSeq(T, o)
      PROVE  o = Read \/ \E i \in 1..m : o = Link(c + i - 1, Eoc) \/ o = Mirror(c + i - 1)
  <2>1. PICK i \in 1..m : InSeq(B[i], o)
    BY <1>4, <1>5
  <2> QED BY <1>2, <2>1
<1>6. \A i \in 1..m : InSeq(T, Link(c + i - 1, Eoc))
  BY <1>2, <1>4
<1> QED BY <1>3, <1>5, <1>6 DEF Ends, T

LEMMA EndsThere ==
  ASSUME NEW t, Laid(t), NEW c \in 3..t, NEW m \in Nat, c + m <= t,
         NEW T, Ends(T, c, m)
  PROVE  /\ Confined(T, t, c, c, c, c + m) /\ ~InSeq(T, Fail)
         /\ \A b \in c..c + m - 1 : \A D : WillLink(D, T, fatSecs, b, Eoc)
<1>1. t \in Nat /\ c \in Nat /\ fatSecs \in Nat /\ PartStart \in Nat /\ Res \in Nat
  BY LaidIs
<1>2. \A i \in 1..m : c + i - 1 \in c..c + m - 1
  BY <1>1
<1>3. \A o : InSeq(T, o) =>
        o = Read \/ \E i \in 1..m : o = Link(c + i - 1, Eoc) \/ o = Mirror(c + i - 1)
  BY DEF Ends
<1>4. Within(T, S(c), S(c), c, c + m)
  BY <1>2, <1>3 DEF Within
<1>5. c \in 2..t /\ c \in c..t /\ c + m \in c..t
  BY <1>1
<1>6. ~InSeq(T, Fail)
  BY <1>3, OpFields
<1>7. ASSUME NEW b \in c..c + m - 1, NEW D PROVE WillLink(D, T, fatSecs, b, Eoc)
  <2>1. PICK i \in 1..m : b = c + i - 1
    <3>1. b - c + 1 \in 1..m /\ b = c + (b - c + 1) - 1
      BY <1>1
    <3> QED BY <3>1
  <2>2. InSeq(T, Link(b, Eoc))
    BY <2>1 DEF Ends
  <2>3. \A x \in c..c + m - 1 : x \in 3..t - 1
    BY <1>1
  <2>4. ASSUME NEW x \in c..c + m - 1 PROVE MirrorAt(fatSecs, x) # FatLba(b)
    <3>1. FatLba(b) \in PartStart + Res..PartStart + Res + fatSecs - 1
      BY <2>3, LaidFat
    <3>2. MirrorAt(fatSecs, x) \notin PartStart..PartStart + Res + fatSecs - 1
      BY <2>3, LaidFat
    <3> QED BY <1>1, <3>1, <3>2
  <2>5. ASSUME NEW o, InSeq(T, o), Changes(fatSecs, o, b) PROVE o = Link(b, Eoc)
    <3>1. o # Read
      BY <2>5, OpFields DEF Changes
    <3>2. PICK j \in 1..m : o = Link(c + j - 1, Eoc) \/ o = Mirror(c + j - 1)
      BY <1>3, <2>5, <3>1
    <3>3. o # Mirror(c + j - 1)
      BY <1>2, <2>4, <2>5, OpFields DEF Changes
    <3>4. o = Link(c + j - 1, Eoc) /\ c + j - 1 = b
      BY <2>5, <3>2, <3>3, OpFields DEF Changes
    <3> QED BY <3>4
  <2> QED BY <2>2, <2>5 DEF WillLink
<1> QED BY <1>4, <1>5, <1>6, <1>7 DEF Confined
-----------------------------------------------------------------------------
(* The invariant is kept: until the search for the layout.                  *)

\* The order of the procedures.
LEMMA PlaceIs ==
  /\ Place["halt"] = 0 /\ Place["off"] = 0 /\ Place["confirm"] = 1
  /\ Place["root_password"] = 2 /\ Place["users"] = 3 /\ Place["geometry"] = 4
  /\ Place["source"] = 5 /\ Place["swap"] = 6 /\ Place["validate"] = 7
  /\ Place["layout"] = 8 /\ Place["mbr"] = 9 /\ Place["vbr"] = 10
  /\ Place["fat"] = 11 /\ Place["root"] = 12 /\ Place["stage2"] = 13
  /\ Place["load"] = 14 /\ Place["kernel"] = 15 /\ Place["prompt"] = 16
  /\ Place["swap_program"] = 17 /\ Place["bin"] = 18 /\ Place["bin_files"] = 19
  /\ Place["accounts"] = 20 /\ Place["users_data"] = 21 /\ Place["root_dir"] = 22
  /\ Place["reboot"] = 23 /\ Place["done"] = 24
BY DEF Place

LEMMA PlaceDomain ==
  DOMAIN Place =
    {"halt", "off", "confirm", "root_password", "users", "geometry", "source",
     "swap", "validate", "layout", "mbr", "vbr", "fat", "root", "stage2", "load",
     "kernel", "prompt", "swap_program", "bin", "bin_files", "accounts",
     "users_data", "root_dir", "reboot", "done"}
BY DEF Place

LEMMA PlaceRange == \A x \in DOMAIN Place : Place[x] \in 0..24
BY PlaceIs, PlaceDomain

LEMMA NoUsers == UsersOK(<<>>)
<1>1. <<>> \in Seq([name : Names, pass : Passwords]) /\ Len(<<>>) = 0
  OBVIOUS
<1>2. MaxUsers \in Nat
  BY Sizes
<1>3. \A i \in 1..0 : FALSE
  OBVIOUS
<1> QED BY <1>1, <1>2, <1>3 DEF UsersOK

\* Before anything is queued the invariant needs no more than this.
LEMMA EarlyStep ==
  ASSUME IInv, hdd' = hdd, size' = size, todo' = <<>>,
         pc' \in DOMAIN Place, Place[pc'] < 8, UsersOK(users'),
         Place[pc'] \in 1..7 => at' = NoWhere,
         Place[pc'] = 7 => floppy' \in Floppies /\ Prepared(floppy', "kernel")
  PROVE  IInv'
<1>1. Place[pc'] \in 0..7
  BY PlaceRange
<1>2. TypeInv'
  <2>1. IsSeq(<<>>)
    BY EmptyHas
  <2>2. P' = Place[pc']
    BY DEF P
  <2>3. ~(P' \in 8..16) /\ ~(P' \in 18..24) /\ ~(P' = 8) /\ ~(P' > 8)
    <3>1. PICK q \in 0..7 : P' = q
      BY <1>1, <2>2
    <3> QED BY <3>1
  <2>4. (P \in 1..15 => at = NoWhere)' /\ (P = 7 => floppy \in Floppies /\ Prepared(floppy, "kernel"))'
    <3>1. P' \in 1..15 => Place[pc'] \in 1..7
      BY <1>1, <2>2
    <3>2. P' = 7 => Place[pc'] = 7
      BY <2>2
    <3> QED BY <3>1, <3>2
  <2>5. size' \in HddSizes /\ IsSeq(todo')
    BY <2>1 DEF IInv, TypeInv
  <2> QED BY <2>3, <2>4, <2>5 DEF TypeInv
<1>3. ClearInv'
  BY <1>1 DEF ClearInv, P
<1>4. DiskInv'
  BY DEF IInv, DiskInv
<1>5. (P < 8 => todo = <<>>)' /\ ~(P >= 8)'
  BY <1>1 DEF P
<1> QED BY <1>2, <1>3, <1>4, <1>5 DEF IInv

LEMMA InitIInv == Init => IInv
<1> SUFFICES ASSUME Init PROVE IInv
  OBVIOUS
<1>1. P = 1 /\ pc \in DOMAIN Place
  BY PlaceIs, PlaceDomain DEF Init, P
<1>2. TypeInv
  <2>1. /\ ~(P \in 8..16) /\ ~(P \in 18..24) /\ ~(P = 8) /\ ~(P > 8) /\ ~(P = 7)
    BY <1>1
  <2>2. size \in HddSizes /\ IsSeq(todo) /\ UsersOK(users) /\ at = NoWhere
    BY NoUsers, EmptyHas DEF Init
  <2> QED BY <1>1, <2>1, <2>2 DEF TypeInv
<1>3. ClearInv /\ DiskInv
  <2>1. ~(P = 12) /\ ~(P = 13) /\ ~(P \in 14..22) /\ ~(P = 23)
    BY <1>1
  <2>2. hdd = <<>>
    BY DEF Init
  <2> QED BY <2>1, <2>2 DEF ClearInv, DiskInv
<1>4. P < 8 => todo = <<>>
  BY DEF Init
<1>5. ~(P >= 8)
  BY <1>1
<1> QED BY <1>2, <1>3, <1>4, <1>5 DEF IInv

\* The installer halts, or the power goes, with the disk as it is.
LEMMA HaltIInv == IInv /\ Halt => IInv'
<1> SUFFICES ASSUME IInv, Halt PROVE IInv'
  OBVIOUS
<1>1. /\ pc' = "halt" /\ todo' = <<>> /\ hdd' = hdd /\ size' = size
      /\ users' = users
  BY DEF Halt, memory
<1>2. Place[pc'] = 0 /\ pc' \in DOMAIN Place
  BY <1>1, PlaceIs, PlaceDomain
<1>3. UsersOK(users')
  BY <1>1 DEF IInv, TypeInv
<1> QED BY <1>1, <1>2, <1>3, EarlyStep

LEMMA OffIInv == IInv /\ (PowerOff \/ Restart) => IInv'
<1> SUFFICES ASSUME IInv, PowerOff \/ Restart PROVE IInv'
  OBVIOUS
<1>1. /\ pc' \in {"off", "confirm"} /\ todo' = <<>> /\ hdd' = hdd /\ size' = size
      /\ users' = <<>> /\ at' = NoWhere
  BY DEF PowerOff, Restart, FreshMemory
<1>2. Place[pc'] \in {0, 1} /\ pc' \in DOMAIN Place
  BY <1>1, PlaceIs, PlaceDomain
<1> QED BY <1>1, <1>2, EarlyStep, NoUsers

\* A label before the search for the layout.
LEMMA EarlyPlace ==
  ASSUME IInv, pc \in {"confirm", "root_password", "users", "geometry", "source", "swap",
                       "validate"}
  PROVE  at = NoWhere /\ todo = <<>> /\ UsersOK(users)
<1>1. P \in 1..7
  BY PlaceIs DEF P
<1> QED BY <1>1 DEF IInv, TypeInv

LEMMA GotoIInv ==
  ASSUME IInv, pc \in {"confirm", "root_password", "users", "geometry", "source", "swap"},
         pc' \in {"root_password", "users", "geometry", "source", "swap", "validate",
                  "halt"},
         UNCHANGED <<todo, hdd, size>>, at' = at, UsersOK(users'),
         pc' = "validate" => floppy' \in Floppies /\ Prepared(floppy', "kernel")
  PROVE  IInv'
<1>1. at' = NoWhere /\ todo' = <<>>
  BY EarlyPlace
<1>2. Place[pc'] < 8 /\ pc' \in DOMAIN Place
  BY PlaceIs, PlaceDomain
<1>3. Place[pc'] = 7 => pc' = "validate"
  BY PlaceIs
<1> QED BY <1>1, <1>2, <1>3, EarlyStep

LEMMA PromptsIInv ==
  ASSUME IInv, Confirm \/ UsersDone \/ \E p \in Passwords : SetRootPassword(p)
  PROVE  IInv'
<1>1. CASE Confirm
  <2>1. /\ pc = "confirm" /\ pc' \in {"root_password", "halt"}
        /\ UNCHANGED <<todo, hdd, size, at, users>>
    BY <1>1 DEF Confirm, At, Goto, memory
  <2>2. UsersOK(users')
    BY <2>1 DEF IInv, TypeInv
  <2> QED BY <2>1, <2>2, GotoIInv
<1>2. CASE UsersDone
  <2>1. pc = "users" /\ pc' = "geometry" /\ UNCHANGED <<todo, hdd, size, at, users>>
    BY <1>2 DEF UsersDone, At, Goto, memory
  <2>2. UsersOK(users')
    BY <2>1 DEF IInv, TypeInv
  <2> QED BY <2>1, <2>2, GotoIInv
<1>3. CASE \E p \in Passwords : SetRootPassword(p)
  <2>1. /\ pc = "root_password" /\ pc' = "users" /\ UNCHANGED <<todo, hdd, size, at>>
        /\ users' = <<>>
    BY <1>3 DEF SetRootPassword, At, Goto
  <2> QED BY <2>1, NoUsers, GotoIInv
<1> QED BY <1>1, <1>2, <1>3

LEMMA AppendUser ==
  ASSUME UsersOK(users), NEW n \in Names, NEW p \in Passwords, Len(users) < MaxUsers,
         ~IsDuplicate(n)
  PROVE  UsersOK(Append(users, [name |-> n, pass |-> p]))
<1> DEFINE u == [name |-> n, pass |-> p]
           A == [name : Names, pass : Passwords]
           us == Append(users, u)
<1>1. users \in Seq(A) /\ u \in A /\ Len(users) \in Nat /\ MaxUsers \in Nat
  BY Sizes, LenProperties DEF UsersOK
<1>2. /\ us \in Seq(A) /\ Len(us) = Len(users) + 1
      /\ \A i \in 1..Len(users) : us[i] = users[i]
      /\ us[Len(users) + 1] = u
  <2> HIDE DEF A, u
  <2> QED BY <1>1, AppendProperties
<1>3. u.name = n
  OBVIOUS
<1>4. \A i \in 1..Len(users) : users[i].name # n
  BY DEF IsDuplicate
<1> HIDE DEF us, u, A
<1>5. ASSUME NEW i \in 1..Len(us), NEW j \in 1..Len(us), i # j
      PROVE  us[i].name # us[j].name
  <2>1. CASE i \in 1..Len(users) /\ j \in 1..Len(users)
    BY <2>1, <1>2, <1>5 DEF UsersOK
  <2>2. CASE i = Len(users) + 1
    <3>1. j \in 1..Len(users)
      BY <2>2, <1>1, <1>2, <1>5
    <3> QED BY <2>2, <3>1, <1>2, <1>3, <1>4
  <2>3. CASE j = Len(users) + 1
    <3>1. i \in 1..Len(users)
      BY <2>3, <1>1, <1>2, <1>5
    <3> QED BY <2>3, <3>1, <1>2, <1>3, <1>4
  <2> QED BY <2>1, <2>2, <2>3, <1>1, <1>2
<1>6. Len(us) <= MaxUsers
  BY <1>1, <1>2
<1> QED BY <1>2, <1>5, <1>6 DEF UsersOK, us, u, A

LEMMA AddUserIInv ==
  ASSUME IInv, NEW n \in Names, NEW p \in Passwords, AddUser(n, p)
  PROVE  IInv'
<1>1. /\ pc = "users" /\ pc' = pc /\ UNCHANGED <<todo, hdd, size, at>>
      /\ Len(users) < MaxUsers /\ ~IsDuplicate(n)
      /\ users' = Append(users, [name |-> n, pass |-> p])
  BY DEF AddUser, At
<1>2. UsersOK(users')
  BY <1>1, AppendUser DEF IInv, TypeInv
<1> QED BY <1>1, <1>2, GotoIInv

LEMMA SourceIInv ==
  ASSUME IInv, \/ Geometry
               \/ \E d \in Floppies \cup {NoDisk} : TryB(d) \/ Swap(d)
  PROVE  IInv'
<1>1. CASE Geometry
  <2>1. CASE Halt
    BY <2>1, HaltIInv
  <2>2. CASE ~Halt
    <3>1. pc = "geometry" /\ pc' = "source" /\ UNCHANGED <<todo, hdd, size, at, users>>
      BY <1>1, <2>2 DEF Geometry, At, Goto, memory
    <3>2. UsersOK(users')
      BY <3>1 DEF IInv, TypeInv
    <3> QED BY <3>1, <3>2, GotoIInv
  <2> QED BY <2>1, <2>2
<1>2. ASSUME NEW d \in Floppies \cup {NoDisk}, TryB(d) \/ Swap(d) PROVE IInv'
  <2>1. /\ pc \in {"source", "swap"} /\ pc' \in {"swap", "validate", "halt"}
        /\ UNCHANGED <<todo, hdd, size, at, users>>
        /\ floppy' = d
    BY <1>2 DEF TryB, Swap, At, Goto, Insert, Retry
  <2>2. pc' = "validate" => Prepared(d, "kernel")
    BY <1>2 DEF TryB, Swap, Goto, Retry
  <2>3. pc' = "validate" => d \in Floppies
    BY <2>2 DEF Prepared
  <2>4. UsersOK(users')
    BY <2>1 DEF IInv, TypeInv
  <2> QED BY <2>1, <2>2, <2>3, <2>4, GotoIInv
<1> QED BY <1>1, <1>2

\* The floppy is a kernel disk: the search for the layout starts.
LEMMA ValidateIInv ==
  ASSUME IInv, Validate
  PROVE  IInv'
<1>1. CASE Halt
  BY <1>1, HaltIInv
<1>2. CASE ~Halt
  <2>1. /\ pc = "validate" /\ todo = <<>> /\ pc' = "layout" /\ todo' = <<>>
        /\ UNCHANGED <<hdd, size, floppy, users, rootpw, next, at>>
        /\ Verified(floppy) /\ spc' = MaxSpc /\ fatSecs' = 1
    BY <1>2 DEF Validate, At, Goto
  <2>2. P = 7 /\ P' = 8 /\ pc' \in DOMAIN Place
    BY <2>1, PlaceIs, PlaceDomain DEF P
  <2>3. /\ floppy \in Floppies /\ Prepared(floppy, "kernel") /\ size \in HddSizes
        /\ UsersOK(users) /\ at = NoWhere
    BY <2>2 DEF IInv, TypeInv
  <2>4. floppy \in KernelDisks
    BY <2>1, <2>3 DEF KernelDisks
  <2>5. TypeInv'
    <3>1. MaxSpc \in 1..MaxSpc /\ 1 \in Nat
      BY Sizes
    <3>2. Reaches(size, <<MaxSpc, 1>>, <<MaxSpc, 1>>)
      BY DEF Reaches
    <3> QED BY <2>1, <2>2, <2>3, <2>4, <3>1, <3>2, EmptyHas DEF TypeInv
  <2>6. ClearInv' /\ DiskInv'
    <3>1. DiskInv'
      BY <2>1 DEF IInv, DiskInv
    <3> QED BY <2>2, <3>1 DEF ClearInv
  <2>7. Running(floppy)'
    BY <2>1, <2>2, <2>4 DEF Running, OpsInv, PlanInv, BootFacts, FileFacts
  <2> QED BY <2>2, <2>5, <2>6, <2>7 DEF IInv
<1> QED BY <1>1, <1>2

\* A round of the search for the layout.
LEMMA LayoutIInv ==
  ASSUME IInv, Layout
  PROVE  IInv'
<1>1. /\ pc = "layout" /\ todo = <<>> /\ todo' = <<>>
      /\ UNCHANGED <<hdd, size, floppy, users, rootpw, next, at>>
      /\ pc' \in {"layout", "mbr", "halt"}
  BY DEF Layout, At, Goto
<1>2. P = 8 /\ pc' \in DOMAIN Place
  BY <1>1, PlaceIs, PlaceDomain DEF P
<1>3. /\ floppy \in KernelDisks /\ size \in HddSizes /\ UsersOK(users) /\ at = NoWhere
      /\ spc \in 1..MaxSpc /\ fatSecs \in Nat
      /\ Reaches(size, <<MaxSpc, 1>>, <<spc, fatSecs>>)
  BY <1>2 DEF IInv, TypeInv
<1>4. /\ size \in Nat /\ spc \in Nat \ {0} /\ spc \in Nat /\ MaxSpc \in Nat
      /\ PartStart \in Nat /\ Res \in Nat /\ PerSec \in Nat \ {0} /\ MinClusters \in Nat
  BY <1>3, Sizes
<1>5. CASE pc' = "halt"
  <2>1. Place[pc'] = 0
    BY <1>5, PlaceIs
  <2> QED BY <1>1, <1>2, <1>3, <2>1, EarlyStep
<1>6. /\ DataSecs = size - PartStart - Res - 2 * fatSecs
      /\ Clusters = CountOf(size, spc, fatSecs)
      /\ FatNeeded = Ceil(CountOf(size, spc, fatSecs) + 2, PerSec)
  BY DEF DataSecs, Clusters, FatNeeded, CountOf
<1>7. CASE pc' = "layout"
  <2>1. P' = 8
    BY <1>7, PlaceIs DEF P
  <2>2. <<spc', fatSecs'>> = NextTry(size, <<spc, fatSecs>>)
        /\ spc' \in 1..MaxSpc
    <3>0. /\ <<spc, fatSecs>>[1] = spc /\ <<spc, fatSecs>>[2] = fatSecs
          /\ DataSecs \in Int
      BY <1>4, <1>3, <1>6
    <3>1. CASE DataSecs >= 0 /\ FatNeeded # fatSecs /\ fatSecs' = FatNeeded /\ spc' = spc
      <4>1. ~(DataSecs < 0)
        BY <3>0, <3>1
      <4> QED BY <3>0, <3>1, <4>1, <1>3, <1>6 DEF NextTry
    <3>2. CASE /\ DataSecs >= 0 /\ FatNeeded = fatSecs /\ Clusters < MinClusters
               /\ spc > 1 /\ spc' = spc \div 2 /\ fatSecs' = 1
      <4>1. ~(DataSecs < 0)
        BY <3>0, <3>2
      <4>2. spc \div 2 \in 1..MaxSpc
        BY <1>3, <1>4, <3>2
      <4> QED BY <3>0, <3>2, <4>1, <4>2, <1>6 DEF NextTry
    <3> QED BY <3>1, <3>2, <1>7 DEF Layout, Goto
  <2>3. fatSecs' \in Nat
    <3>1. <<spc, fatSecs>> \in (Nat \ {0}) \X Nat
      BY <1>3, <1>4
    <3>2. <<spc', fatSecs'>> \in (Nat \ {0}) \X Nat
      BY <1>4, <2>2, <3>1, NextOfPair
    <3> QED BY <3>2
  <2>4. Reaches(size, <<MaxSpc, 1>>, <<spc', fatSecs'>>)
    BY <1>3, <2>2, ReachesOn
  <2>5. TypeInv'
    BY <1>1, <1>2, <1>3, <2>1, <2>2, <2>3, <2>4, EmptyHas DEF TypeInv
  <2>6. ClearInv' /\ DiskInv'
    <3>1. DiskInv'
      BY <1>1 DEF IInv, DiskInv
    <3> QED BY <2>1, <3>1 DEF ClearInv
  <2>7. Running(floppy)'
    BY <1>1, <1>3, <2>1 DEF Running, OpsInv, PlanInv, BootFacts, FileFacts
  <2> QED BY <2>1, <2>5, <2>6, <2>7 DEF IInv
<1>8. CASE pc' = "mbr"
  <2>1. P' = 9
    BY <1>8, PlaceIs DEF P
  <2>2. /\ DataSecs >= 0 /\ FatNeeded = fatSecs /\ Clusters >= MinClusters
        /\ spc' = spc /\ fatSecs' = fatSecs
    BY <1>8 DEF Layout, Goto
  <2>3. Settled(size, spc, fatSecs)
    BY <1>3, <1>6, <2>2 DEF Settled, Accepted
  <2>4. TypeInv'
    BY <1>1, <1>2, <1>3, <2>1, <2>2, <2>3, EmptyHas DEF TypeInv
  <2>5. ClearInv' /\ DiskInv'
    <3>1. DiskInv'
      BY <1>1 DEF IInv, DiskInv
    <3> QED BY <2>1, <3>1 DEF ClearInv
  <2>6. Running(floppy)'
    BY <1>1, <1>3, <2>1 DEF Running, OpsInv, PlanInv, BootFacts, FileFacts
  <2> QED BY <2>1, <2>4, <2>5, <2>6 DEF IInv
<1> QED BY <1>1, <1>5, <1>7, <1>8
-----------------------------------------------------------------------------
(* The invariant is kept: a step of the queue.                              *)

\* From the layout on.
LEMMA LaidNow ==
  ASSUME Installable, TypeInv, P > 8, NEW d \in KernelDisks, NEW e \in ProgramDisks
  PROVE  Laid(Top(d, e, spc)) /\ Len(BinFiles(e)) + 2 <= DirSlots * spc
BY RoomOf DEF TypeInv, Laid

LEMMA SettledNow ==
  ASSUME TypeInv, P > 8
  PROVE  /\ size \in HddSizes /\ Settled(size, spc, fatSecs)
         /\ size \in Nat /\ spc \in Nat \ {0} /\ fatSecs \in Nat \ {0}
         /\ DataStart(fatSecs) \in Nat /\ DataStart(fatSecs) >= PartStart + Res + fatSecs
         /\ S(2) = DataStart(fatSecs) /\ S(3) = DataStart(fatSecs) + spc
         /\ PartStart \in Nat \ {0} /\ Res \in Nat /\ Res >= 2
<1>1. size \in HddSizes /\ Settled(size, spc, fatSecs)
  BY DEF TypeInv
<1>2. spc \in Nat \ {0} /\ fatSecs \in 1..size /\ size \in Nat
  BY <1>1, LayNums
<1>3. fatSecs \in Nat \ {0}
  BY <1>2
<1>4. /\ DataStart(fatSecs) \in Nat /\ DataStart(fatSecs) >= PartStart + Res + fatSecs
      /\ S(2) = DataStart(fatSecs) /\ S(3) = DataStart(fatSecs) + spc
  BY <1>2, <1>3, StartIs DEF S
<1>5. PartStart \in Nat \ {0} /\ Res \in Nat /\ Res >= 2
  BY Sizes
<1> QED BY <1>1, <1>2, <1>3, <1>4, <1>5

LEMMA PNat == TypeInv => P \in 0..24
BY PlaceRange DEF TypeInv, P

LEMMA OpsAreOps ==
  ASSUME Installable, TypeInv, P >= 8, NEW d \in KernelDisks, OpsInv(d), NEW o, InSeq(todo, o)
  PROVE  IsOp(o)
<1>1. P \in 0..24 /\ ~InSeq(<<>>, o)
  BY PNat, EmptyHas
<1>2. ~(P \in 0..9 \cup {17, 18, 24})
  BY <1>1 DEF OpsInv
<1>3. P \in 10..16 \/ P \in 19..23
  BY <1>1, <1>2
<1>4. CASE P \in 10..13
  BY <1>4 DEF OpsInv, IsOp
<1>5. CASE P = 14
  <2>1. Within(todo, PartStart + 2, PartStart + Res, 0, 0)
    BY <1>5 DEF OpsInv
  <2> QED BY <2>1, WithinOps
<1>6. CASE P = 15
  BY <1>6 DEF OpsInv, IsOp
<1>7. CASE P \in {16} \cup 19..22
  <2>1. PICK e \in ProgramDisks :
          Within(todo, S(3), S(Top(d, e, spc)), 3, Top(d, e, spc))
    BY <1>7 DEF OpsInv, S
  <2>2. P > 8
    BY <1>7
  <2>3. Top(d, e, spc) \in Nat
    BY <2>2, LaidNow, LaidIs
  <2> QED BY <2>1, <2>3, WithinOps
<1>8. CASE P = 23
  <2>1. todo = <<Write(Start(spc, fatSecs, 2), DirSector(RootSlots(at)))>>
    BY <1>1, <1>8 DEF OpsInv
  <2> QED BY <2>1, OneHas DEF IsOp
<1> QED BY <1>3, <1>4, <1>5, <1>6, <1>7, <1>8

\* What an operation of the queue leaves of a cluster, of a file, of the parts.
LEMMA StepCluster ==
  ASSUME Does, NEW k, NEW c, NEW x, Cluster(hdd, todo, k, fatSecs, c, x)
  PROVE  Cluster(hdd', todo', k, fatSecs, c, x)
BY StepWillBe DEF Cluster

LEMMA StepFile ==
  ASSUME Does, NEW k, NEW d, NEW f, NEW c \in Nat, FileThere(hdd, todo, k, fatSecs, d, f, c)
  PROVE  FileThere(hdd', todo', k, fatSecs, d, f, c)
<1>1. \A i \in 1..f.secs :
        WillBe(hdd', todo', fatSecs, Start(k, fatSecs, c) + i - 1, FileSector(d, f.name, i))
  BY StepWillBe DEF FileThere
<1> DEFINE m == Ceil(f.secs, k)
<1>2. ASSUME NEW i \in 1..m
      PROVE  WillLink(hdd', todo', fatSecs, c + i - 1, IF i = m THEN Eoc ELSE c + i)
  <2>1. WillLink(hdd, todo, fatSecs, c + i - 1, IF i = m THEN Eoc ELSE c + i)
    BY DEF FileThere
  <2> HIDE DEF m
  <2>2. c + i - 1 \in Nat
    OBVIOUS
  <2> QED BY <2>1, <2>2, StepWillLink
<1> QED BY <1>1, <1>2 DEF FileThere

LEMMA StepBootFacts ==
  ASSUME Does, UNCHANGED <<pc, size, spc, fatSecs>>, NEW d, BootFacts(d)
  PROVE  BootFacts(d)'
<1>1. P' = P
  BY DEF P
<1>2. (P > 9 => WillBe(hdd, todo, fatSecs, 0, MbrSec(size)))'
  BY <1>1, StepWillBe DEF BootFacts
<1>3. (P > 10 => WillBe(hdd, todo, fatSecs, PartStart, VbrSec(size, spc, fatSecs)))'
  BY <1>1, StepWillBe DEF BootFacts
<1>4. (P > 12 /\ P < 23 => Cluster(hdd, todo, spc, fatSecs, 2, Zero))'
  BY <1>1, StepCluster DEF BootFacts
<1>5. (P > 13 => Stage2There(hdd, todo, fatSecs, d))'
  BY <1>1, StepWillBe DEF BootFacts, Stage2There
<1> QED BY <1>2, <1>3, <1>4, <1>5 DEF BootFacts

\* Where at points to.
LEMMA PlanNums ==
  ASSUME Installable, TypeInv, NEW d \in KernelDisks, PlanInv(d), P > 18
  PROVE  /\ at.bin = BinAt(d, spc) /\ at.bin \in Nat
         /\ Len(at.files) \in 0..Len(BinFiles(floppy))
         /\ \A i \in 1..Len(at.files) : FileAt(d, floppy, spc, i) \in Nat
         /\ P > 19 => Len(at.files) = Len(BinFiles(floppy))
         /\ P > 20 => /\ at.etc = UsersAt(d, floppy, spc)
                      /\ at.home = UsersAt(d, floppy, spc) + 1
                      /\ at.passwd = UsersAt(d, floppy, spc) + 2
                      /\ \A i \in 1..Len(users) :
                           at.homes[i] = UsersAt(d, floppy, spc) + 2 + i
                      /\ UsersAt(d, floppy, spc) \in Nat
<1>1. P \in 19..24 /\ P > 8 /\ P \in 18..24
  BY PNat
<1>2. floppy \in ProgramDisks /\ spc \in Nat \ {0}
  BY <1>1, SettledNow DEF TypeInv
<1>3. /\ BinAt(d, spc) \in Nat /\ UsersAt(d, floppy, spc) \in Nat
      /\ \A i \in 1..Len(BinFiles(floppy)) + 1 : FileAt(d, floppy, spc, i) \in Nat
      /\ Len(BinFiles(floppy)) \in Nat
  BY <1>2, FilesOrder, BinFilesAre
<1> DEFINE m == Len(BinFiles(floppy))
           fs == FilesAt(d, floppy, spc, m)
<1>4. Len(fs) = m
  <2>1. fs = [i \in 1..m |-> fs[i]]
    BY DEF FilesAt
  <2> HIDE DEF fs, m
  <2> QED BY <2>1, <1>3, TableSeq DEF m
<1>5. CASE P = 19
  <2>1. /\ Len(at.files) \in 0..m
        /\ at = BinPlan(d, spc, FilesAt(d, floppy, spc, Len(at.files)))
    BY <1>5 DEF PlanInv
  <2>2. at.bin = BinAt(d, spc)
    BY <2>1 DEF BinPlan
  <2>3. \A i \in 1..Len(at.files) : i \in 1..m + 1
    <3> HIDE DEF m
    <3> QED BY <2>1, <1>3 DEF m
  <2> QED BY <1>3, <1>5, <2>1, <2>2, <2>3
<1>6. CASE P = 20
  <2>1. at = BinPlan(d, spc, fs)
    BY <1>6 DEF PlanInv
  <2>2. at.bin = BinAt(d, spc) /\ at.files = fs
    BY <2>1 DEF BinPlan
  <2>3. \A i \in 1..m : i \in 1..m + 1
    OBVIOUS
  <2> HIDE DEF fs
  <2> QED BY <1>3, <1>4, <1>6, <2>2, <2>3
<1>7. CASE P > 20
  <2>1. at = FullPlan(d, floppy, spc, users)
    BY <1>7 DEF PlanInv
  <2>2. /\ at.bin = BinAt(d, spc) /\ at.files = fs
        /\ at.etc = UsersAt(d, floppy, spc)
        /\ at.home = UsersAt(d, floppy, spc) + 1
        /\ at.passwd = UsersAt(d, floppy, spc) + 2
        /\ at.homes = [i \in 1..Len(users) |-> UsersAt(d, floppy, spc) + 2 + i]
    BY <2>1 DEF FullPlan
  <2>3. \A i \in 1..Len(users) : at.homes[i] = UsersAt(d, floppy, spc) + 2 + i
    BY <2>2
  <2>4. \A i \in 1..m : i \in 1..m + 1
    OBVIOUS
  <2> HIDE DEF fs
  <2> QED BY <1>3, <1>4, <1>7, <2>2, <2>3, <2>4
<1> QED BY <1>1, <1>5, <1>6, <1>7

LEMMA StepFileFacts ==
  ASSUME Installable, TypeInv, Does, Head(todo) # Fail,
         UNCHANGED <<pc, size, spc, fatSecs, floppy, users, rootpw, at>>,
         NEW d \in KernelDisks, PlanInv(d), FileFacts(d)
  PROVE  FileFacts(d)'
<1>1. P' = P
  BY DEF P
<1>2. \A o : InSeq(todo, o) <=> o = Head(todo) \/ InSeq(todo', o)
  BY HeadTailHas DEF Does
<1> SUFFICES ASSUME ~InSeq(todo', Fail)
             PROVE  /\ (P > 15 => FileThere(hdd, todo, spc, fatSecs, d, d.kernel, 3))'
                    /\ (P > 18 =>
                         /\ WillLink(hdd, todo, fatSecs, at.bin, Eoc)
                         /\ FilesThere(hdd, todo, spc, fatSecs, d, floppy, Len(at.files)))'
                    /\ (P > 19 => BinThere(hdd, todo, spc, fatSecs, floppy, at))'
                    /\ (P > 20 => UserLinks(hdd, todo, fatSecs, users, at))'
                    /\ (P > 21 => UserData(hdd, todo, spc, fatSecs, users, rootpw, at))'
                    /\ (P > 22 => Cluster(hdd, todo, spc, fatSecs, 2,
                                          DirSector(RootSlots(at))))'
  BY DEF FileFacts
<1>3. ~InSeq(todo, Fail)
  BY <1>2
<1>4. (P > 15 => FileThere(hdd, todo, spc, fatSecs, d, d.kernel, 3))'
  BY <1>1, <1>3, StepFile DEF FileFacts
<1>5. ASSUME P > 18
      PROVE  /\ WillLink(hdd', todo', fatSecs, at.bin, Eoc)
             /\ FilesThere(hdd', todo', spc, fatSecs, d, floppy, Len(at.files))
  <2>1. at.bin \in Nat /\ \A i \in 1..Len(at.files) : FileAt(d, floppy, spc, i) \in Nat
    BY <1>5, PlanNums
  <2>2. /\ WillLink(hdd, todo, fatSecs, at.bin, Eoc)
        /\ FilesThere(hdd, todo, spc, fatSecs, d, floppy, Len(at.files))
    BY <1>3, <1>5 DEF FileFacts
  <2> QED BY <2>1, <2>2, StepFile, StepWillLink DEF FilesThere
<1>6. (P > 19 => BinThere(hdd, todo, spc, fatSecs, floppy, at))'
  BY <1>1, <1>3, StepWillBe DEF FileFacts, BinThere
<1>7. ASSUME P > 20 PROVE UserLinks(hdd', todo', fatSecs, users, at)
  <2>1. P > 18 /\ P \in 0..24
    BY <1>7, PNat
  <2>2. /\ at.etc \in Nat /\ at.home \in Nat /\ at.passwd \in Nat
        /\ \A i \in 1..Len(users) : at.homes[i] \in Nat
    BY <1>7, <2>1, PlanNums
  <2>3. UserLinks(hdd, todo, fatSecs, users, at)
    BY <1>3, <1>7 DEF FileFacts
  <2> QED BY <2>2, <2>3, StepWillLink DEF UserLinks
<1>8. (P > 21 => UserData(hdd, todo, spc, fatSecs, users, rootpw, at))'
  BY <1>1, <1>3, StepCluster DEF FileFacts, UserData
<1>9. (P > 22 => Cluster(hdd, todo, spc, fatSecs, 2, DirSector(RootSlots(at))))'
  BY <1>1, <1>3, StepCluster DEF FileFacts
<1> QED BY <1>1, <1>4, <1>5, <1>6, <1>7, <1>8, <1>9

LEMMA StepOps ==
  ASSUME Does, UNCHANGED <<pc, size, spc, fatSecs, at>>, NEW d, OpsInv(d)
  PROVE  OpsInv(d)'
<1>1. P' = P
  BY DEF P
<1>2. \A o : InSeq(todo', o) => InSeq(todo, o)
  BY HeadTailHas DEF Does
<1>3. todo # <<>> /\ todo' = Tail(todo)
  BY DEF Does
<1>4. ~(P' \in 0..9 \cup {17, 18, 24})
  BY <1>1, <1>3 DEF OpsInv
<1>5. ASSUME NEW lo, NEW hi, NEW g, NEW h, Within(todo, lo, hi, g, h)
      PROVE  Within(todo', lo, hi, g, h)
  BY <1>2, <1>5 DEF Within
<1>6. ASSUME P = 23 PROVE todo' = <<>>
  BY <1>3, <1>6, OneHas DEF OpsInv
<1>7. /\ (P = 10 => \A o : InSeq(todo, o) => o = Write(0, MbrSec(size)))'
      /\ (P = 11 => \A o : InSeq(todo, o) =>
            \/ o = Write(PartStart, VbrSec(size, spc, fatSecs))
            \/ o = Write(PartStart + 1, [k |-> "fsinfo"]))'
      /\ (P = 12 => \A o : InSeq(todo, o) =>
            \E l \in PartStart + Res..DataStart(fatSecs) - 1 :
              o = Write(l, Zero) \/ o = Write(l, FirstFatSector))'
      /\ (P = 13 => \A o : InSeq(todo, o) =>
            \E l \in DataStart(fatSecs)..Start(spc, fatSecs, 3) - 1 : o = Write(l, Zero))'
      /\ (P = 15 => \A o : InSeq(todo, o) => o = Read)'
  BY <1>1, <1>2 DEF OpsInv
<1>8. (P = 14 => Within(todo, PartStart + 2, PartStart + Res, 0, 0))'
  BY <1>1, <1>5 DEF OpsInv
<1>9. (P \in {16} \cup 19..22 => \E e \in ProgramDisks :
         Within(todo, Start(spc, fatSecs, 3), Start(spc, fatSecs, Top(d, e, spc)),
                3, Top(d, e, spc)))'
  <2> SUFFICES ASSUME P \in {16} \cup 19..22
        PROVE \E e \in ProgramDisks :
          Within(todo', Start(spc, fatSecs, 3), Start(spc, fatSecs, Top(d, e, spc)),
                3, Top(d, e, spc))
    BY <1>1
  <2>1. PICK e \in ProgramDisks :
          Within(todo, Start(spc, fatSecs, 3), Start(spc, fatSecs, Top(d, e, spc)),
                3, Top(d, e, spc))
    BY DEF OpsInv
  <2> QED BY <2>1, <1>5
<1> QED BY <1>1, <1>4, <1>6, <1>7, <1>8, <1>9 DEF OpsInv
-----------------------------------------------------------------------------
(* What a sector operation leaves of the system on the disk.                *)

\* After its last operation the whole installation is on the disk.
LEMMA SoundNow ==
  ASSUME TypeInv, P > 8, DiskInv
  PROVE  Sound(hdd, size, spc, fatSecs)
<1>1. CASE hdd = <<>>
  <2>1. \A l : Sec(hdd, l) = Old
    BY <1>1 DEF Sec
  <2>2. Old.k = "old"
    BY DEF Old
  <2> QED BY <2>1, <2>2 DEF Sound, RootBlank
<1>2. CASE hdd # <<>>
  <2>1. PICK k, n : Settled(size, k, n) /\ Sound(hdd, size, k, n)
    BY <1>2 DEF DiskInv
  <2>2. Settled(size, spc, fatSecs) /\ size \in Nat
    BY SettledNow
  <2>3. k = spc /\ n = fatSecs
    BY <2>1, <2>2, SettledOnce
  <2> QED BY <2>1, <2>3
<1> QED BY <1>1, <1>2

\* The sectors of a cluster are beyond those of the boot sector and its neighbour.
LEMMA DataHigh ==
  ASSUME NEW k \in Nat \ {0}, NEW n \in Nat, NEW c \in Nat, c >= 2, NEW i \in Nat \ {0}
  PROVE  Start(k, n, c) + i - 1 > PartStart + 1
<1>1. DataStart(n) >= PartStart + Res + n /\ DataStart(n) \in Nat
      /\ Start(k, n, c) >= DataStart(n) /\ Start(k, n, c) \in Int
  BY StartIs
<1>2. PartStart \in Nat /\ Res \in Nat /\ Res >= 2 + Stage2Max /\ Stage2Max \in Nat
  BY Sizes
<1> QED BY <1>1, <1>2

\* The disks D and E differ in the sector FSInfo at most.
Alike(D, E) == \A l : l # PartStart + 1 => Sec(E, l) = Sec(D, l)

\* Sectors that are alike read alike.
LEMMA AlikeSec ==
  ASSUME NEW D, NEW E, Alike(D, E), NEW n
  PROVE  /\ \A l, x : l # PartStart + 1 /\ WillBe(D, <<>>, n, l, x)
                        => WillBe(E, <<>>, n, l, x)
         /\ \A c \in Nat : Ent(E, c) = Ent(D, c)
         /\ \A c \in Nat : \A v : WillLink(D, <<>>, n, c, v) => WillLink(E, <<>>, n, c, v)
<1>1. \A l, x : l # PartStart + 1 /\ WillBe(D, <<>>, n, l, x) => WillBe(E, <<>>, n, l, x)
  BY WillDone DEF Alike
<1>2. ASSUME NEW c \in Nat PROVE Ent(E, c) = Ent(D, c)
  <2>1. FatLba(c) # PartStart + 1
    BY FatPlace, Sizes
  <2> QED BY <2>1 DEF Alike, Ent
<1> QED BY <1>1, <1>2, WillDone

LEMMA AlikeCluster ==
  ASSUME NEW D, NEW E, Alike(D, E), NEW k \in Nat \ {0}, NEW n \in Nat,
         NEW c \in Nat, c >= 2, NEW x, Cluster(D, <<>>, k, n, c, x)
  PROVE  Cluster(E, <<>>, k, n, c, x)
<1> SUFFICES ASSUME NEW i \in 1..k
             PROVE  WillBe(E, <<>>, n, Start(k, n, c) + i - 1, IF i = 1 THEN x ELSE Zero)
  BY DEF Cluster
<1>1. Start(k, n, c) + i - 1 > PartStart + 1
  BY DataHigh
<1>2. Start(k, n, c) + i - 1 # PartStart + 1
  BY <1>1, Sizes
<1> QED BY <1>2, AlikeSec DEF Cluster

LEMMA AlikeFile ==
  ASSUME NEW D, NEW E, Alike(D, E), NEW k \in Nat \ {0}, NEW n \in Nat,
         NEW c \in Nat, c >= 2, NEW d, NEW f, f.secs \in Nat,
         FileThere(D, <<>>, k, n, d, f, c)
  PROVE  FileThere(E, <<>>, k, n, d, f, c)
<1>1. ASSUME NEW i \in 1..f.secs
      PROVE  WillBe(E, <<>>, n, Start(k, n, c) + i - 1, FileSector(d, f.name, i))
  <2>1. Start(k, n, c) + i - 1 > PartStart + 1
    BY DataHigh
  <2>2. Start(k, n, c) + i - 1 # PartStart + 1
    BY <2>1, Sizes
  <2>3. WillBe(D, <<>>, n, Start(k, n, c) + i - 1, FileSector(d, f.name, i))
    BY DEF FileThere
  <2> QED BY <2>2, <2>3, AlikeSec
<1> DEFINE m == Ceil(f.secs, k)
<1>2. m \in Nat
  BY CeilNat
<1>3. ASSUME NEW i \in 1..m
      PROVE  WillLink(E, <<>>, n, c + i - 1, IF i = m THEN Eoc ELSE c + i)
  <2>1. WillLink(D, <<>>, n, c + i - 1, IF i = m THEN Eoc ELSE c + i)
    BY DEF FileThere
  <2> HIDE DEF m
  <2>2. c + i - 1 \in Nat
    BY <1>2
  <2> QED BY <2>1, <2>2, AlikeSec
<1> QED BY <1>1, <1>3 DEF FileThere

\* Where an installation puts things, as numbers.
LEMMA PlanIs ==
  ASSUME Installable, NEW d \in KernelDisks, NEW e \in ProgramDisks,
         NEW k \in Nat \ {0}, NEW us, UsersOK(us)
  PROVE  LET a == FullPlan(d, e, k, us) IN
         /\ a.kernel = 3 /\ a.ksecs = d.kernel.secs /\ a.bin = BinAt(d, k)
         /\ a.files = FilesAt(d, e, k, Len(BinFiles(e)))
         /\ \A i \in 1..Len(BinFiles(e)) :
              a.files[i] = FirstOf(FileAt(d, e, k, i), Ceil(BinFiles(e)[i].secs, k))
         /\ a.etc = UsersAt(d, e, k) /\ a.home = UsersAt(d, e, k) + 1
         /\ a.passwd = UsersAt(d, e, k) + 2
         /\ \A i \in 1..Len(us) : a.homes[i] = UsersAt(d, e, k) + 2 + i
         /\ UsersAt(d, e, k) \in Nat /\ BinAt(d, k) \in Nat
         /\ BinAt(d, k) >= 4 /\ UsersAt(d, e, k) > BinAt(d, k)
         /\ Len(us) \in Nat /\ Len(BinFiles(e)) \in Nat
<1>1. /\ BinAt(d, k) \in Nat /\ BinAt(d, k) >= 4
      /\ UsersAt(d, e, k) \in Nat /\ UsersAt(d, e, k) > BinAt(d, k)
  BY FilesOrder
<1>2. Len(BinFiles(e)) \in Nat
  BY BinFilesAre
<1>3. Len(us) \in Nat
  BY LenProperties DEF UsersOK
<1>4. \A i \in 1..Len(BinFiles(e)) :
        FilesAt(d, e, k, Len(BinFiles(e)))[i]
          = FirstOf(FileAt(d, e, k, i), Ceil(BinFiles(e)[i].secs, k))
  BY DEF FilesAt
<1> DEFINE a == FullPlan(d, e, k, us)
           hs == [i \in 1..Len(us) |-> UsersAt(d, e, k) + 2 + i]
           fs == FilesAt(d, e, k, Len(BinFiles(e)))
<1>5. /\ a.kernel = 3 /\ a.ksecs = d.kernel.secs /\ a.bin = BinAt(d, k)
      /\ a.files = fs /\ a.etc = UsersAt(d, e, k) /\ a.home = UsersAt(d, e, k) + 1
      /\ a.passwd = UsersAt(d, e, k) + 2 /\ a.homes = hs
  BY DEF FullPlan
<1>6. \A i \in 1..Len(us) : hs[i] = UsersAt(d, e, k) + 2 + i
  OBVIOUS
<1>7. \A i \in 1..Len(us) : a.homes[i] = UsersAt(d, e, k) + 2 + i
  <2> HIDE DEF a, hs
  <2> QED BY <1>5, <1>6
<1> HIDE DEF a, hs
<1>8. \A i \in 1..Len(BinFiles(e)) :
        a.files[i] = FirstOf(FileAt(d, e, k, i), Ceil(BinFiles(e)[i].secs, k))
  BY <1>4, <1>5
<1> HIDE DEF fs
<1> QED BY <1>1, <1>2, <1>3, <1>5, <1>7, <1>8 DEF a, fs
-----------------------------------------------------------------------------
LEMMA AlikeInstalled ==
  ASSUME Installable, NEW D, NEW E, Alike(D, E), NEW s, NEW k \in Nat \ {0},
         NEW n \in Nat, NEW d, NEW e, NEW us, NEW pw, Installed(D, s, k, n, d, e, us, pw)
  PROVE  Installed(E, s, k, n, d, e, us, pw)
<1> DEFINE a == FullPlan(d, e, k, us)
<1>1. d \in KernelDisks /\ e \in ProgramDisks /\ UsersOK(us)
  BY DEF Installed
<1>2. /\ a.bin \in Nat /\ a.bin >= 4 /\ a.etc \in Nat /\ a.home \in Nat
      /\ a.passwd \in Nat /\ \A i \in 1..Len(us) : a.homes[i] \in Nat
      /\ a.etc >= 2 /\ a.home >= 2 /\ a.passwd >= 2
      /\ \A i \in 1..Len(us) : a.homes[i] >= 2
  <2>1. /\ a.bin = BinAt(d, k)
        /\ a.etc = UsersAt(d, e, k) /\ a.home = UsersAt(d, e, k) + 1
        /\ a.passwd = UsersAt(d, e, k) + 2
        /\ \A i \in 1..Len(us) : a.homes[i] = UsersAt(d, e, k) + 2 + i
        /\ UsersAt(d, e, k) \in Nat /\ BinAt(d, k) \in Nat
        /\ BinAt(d, k) >= 4 /\ UsersAt(d, e, k) > BinAt(d, k)
        /\ Len(us) \in Nat
    BY <1>1, PlanIs
  <2> HIDE DEF a
  <2> QED BY <2>1
<1>3. /\ d.kernel.secs \in Nat /\ d.stage2 \in Nat
      /\ \A i \in 1..Len(BinFiles(e)) :
           /\ FileAt(d, e, k, i) \in Nat /\ FileAt(d, e, k, i) >= 2
           /\ BinFiles(e)[i].secs \in Nat
  <2>1. /\ d.kernel.secs \in Nat \ {0} /\ d.stage2 \in Nat \ {0}
        /\ BinAt(d, k) \in Nat /\ BinAt(d, k) >= 4
        /\ \A i \in 1..Len(BinFiles(e)) + 1 :
             FileAt(d, e, k, i) \in Nat /\ FileAt(d, e, k, i) > BinAt(d, k)
    BY <1>1, FilesOrder
  <2>2. Len(BinFiles(e)) \in Nat
        /\ \A i \in 1..Len(BinFiles(e)) : BinFiles(e)[i].secs \in Nat
    BY <1>1, BinFilesAre
  <2> QED BY <2>1, <2>2
<1> HIDE DEF a
<1>4. PartStart \in Nat /\ PartStart > 0
  BY Sizes
<1>5. Sec(E, 0) = MbrSec(s) /\ Sec(E, PartStart) = VbrSec(s, k, n)
  <2>1. 0 # PartStart + 1 /\ PartStart # PartStart + 1
    BY <1>4
  <2> QED BY <2>1 DEF Installed, Alike
<1>6. Stage2There(E, <<>>, n, d)
  <2>1. ASSUME NEW i \in 1..d.stage2
        PROVE  WillBe(E, <<>>, n, PartStart + 1 + i, FileSector(d, "stage2", i))
    <3>1. PartStart + 1 + i # PartStart + 1
      BY <1>3, <1>4
    <3> QED BY <3>1, AlikeSec DEF Installed, Stage2There
  <2> QED BY <2>1 DEF Stage2There
<1>7. FileThere(E, <<>>, k, n, d, d.kernel, 3)
  BY <1>3, AlikeFile DEF Installed
<1>8. WillLink(E, <<>>, n, a.bin, Eoc)
  BY <1>2, AlikeSec DEF Installed, a
<1>9. FilesThere(E, <<>>, k, n, d, e, Len(BinFiles(e)))
  <2>1. ASSUME NEW i \in 1..Len(BinFiles(e))
        PROVE  FileThere(E, <<>>, k, n, e, BinFiles(e)[i], FileAt(d, e, k, i))
    <3>1. FileThere(D, <<>>, k, n, e, BinFiles(e)[i], FileAt(d, e, k, i))
      BY DEF Installed, FilesThere
    <3> QED BY <1>3, <3>1, AlikeFile
  <2> QED BY <2>1 DEF FilesThere
<1>10. BinThere(E, <<>>, k, n, e, a)
  <2>1. ASSUME NEW i \in 1..k
        PROVE  WillBe(E, <<>>, n, Start(k, n, a.bin) + i - 1,
                      DirSector(SectorOf(BinSlots(e, a), i)))
    <3>1. Start(k, n, a.bin) + i - 1 > PartStart + 1
      BY <1>2, DataHigh
    <3>2. Start(k, n, a.bin) + i - 1 # PartStart + 1
      BY <3>1, <1>4
    <3>3. BinThere(D, <<>>, k, n, e, a)
      BY DEF Installed, a
    <3> QED BY <3>2, <3>3, AlikeSec DEF BinThere
  <2> QED BY <2>1 DEF BinThere
<1>11. UserLinks(E, <<>>, n, us, a)
  <2>1. UserLinks(D, <<>>, n, us, a)
    BY DEF Installed, a
  <2> QED BY <1>2, <2>1, AlikeSec DEF UserLinks
<1>12. UserData(E, <<>>, k, n, us, pw, a)
  <2>1. UserData(D, <<>>, k, n, us, pw, a)
    BY DEF Installed, a
  <2> QED BY <1>2, <2>1, AlikeCluster DEF UserData
<1>13. Cluster(E, <<>>, k, n, 2, DirSector(RootSlots(a)))
  BY AlikeCluster DEF Installed, a
<1> QED BY <1>1, <1>5, <1>6, <1>7, <1>8, <1>9, <1>10, <1>11, <1>12, <1>13
        DEF Installed, a

\* Partition table and boot sector written again, as they are.
LEMMA RewriteSound ==
  ASSUME Installable, NEW D, NEW E, NEW s, NEW k \in Nat \ {0}, NEW n \in Nat,
         Sound(D, s, k, n),
         \A l : l \notin {0, PartStart, PartStart + 1} => Sec(E, l) = Sec(D, l),
         Sec(E, 0) \in {Sec(D, 0), MbrSec(s)},
         Sec(E, PartStart) \in {Sec(D, PartStart), VbrSec(s, k, n)}
  PROVE  Sound(E, s, k, n)
<1>0. PartStart \in Nat /\ PartStart > 0
  BY Sizes
<1>1. Sec(E, PartStart).k = "vbr" => Sec(E, PartStart) = VbrSec(s, k, n)
  BY DEF Sound
<1>2. ASSUME NEW c \in Nat, c >= 2, NEW i \in 1..k
      PROVE  Sec(E, Start(k, n, c) + i - 1) = Sec(D, Start(k, n, c) + i - 1)
  <2>1. Start(k, n, c) + i - 1 > PartStart + 1
    BY <1>2, DataHigh
  <2>2. Start(k, n, c) + i - 1 \notin {0, PartStart, PartStart + 1}
    BY <2>1, <1>0
  <2> QED BY <2>2
<1>3. Ent(E, 3) = Ent(D, 3)
  <2>1. FatLba(3) \in Nat /\ FatLba(3) >= PartStart + Res
    BY FatPlace
  <2>2. Res >= 2 /\ Res \in Nat
    BY Sizes
  <2>3. FatLba(3) \notin {0, PartStart, PartStart + 1}
    BY <1>0, <2>1, <2>2
  <2> QED BY <2>3 DEF Ent
<1>4. RootBlank(D, k, n) => RootBlank(E, k, n)
  BY <1>2 DEF RootBlank
<1>5. RootOld(D, k, n) => RootOld(E, k, n)
  <2> SUFFICES ASSUME RootOld(D, k, n) PROVE RootOld(E, k, n)
    OBVIOUS
  <2>1. Start(k, n, 2) \in Int /\ 1 \in 1..k /\ \A i \in 2..k : i \in 1..k
    BY StartIs
  <2>2. Start(k, n, 2) + 1 - 1 = Start(k, n, 2)
    BY <2>1
  <2>3. Sec(E, Start(k, n, 2) + 1 - 1) = Sec(D, Start(k, n, 2) + 1 - 1)
    BY <1>2, <2>1
  <2>4. Sec(E, Start(k, n, 2)) = Sec(D, Start(k, n, 2))
    BY <2>2, <2>3
  <2>5. \A i \in 2..k : Sec(E, Start(k, n, 2) + i - 1) = Sec(D, Start(k, n, 2) + i - 1)
    BY <1>2, <2>1
  <2> QED BY <1>3, <2>4, <2>5 DEF RootOld
<1>6. ASSUME NEW d, NEW e, NEW us, NEW pw, Installed(D, s, k, n, d, e, us, pw)
      PROVE  Installed(E, s, k, n, d, e, us, pw)
  <2>1. Sec(D, 0) = MbrSec(s) /\ Sec(D, PartStart) = VbrSec(s, k, n)
    BY <1>6 DEF Installed
  <2>2. Alike(D, E)
    BY <2>1 DEF Alike
  <2> QED BY <1>6, <2>2, AlikeInstalled
<1> QED BY <1>1, <1>4, <1>5, <1>6 DEF Sound

\* The listing of a whole installation, once entry 3 is free.
LEMMA ClearedRoot ==
  ASSUME Installable, NEW D, NEW E, NEW s, NEW k \in Nat \ {0}, NEW n \in Nat,
         Sound(D, s, k, n), Ent(E, 3) = Free,
         \A i \in 1..k : Sec(E, Start(k, n, 2) + i - 1) = Sec(D, Start(k, n, 2) + i - 1)
  PROVE  RootBlank(E, k, n) \/ RootOld(E, k, n)
<1>1. Start(k, n, 2) \in Int /\ 1 \in 1..k /\ \A i \in 2..k : i \in 1..k /\ i # 1
  BY StartIs
<1>2. Start(k, n, 2) + 1 - 1 = Start(k, n, 2)
  BY <1>1
<1>3. Sec(E, Start(k, n, 2)) = Sec(D, Start(k, n, 2))
  BY <1>1, <1>2
<1>4. RootBlank(D, k, n) => RootBlank(E, k, n)
  BY DEF RootBlank
<1>5. RootOld(D, k, n) => RootOld(E, k, n)
  BY <1>1, <1>3 DEF RootOld
<1>6. ASSUME NEW d, NEW e, NEW us, NEW pw, Installed(D, s, k, n, d, e, us, pw)
      PROVE  RootOld(E, k, n)
  <2> DEFINE a == FullPlan(d, e, k, us)
  <2>1. a.kernel = 3
    BY DEF FullPlan
  <2>2. Cluster(D, <<>>, k, n, 2, DirSector(RootSlots(a)))
    BY <1>6 DEF Installed
  <2> HIDE DEF a
  <2>3. \A i \in 1..k : Sec(D, Start(k, n, 2) + i - 1)
                          = IF i = 1 THEN DirSector(RootSlots(a)) ELSE Zero
    BY <2>2, WillDone DEF Cluster
  <2>4. Sec(E, Start(k, n, 2)) = DirSector(RootSlots(a))
    BY <1>1, <1>2, <1>3, <2>3
  <2>5. \A i \in 2..k : Sec(E, Start(k, n, 2) + i - 1) = Zero
    BY <1>1, <2>3
  <2>6. Zero.k # "dir"
    BY DEF Zero
  <2> QED BY <2>1, <2>4, <2>5, <2>6 DEF RootOld
<1> QED BY <1>4, <1>5, <1>6 DEF Sound

LEMMA InstalledLinked ==
  ASSUME Installable, NEW D, NEW s, NEW k \in Nat \ {0}, NEW n \in Nat,
         NEW d, NEW e, NEW us, NEW pw, Installed(D, s, k, n, d, e, us, pw)
  PROVE  Ent(D, 3) # Free
<1>1. d \in KernelDisks
  BY DEF Installed
<1>2. d.kernel.secs \in Nat \ {0}
  BY <1>1, FilesOrder DEF Installed
<1> DEFINE m == Ceil(d.kernel.secs, k)
<1>3. m \in Nat /\ m > 0
  <2>1. d.kernel.secs \in Nat /\ d.kernel.secs > 0
    BY <1>2
  <2> QED BY <2>1, CeilNat
<1>4. \A i \in 1..m : WillLink(D, <<>>, n, 3 + i - 1, IF i = m THEN Eoc ELSE 3 + i)
  BY DEF Installed, FileThere
<1> HIDE DEF m
<1>5. Ent(D, 3 + 1 - 1) = IF 1 = m THEN Eoc ELSE 3 + 1
  <2>1. 1 \in 1..m
    BY <1>3
  <2>2. WillLink(D, <<>>, n, 3 + 1 - 1, IF 1 = m THEN Eoc ELSE 3 + 1)
    BY <2>1, <1>4, Zenon
  <2> QED BY <2>2, WillDone
<1>6. Ent(D, 3) = IF 1 = m THEN Eoc ELSE 4
  <2>1. 3 + 1 - 1 = 3 /\ 3 + 1 = 4
    OBVIOUS
  <2> QED BY <1>5, <2>1
<1> QED BY <1>6 DEF Free, Eoc
-----------------------------------------------------------------------------
\* A sector of which it is known what it will be.
LEMMA StepSec ==
  ASSUME Does, NEW l, NEW x, WillBe(hdd, todo, fatSecs, l, x)
  PROVE  Sec(hdd', l) \in {Sec(hdd, l), x}
<1>1. InSeq(todo, Head(todo))
  BY HeadTailHas DEF Does
<1>2. CASE Touches(fatSecs, Head(todo), l)
  <2>1. Head(todo) = Write(l, x)
    BY <1>1, <1>2 DEF WillBe
  <2> QED BY <2>1, PerformWrite DEF Does
<1>3. CASE ~Touches(fatSecs, Head(todo), l)
  BY <1>3, PerformSec DEF Does
<1> QED BY <1>2, <1>3

Goes(d) ==
  /\ Installable /\ IInv /\ Does /\ Head(todo) # Fail
  /\ UNCHANGED <<pc, size, memory>>
  /\ Running(d) /\ P > 9 /\ P <= 23

LEMMA GoesIs ==
  ASSUME NEW d, Goes(d)
  PROVE  /\ TypeInv /\ P > 8 /\ P \in 10..23 /\ P' = P
         /\ Sound(hdd, size, spc, fatSecs) /\ Settled(size, spc, fatSecs)
         /\ size' = size /\ spc' = spc /\ fatSecs' = fatSecs
         /\ spc \in Nat \ {0} /\ fatSecs \in Nat
         /\ InSeq(todo, Head(todo)) /\ d \in KernelDisks
<1>1. TypeInv /\ P > 8 /\ DiskInv
  <2>1. TypeInv /\ DiskInv /\ P > 9
    BY DEF Goes, IInv
  <2>2. P \in 0..24
    BY <2>1, PNat
  <2> QED BY <2>1, <2>2
<1>2. P \in 10..23 /\ P' = P
  BY <1>1, PNat DEF Goes, P
<1>3. Sound(hdd, size, spc, fatSecs)
  BY <1>1, SoundNow
<1>4. InSeq(todo, Head(todo))
  BY HeadTailHas DEF Goes, Does
<1> QED BY <1>1, <1>2, <1>3, <1>4, SettledNow DEF Goes, memory, Running

\* The boot sector.
LEMMA StepVbr ==
  ASSUME NEW d, Goes(d), P > 10
  PROVE  Sec(hdd', PartStart).k = "vbr"
           => Sec(hdd', PartStart) = VbrSec(size, spc, fatSecs)
<1>1. WillBe(hdd, todo, fatSecs, PartStart, VbrSec(size, spc, fatSecs))
  BY DEF Goes, Running, BootFacts
<1>2. Sec(hdd', PartStart) \in {Sec(hdd, PartStart), VbrSec(size, spc, fatSecs)}
  BY <1>1, StepSec DEF Goes
<1>3. Sec(hdd, PartStart).k = "vbr" => Sec(hdd, PartStart) = VbrSec(size, spc, fatSecs)
  BY GoesIs DEF Sound
<1> QED BY <1>2, <1>3

\* Clearing the FAT unlinks the old kernel before it touches the rest.
LEMMA StepTable ==
  ASSUME NEW d, Goes(d), P \in {10, 11}
  PROVE  Sound(hdd', size, spc, fatSecs)
<1> DEFINE h == Head(todo)
<1>0. PartStart \in Nat /\ PartStart > 0
  BY Sizes
<1>1. /\ spc \in Nat \ {0} /\ fatSecs \in Nat /\ Sound(hdd, size, spc, fatSecs)
      /\ InSeq(todo, h) /\ Installable
  BY GoesIs DEF Goes
<1>2. \/ h = Write(0, MbrSec(size))
      \/ h = Write(PartStart, VbrSec(size, spc, fatSecs))
      \/ h = Write(PartStart + 1, [k |-> "fsinfo"])
  BY <1>1 DEF Goes, Running, OpsInv
<1>3. ASSUME NEW l, NEW x, h = Write(l, x)
      PROVE  Sec(hdd', l) = x /\ \A y : y # l => Sec(hdd', y) = Sec(hdd, y)
  <2>1. Perform(Write(l, x)) /\ IsOp(h)
    BY <1>3 DEF Goes, Does
  <2>2. \A y : y # l => ~Touches(fatSecs, h, y)
    BY <1>3, OpFields DEF Touches
  <2> QED BY <2>1, <2>2, PerformWrite, PerformSec, <1>3
<1>4. /\ \A l : l \notin {0, PartStart, PartStart + 1} => Sec(hdd', l) = Sec(hdd, l)
      /\ Sec(hdd', 0) \in {Sec(hdd, 0), MbrSec(size)}
      /\ Sec(hdd', PartStart) \in {Sec(hdd, PartStart), VbrSec(size, spc, fatSecs)}
  <2>1. CASE h = Write(0, MbrSec(size))
    BY <2>1, <1>0, <1>3
  <2>2. CASE h = Write(PartStart, VbrSec(size, spc, fatSecs))
    BY <2>2, <1>0, <1>3
  <2>3. CASE h = Write(PartStart + 1, [k |-> "fsinfo"])
    <3>1. PartStart + 1 # 0 /\ PartStart + 1 # PartStart
      BY <1>0
    <3> HIDE DEF h
    <3> QED BY <2>3, <3>1, <1>3
  <2> QED BY <1>2, <2>1, <2>2, <2>3
<1> QED BY <1>1, <1>4, RewriteSound

\* The FAT is being cleared.
LEMMA StepFat ==
  ASSUME NEW d, Goes(d), P = 12
  PROVE  Ent(hdd', 3) = Free /\ Sound(hdd', size, spc, fatSecs)
<1> DEFINE h == Head(todo)
<1>1. /\ spc \in Nat \ {0} /\ fatSecs \in Nat /\ Sound(hdd, size, spc, fatSecs)
      /\ InSeq(todo, h) /\ Installable /\ IsOp(h) /\ Perform(h)
      /\ (Ent(hdd, 3) = Free \/ h = Write(PartStart + Res, Zero))
  BY GoesIs DEF Goes, Does, IInv, ClearInv
<1>2. PICK l \in PartStart + Res..DataStart(fatSecs) - 1 :
        h = Write(l, Zero) \/ h = Write(l, FirstFatSector)
  BY <1>1 DEF Goes, Running, OpsInv
<1>3. PICK x \in {Zero, FirstFatSector} : h = Write(l, x)
  BY <1>2
<1>4. FatLba(3) = PartStart + Res /\ 3 % PerSec = 3 /\ PerSec \in Nat /\ PerSec > 3
  BY <1>1, FatOfThree, Sizes DEF Installable, SourcesOK
<1>5. Entry(x, 3) = Free
  <2>1. Entry(Zero, 3) = Free
    BY DEF Entry, Zero
  <2>2. Entry(FirstFatSector, 3) = Free
    <3> DEFINE e == [i \in 0..PerSec - 1 |-> IF i <= 2 THEN Eoc ELSE Free]
    <3>1. FirstFatSector = FatSector(e)
      BY DEF FirstFatSector
    <3>2. e[3] = Free
      BY <1>4
    <3> HIDE DEF e
    <3>3. Entry(FatSector(e), 3) = e[3]
      BY DEF Entry, FatSector
    <3> QED BY <3>1, <3>2, <3>3
  <2> QED BY <2>1, <2>2
<1>6. Sec(hdd', l) = x /\ \A y : y # l => Sec(hdd', y) = Sec(hdd, y)
  <2>1. \A y : y # l => ~Touches(fatSecs, h, y)
    BY <1>3, OpFields DEF Touches
  <2> QED BY <1>1, <1>3, <2>1, PerformWrite, PerformSec
<1>7. Ent(hdd', 3) = Free
  <2>1. CASE l = FatLba(3)
    BY <2>1, <1>4, <1>5, <1>6 DEF Ent
  <2>2. CASE l # FatLba(3)
    <3>1. h # Write(PartStart + Res, Zero)
      BY <1>3, <1>4, <2>2, OpFields
    <3> QED BY <1>1, <1>6, <2>2, <3>1 DEF Ent
  <2> QED BY <2>1, <2>2
<1>8. \A i \in 1..spc : Sec(hdd', Start(spc, fatSecs, 2) + i - 1)
                          = Sec(hdd, Start(spc, fatSecs, 2) + i - 1)
  <2>1. Start(spc, fatSecs, 2) = DataStart(fatSecs) /\ DataStart(fatSecs) \in Nat
        /\ PartStart + Res \in Nat
    BY <1>1, StartIs, Sizes
  <2>2. \A i \in 1..spc : Start(spc, fatSecs, 2) + i - 1 # l
    BY <1>1, <1>2, <2>1
  <2> QED BY <1>6, <2>2
<1>9. RootBlank(hdd', spc, fatSecs) \/ RootOld(hdd', spc, fatSecs)
  BY <1>1, <1>7, <1>8, ClearedRoot
<1>10. P > 10
  OBVIOUS
<1> QED BY <1>7, <1>9, <1>10, StepVbr DEF Sound

\* The root directory is blank, or becomes so.
LEMMA StepRoot ==
  ASSUME NEW d, Goes(d), P \in 13..22
  PROVE  \A i \in 1..spc : Sec(hdd', Start(spc, fatSecs, 2) + i - 1)
           \in {Sec(hdd, Start(spc, fatSecs, 2) + i - 1), Zero}
<1> SUFFICES ASSUME NEW i \in 1..spc
             PROVE  Sec(hdd', Start(spc, fatSecs, 2) + i - 1)
                      \in {Sec(hdd, Start(spc, fatSecs, 2) + i - 1), Zero}
  OBVIOUS
<1>1. P > 12 /\ P < 23
  OBVIOUS
<1>2. Cluster(hdd, todo, spc, fatSecs, 2, Zero)
  BY <1>1 DEF Goes, Running, BootFacts
<1>3. WillBe(hdd, todo, fatSecs, Start(spc, fatSecs, 2) + i - 1, Zero)
  BY <1>2 DEF Cluster
<1> QED BY <1>3, StepSec DEF Goes

\* Clearing the root directory makes it blank.
LEMMA StepBlank ==
  ASSUME NEW d, Goes(d), P \in 13..22, RootBlank(hdd, spc, fatSecs)
  PROVE  RootBlank(hdd', spc, fatSecs)
<1>1. Zero.k # "dir"
  BY DEF Zero
<1> QED BY <1>1, StepRoot DEF RootBlank

LEMMA StepRootClear ==
  ASSUME NEW d, Goes(d), P = 13
  PROVE  Ent(hdd', 3) = Free /\ Sound(hdd', size, spc, fatSecs)
<1> DEFINE h == Head(todo)
<1>1. /\ spc \in Nat \ {0} /\ fatSecs \in Nat /\ Sound(hdd, size, spc, fatSecs)
      /\ InSeq(todo, h) /\ Installable /\ IsOp(h) /\ Perform(h) /\ TypeInv /\ P > 8
      /\ Ent(hdd, 3) = Free /\ P \in 13..22 /\ P > 10
  BY GoesIs DEF Goes, Does, IInv, ClearInv
<1>2. PICK l \in DataStart(fatSecs)..Start(spc, fatSecs, 3) - 1 : h = Write(l, Zero)
  BY <1>1 DEF Goes, Running, OpsInv
<1>3. FatLba(3) = PartStart + Res
  BY <1>1, FatOfThree DEF Installable, SourcesOK
<1>4. PartStart + Res < DataStart(fatSecs) /\ DataStart(fatSecs) \in Nat
      /\ PartStart + Res \in Nat
  BY <1>1, SettledNow
<1>5. Ent(hdd', 3) = Free
  <2>1. FatLba(3) # l
    BY <1>2, <1>3, <1>4
  <2>2. ~Touches(fatSecs, h, FatLba(3))
    BY <1>2, <2>1, OpFields DEF Touches
  <2>3. Sec(hdd', FatLba(3)) = Sec(hdd, FatLba(3))
    BY <1>1, <2>2, PerformSec
  <2> QED BY <1>1, <2>3 DEF Ent
<1>6. RootBlank(hdd', spc, fatSecs) \/ RootOld(hdd', spc, fatSecs)
  <2>1. CASE RootBlank(hdd, spc, fatSecs)
    BY <1>1, <2>1, StepBlank
  <2>2. CASE RootOld(hdd, spc, fatSecs)
    <3> DEFINE L(i) == Start(spc, fatSecs, 2) + i - 1
    <3>1. \A i \in 1..spc : Sec(hdd', L(i)) \in {Sec(hdd, L(i)), Zero}
      BY <1>1, StepRoot
    <3>2. 1 \in 1..spc /\ L(1) = Start(spc, fatSecs, 2) /\ \A i \in 2..spc : i \in 1..spc
      <4>1. 1 \in 1..spc /\ \A i \in 2..spc : i \in 1..spc
        BY <1>1
      <4>2. Start(spc, fatSecs, 2) \in Int
        BY <1>1, StartIs
      <4> QED BY <4>1, <4>2
    <3>3. Zero.k # "dir"
      BY DEF Zero
    <3>4. \A i \in 2..spc : Sec(hdd', L(i)).k # "dir"
      BY <2>2, <3>1, <3>2, <3>3 DEF RootOld
    <3>5. CASE Sec(hdd', L(1)) = Zero
      <4>1. \A i \in 1..spc : i = 1 \/ i \in 2..spc
        BY <1>1
      <4>2. \A i \in 1..spc : Sec(hdd', L(i)).k # "dir"
        <5> HIDE DEF L
        <5> QED BY <3>3, <3>4, <3>5, <4>1
      <4> QED BY <4>2 DEF RootBlank
    <3>6. CASE Sec(hdd', L(1)) = Sec(hdd, L(1))
      <4>1. Sec(hdd', Start(spc, fatSecs, 2)) = Sec(hdd, Start(spc, fatSecs, 2))
        BY <3>2, <3>6
      <4> QED BY <1>5, <2>2, <3>4, <4>1 DEF RootOld
    <3>7. Sec(hdd', L(1)) \in {Sec(hdd, L(1)), Zero}
      <4> HIDE DEF L
      <4> QED BY <3>1, <3>2
    <3> QED BY <3>5, <3>6, <3>7
  <2>3. CASE \E e, f, us, pw : Installed(hdd, size, spc, fatSecs, e, f, us, pw)
    BY <1>1, <2>3, InstalledLinked
  <2> QED BY <1>1, <2>1, <2>2, <2>3 DEF Sound
<1> QED BY <1>1, <1>5, <1>6, StepVbr DEF Sound

LEMMA StepLast ==
  ASSUME NEW d, Goes(d), P = 23, Running(d)', TypeInv'
  PROVE  todo' = <<>> /\ Sound(hdd', size, spc, fatSecs)
<1>1. todo = <<Write(Start(spc, fatSecs, 2), DirSector(RootSlots(at)))>>
  BY DEF Goes, Running, OpsInv, Does
<1>2. todo' = <<>>
  BY <1>1, OneHas DEF Goes, Does
<1>3. P' = 23 /\ P' > 15 /\ P' > 18 /\ P' > 19 /\ P' > 20 /\ P' > 21 /\ P' > 22
      /\ P' > 9 /\ P' > 10 /\ P' > 13 /\ P' \in 18..24
  BY GoesIs
<1>4. /\ UNCHANGED <<size, spc, fatSecs, floppy, users, rootpw, at>>
  BY DEF Goes, memory
<1>5. BootFacts(d)' /\ FileFacts(d)' /\ PlanInv(d)' /\ d \in KernelDisks
  BY DEF Running, Goes
<1>6. floppy \in ProgramDisks /\ UsersOK(users) /\ spc \in Nat \ {0} /\ Installable
  BY <1>3, <1>4, GoesIs DEF TypeInv, Goes
<1>7. at = FullPlan(d, floppy, spc, users)
  BY <1>3, <1>4, <1>5 DEF PlanInv
<1>8. Len(at.files) = Len(BinFiles(floppy))
  <2>1. TypeInv /\ PlanInv(d) /\ P > 18 /\ P > 19
    BY GoesIs DEF Goes, Running
  <2> QED BY <1>5, <1>6, <2>1, PlanNums
<1>9. ~InSeq(todo', Fail)
  BY <1>2, EmptyHas
<1>10. /\ Sec(hdd', 0) = MbrSec(size)
       /\ Sec(hdd', PartStart) = VbrSec(size, spc, fatSecs)
       /\ Stage2There(hdd', <<>>, fatSecs, d)
  BY <1>2, <1>3, <1>4, <1>5, WillDone DEF BootFacts
<1>11. /\ FileThere(hdd', <<>>, spc, fatSecs, d, d.kernel, 3)
       /\ WillLink(hdd', <<>>, fatSecs, at.bin, Eoc)
       /\ FilesThere(hdd', <<>>, spc, fatSecs, d, floppy, Len(at.files))
       /\ BinThere(hdd', <<>>, spc, fatSecs, floppy, at)
       /\ UserLinks(hdd', <<>>, fatSecs, users, at)
       /\ UserData(hdd', <<>>, spc, fatSecs, users, rootpw, at)
       /\ Cluster(hdd', <<>>, spc, fatSecs, 2, DirSector(RootSlots(at)))
  BY <1>2, <1>3, <1>4, <1>5, <1>9 DEF FileFacts
<1>12. Installed(hdd', size, spc, fatSecs, d, floppy, users, rootpw)
  BY <1>5, <1>6, <1>7, <1>8, <1>10, <1>11 DEF Installed
<1> QED BY <1>2, <1>10, <1>12 DEF Sound

\* A sector operation, done or failed, keeps the invariant.
LEMMA StepIInv ==
  ASSUME Installable, IInv, Step
  PROVE  IInv'
<1>1. CASE Halt
  BY <1>1, HaltIInv
<1>2. CASE ~Halt
  <2>1. /\ todo # <<>> /\ Head(todo) # Fail /\ Perform(Head(todo)) /\ todo' = Tail(todo)
        /\ UNCHANGED <<pc, size, memory>>
    BY <1>2 DEF Step
  <2>2. TypeInv /\ P \in 0..24 /\ P >= 8
    BY <2>1, PNat DEF IInv
  <2>3. PICK d : Running(d)
    BY <2>2 DEF IInv
  <2>4. InSeq(todo, Head(todo)) /\ IsSeq(todo) /\ IsSeq(todo')
    BY <2>1, <2>2, HeadTailHas DEF TypeInv
  <2>5. P > 9 /\ P <= 23
    BY <2>1, <2>2, <2>3 DEF Running, OpsInv
  <2>6. Does
    BY <2>1, <2>2, <2>3, <2>4, OpsAreOps DEF Does, Running
  <2>7. Goes(d)
    BY <2>1, <2>3, <2>5, <2>6 DEF Goes
  <2>8. UNCHANGED <<pc, size, spc, fatSecs, floppy, users, rootpw, at, next>>
    BY <2>1 DEF memory
  <2>9. P' = P
    BY <2>8 DEF P
  <2>10. TypeInv'
    BY <2>2, <2>4, <2>8, <2>9 DEF TypeInv
  <2>11. Running(d)'
    <3>1. OpsInv(d)'
      BY <2>3, <2>6, <2>8, StepOps DEF Running
    <3>2. PlanInv(d)'
      BY <2>3, <2>8, <2>9 DEF Running, PlanInv
    <3>3. BootFacts(d)'
      BY <2>3, <2>6, <2>8, StepBootFacts DEF Running
    <3>4. FileFacts(d)'
      BY <2>1, <2>2, <2>3, <2>6, <2>8, StepFileFacts DEF Running
    <3> QED BY <2>3, <3>1, <3>2, <3>3, <3>4 DEF Running
  <2>12. Sound(hdd', size, spc, fatSecs) /\ ClearInv'
    <3>1. CASE P \in {10, 11}
      BY <3>1, <2>7, <2>9, StepTable DEF ClearInv
    <3>2. CASE P = 12
      BY <3>2, <2>7, <2>8, <2>9, StepFat DEF ClearInv
    <3>3. CASE P = 13
      BY <3>3, <2>7, <2>8, <2>9, StepRootClear DEF ClearInv
    <3>4. CASE P \in 14..22
      <4>1. RootBlank(hdd', spc, fatSecs)
        <5>1. RootBlank(hdd, spc, fatSecs) /\ P \in 13..22
          BY <3>4 DEF IInv, ClearInv
        <5> QED BY <5>1, <2>7, StepBlank
      <4>2. P > 10
        BY <3>4
      <4>3. Sound(hdd', size, spc, fatSecs)
        BY <2>7, <4>1, <4>2, StepVbr DEF Sound
      <4> QED BY <3>4, <4>1, <4>3, <2>8, <2>9 DEF ClearInv
    <3>5. CASE P = 23
      BY <3>5, <2>7, <2>9, <2>10, <2>11, StepLast DEF ClearInv
    <3> QED BY <2>2, <2>5, <3>1, <3>2, <3>3, <3>4, <3>5
  <2>13. DiskInv'
    BY <2>7, <2>8, <2>12, GoesIs DEF DiskInv
  <2> QED BY <2>2, <2>9, <2>10, <2>11, <2>12, <2>13 DEF IInv
<1> QED BY <1>1, <1>2
-----------------------------------------------------------------------------
(* The invariant is kept: partition and format.                             *)

LEMMA KeepWill ==
  ASSUME NEW D, NEW T, NEW n, NEW l, NEW x, WillBe(D, <<>>, n, l, x),
         \A o : InSeq(T, o) => ~Touches(n, o, l)
  PROVE  WillBe(D, T, n, l, x)
<1>1. Sec(D, l) = x
  BY WillDone
<1> QED BY <1>1 DEF WillBe

LEMMA LatePlace ==
  ASSUME IInv, P > 8 \/ pc \in {"mbr", "vbr", "fat", "root", "stage2", "load", "kernel",
    "prompt", "swap_program", "bin", "bin_files", "accounts", "users_data", "root_dir",
    "reboot", "done"}
  PROVE  P > 8 /\ P \in 9..24 /\ TypeInv /\ ClearInv /\ DiskInv /\ \E d : Running(d)
<1>1. TypeInv /\ P \in 0..24
  BY PNat DEF IInv
<1>2. P > 8
  BY PlaceIs DEF P
<1> QED BY <1>1, <1>2 DEF IInv

\* What a procedure that queues its operations leaves to show.
LEMMA MoveIInv ==
  ASSUME IInv, P > 8, UNCHANGED <<hdd, size, users, spc, fatSecs>>, IsSeq(todo'),
         pc' \in DOMAIN Place, P' > 8,
         P' \in 1..15 => at' = NoWhere,
         P' \in 8..16 => floppy' \in KernelDisks,
         P' \in 18..24 => floppy' \in ProgramDisks,
         NEW d, Running(d)', ClearInv'
  PROVE  IInv'
<1>1. TypeInv /\ DiskInv
  BY DEF IInv
<1>2. P' \in 0..24
  BY PlaceRange DEF P
<1>3. TypeInv'
  BY <1>1, <1>2 DEF TypeInv
<1>4. DiskInv'
  BY <1>1 DEF DiskInv
<1> QED BY <1>2, <1>3, <1>4 DEF IInv

\* A procedure that only queues keeps what is on the disk.
LEMMA EarlyMove ==
  ASSUME IInv, P \in 9..14, P' = P + 1, pc' \in DOMAIN Place,
         UNCHANGED <<hdd, size, floppy, users, rootpw, spc, fatSecs, at>>, IsSeq(todo'),
         OpsInv(floppy)', BootFacts(floppy)', ClearInv'
  PROVE  IInv'
<1>1. TypeInv /\ P > 8 /\ P \in 8..16 /\ P \in 1..15 /\ P' \in 10..15 /\ P' > 8
  BY DEF IInv
<1>2. floppy \in KernelDisks /\ at = NoWhere
  BY <1>1 DEF TypeInv
<1>3. Running(floppy)'
  BY <1>1, <1>2 DEF Running, PlanInv, FileFacts
<1> QED BY <1>1, <1>2, <1>3, MoveIInv

\* The partition table, and the procedures after it.
LEMMA WriteMbrIInv ==
  ASSUME IInv, WriteMbr
  PROVE  IInv'
<1>1. /\ pc = "mbr" /\ todo = <<>> /\ pc' = "vbr"
      /\ todo' = <<Write(0, MbrSec(size))>>
      /\ UNCHANGED <<hdd, size, floppy, users, rootpw, spc, fatSecs, at>>
  BY DEF WriteMbr, Queue, At, MbrSec
<1>2. P = 9 /\ P' = 10 /\ pc' \in DOMAIN Place
  BY <1>1, PlaceIs, PlaceDomain DEF P
<1>3. IsSeq(todo') /\ \A o : InSeq(todo', o) <=> o = Write(0, MbrSec(size))
  BY <1>1, OneHas
<1>4. OpsInv(floppy)'
  BY <1>1, <1>2, <1>3 DEF OpsInv
<1>5. WillBe(hdd, todo', fatSecs, 0, MbrSec(size))
  BY <1>3 DEF WillBe
<1>6. BootFacts(floppy)'
  BY <1>1, <1>2, <1>5 DEF BootFacts
<1> QED BY <1>1, <1>2, <1>3, <1>4, <1>6, EarlyMove DEF ClearInv

LEMMA WriteVbrIInv ==
  ASSUME IInv, WriteVbr
  PROVE  IInv'
<1> DEFINE v == Write(PartStart, VbrSec(size, spc, fatSecs))
           f == Write(PartStart + 1, [k |-> "fsinfo"])
<1>1. /\ pc = "vbr" /\ todo = <<>> /\ pc' = "fat" /\ todo' = <<v, f>>
      /\ UNCHANGED <<hdd, size, floppy, users, rootpw, spc, fatSecs, at>>
  BY DEF WriteVbr, Queue, At, VbrSec
<1>2. P = 10 /\ P' = 11 /\ pc' \in DOMAIN Place
  BY <1>1, PlaceIs, PlaceDomain DEF P
<1>3. IsSeq(todo') /\ \A o : InSeq(todo', o) <=> o = v \/ o = f
  BY <1>1, PairHas
<1>4. OpsInv(floppy)'
  BY <1>1, <1>2, <1>3 DEF OpsInv
<1>5. PartStart \in Nat /\ PartStart > 0 /\ PartStart # PartStart + 1
  BY Sizes
<1>6. WillBe(hdd, todo', fatSecs, 0, MbrSec(size))
  <2>1. PICK d : Running(d)
    BY <1>1, LatePlace
  <2>2. WillBe(hdd, <<>>, fatSecs, 0, MbrSec(size))
    BY <1>1, <1>2, <2>1 DEF Running, BootFacts
  <2>3. ~Touches(fatSecs, v, 0) /\ ~Touches(fatSecs, f, 0)
    BY <1>5, OpFields DEF Touches
  <2> HIDE DEF v, f
  <2> QED BY <1>3, <2>2, <2>3, KeepWill
<1>7. WillBe(hdd, todo', fatSecs, PartStart, VbrSec(size, spc, fatSecs))
  <2>1. ~Touches(fatSecs, f, PartStart)
    BY <1>5, OpFields DEF Touches
  <2>2. v = Write(PartStart, VbrSec(size, spc, fatSecs))
    OBVIOUS
  <2> HIDE DEF v, f
  <2> QED BY <1>3, <2>1, <2>2 DEF WillBe
<1>8. BootFacts(floppy)'
  BY <1>1, <1>2, <1>6, <1>7 DEF BootFacts
<1> QED BY <1>1, <1>2, <1>3, <1>4, <1>8, EarlyMove DEF ClearInv

\* The parts of the disk before the FAT, when nothing is queued for them.
LEMMA KeepTable ==
  ASSUME IInv, NEW d, Running(d), todo = <<>>, P > 10,
         UNCHANGED <<hdd, size, spc, fatSecs>>,
         \A o : InSeq(todo', o) =>
           ~Touches(fatSecs, o, 0) /\ ~Touches(fatSecs, o, PartStart)
  PROVE  /\ WillBe(hdd', todo', fatSecs', 0, MbrSec(size'))
         /\ WillBe(hdd', todo', fatSecs', PartStart, VbrSec(size', spc', fatSecs'))
<1>1. P \in 0..24
  BY PNat DEF IInv
<1>2. /\ WillBe(hdd, <<>>, fatSecs, 0, MbrSec(size))
      /\ WillBe(hdd, <<>>, fatSecs, PartStart, VbrSec(size, spc, fatSecs))
  BY <1>1 DEF Running, BootFacts
<1> QED BY <1>2, KeepWill

LEMMA ClearFatIInv ==
  ASSUME IInv, ClearFat
  PROVE  IInv'
<1> DEFINE b == PartStart + Res
           A == [i \in 1..2 * fatSecs |-> Write(b + i - 1, Zero)]
           F == <<Write(b, FirstFatSector), Write(b + fatSecs, FirstFatSector)>>
<1>1. /\ pc = "fat" /\ todo = <<>> /\ pc' = "root" /\ todo' = A \o F
      /\ UNCHANGED <<hdd, size, floppy, users, rootpw, spc, fatSecs, at>>
  BY DEF ClearFat, Queue, At
<1>2. P = 11 /\ P' = 12 /\ pc' \in DOMAIN Place
  BY <1>1, PlaceIs, PlaceDomain DEF P
<1>3. PICK d : Running(d)
  BY <1>1, LatePlace
<1>4. /\ b \in Nat /\ b > PartStart /\ PartStart \in Nat /\ PartStart > 0
      /\ fatSecs \in Nat /\ fatSecs > 0 /\ DataStart(fatSecs) = b + 2 * fatSecs
  <2>1. P > 8 /\ TypeInv
    BY <1>1, LatePlace
  <2> QED BY <2>1, SettledNow DEF DataStart
<1> DEFINE m == 2 * fatSecs
<1>5. /\ IsSeq(A) /\ Len(A) = m /\ A[1] = Write(b, Zero) /\ m \in Nat \ {0}
      /\ \A o : InSeq(A, o) <=> \E i \in 1..m : A[i] = o
      /\ \A i \in 1..m : A[i] = Write(b + i - 1, Zero)
  <2>1. m \in Nat \ {0} /\ 1 \in 1..m
    BY <1>4
  <2>2. A = [i \in 1..m |-> A[i]]
    OBVIOUS
  <2>3. \A i \in 1..m : A[i] = Write(b + i - 1, Zero)
    OBVIOUS
  <2>4. A[1] = Write(b + 1 - 1, Zero) /\ b + 1 - 1 = b
    <3> HIDE DEF b
    <3> QED BY <2>1, <2>3, <1>4
  <2> HIDE DEF A, m, b
  <2> QED BY <2>1, <2>2, <2>3, <2>4, TableSeq
<1>6. /\ IsSeq(F)
      /\ \A o : InSeq(F, o) <=>
           o = Write(b, FirstFatSector) \/ o = Write(b + fatSecs, FirstFatSector)
  BY PairHas
<1> HIDE DEF A, F, b
<1>7. IsSeq(todo') /\ \A o : InSeq(todo', o) <=> InSeq(A, o) \/ InSeq(F, o)
  BY <1>1, <1>5, <1>6, ConcatHas
<1>8. ASSUME NEW o, InSeq(todo', o)
      PROVE  \E l \in b..DataStart(fatSecs) - 1 :
               o = Write(l, Zero) \/ o = Write(l, FirstFatSector)
  <2>1. CASE InSeq(A, o)
    <3>1. PICK i \in 1..m : o = Write(b + i - 1, Zero)
      BY <2>1, <1>5
    <3>2. b + i - 1 \in b..DataStart(fatSecs) - 1
      BY <1>4
    <3> QED BY <3>1, <3>2
  <2>2. CASE InSeq(F, o)
    <3>1. b \in b..DataStart(fatSecs) - 1 /\ b + fatSecs \in b..DataStart(fatSecs) - 1
      BY <1>4
    <3> QED BY <2>2, <3>1, <1>6
  <2> QED BY <1>7, <1>8, <2>1, <2>2
<1>9. OpsInv(floppy)'
  BY <1>1, <1>2, <1>8 DEF OpsInv, b
<1>10. \A o : InSeq(todo', o) =>
         ~Touches(fatSecs, o, 0) /\ ~Touches(fatSecs, o, PartStart)
  BY <1>4, <1>8, OpFields DEF Touches
<1>11. BootFacts(floppy)'
  BY <1>1, <1>2, <1>3, <1>10, KeepTable DEF BootFacts
<1>12. todo' # <<>> /\ Head(todo') = Write(b, Zero)
  <2>1. PICK U, V : A \in Seq(U) /\ F \in Seq(V)
    BY <1>5, <1>6 DEF IsSeq
  <2>2. A \in Seq(U \cup V) /\ F \in Seq(U \cup V)
    BY <2>1
  <2>3. Len(A \o F) = Len(A) + Len(F) /\ Len(F) \in Nat /\ Len(A) > 0
        /\ (A \o F)[1] = A[1] /\ A \o F \in Seq(U \cup V)
    BY <2>2, <1>5
  <2>4. A \o F # <<>>
    BY <2>3, <1>5
  <2> QED BY <1>1, <1>5, <2>3, <2>4
<1>13. ClearInv'
  BY <1>1, <1>2, <1>12 DEF ClearInv, b
<1> QED BY <1>1, <1>2, <1>7, <1>9, <1>11, <1>13, EarlyMove
-----------------------------------------------------------------------------
LEMMA InitRootIInv ==
  ASSUME Installable, IInv, InitRoot
  PROVE  IInv'
<1>1. /\ pc = "root" /\ todo = <<>> /\ pc' = "stage2" /\ todo' = WriteCluster(2, Zero)
      /\ UNCHANGED <<hdd, size, floppy, users, rootpw, spc, fatSecs, at>>
  BY DEF InitRoot, Queue, At
<1>2. P = 12 /\ P' = 13 /\ pc' \in DOMAIN Place
  BY <1>1, PlaceIs, PlaceDomain DEF P
<1>3. PICK d : Running(d)
  BY <1>1, LatePlace
<1>4. TypeInv /\ P > 8 /\ ClearInv
  BY <1>1, LatePlace
<1>5. PICK e : e \in ProgramDisks
  BY DEF Installable, SourcesOK
<1>6. Laid(Top(d, e, spc))
  BY <1>3, <1>4, <1>5, LaidNow DEF Running
<1>7. Fresh(WriteCluster(2, Zero), 2, 3) /\ ClusterGiven(WriteCluster(2, Zero), 2, Zero)
  <2>1. 2 \in Int /\ 2 + 1 = 3
    OBVIOUS
  <2> QED BY <1>6, <2>1, ClusterWrite
<1>8. /\ S(2) = DataStart(fatSecs) /\ S(3) = DataStart(fatSecs) + spc
      /\ DataStart(fatSecs) \in Nat /\ spc \in Nat \ {0}
      /\ DataStart(fatSecs) > PartStart /\ PartStart \in Nat /\ PartStart > 0
  BY <1>4, SettledNow
<1>9. ASSUME NEW o, InSeq(todo', o)
      PROVE  \E l \in DataStart(fatSecs)..Start(spc, fatSecs, 3) - 1 : o = Write(l, Zero)
  <2> DEFINE W == WriteCluster(2, Zero)
  <2>1. W = [i \in 1..spc |-> Write(ClusterLba(2) + i - 1, IF i = 1 THEN Zero ELSE Zero)]
    BY DEF WriteCluster
  <2>2. ClusterLba(2) = DataStart(fatSecs)
    <3>1. ClusterLba(2) = DataStart(fatSecs) + (2 - 2) * spc
      BY DEF ClusterLba, DataLba, DataStart
    <3> QED BY <1>8, <3>1
  <2>3. W = [i \in 1..spc |-> W[i]]
        /\ \A i \in 1..spc : W[i] = Write(DataStart(fatSecs) + i - 1, Zero)
    BY <2>1, <2>2
  <2> HIDE DEF W
  <2>4. InSeq(W, o)
    BY <1>1, <1>9 DEF W
  <2>5. PICK i \in 1..spc : o = Write(DataStart(fatSecs) + i - 1, Zero)
    BY <1>8, <2>3, <2>4, TableSeq
  <2>6. DataStart(fatSecs) + i - 1 \in DataStart(fatSecs)..Start(spc, fatSecs, 3) - 1
    BY <1>8 DEF S
  <2> QED BY <2>5, <2>6
<1>10. OpsInv(floppy)'
  BY <1>1, <1>2, <1>9 DEF OpsInv
<1>11. \A o : InSeq(todo', o) =>
         ~Touches(fatSecs, o, 0) /\ ~Touches(fatSecs, o, PartStart)
  BY <1>8, <1>9, OpFields DEF Touches
<1>12. Cluster(hdd, todo', spc, fatSecs, 2, Zero)
  BY <1>1, <1>7, GivenCluster
<1>13. BootFacts(floppy)'
  BY <1>1, <1>2, <1>3, <1>11, <1>12, KeepTable DEF BootFacts
<1>14. ClearInv'
  BY <1>1, <1>2, <1>4 DEF ClearInv
<1>15. IsSeq(todo')
  BY <1>1, <1>7 DEF Fresh
<1> QED BY <1>1, <1>2, <1>10, <1>13, <1>14, <1>15, EarlyMove

\* Cluster 2 once the zeros are written.
LEMMA BlankNow ==
  ASSUME NEW D, NEW k, NEW n, Cluster(D, <<>>, k, n, 2, Zero)
  PROVE  RootBlank(D, k, n)
<1>1. Zero.k # "dir"
  BY DEF Zero
<1>2. \A i \in 1..k : Sec(D, Start(k, n, 2) + i - 1) = Zero
  BY WillDone DEF Cluster
<1> QED BY <1>1, <1>2 DEF RootBlank

LEMMA CopyStage2IInv ==
  ASSUME Installable, IInv, CopyStage2
  PROVE  IInv'
<1> DEFINE X == [i \in 1..floppy.stage2 |-> FileSector(floppy, "stage2", i)]
           l == PartStart + 2
<1>1. /\ pc = "stage2" /\ todo = <<>> /\ pc' = "load"
      /\ todo' = [i \in 1..floppy.stage2 |->
                    Write(PartStart + 1 + i, FileSector(floppy, "stage2", i))]
      /\ UNCHANGED <<hdd, size, floppy, users, rootpw, spc, fatSecs, at>>
  BY DEF CopyStage2, Queue, At
<1>2. P = 13 /\ P' = 14 /\ pc' \in DOMAIN Place
  BY <1>1, PlaceIs, PlaceDomain DEF P
<1>3. PICK d : Running(d)
  BY <1>1, LatePlace
<1>4. TypeInv /\ P > 8 /\ ClearInv
  BY <1>1, LatePlace
<1>5. floppy \in KernelDisks
  BY <1>2, <1>4 DEF TypeInv
<1>6. floppy.stage2 \in Nat \ {0} /\ floppy.stage2 <= Stage2Max
  BY <1>5 DEF Installable, SourcesOK, KernelDiskOK, KernelDisks, Verified
<1>7. /\ PartStart \in Nat /\ PartStart > 0 /\ Res >= 2 + Stage2Max /\ Stage2Max \in Nat
      /\ Res \in Nat /\ DataStart(fatSecs) \in Nat /\ S(2) = DataStart(fatSecs)
      /\ DataStart(fatSecs) >= PartStart + Res + fatSecs /\ fatSecs \in Nat
      /\ spc \in Nat \ {0}
  BY <1>4, SettledNow, Sizes
<1>8. Fills(todo', l, floppy.stage2, X)
  <2>1. \A i \in 1..floppy.stage2 :
          Write(PartStart + 1 + i, FileSector(floppy, "stage2", i))
            = Write(l + i - 1, X[i])
    <3>1. \A i \in 1..floppy.stage2 : PartStart + 1 + i = l + i - 1
      BY <1>6, <1>7
    <3>2. \A i \in 1..floppy.stage2 : X[i] = FileSector(floppy, "stage2", i)
      OBVIOUS
    <3> HIDE DEF X, l
    <3> QED BY <3>1, <3>2
  <2>2. l \in Int
    BY <1>7
  <2> HIDE DEF X, l
  <2>3. todo' = [i \in 1..floppy.stage2 |-> Write(l + i - 1, X[i])]
    BY <1>1, <2>1
  <2> QED BY <1>6, <2>2, <2>3, TableFills
<1>9. /\ l \in Int /\ floppy.stage2 \in Nat
      /\ l + floppy.stage2 <= PartStart + Res /\ PartStart + Res \in Int
  BY <1>6, <1>7
<1> HIDE DEF X
<1>10. /\ \A i \in 1..floppy.stage2 : Gives(todo', fatSecs, l + i - 1, X[i])
       /\ \A y : y \notin l..l + floppy.stage2 - 1 =>
            \A o : InSeq(todo', o) => ~Touches(fatSecs, o, y)
       /\ Within(todo', l, PartStart + Res, 0, 0)
  <2> HIDE DEF l
  <2>1. \A i \in 1..floppy.stage2 : Gives(todo', fatSecs, l + i - 1, X[i])
    BY <1>8, <1>9, FillsGives
  <2>2. \A y : y \notin l..l + floppy.stage2 - 1 =>
            \A o : InSeq(todo', o) => ~Touches(fatSecs, o, y)
    BY <1>8, <1>9, FillsIs
  <2>3. Within(todo', l, PartStart + Res, 0, 0)
    <3>1. l <= l
      BY <1>9
    <3> QED BY <1>8, <1>9, <3>1, WithinFills
  <2> QED BY <2>1, <2>2, <2>3
<1>11. OpsInv(floppy)'
  BY <1>1, <1>2, <1>10 DEF OpsInv
<1>12. \A o : InSeq(todo', o) =>
         ~Touches(fatSecs, o, 0) /\ ~Touches(fatSecs, o, PartStart)
  <2>1. 0 \notin l..l + floppy.stage2 - 1 /\ PartStart \notin l..l + floppy.stage2 - 1
    BY <1>6, <1>7
  <2> QED BY <1>10, <2>1
<1>13. Cluster(hdd, <<>>, spc, fatSecs, 2, Zero)
  BY <1>1, <1>2, <1>3 DEF Running, BootFacts
<1>14. Cluster(hdd, todo', spc, fatSecs, 2, Zero)
  <2> SUFFICES ASSUME NEW i \in 1..spc
               PROVE WillBe(hdd, todo', fatSecs, Start(spc, fatSecs, 2) + i - 1,
                            IF i = 1 THEN Zero ELSE Zero)
    BY DEF Cluster
  <2>1. Start(spc, fatSecs, 2) + i - 1 \notin l..l + floppy.stage2 - 1
    BY <1>6, <1>7 DEF S
  <2>2. \A o : InSeq(todo', o) => ~Touches(fatSecs, o, Start(spc, fatSecs, 2) + i - 1)
    BY <1>10, <2>1
  <2>3. WillBe(hdd, <<>>, fatSecs, Start(spc, fatSecs, 2) + i - 1,
               IF i = 1 THEN Zero ELSE Zero)
    BY <1>13 DEF Cluster
  <2> QED BY <2>2, <2>3, KeepWill
<1>15. Stage2There(hdd, todo', fatSecs, floppy)
  <2> SUFFICES ASSUME NEW i \in 1..floppy.stage2
               PROVE  WillBe(hdd, todo', fatSecs, PartStart + 1 + i,
                             FileSector(floppy, "stage2", i))
    BY DEF Stage2There
  <2>1. PartStart + 1 + i = l + i - 1 /\ X[i] = FileSector(floppy, "stage2", i)
    BY <1>6, <1>7 DEF X
  <2> HIDE DEF l
  <2> QED BY <1>10, <2>1, GivesWill
<1>16. BootFacts(floppy)'
  BY <1>1, <1>2, <1>3, <1>12, <1>14, <1>15, KeepTable DEF BootFacts
<1>17. ClearInv'
  BY <1>1, <1>2, <1>13, BlankNow DEF ClearInv
<1>18. IsSeq(todo')
  BY <1>8 DEF Fills
<1> QED BY <1>1, <1>2, <1>11, <1>16, <1>17, <1>18, EarlyMove

LEMMA LoadSourceIInv ==
  ASSUME IInv, LoadSource
  PROVE  IInv'
<1>1. /\ pc = "load" /\ todo = <<>> /\ pc' = "kernel" /\ todo' = <<Read>>
      /\ UNCHANGED <<hdd, size, floppy, users, rootpw, spc, fatSecs, at>>
  BY DEF LoadSource, Queue, At
<1>2. P = 14 /\ P' = 15 /\ pc' \in DOMAIN Place
  BY <1>1, PlaceIs, PlaceDomain DEF P
<1>3. PICK d : Running(d)
  BY <1>1, LatePlace
<1>4. TypeInv /\ P > 8 /\ ClearInv
  BY <1>1, LatePlace
<1>5. IsSeq(todo') /\ \A o : InSeq(todo', o) <=> o = Read
  BY <1>1, OneHas
<1>6. OpsInv(floppy)'
  BY <1>1, <1>2, <1>5 DEF OpsInv
<1>7. \A o, l : InSeq(todo', o) => ~Touches(fatSecs, o, l)
  BY <1>5, OpFields DEF Touches
<1>8. /\ Cluster(hdd, <<>>, spc, fatSecs, 2, Zero)
      /\ Stage2There(hdd, <<>>, fatSecs, d) /\ d = floppy
  BY <1>1, <1>2, <1>3 DEF Running, BootFacts, PlanInv
<1>9. Cluster(hdd, todo', spc, fatSecs, 2, Zero)
  BY <1>7, <1>8, KeepWill DEF Cluster
<1>10. Stage2There(hdd, todo', fatSecs, floppy)
  BY <1>7, <1>8, KeepWill DEF Stage2There
<1>11. BootFacts(floppy)'
  BY <1>1, <1>2, <1>3, <1>7, <1>9, <1>10, KeepTable DEF BootFacts
<1>12. ClearInv'
  BY <1>1, <1>2, <1>4 DEF ClearInv
<1> QED BY <1>1, <1>2, <1>5, <1>6, <1>11, <1>12, EarlyMove
-----------------------------------------------------------------------------
(* The invariant is kept: the copying.                                      *)

LEMMA FilesRise ==
  ASSUME Installable, NEW d \in KernelDisks, NEW e \in ProgramDisks, NEW k \in Nat \ {0}
  PROVE  \A i, j \in 1..Len(BinFiles(e)) + 1 :
           /\ i <= j => FileAt(d, e, k, i) <= FileAt(d, e, k, j)
           /\ i < j => FileAt(d, e, k, i) + Ceil(BinFiles(e)[i].secs, k)
                         <= FileAt(d, e, k, j)
<1> DEFINE m == Len(BinFiles(e))
           F(i) == FileAt(d, e, k, i)
           c(i) == Ceil(BinFiles(e)[i].secs, k)
           J == {x \in Nat : \A i, j \in 1..m + 1 : i + x = j => F(i) <= F(j)}
<1>1. /\ m \in Nat /\ \A i \in 1..m + 1 : F(i) \in Nat
      /\ \A i \in 1..m : c(i) \in Nat /\ F(i + 1) = F(i) + c(i)
  BY FilesOrder, BinFilesAre
<1> HIDE DEF m, F, c
<1>2. 0 \in J
  BY <1>1
<1>3. ASSUME NEW x \in Nat, x \in J PROVE x + 1 \in J
  <2> SUFFICES ASSUME NEW i \in 1..m + 1, NEW j \in 1..m + 1, i + (x + 1) = j
               PROVE  F(i) <= F(j)
    OBVIOUS
  <2>1. i \in 1..m /\ i + 1 \in 1..m + 1 /\ (i + 1) + x = j
    BY <1>1
  <2>2. F(i + 1) <= F(j)
    BY <2>1, <1>3
  <2>3. F(i + 1) = F(i) + c(i) /\ c(i) \in Nat /\ F(i) \in Nat /\ F(j) \in Nat
    BY <2>1, <1>1
  <2> QED BY <2>2, <2>3
<1>4. \A x \in Nat : x \in J
  <2> HIDE DEF J
  <2> QED BY <1>2, <1>3, NatSetInduction
<1>5. \A i, j \in 1..m + 1 : i <= j => F(i) <= F(j)
  <2>1. \A i, j \in 1..m + 1 : i <= j => j - i \in Nat /\ i + (j - i) = j
    BY <1>1
  <2> QED BY <2>1, <1>4
<1>6. ASSUME NEW i \in 1..m + 1, NEW j \in 1..m + 1, i < j PROVE F(i) + c(i) <= F(j)
  <2>1. i \in 1..m /\ i + 1 \in 1..m + 1 /\ i + 1 <= j
    BY <1>1, <1>6
  <2> QED BY <2>1, <1>1, <1>5
<1> QED BY <1>5, <1>6 DEF m, F, c

\* From d and for e, at a place from the root directory on, a procedure queues
\* what writes the clusters from a to b - 1 and links those from g to h - 1.
Queues(d, e, a, b, g, h) ==
  /\ Installable /\ IInv /\ Running(d) /\ P \in 15..22 /\ todo = <<>>
  /\ e \in ProgramDisks /\ (P' # 23 => a >= 3) /\ IsSeq(todo')
  /\ Confined(todo', Top(d, e, spc), a, b, g, h)
  /\ UNCHANGED <<hdd, size, users, rootpw, spc, fatSecs>>
  /\ pc' \in DOMAIN Place /\ P' \in 16..23 /\ (P' = 16 => floppy' = floppy)
  /\ (P' > 17 => floppy' \in ProgramDisks)
  /\ (P' > 18 => floppy' = e)

\* A procedure that queues its part and goes on.
LEMMA QueuesIs ==
  ASSUME NEW d, NEW e, NEW a, NEW b, NEW g, NEW h, Queues(d, e, a, b, g, h)
  PROVE  /\ Laid(Top(d, e, spc)) /\ d \in KernelDisks /\ TypeInv /\ P > 8
         /\ spc \in Nat \ {0}
         /\ P > 9 /\ P > 10 /\ P > 12 /\ P > 13 /\ P < 23
         /\ RootBlank(hdd, spc, fatSecs)
         /\ a \in Nat /\ b \in Nat /\ g \in Nat /\ h \in Nat /\ a <= b /\ g <= h /\ g >= 3
         /\ b <= Top(d, e, spc) /\ h <= Top(d, e, spc) /\ Top(d, e, spc) \in Nat
         /\ Top(d, e, spc) >= 4
<1>1. TypeInv /\ P > 8 /\ d \in KernelDisks /\ ClearInv
  BY LatePlace DEF Queues, Running
<1>2. P > 9 /\ P > 10 /\ P > 12 /\ P > 13 /\ P < 23 /\ P \in 14..22
  BY DEF Queues
<1>3. Laid(Top(d, e, spc)) /\ spc \in Nat \ {0}
  BY <1>1, LaidNow, SettledNow DEF Queues
<1>4. Top(d, e, spc) \in Nat /\ Top(d, e, spc) >= 4
  BY <1>3, LaidIs
<1>5. RootBlank(hdd, spc, fatSecs)
  BY <1>1, <1>2 DEF ClearInv
<1>6. /\ a \in 2..Top(d, e, spc) /\ b \in a..Top(d, e, spc) /\ g \in 3..Top(d, e, spc)
      /\ h \in g..Top(d, e, spc)
  BY DEF Queues, Confined
<1>7. /\ a \in Nat /\ b \in Nat /\ g \in Nat /\ h \in Nat /\ a <= b /\ g <= h /\ g >= 3
      /\ b <= Top(d, e, spc) /\ h <= Top(d, e, spc)
  BY <1>4, <1>6
<1> QED BY <1>1, <1>2, <1>3, <1>4, <1>5, <1>7

LEMMA QueuesOps ==
  ASSUME NEW d, NEW e, NEW a, NEW b, NEW g, NEW h, Queues(d, e, a, b, g, h),
         P' # 23
  PROVE  Within(todo', S(3), S(Top(d, e, spc)), 3, Top(d, e, spc))
<1> DEFINE t == Top(d, e, spc)
<1>1. /\ Laid(t) /\ a \in Nat /\ b \in Nat /\ g \in Nat /\ h \in Nat /\ t \in Nat
      /\ g >= 3 /\ b <= t /\ h <= t
  BY QueuesIs
<1>2. a >= 3 /\ Within(todo', S(a), S(b), g, h)
  BY DEF Queues, Confined
<1> HIDE DEF t
<1>3. S(3) <= S(a) /\ S(b) <= S(t)
  BY <1>1, <1>2, LaidOrder
<1>4. S(3) \in Int /\ S(a) \in Int /\ S(b) \in Int /\ S(t) \in Int
  BY <1>1, LaidIs
<1>5. Within(todo', S(3), S(t), 3, t)
  BY <1>1, <1>2, <1>3, <1>4, WithinMore
<1> QED BY <1>5 DEF t

\* What is before the clusters of the files stays.
LEMMA QueuesBoot ==
  ASSUME NEW d, NEW e, NEW a, NEW b, NEW g, NEW h, Queues(d, e, a, b, g, h),
         P' # 23
  PROVE  BootFacts(d)' /\ ClearInv'
<1> DEFINE t == Top(d, e, spc)
<1>1. /\ Laid(t) /\ d \in KernelDisks /\ P > 9 /\ P > 10 /\ P > 12 /\ P > 13 /\ P < 23
      /\ TypeInv /\ P > 8 /\ t \in Nat /\ t >= 4
      /\ RootBlank(hdd, spc, fatSecs)
  BY QueuesIs
<1>2. /\ P' \in 16..22 /\ UNCHANGED <<hdd, size, spc, fatSecs>> /\ todo = <<>>
      /\ Confined(todo', t, a, b, g, h) /\ a >= 3 /\ BootFacts(d)
      /\ a \in Nat /\ Installable
  BY QueuesIs DEF Queues, Running
<1> HIDE DEF t
<1>3. /\ WillBe(hdd, <<>>, fatSecs, 0, MbrSec(size))
      /\ WillBe(hdd, <<>>, fatSecs, PartStart, VbrSec(size, spc, fatSecs))
      /\ Cluster(hdd, <<>>, spc, fatSecs, 2, Zero)
      /\ Stage2There(hdd, <<>>, fatSecs, d)
  BY <1>1, <1>2 DEF BootFacts
<1>4. /\ PartStart \in Nat /\ Res \in Nat /\ Res >= 2 + Stage2Max /\ Stage2Max \in Nat
  BY Sizes
<1>5. WillBe(hdd, todo', fatSecs, 0, MbrSec(size))
  BY <1>1, <1>2, <1>3, KeepBoot
<1>6. WillBe(hdd, todo', fatSecs, PartStart, VbrSec(size, spc, fatSecs))
  <2>1. PartStart \in PartStart..PartStart + Res - 1
    BY <1>4
  <2> QED BY <1>1, <1>2, <1>3, <2>1, KeepBoot
<1>7. Cluster(hdd, todo', spc, fatSecs, 2, Zero)
  <2>1. 2 \in 2..t - 1 /\ 2 < a
    BY <1>1, <1>2
  <2> QED BY <1>1, <1>2, <1>3, <2>1, KeepCluster
<1>8. Stage2There(hdd, todo', fatSecs, d)
  <2>1. d.stage2 \in Nat /\ d.stage2 <= Stage2Max
    BY <1>1, <1>2 DEF Installable, SourcesOK, KernelDiskOK, KernelDisks, Verified
  <2> SUFFICES ASSUME NEW i \in 1..d.stage2
               PROVE  WillBe(hdd, todo', fatSecs, PartStart + 1 + i,
                             FileSector(d, "stage2", i))
    BY DEF Stage2There
  <2>2. PartStart + 1 + i \in PartStart..PartStart + Res - 1
    BY <2>1, <1>4
  <2>3. WillBe(hdd, <<>>, fatSecs, PartStart + 1 + i, FileSector(d, "stage2", i))
    BY <1>3 DEF Stage2There
  <2> QED BY <1>1, <1>2, <2>2, <2>3, KeepBoot
<1>9. BootFacts(d)'
  BY <1>2, <1>5, <1>6, <1>7, <1>8 DEF BootFacts
<1>10. ClearInv'
  BY <1>1, <1>2 DEF ClearInv
<1> QED BY <1>9, <1>10

\* A procedure whose part lies between its clusters keeps the invariant.
LEMMA QueuesIInv ==
  ASSUME NEW d, NEW e, NEW a, NEW b, NEW g, NEW h, Queues(d, e, a, b, g, h),
         P' \notin {17, 18, 23}, PlanInv(d)', FileFacts(d)'
  PROVE  IInv'
<1>1. Within(todo', S(3), S(Top(d, e, spc)), 3, Top(d, e, spc))
  BY QueuesOps
<1>2. /\ P' \in 16..22 /\ UNCHANGED <<hdd, size, users, spc, fatSecs>> /\ IsSeq(todo')
      /\ pc' \in DOMAIN Place /\ e \in ProgramDisks /\ IInv /\ (P' = 16 => floppy' = floppy)
      /\ (P' > 17 => floppy' \in ProgramDisks)
  BY DEF Queues
<1>3. d \in KernelDisks /\ P > 8
  BY QueuesIs
<1>4. OpsInv(d)'
  BY <1>1, <1>2 DEF OpsInv, S
<1>5. BootFacts(d)' /\ ClearInv'
  BY QueuesBoot
<1>6. Running(d)'
  BY <1>3, <1>4, <1>5 DEF Running
<1>7. P' = 16 => floppy' \in KernelDisks
  BY <1>2, <1>3 DEF PlanInv
<1>8. /\ P' > 8 /\ ~(P' \in 1..15) /\ (P' \in 8..16 => P' = 16)
      /\ (P' \in 18..24 => P' > 17)
  BY <1>2
<1> QED BY <1>2, <1>3, <1>5, <1>6, <1>7, <1>8, MoveIInv
-----------------------------------------------------------------------------
\* The kernel is copied.
LEMMA CopyKernelIInv ==
  ASSUME Installable, IInv, CopyKernel
  PROVE  IInv'
<1> DEFINE f == floppy.kernel
           n == ClustersOf(f.secs)
           c == FirstOf(3, n)
<1>1. /\ pc = "kernel" /\ todo = <<>> /\ pc' = "prompt"
      /\ todo' = AllocChain(3, n) \o CopyFile(floppy, f, c)
      /\ UNCHANGED <<hdd, size, floppy, users, rootpw, spc, fatSecs>>
      /\ next' = 3 + n /\ at' = [at EXCEPT !.kernel = c, !.ksecs = f.secs]
  BY DEF CopyKernel, Queue, At
<1>2. P = 15 /\ P' = 16 /\ pc' \in DOMAIN Place
  BY <1>1, PlaceIs, PlaceDomain DEF P
<1>3. PICK d : Running(d)
  BY <1>1, LatePlace
<1>4. TypeInv /\ P > 8
  BY <1>1, LatePlace
<1>5. d = floppy /\ d \in KernelDisks /\ at = NoWhere /\ spc \in Nat \ {0}
  BY <1>2, <1>3, <1>4, SettledNow DEF TypeInv, Running, PlanInv
<1>6. PICK e : e \in ProgramDisks
  BY DEF Installable, SourcesOK
<1> DEFINE t == Top(d, e, spc)
<1>7. Laid(t)
  BY <1>4, <1>5, <1>6, LaidNow
<1>8. /\ f.secs \in Nat /\ f.secs > 0 /\ BinAt(d, spc) = 3 + n
      /\ BinAt(d, spc) \in Nat /\ n = Ceil(f.secs, spc)
      /\ UsersAt(d, e, spc) \in Nat /\ UsersAt(d, e, spc) > BinAt(d, spc)
      /\ t = UsersAt(d, e, spc) + 3 + MaxUsers
  <2>1. n = Ceil(f.secs, spc) /\ BinAt(d, spc) = 3 + Ceil(f.secs, spc)
    BY <1>5 DEF ClustersOf, BinAt
  <2>2. /\ f.secs \in Nat \ {0} /\ BinAt(d, spc) \in Nat
        /\ UsersAt(d, e, spc) \in Nat /\ UsersAt(d, e, spc) > BinAt(d, spc)
        /\ t = UsersAt(d, e, spc) + 3 + MaxUsers
    BY <1>5, <1>6, FilesOrder
  <2> HIDE DEF f, t, n
  <2> QED BY <2>1, <2>2
<1>9. n \in Nat /\ n > 0 /\ t \in Nat /\ MaxUsers \in Nat
  <2>1. Ceil(f.secs, spc) \in Nat /\ Ceil(f.secs, spc) > 0
    BY <1>5, <1>8, CeilNat
  <2> QED BY <2>1, <1>7, <1>8, LaidIs, Sizes
<1>10. c = 3
  BY <1>9 DEF FirstOf
<1>11. /\ IsSeq(todo') /\ Confined(todo', t, 3, 3 + n, 3, 3 + n)
       /\ ~InSeq(todo', Fail) => FileThere(hdd, todo', spc, fatSecs, d, f, 3)
  <2>1. 3 \in 3..t /\ 3 + Ceil(f.secs, spc) <= t
    BY <1>8, <1>9
  <2>2. todo' = AllocChain(3, Ceil(f.secs, spc))
                  \o CopyFile(d, f, FirstOf(3, Ceil(f.secs, spc)))
    BY <1>1, <1>5, <1>8
  <2> HIDE DEF t, f
  <2> QED BY <1>7, <1>8, <2>1, <2>2, CopyThere
<1>12. Queues(d, e, 3, 3 + n, 3, 3 + n)
  <2>1. P \in 15..22 /\ P' \in 16..22 /\ 3 >= 3 /\ ~(P' > 17) /\ ~(P' > 18)
    BY <1>2
  <2> HIDE DEF n
  <2> QED BY <1>1, <1>2, <1>3, <1>6, <1>11, <2>1 DEF Queues
<1>13. at' = KernelPlan(d)
  BY <1>1, <1>5, <1>10 DEF NoWhere, KernelPlan
<1>14. PlanInv(d)'
  <2>1. next' = BinAt(d, spc)
    BY <1>1, <1>8
  <2> QED BY <1>1, <1>2, <1>5, <1>13, <2>1 DEF PlanInv
<1>15. FileFacts(d)'
  BY <1>1, <1>2, <1>5, <1>11 DEF FileFacts
<1> QED BY <1>2, <1>12, <1>14, <1>15, QueuesIInv

LEMMA PromptProgramIInv ==
  ASSUME IInv, PromptProgram
  PROVE  IInv'
<1>1. /\ pc = "prompt" /\ todo = <<>> /\ pc' = "swap_program" /\ todo' = <<>>
      /\ UNCHANGED <<hdd, size, floppy, users, rootpw, spc, fatSecs, next, at>>
  BY DEF PromptProgram, At, Goto
<1>2. P = 16 /\ P' = 17 /\ pc' \in DOMAIN Place
  BY <1>1, PlaceIs, PlaceDomain DEF P
<1>3. PICK d : Running(d)
  BY <1>1, LatePlace
<1>4. TypeInv /\ P > 8 /\ ClearInv
  BY <1>1, LatePlace
<1>5. Running(d)'
  BY <1>1, <1>2, <1>3 DEF Running, OpsInv, PlanInv, BootFacts, FileFacts
<1>6. ClearInv'
  BY <1>1, <1>2, <1>4 DEF ClearInv
<1> QED BY <1>1, <1>2, <1>4, <1>5, <1>6, EmptyHas, MoveIInv

LEMMA SwapProgramIInv ==
  ASSUME IInv, NEW x \in Floppies \cup {NoDisk}, SwapProgram(x)
  PROVE  IInv'
<1>1. /\ pc = "swap_program" /\ todo = <<>> /\ todo' = <<>> /\ floppy' = x
      /\ UNCHANGED <<hdd, size, users, rootpw, spc, fatSecs, next, at>>
      /\ pc' \in {"bin", "swap_program", "halt"}
      /\ (pc' = "bin" => HasPrograms(x))
  BY DEF SwapProgram, At, Goto, Insert, Retry
<1>2. P = 17 /\ pc' \in DOMAIN Place
  BY <1>1, PlaceIs, PlaceDomain DEF P
<1>3. PICK d : Running(d)
  BY <1>1, LatePlace
<1>4. TypeInv /\ P > 8 /\ ClearInv
  BY <1>1, LatePlace
<1>5. CASE pc' = "halt"
  <2>1. Place[pc'] = 0 /\ UsersOK(users')
    BY <1>1, <1>4, <1>5, PlaceIs DEF TypeInv
  <2> QED BY <1>1, <1>2, <2>1, EarlyStep
<1>6. CASE pc' # "halt"
  <2>1. P' \in {17, 18} /\ (P' = 18 => pc' = "bin")
    BY <1>1, <1>6, PlaceIs DEF P
  <2>2. P' = 18 => x \in ProgramDisks
    BY <1>1, <2>1 DEF ProgramDisks, HasPrograms, Prepared
  <2>3. Running(d)'
    <3>1. OpsInv(d)'
      BY <1>1, <2>1 DEF OpsInv
    <3>2. PlanInv(d)'
      BY <1>1, <1>2, <1>3, <2>1 DEF Running, PlanInv
    <3>3. BootFacts(d)' /\ FileFacts(d)'
      BY <1>1, <1>2, <1>3, <2>1 DEF Running, BootFacts, FileFacts
    <3> QED BY <1>3, <3>1, <3>2, <3>3 DEF Running
  <2>4. ClearInv'
    BY <1>1, <1>2, <1>4, <2>1 DEF ClearInv
  <2>5. /\ P' > 8 /\ ~(P' \in 1..15) /\ ~(P' \in 8..16)
        /\ (P' \in 18..24 => x \in ProgramDisks)
    BY <2>1, <2>2
  <2> QED BY <1>1, <1>2, <1>4, <2>3, <2>4, <2>5, EmptyHas, MoveIInv
<1> QED BY <1>5, <1>6

LEMMA NoFiles == \A d, e, k : FilesAt(d, e, k, 0) = <<>> /\ Len(<<>>) = 0
BY DEF FilesAt

\* The cluster of BIN.
LEMMA AllocBinIInv ==
  ASSUME Installable, IInv, AllocBin
  PROVE  IInv'
<1>1. /\ pc = "bin" /\ todo = <<>> /\ pc' = "bin_files"
      /\ todo' = <<Read>> \o AllocChain(next, 1)
      /\ UNCHANGED <<hdd, size, floppy, users, rootpw, spc, fatSecs>>
      /\ next' = next + 1 /\ at' = [at EXCEPT !.bin = next]
  BY DEF AllocBin, Queue, At
<1>2. P = 18 /\ P' = 19 /\ pc' \in DOMAIN Place
  BY <1>1, PlaceIs, PlaceDomain DEF P
<1>3. PICK d : Running(d)
  BY <1>1, LatePlace
<1>4. TypeInv /\ P > 8
  BY <1>1, LatePlace
<1> DEFINE e == floppy
           t == Top(d, e, spc)
           b == BinAt(d, spc)
<1>5. /\ d \in KernelDisks /\ e \in ProgramDisks /\ spc \in Nat \ {0}
      /\ at = KernelPlan(d) /\ next = b
  BY <1>2, <1>3, <1>4, SettledNow DEF TypeInv, Running, PlanInv
<1>6. Laid(t)
  BY <1>4, <1>5, LaidNow
<1>7. /\ b \in Nat /\ b >= 4 /\ UsersAt(d, e, spc) \in Nat /\ UsersAt(d, e, spc) > b
      /\ t = UsersAt(d, e, spc) + 3 + MaxUsers /\ MaxUsers \in Nat
      /\ b = 3 + Ceil(d.kernel.secs, spc) /\ d.kernel.secs \in Nat
      /\ FileAt(d, e, spc, 1) = b + 1
  BY <1>5, FilesOrder, Sizes DEF BinAt
<1>8. /\ Confined(todo', t, b, b, b, b + 1) /\ ~InSeq(todo', Fail)
      /\ WillLink(hdd, todo', fatSecs, b, Eoc) /\ IsSeq(todo')
  <2>1. Ends(todo', b, 1)
    BY <1>1, <1>5, <1>7, AllocOne, ReadThenEnds
  <2>2. b \in 3..t /\ b + 1 <= t /\ 1 \in Nat /\ b \in b..b + 1 - 1
    BY <1>7
  <2> HIDE DEF b, t
  <2> QED BY <1>6, <2>1, <2>2, EndsThere DEF Ends
<1>9. Queues(d, e, b, b, b, b + 1)
  <2>1. P \in 15..22 /\ P' \in 16..22 /\ b >= 3 /\ P' > 17 /\ P' > 18 /\ P' # 16
    BY <1>2, <1>7
  <2> HIDE DEF b
  <2> QED BY <1>1, <1>2, <1>3, <1>5, <1>8, <2>1 DEF Queues
<1>10. at' = BinPlan(d, spc, FilesAt(d, floppy, spc, 0))
  BY <1>1, <1>5, NoFiles DEF KernelPlan, BinPlan
<1>11. at'.files = <<>> /\ at'.bin = b /\ Len(at'.files) = 0
  BY <1>10, NoFiles DEF BinPlan
<1>12. PlanInv(d)'
  <2>1. next' = FileAt(d, floppy, spc, 0 + 1)
    BY <1>1, <1>5, <1>7
  <2>2. Len(BinFiles(floppy)) \in Nat
    BY <1>5, BinFilesAre
  <2>3. 0 \in 0..Len(BinFiles(floppy))
    BY <2>2
  <2>4. ~(P' \in 8..16) /\ ~(P' \in 16..18) /\ P' # 20 /\ ~(P' > 20)
    BY <1>2
  <2> QED BY <1>1, <1>2, <1>10, <1>11, <2>1, <2>3, <2>4 DEF PlanInv
<1>13. FileThere(hdd, todo', spc, fatSecs, d, d.kernel, 3)
  <2>1. FileThere(hdd, <<>>, spc, fatSecs, d, d.kernel, 3)
    BY <1>1, <1>2, <1>3, EmptyHas DEF Running, FileFacts
  <2>2. 3 \in 3..t /\ 3 + Ceil(d.kernel.secs, spc) <= t
        /\ 3 + Ceil(d.kernel.secs, spc) <= b
    BY <1>7
  <2> HIDE DEF b, t
  <2> QED BY <1>6, <1>7, <1>8, <2>1, <2>2, KeepFile
<1>14. FilesThere(hdd, todo', spc, fatSecs, d, floppy, 0)
  BY DEF FilesThere
<1>15. FileFacts(d)'
  BY <1>1, <1>2, <1>8, <1>11, <1>13, <1>14 DEF FileFacts
<1> QED BY <1>2, <1>9, <1>12, <1>15, QueuesIInv
-----------------------------------------------------------------------------
\* A file is a file: what is kept of the kernel and of BIN.
LEMMA KeepKernel ==
  ASSUME NEW d, NEW e, NEW a, NEW b, NEW g, NEW h, Queues(d, e, a, b, g, h),
         BinAt(d, spc) <= a, BinAt(d, spc) <= g,
         P > 15, ~InSeq(todo', Fail)
  PROVE  FileThere(hdd, todo', spc, fatSecs, d, d.kernel, 3)
<1> DEFINE t == Top(d, e, spc)
<1>1. /\ Laid(t) /\ d \in KernelDisks /\ spc \in Nat \ {0} /\ a \in Nat /\ a <= t
  BY QueuesIs
<1>2. /\ Confined(todo', t, a, b, g, h) /\ Installable /\ e \in ProgramDisks
      /\ Running(d) /\ todo = <<>>
  BY DEF Queues
<1>3. /\ d.kernel.secs \in Nat /\ BinAt(d, spc) = 3 + Ceil(d.kernel.secs, spc)
      /\ BinAt(d, spc) \in Nat /\ t \in Nat /\ t >= 4
  BY <1>1, <1>2, FilesOrder, LaidIs DEF BinAt
<1>4. FileThere(hdd, <<>>, spc, fatSecs, d, d.kernel, 3)
  BY <1>2, EmptyHas DEF Running, FileFacts
<1>5. /\ 3 \in 3..t /\ 3 + Ceil(d.kernel.secs, spc) <= t
      /\ 3 + Ceil(d.kernel.secs, spc) <= a /\ 3 + Ceil(d.kernel.secs, spc) <= g
  BY <1>1, <1>3
<1> HIDE DEF t
<1> QED BY <1>1, <1>2, <1>3, <1>4, <1>5, KeepFile

LEMMA KeepFiles ==
  ASSUME NEW d, NEW e, NEW a, NEW b, NEW g, NEW h, Queues(d, e, a, b, g, h),
         NEW m \in 0..Len(BinFiles(e)),
         FileAt(d, e, spc, m + 1) <= a \/ b <= BinAt(d, spc) + 1,
         FileAt(d, e, spc, m + 1) <= g \/ h = g,
         FilesThere(hdd, <<>>, spc, fatSecs, d, e, m)
  PROVE  FilesThere(hdd, todo', spc, fatSecs, d, e, m)
<1> DEFINE t == Top(d, e, spc)
           q == Len(BinFiles(e))
           F(i) == FileAt(d, e, spc, i)
           c(i) == Ceil(BinFiles(e)[i].secs, spc)
<1>1. /\ Laid(t) /\ d \in KernelDisks /\ spc \in Nat \ {0} /\ a \in Nat /\ a <= t
      /\ b \in Nat /\ g \in Nat /\ h \in Nat /\ t \in Nat
  BY QueuesIs
<1>2. /\ Confined(todo', t, a, b, g, h) /\ Installable /\ e \in ProgramDisks
  BY DEF Queues
<1>3. /\ q \in Nat /\ \A i \in 1..q : BinFiles(e)[i].secs \in Nat
      /\ \A i \in 1..q + 1 : F(i) \in Nat /\ F(i) > BinAt(d, spc)
      /\ F(q + 1) = UsersAt(d, e, spc) /\ BinAt(d, spc) \in Nat /\ BinAt(d, spc) >= 4
      /\ \A i \in 1..q : c(i) \in Nat
      /\ t = UsersAt(d, e, spc) + 3 + MaxUsers /\ MaxUsers \in Nat
  BY <1>1, <1>2, FilesOrder, BinFilesAre, Sizes
<1>4. \A i, j \in 1..q + 1 : /\ i <= j => F(i) <= F(j)
                             /\ i < j => F(i) + c(i) <= F(j)
  BY <1>1, <1>2, FilesRise
<1> SUFFICES ASSUME NEW i \in 1..m
             PROVE  FileThere(hdd, todo', spc, fatSecs, e, BinFiles(e)[i], F(i))
  BY DEF FilesThere
<1>5. FileThere(hdd, <<>>, spc, fatSecs, e, BinFiles(e)[i], F(i))
  BY DEF FilesThere
<1>6. FileAt(d, e, spc, m + 1) = F(m + 1)
  OBVIOUS
<1> HIDE DEF t, q, F, c
<1>7. i \in 1..q /\ i \in 1..q + 1 /\ m + 1 \in 1..q + 1 /\ q + 1 \in 1..q + 1
      /\ i < m + 1 /\ i < q + 1
  BY <1>3 DEF q
<1>8. /\ F(i) + c(i) <= F(m + 1) /\ F(i) + c(i) <= F(q + 1)
      /\ F(i) \in Nat /\ c(i) \in Nat /\ F(i) > BinAt(d, spc) /\ F(m + 1) \in Nat
      /\ F(q + 1) \in Nat
  BY <1>3, <1>4, <1>7
<1>9. /\ F(i) \in 3..t /\ F(i) + c(i) <= t
      /\ F(i) + c(i) <= a \/ b <= F(i)
      /\ F(i) + c(i) <= g \/ h <= g
  <2> DEFINE x == F(i)
             y == c(i)
             z == F(m + 1)
             u == F(q + 1)
             v == BinAt(d, spc)
  <2>0. /\ x + y <= z /\ x + y <= u /\ x \in Nat /\ y \in Nat /\ z \in Nat /\ u \in Nat
        /\ x > v /\ v \in Nat /\ v >= 4 /\ t \in Nat /\ MaxUsers \in Nat
        /\ t = u + 3 + MaxUsers /\ a \in Nat /\ b \in Nat
    BY <1>1, <1>3, <1>8
  <2> HIDE DEF x, y, z, u, v
  <2>1. F(i) \in 3..t /\ F(i) + c(i) <= t
    BY <2>0 DEF x, y
  <2>2. F(i) + c(i) <= a \/ b <= F(i)
    <3>1. z <= a \/ b <= v + 1
      BY <1>6 DEF z, v
    <3> QED BY <2>0, <3>1 DEF x, y
  <2>3. F(i) + c(i) <= g \/ h <= g
    <3>1. F(m + 1) <= g \/ h = g
      BY <1>6
    <3> QED BY <3>1, <1>1, <1>8
  <2> QED BY <2>1, <2>2, <2>3
<1>10. BinFiles(e)[i].secs \in Nat
  BY <1>3, <1>7
<1>11. CASE F(i) + c(i) <= g
  BY <1>1, <1>2, <1>5, <1>9, <1>10, <1>11, KeepFile DEF c
<1>12. CASE h <= g
  <2>1. \A x \in 3..t - 1 : x \notin g..h - 1
    BY <1>1, <1>12
  <2>2. Confined(todo', t, a, b, t, t)
    <3>1. Within(todo', S(a), S(b), t, t)
      <4>1. \A x \in g..h - 1 : FALSE
        BY <1>1, <1>12
      <4> QED BY <1>2, <4>1 DEF Confined, Within
    <3>2. t \in 3..t /\ t \in t..t
      BY <1>1, LaidIs
    <3> QED BY <1>2, <3>1, <3>2 DEF Confined
  <2>3. F(i) + c(i) <= t
    BY <1>9
  <2> QED BY <1>1, <1>5, <1>9, <1>10, <2>2, <2>3, KeepFile DEF c
<1> QED BY <1>9, <1>11, <1>12

LEMMA AppendFile ==
  ASSUME NEW d, NEW e, NEW k, NEW m \in Nat
  PROVE  Append(FilesAt(d, e, k, m),
                FirstOf(FileAt(d, e, k, m + 1), Ceil(BinFiles(e)[m + 1].secs, k)))
           = FilesAt(d, e, k, m + 1)
<1> DEFINE G(i) == FirstOf(FileAt(d, e, k, i), Ceil(BinFiles(e)[i].secs, k))
           U == {G(i) : i \in 1..m + 1}
           A == [i \in 1..m |-> G(i)]
           B == [i \in 1..m + 1 |-> G(i)]
<1>1. FilesAt(d, e, k, m) = A /\ FilesAt(d, e, k, m + 1) = B
  BY DEF FilesAt
<1>2. A \in Seq(U) /\ Len(A) = m /\ \A i \in 1..m : A[i] = G(i)
  <2>1. \A i \in 1..m : G(i) \in U
    <3>1. \A i \in 1..m : i \in 1..m + 1
      OBVIOUS
    <3> QED BY <3>1
  <2> HIDE DEF G, U
  <2> QED BY <2>1
<1>3. B \in Seq(U) /\ Len(B) = m + 1 /\ \A i \in 1..m + 1 : B[i] = G(i)
  <2>1. \A i \in 1..m + 1 : G(i) \in U
    OBVIOUS
  <2> HIDE DEF G, U
  <2> QED BY <2>1
<1>4. G(m + 1) \in U
  OBVIOUS
<1> HIDE DEF A, B, G, U
<1> DEFINE C == Append(A, G(m + 1))
<1>5. /\ C \in Seq(U) /\ Len(C) = m + 1 /\ C[m + 1] = G(m + 1)
      /\ \A i \in 1..m : C[i] = A[i]
  BY <1>2, <1>4, AppendProperties
<1> HIDE DEF C
<1>6. \A i \in 1..m + 1 : C[i] = B[i]
  <2>1. \A i \in 1..m + 1 : i \in 1..m \/ i = m + 1
    OBVIOUS
  <2> QED BY <2>1, <1>2, <1>3, <1>5
<1>7. C = B
  BY <1>3, <1>5, <1>6, SeqEqual
<1> QED BY <1>1, <1>7 DEF C, G

LEMMA CountFiles ==
  ASSUME NEW d, NEW e, NEW k, NEW m \in Nat
  PROVE  Len(FilesAt(d, e, k, m)) = m
<1> DEFINE A == FilesAt(d, e, k, m)
<1>1. A = [i \in 1..m |-> A[i]]
  BY DEF FilesAt
<1> HIDE DEF A
<1>2. Len(A) = m
  BY <1>1, TableSeq
<1> QED BY <1>2 DEF A

\* One more file of BIN.
LEMMA CopyBinFileIInv ==
  ASSUME Installable, IInv, CopyBinFile
  PROVE  IInv'
<1> DEFINE e == floppy
           m == Len(at.files)
           f == BinFiles(e)[m + 1]
           n == ClustersOf(f.secs)
           c == FirstOf(next, n)
<1>1. /\ pc = "bin_files" /\ todo = <<>> /\ pc' = "bin_files"
      /\ todo' = AllocChain(next, n) \o CopyFile(e, f, c)
      /\ UNCHANGED <<hdd, size, floppy, users, rootpw, spc, fatSecs>>
      /\ next' = next + n /\ at' = [at EXCEPT !.files = Append(@, c)]
      /\ m < Len(BinFiles(e))
  BY DEF CopyBinFile, Queue, At
<1>2. P = 19 /\ P' = 19 /\ pc' \in DOMAIN Place
  BY <1>1, PlaceIs, PlaceDomain DEF P
<1>3. PICK d : Running(d)
  BY <1>1, LatePlace
<1>4. TypeInv /\ P > 8
  BY <1>1, LatePlace
<1> DEFINE t == Top(d, e, spc)
           x == FileAt(d, e, spc, m + 1)
           F == FilesAt(d, e, spc, m)
<1>5. /\ d \in KernelDisks /\ e \in ProgramDisks /\ spc \in Nat \ {0}
      /\ m \in 0..Len(BinFiles(e)) /\ at = BinPlan(d, spc, F) /\ next = x
  BY <1>2, <1>3, <1>4, SettledNow DEF TypeInv, Running, PlanInv
<1>6. Laid(t) /\ t \in Nat
  BY <1>4, <1>5, LaidNow, LaidIs
<1>7. Len(BinFiles(e)) \in Nat /\ m \in Nat /\ m + 1 \in 1..Len(BinFiles(e))
      /\ (m + 1) + 1 \in 1..Len(BinFiles(e)) + 1
  <2>1. Len(BinFiles(e)) \in Nat
    BY <1>5, BinFilesAre
  <2> QED BY <2>1, <1>1, <1>5
<1>8. /\ f.secs \in Nat /\ n = Ceil(f.secs, spc) /\ n \in Nat
      /\ x \in Nat /\ x > BinAt(d, spc)
      /\ FileAt(d, e, spc, (m + 1) + 1) = x + n
      /\ BinAt(d, spc) \in Nat /\ BinAt(d, spc) >= 4
  <2>1. f.secs \in Nat
    BY <1>5, <1>7, BinFilesAre
  <2>2. m + 1 \in 1..Len(BinFiles(e)) + 1
    BY <1>7
  <2>3. /\ x \in Nat /\ x > BinAt(d, spc) /\ Ceil(f.secs, spc) \in Nat
        /\ FileAt(d, e, spc, (m + 1) + 1) = x + Ceil(f.secs, spc)
        /\ BinAt(d, spc) \in Nat /\ BinAt(d, spc) >= 4
    <3> HIDE DEF m
    <3> QED BY <1>5, <1>7, <2>2, FilesOrder
  <2> QED BY <2>1, <2>3 DEF ClustersOf
<1>9. x + n <= t
  <2>1. /\ FileAt(d, e, spc, Len(BinFiles(e)) + 1) = UsersAt(d, e, spc)
        /\ UsersAt(d, e, spc) \in Nat
        /\ t = UsersAt(d, e, spc) + 3 + MaxUsers /\ MaxUsers \in Nat
    BY <1>5, FilesOrder, Sizes
  <2>2. (m + 1) + 1 <= Len(BinFiles(e)) + 1
        /\ Len(BinFiles(e)) + 1 \in 1..Len(BinFiles(e)) + 1
    BY <1>7
  <2>3. FileAt(d, e, spc, (m + 1) + 1) <= FileAt(d, e, spc, Len(BinFiles(e)) + 1)
    <3> HIDE DEF m
    <3> QED BY <1>5, <1>7, <2>2, FilesRise
  <2> QED BY <1>6, <1>8, <2>1, <2>3
<1>10. /\ IsSeq(todo') /\ Confined(todo', t, x, x + n, x, x + n)
       /\ ~InSeq(todo', Fail) => FileThere(hdd, todo', spc, fatSecs, e, f, x)
  <2>1. x \in 3..t /\ x + Ceil(f.secs, spc) <= t
    BY <1>6, <1>8, <1>9
  <2>2. todo' = AllocChain(x, Ceil(f.secs, spc))
                  \o CopyFile(e, f, FirstOf(x, Ceil(f.secs, spc)))
    BY <1>1, <1>5, <1>8
  <2> HIDE DEF t, f, x
  <2> QED BY <1>6, <1>8, <2>1, <2>2, CopyThere
<1>11. Queues(d, e, x, x + n, x, x + n)
  <2>1. P \in 15..22 /\ P' \in 16..22 /\ x >= 3 /\ P' > 17 /\ P' > 18 /\ P' # 16
    BY <1>2, <1>8
  <2> HIDE DEF x, n
  <2> QED BY <1>1, <1>2, <1>3, <1>5, <1>10, <2>1 DEF Queues
<1>12. at' = BinPlan(d, spc, FilesAt(d, e, spc, m + 1))
  <2>1. Append(F, c) = FilesAt(d, e, spc, m + 1)
    <3> HIDE DEF m
    <3> QED BY <1>5, <1>7, <1>8, AppendFile
  <2>2. at' = BinPlan(d, spc, Append(F, c))
    <3> HIDE DEF F, c
    <3> QED BY <1>1, <1>5 DEF BinPlan
  <2> QED BY <2>1, <2>2
<1>13. at'.files = FilesAt(d, e, spc, m + 1) /\ at'.bin = BinAt(d, spc)
       /\ Len(at'.files) = m + 1
  <2>1. at'.files = FilesAt(d, e, spc, m + 1) /\ at'.bin = BinAt(d, spc)
    BY <1>12 DEF BinPlan
  <2>2. Len(FilesAt(d, e, spc, m + 1)) = m + 1
    <3> HIDE DEF m
    <3> QED BY <1>7, CountFiles
  <2> QED BY <2>1, <2>2
<1>14. at.bin = BinAt(d, spc)
  BY <1>5 DEF BinPlan
<1>15. PlanInv(d)'
  <2>1. next' = FileAt(d, e, spc, Len(at'.files) + 1)
    BY <1>1, <1>5, <1>8, <1>13
  <2>2. Len(at'.files) \in 0..Len(BinFiles(e))
    BY <1>7, <1>13
  <2>3. ~(P' \in 8..16) /\ ~(P' \in 16..18) /\ P' # 20 /\ ~(P' > 20)
    BY <1>2
  <2>4. at' = BinPlan(d, spc, FilesAt(d, e, spc, Len(at'.files)))
    BY <1>12, <1>13
  <2> HIDE DEF m
  <2> QED BY <1>1, <1>2, <2>1, <2>2, <2>3, <2>4 DEF PlanInv
<1>16. ASSUME ~InSeq(todo', Fail)
       PROVE  /\ FileThere(hdd, todo', spc, fatSecs, d, d.kernel, 3)
              /\ WillLink(hdd, todo', fatSecs, at'.bin, Eoc)
              /\ FilesThere(hdd, todo', spc, fatSecs, d, e, m + 1)
  <2>0. P > 15 /\ BinAt(d, spc) <= x
    BY <1>2, <1>8
  <2>1. FileThere(hdd, todo', spc, fatSecs, d, d.kernel, 3)
    <3> HIDE DEF x, n
    <3> QED BY <1>11, <1>16, <2>0, KeepKernel
  <2>2. /\ WillLink(hdd, <<>>, fatSecs, BinAt(d, spc), Eoc)
        /\ FilesThere(hdd, <<>>, spc, fatSecs, d, e, m)
    BY <1>1, <1>2, <1>3, <1>14, EmptyHas DEF Running, FileFacts
  <2>3. WillLink(hdd, todo', fatSecs, BinAt(d, spc), Eoc)
    <3>1. BinAt(d, spc) \in 3..t - 1 /\ BinAt(d, spc) \notin x..(x + n) - 1
      BY <1>6, <1>8, <1>9
    <3> HIDE DEF t, x, n
    <3> QED BY <1>6, <1>10, <2>2, <3>1, KeepChain
  <2>4. FilesThere(hdd, todo', spc, fatSecs, d, e, m)
    <3>1. FileAt(d, e, spc, m + 1) <= x
      BY <1>8
    <3> HIDE DEF x, n, m
    <3> QED BY <1>5, <1>11, <2>2, <3>1, KeepFiles
  <2>5. FilesThere(hdd, todo', spc, fatSecs, d, e, m + 1)
    <3>1. \A i \in 1..m + 1 : i \in 1..m \/ i = m + 1
      BY <1>7
    <3>2. FileThere(hdd, todo', spc, fatSecs, e, BinFiles(e)[m + 1], FileAt(d, e, spc, m + 1))
      BY <1>10, <1>16
    <3> HIDE DEF m
    <3> QED BY <2>4, <3>1, <3>2 DEF FilesThere
  <2> QED BY <1>13, <2>1, <2>3, <2>5
<1>17. FileFacts(d)'
  <2>1. ~(P' > 19) /\ ~(P' > 20) /\ ~(P' > 21) /\ ~(P' > 22)
    BY <1>2
  <2>2. Len(at'.files) = m + 1
    BY <1>13
  <2> HIDE DEF m, f, n, c, x, F, t
  <2> QED BY <1>1, <1>2, <1>16, <2>1, <2>2 DEF FileFacts
<1> QED BY <1>2, <1>11, <1>15, <1>17, QueuesIInv
-----------------------------------------------------------------------------
\* Writes of whole clusters are confined to them and link nothing.
LEMMA FreshConfined ==
  ASSUME NEW t, Laid(t), NEW T, NEW a \in 2..t, NEW b \in a..t, Fresh(T, a, b)
  PROVE  Confined(T, t, a, b, 3, 3)
<1>1. 3 \in 3..t /\ 3 \in 3..3
  BY LaidIs
<1> QED BY <1>1 DEF Fresh, Confined

\* No cluster is linked: every chain stays.
LEMMA KeepLinks ==
  ASSUME NEW t, Laid(t), NEW T, NEW a, NEW b, Confined(T, t, a, b, 3, 3),
         NEW c \in 3..t - 1, NEW D, NEW v, WillLink(D, <<>>, fatSecs, c, v)
  PROVE  WillLink(D, T, fatSecs, c, v)
<1>1. c \notin 3..3 - 1
  OBVIOUS
<1> QED BY <1>1, KeepChain

\* BIN itself, its clusters and those of its files, in numbers.
LEMMA BinNums ==
  ASSUME Installable, TypeInv, P > 8, NEW d \in KernelDisks, NEW e \in ProgramDisks
  PROVE  /\ Laid(Top(d, e, spc)) /\ Top(d, e, spc) \in Nat
         /\ BinAt(d, spc) \in Nat /\ BinAt(d, spc) >= 4
         /\ UsersAt(d, e, spc) \in Nat /\ UsersAt(d, e, spc) > BinAt(d, spc)
         /\ Top(d, e, spc) = UsersAt(d, e, spc) + 3 + MaxUsers /\ MaxUsers \in Nat
         /\ FileAt(d, e, spc, Len(BinFiles(e)) + 1) = UsersAt(d, e, spc)
         /\ Len(BinFiles(e)) \in Nat /\ spc \in Nat \ {0}
<1>1. spc \in Nat \ {0}
  BY SettledNow
<1> QED BY <1>1, LaidNow, LaidIs, FilesOrder, BinFilesAre, Sizes

\* The directory BIN.
LEMMA WriteBinDirIInv ==
  ASSUME Installable, IInv, WriteBinDir
  PROVE  IInv'
<1> DEFINE e == floppy
           m == Len(BinFiles(e))
           X == [i \in 1..spc |-> DirSector(SectorOf(BinSlots(e, at), i))]
<1>1. /\ pc = "bin_files" /\ todo = <<>> /\ pc' = "accounts"
      /\ todo' = [i \in 1..spc |-> Write(ClusterLba(at.bin) + i - 1,
                                         DirSector(SectorOf(BinSlots(e, at), i)))]
      /\ UNCHANGED <<hdd, size, floppy, users, rootpw, spc, fatSecs, next, at>>
      /\ Len(at.files) = m
  BY DEF WriteBinDir, Queue, At
<1>2. P = 19 /\ P' = 20 /\ pc' \in DOMAIN Place
  BY <1>1, PlaceIs, PlaceDomain DEF P
<1>3. PICK d : Running(d)
  BY <1>1, LatePlace
<1>4. TypeInv /\ P > 8
  BY <1>1, LatePlace
<1> DEFINE t == Top(d, e, spc)
           b == BinAt(d, spc)
<1>5. /\ d \in KernelDisks /\ e \in ProgramDisks
      /\ at = BinPlan(d, spc, FilesAt(d, e, spc, m))
      /\ next = FileAt(d, e, spc, m + 1)
  BY <1>1, <1>2, <1>3, <1>4 DEF TypeInv, Running, PlanInv
<1>6. /\ Laid(t) /\ t \in Nat /\ b \in Nat /\ b >= 4 /\ UsersAt(d, e, spc) \in Nat
      /\ UsersAt(d, e, spc) > b /\ t = UsersAt(d, e, spc) + 3 + MaxUsers
      /\ MaxUsers \in Nat /\ next = UsersAt(d, e, spc) /\ m \in Nat
  BY <1>4, <1>5, BinNums
<1>7. at.bin = b
  BY <1>5 DEF BinPlan
<1>8. /\ Fresh(todo', b, b + 1)
      /\ \A i \in 1..spc : Gives(todo', fatSecs, S(b) + i - 1, X[i])
  <2>1. \A i \in 1..spc : X[i] = DirSector(SectorOf(BinSlots(e, at), i))
    OBVIOUS
  <2> HIDE DEF X, b, t
  <2>2. todo' = [i \in 1..spc |-> Write(ClusterLba(b) + i - 1, X[i])]
    BY <1>1, <1>7, <2>1
  <2>3. b \in Int
    BY <1>6
  <2> QED BY <1>6, <2>2, <2>3, SectorsGiven
<1>9. Confined(todo', t, b, b + 1, 3, 3) /\ IsSeq(todo')
  <2>1. b \in 2..t /\ b + 1 \in b..t
    BY <1>6
  <2> HIDE DEF b, t
  <2> QED BY <1>6, <1>8, <2>1, FreshConfined DEF Fresh
<1>10. Queues(d, e, b, b + 1, 3, 3)
  <2>1. P \in 15..22 /\ P' \in 16..22 /\ b >= 3 /\ P' > 17 /\ P' > 18 /\ P' # 16
    BY <1>2, <1>6
  <2> HIDE DEF b
  <2> QED BY <1>1, <1>2, <1>3, <1>5, <1>9, <2>1 DEF Queues
<1>11. PlanInv(d)'
  <2>1. ~(P' \in 8..16) /\ ~(P' \in 16..18) /\ P' # 19 /\ ~(P' > 20)
    BY <1>2
  <2> QED BY <1>1, <1>2, <1>5, <1>6, <2>1 DEF PlanInv
<1>12. FileThere(hdd, todo', spc, fatSecs, d, d.kernel, 3)
  <2>1. FileThere(hdd, <<>>, spc, fatSecs, d, d.kernel, 3)
    BY <1>1, <1>2, <1>3, EmptyHas DEF Running, FileFacts
  <2>2. d.kernel.secs \in Nat /\ b = 3 + Ceil(d.kernel.secs, spc)
    BY <1>5, FilesOrder, SettledNow, <1>4 DEF BinAt
  <2>3. Confined(todo', t, b, b + 1, t, t)
    <3>1. Within(todo', S(b), S(b + 1), t, t)
      <4>1. \A x \in 3..3 - 1 : FALSE
        OBVIOUS
      <4> QED BY <1>9, <4>1 DEF Confined, Within
    <3>2. t \in 3..t /\ t \in t..t
      BY <1>6
    <3> QED BY <1>9, <3>1, <3>2 DEF Confined
  <2>4. 3 \in 3..t /\ 3 + Ceil(d.kernel.secs, spc) <= t
        /\ 3 + Ceil(d.kernel.secs, spc) <= b
    BY <1>6, <2>2
  <2> HIDE DEF b, t
  <2> QED BY <1>6, <2>1, <2>2, <2>3, <2>4, KeepFile
<1>13. WillLink(hdd, todo', fatSecs, at'.bin, Eoc)
  <2>1. WillLink(hdd, <<>>, fatSecs, b, Eoc)
    BY <1>1, <1>2, <1>3, <1>7, EmptyHas DEF Running, FileFacts
  <2>2. b \in 3..t - 1 /\ at'.bin = b
    BY <1>1, <1>6, <1>7
  <2> HIDE DEF b, t
  <2> QED BY <1>6, <1>9, <2>1, <2>2, KeepLinks
<1>14. FilesThere(hdd, todo', spc, fatSecs, d, e, m)
  <2>1. FilesThere(hdd, <<>>, spc, fatSecs, d, e, m)
    BY <1>1, <1>2, <1>3, EmptyHas DEF Running, FileFacts
  <2>2. m \in 0..Len(BinFiles(e)) /\ b + 1 <= BinAt(d, spc) + 1
    BY <1>6
  <2> HIDE DEF b, m, e
  <2> QED BY <1>10, <2>1, <2>2, KeepFiles
<1>15. BinThere(hdd, todo', spc, fatSecs, e, at)
  <2> SUFFICES ASSUME NEW i \in 1..spc
               PROVE  WillBe(hdd, todo', fatSecs, Start(spc, fatSecs, at.bin) + i - 1,
                             DirSector(SectorOf(BinSlots(e, at), i)))
    BY DEF BinThere
  <2>1. Gives(todo', fatSecs, S(b) + i - 1, X[i])
    BY <1>8
  <2>2. X[i] = DirSector(SectorOf(BinSlots(e, at), i))
    OBVIOUS
  <2> HIDE DEF X, b
  <2> QED BY <1>7, <2>1, <2>2, GivesWill DEF S
<1>16. FileFacts(d)'
  <2>1. ~(P' > 20) /\ ~(P' > 21) /\ ~(P' > 22)
    BY <1>2
  <2>2. Len(at'.files) = m
    BY <1>1
  <2> HIDE DEF m, X, b, t
  <2> QED BY <1>1, <1>2, <1>12, <1>13, <1>14, <1>15, <2>1, <2>2 DEF FileFacts
<1> QED BY <1>2, <1>10, <1>11, <1>16, QueuesIInv

\* The listing of BIN is in the table of BIN and of its files alone.
LEMMA SameBin ==
  ASSUME NEW D, NEW T, NEW k, NEW n, NEW e, NEW a, NEW c, a.bin = c.bin, a.files = c.files,
         BinThere(D, T, k, n, e, a)
  PROVE  BinThere(D, T, k, n, e, c)
<1>1. BinSlots(e, a) = BinSlots(e, c)
  BY DEF BinSlots
<1> QED BY <1>1 DEF BinThere

\* Sectors of BIN, when others are written.
LEMMA KeepBin ==
  ASSUME NEW t, Laid(t), NEW T, NEW a, NEW b, NEW g, NEW h, Confined(T, t, a, b, g, h),
         NEW e, NEW p, p.bin \in 2..t - 1, p.bin < a \/ b <= p.bin,
         NEW D, BinThere(D, <<>>, spc, fatSecs, e, p)
  PROVE  BinThere(D, T, spc, fatSecs, e, p)
<1> DEFINE c == p.bin
<1>1. c \in 2..t /\ c + 1 \in c..t /\ t \in Nat /\ c \in Int
      /\ (c + 1 <= a \/ b <= c)
  <2>1. a \in 2..t /\ b \in a..t /\ t \in Nat
    BY LaidIs DEF Confined
  <2> HIDE DEF c
  <2> QED BY <2>1 DEF c
<1>2. Apart(t, a, b, c, c + 1)
  BY <1>1 DEF Apart
<1>3. \A i \in 1..spc : S(c) + i - 1 \in S(c)..S(c + 1) - 1
  BY <1>1, OneCluster
<1> HIDE DEF c
<1> SUFFICES ASSUME NEW i \in 1..spc
             PROVE  WillBe(D, T, fatSecs, S(c) + i - 1,
                           DirSector(SectorOf(BinSlots(e, p), i)))
  BY DEF BinThere, S, c
<1>4. WillBe(D, <<>>, fatSecs, S(c) + i - 1, DirSector(SectorOf(BinSlots(e, p), i)))
  BY DEF BinThere, S, c
<1> QED BY <1>2, <1>3, <1>4, KeepData
-----------------------------------------------------------------------------
\* What is there of the system from BIN on, in one.
BinFacts(D, T, d, e, a) ==
  /\ FileThere(D, T, spc, fatSecs, d, d.kernel, 3)
  /\ WillLink(D, T, fatSecs, a.bin, Eoc)
  /\ FilesThere(D, T, spc, fatSecs, d, e, Len(BinFiles(e)))
  /\ BinThere(D, T, spc, fatSecs, e, a)

LEMMA KeepBinFacts ==
  ASSUME NEW d, NEW a, NEW b, NEW g, NEW h, Queues(d, floppy, a, b, g, h),
         P > 19, UsersAt(d, floppy, spc) <= a \/ b <= 3, UsersAt(d, floppy, spc) <= g \/ h = g,
         at.bin = BinAt(d, spc), Len(at.files) = Len(BinFiles(floppy)),
         ~InSeq(todo', Fail)
  PROVE  BinFacts(hdd, todo', d, floppy, at)
<1> DEFINE e == floppy
           t == Top(d, e, spc)
           m == Len(BinFiles(e))
           u == UsersAt(d, e, spc)
           c == BinAt(d, spc)
<1>1. /\ Laid(t) /\ d \in KernelDisks /\ spc \in Nat \ {0} /\ TypeInv /\ P > 8
      /\ a \in Nat /\ b \in Nat /\ g \in Nat /\ h \in Nat /\ a <= b /\ g <= h /\ g >= 3
      /\ b <= t /\ h <= t
  BY QueuesIs
<1>2. /\ Confined(todo', t, a, b, g, h) /\ Installable /\ e \in ProgramDisks
      /\ Running(d) /\ todo = <<>> /\ P \in 15..22
  BY DEF Queues
<1>3. /\ t \in Nat /\ c \in Nat /\ c >= 4 /\ u \in Nat /\ u > c
      /\ t = u + 3 + MaxUsers /\ MaxUsers \in Nat
      /\ FileAt(d, e, spc, m + 1) = u /\ m \in Nat
  BY <1>1, <1>2, BinNums
<1>4. /\ FileThere(hdd, <<>>, spc, fatSecs, d, d.kernel, 3)
      /\ WillLink(hdd, <<>>, fatSecs, c, Eoc)
      /\ FilesThere(hdd, <<>>, spc, fatSecs, d, e, m)
      /\ BinThere(hdd, <<>>, spc, fatSecs, e, at)
  <2>1. P > 15 /\ P > 18
    BY <1>2
  <2> QED BY <1>2, <2>1, EmptyHas DEF Running, FileFacts
\* where nothing is linked, the range of the links may as well be past t
<1>5. PICK x, y : /\ Confined(todo', t, a, b, x, y)
                  /\ x \in Nat /\ y \in Nat /\ c < x /\ u <= x
  <2>1. CASE u <= g
    <3> HIDE DEF t, u, c
    <3>1. g \in Nat /\ h \in Nat /\ c < g /\ u <= g
      BY <1>1, <1>3, <2>1
    <3>2. Confined(todo', t, a, b, g, h)
      BY <1>2
    <3> QED BY <3>1, <3>2
  <2>2. CASE h = g
    <3>1. Within(todo', S(a), S(b), t, t)
      <4>1. \A z \in g..h - 1 : FALSE
        BY <1>1, <2>2
      <4> QED BY <1>2, <4>1 DEF Confined, Within
    <3>2. Confined(todo', t, a, b, t, t)
      <4>1. t \in 3..t /\ t \in t..t
        BY <1>3
      <4> QED BY <1>2, <3>1, <4>1 DEF Confined
    <3>3. c < t /\ u <= t
      BY <1>3
    <3> QED BY <1>3, <3>2, <3>3
  <2> QED BY <2>1, <2>2
<1>6. FileThere(hdd, todo', spc, fatSecs, d, d.kernel, 3)
  <2>1. d.kernel.secs \in Nat /\ c = 3 + Ceil(d.kernel.secs, spc)
    BY <1>1, <1>2, FilesOrder DEF BinAt
  <2>2. c <= t /\ (c <= a \/ b <= 3) /\ c <= x /\ 3 \in 3..t
    <3>1. u <= a \/ b <= 3
      OBVIOUS
    <3> HIDE DEF c, u, t
    <3> QED BY <1>1, <1>3, <1>5, <3>1
  <2>3. /\ 3 + Ceil(d.kernel.secs, spc) <= t
        /\ (3 + Ceil(d.kernel.secs, spc) <= a \/ b <= 3) /\ 3 + Ceil(d.kernel.secs, spc) <= x
    <3> HIDE DEF c, u, t
    <3> QED BY <2>1, <2>2
  <2> HIDE DEF t, c
  <2> QED BY <1>1, <1>4, <1>5, <2>1, <2>2, <2>3, KeepFile
<1>7. WillLink(hdd, todo', fatSecs, c, Eoc)
  <2>1. c \in 3..t - 1 /\ c \notin x..y - 1
    BY <1>3, <1>5
  <2> HIDE DEF t, c
  <2> QED BY <1>1, <1>4, <1>5, <2>1, KeepChain
<1>8. FilesThere(hdd, todo', spc, fatSecs, d, e, m)
  <2>1. /\ m \in 0..Len(BinFiles(e)) /\ (FileAt(d, e, spc, m + 1) <= a \/ b <= BinAt(d, spc) + 1)
        /\ FileAt(d, e, spc, m + 1) <= g \/ h = g
    <3>1. (u <= a \/ b <= 3) /\ (u <= g \/ h = g)
      OBVIOUS
    <3>2. c = BinAt(d, spc) /\ m = Len(BinFiles(e))
      OBVIOUS
    <3> HIDE DEF t, u, c, m, e
    <3>3. b <= 3 => b <= c + 1
      BY <1>1, <1>3
    <3>4. m \in 0..Len(BinFiles(e))
      BY <1>3, <3>2
    <3> QED BY <1>3, <3>1, <3>2, <3>3, <3>4
  <2> HIDE DEF m, e
  <2> QED BY <1>4, <2>1, KeepFiles DEF e
<1>9. BinThere(hdd, todo', spc, fatSecs, e, at)
  <2>1. at.bin \in 2..t - 1 /\ (at.bin < a \/ b <= at.bin)
    <3>1. at.bin = c /\ (u <= a \/ b <= 3)
      OBVIOUS
    <3> HIDE DEF t, u, c
    <3> QED BY <1>1, <1>3, <3>1
  <2> HIDE DEF t
  <2> QED BY <1>1, <1>2, <1>4, <2>1, KeepBin
<1> QED BY <1>6, <1>7, <1>8, <1>9 DEF BinFacts

\* The clusters of the accounts.
LEMMA AllocUsersIInv ==
  ASSUME Installable, IInv, AllocUsers
  PROVE  IInv'
<1> DEFINE e == floppy
           m == Len(BinFiles(e))
           n == Len(users) + 3
           B == [i \in 1..n |-> AllocChain(next + i - 1, 1)]
           hs == [i \in 1..Len(users) |-> next + 2 + i]
<1>1. /\ pc = "accounts" /\ todo = <<>> /\ pc' = "users_data"
      /\ todo' = FlattenSeq(B)
      /\ UNCHANGED <<hdd, size, floppy, users, rootpw, spc, fatSecs>>
      /\ next' = next + n
      /\ at' = [at EXCEPT !.etc = next, !.home = next + 1, !.passwd = next + 2,
                          !.homes = hs]
  BY DEF AllocUsers, Queue, At
<1>2. P = 20 /\ P' = 21 /\ pc' \in DOMAIN Place
  BY <1>1, PlaceIs, PlaceDomain DEF P
<1>3. PICK d : Running(d)
  BY <1>1, LatePlace
<1>4. TypeInv /\ P > 8
  BY <1>1, LatePlace
<1> DEFINE t == Top(d, e, spc)
           u == UsersAt(d, e, spc)
<1>5. /\ d \in KernelDisks /\ e \in ProgramDisks /\ UsersOK(users)
      /\ at = BinPlan(d, spc, FilesAt(d, e, spc, m)) /\ next = u
  BY <1>2, <1>3, <1>4 DEF TypeInv, Running, PlanInv
<1>6. /\ Laid(t) /\ t \in Nat /\ BinAt(d, spc) \in Nat /\ BinAt(d, spc) >= 4 /\ u \in Nat
      /\ u > BinAt(d, spc) /\ t = u + 3 + MaxUsers /\ MaxUsers \in Nat /\ m \in Nat
  BY <1>4, <1>5, BinNums
<1>7. Len(users) \in Nat /\ Len(users) <= MaxUsers /\ n \in Nat
  BY <1>5, LenProperties DEF UsersOK
<1>8. /\ Confined(todo', t, u, u, u, u + n) /\ ~InSeq(todo', Fail) /\ IsSeq(todo')
      /\ \A c \in u..u + n - 1 : WillLink(hdd, todo', fatSecs, c, Eoc)
  <2>1. B = [i \in 1..n |-> AllocChain(u + i - 1, 1)]
    BY <1>5
  <2> HIDE DEF B, n, u
  <2>2. Ends(FlattenSeq(B), u, n)
    BY <1>6, <1>7, <2>1, AllocMany
  <2>3. u \in 3..t /\ u + n <= t
    BY <1>6, <1>7 DEF n
  <2> HIDE DEF t
  <2>4. /\ Confined(todo', t, u, u, u, u + n) /\ ~InSeq(todo', Fail)
        /\ \A c \in u..u + n - 1 : \A D : WillLink(D, todo', fatSecs, c, Eoc)
    BY <1>1, <1>6, <1>7, <2>2, <2>3, EndsThere
  <2> QED BY <1>1, <2>2, <2>4 DEF Ends
<1>9. Queues(d, e, u, u, u, u + n)
  <2>1. P \in 15..22 /\ P' \in 16..22 /\ u >= 3 /\ P' > 17 /\ P' > 18 /\ P' # 16
    BY <1>2, <1>6
  <2> HIDE DEF u, n
  <2> QED BY <1>1, <1>2, <1>3, <1>5, <1>8, <2>1 DEF Queues
<1>10. at' = FullPlan(d, e, spc, users)
  <2>1. hs = [i \in 1..Len(users) |-> u + 2 + i]
    BY <1>5
  <2> HIDE DEF hs
  <2>2. at' = [BinPlan(d, spc, FilesAt(d, e, spc, m)) EXCEPT
                 !.etc = u, !.home = u + 1, !.passwd = u + 2, !.homes = hs]
    BY <1>1, <1>5
  <2> QED BY <2>1, <2>2 DEF BinPlan, FullPlan
<1>11. /\ at.bin = BinAt(d, spc) /\ at.files = FilesAt(d, e, spc, m)
       /\ at'.bin = at.bin /\ at'.files = at.files /\ Len(at.files) = m
  <2>1. at.bin = BinAt(d, spc) /\ at.files = FilesAt(d, e, spc, m)
    BY <1>5 DEF BinPlan
  <2>2. at'.bin = BinAt(d, spc) /\ at'.files = FilesAt(d, e, spc, m)
    BY <1>10 DEF FullPlan
  <2> QED BY <1>6, <2>1, <2>2, CountFiles
<1>12. PlanInv(d)'
  <2>1. ~(P' \in 8..16) /\ ~(P' \in 16..18) /\ P' # 19 /\ P' # 20
    BY <1>2
  <2> QED BY <1>1, <1>2, <1>10, <2>1 DEF PlanInv
<1>13. BinFacts(hdd, todo', d, e, at)
  <2>1. P > 19 /\ u <= u
    BY <1>2, <1>6
  <2> HIDE DEF n
  <2> QED BY <1>8, <1>9, <1>11, <2>1, KeepBinFacts
<1>14. UserLinks(hdd, todo', fatSecs, users, at')
  <2>1. /\ at'.etc = u /\ at'.home = u + 1 /\ at'.passwd = u + 2
        /\ \A i \in 1..Len(users) : at'.homes[i] = u + 2 + i
    <3>1. spc \in Nat \ {0}
      BY <1>4, SettledNow
    <3> DEFINE p == FullPlan(d, e, spc, users)
    <3>2. /\ p.etc = u /\ p.home = u + 1 /\ p.passwd = u + 2
          /\ \A i \in 1..Len(users) : p.homes[i] = u + 2 + i
      <4>1. d \in KernelDisks /\ e \in ProgramDisks /\ UsersOK(users)
        BY <1>5
      <4> QED BY <4>1, <3>1, PlanIs
    <3> HIDE DEF p, u
    <3> QED BY <1>10, <3>2 DEF p
  <2>2. /\ u \in u..u + n - 1 /\ u + 1 \in u..u + n - 1 /\ u + 2 \in u..u + n - 1
        /\ \A i \in 1..Len(users) : u + 2 + i \in u..u + n - 1
    <3>1. u \in Nat /\ Len(users) \in Nat /\ n = Len(users) + 3
      BY <1>6, <1>7
    <3> HIDE DEF u, n
    <3> QED BY <3>1
  <2> HIDE DEF u, n
  <2> QED BY <1>8, <2>1, <2>2 DEF UserLinks
<1>15. FileFacts(d)'
  <2>1. ~(P' > 21) /\ ~(P' > 22)
    BY <1>2
  <2>2. BinThere(hdd, todo', spc, fatSecs, e, at')
    BY <1>11, <1>13, SameBin DEF BinFacts
  <2>3. Len(at'.files) = m
    BY <1>11
  <2>4. /\ FileThere(hdd, todo', spc, fatSecs, d, d.kernel, 3)
        /\ WillLink(hdd, todo', fatSecs, at'.bin, Eoc)
        /\ FilesThere(hdd, todo', spc, fatSecs, d, e, m)
    BY <1>11, <1>13 DEF BinFacts
  <2> HIDE DEF m, t, u, n
  <2> QED BY <1>1, <1>2, <1>14, <2>1, <2>2, <2>3, <2>4 DEF FileFacts
<1> QED BY <1>2, <1>9, <1>12, <1>15, QueuesIInv
-----------------------------------------------------------------------------
\* What write_passwd_cluster and the directories of the accounts queue.
LEMMA WriteUsersData ==
  ASSUME NEW t, Laid(t), UsersOK(users), NEW u \in Nat, u >= 4,
         u + 3 + MaxUsers <= t, MaxUsers \in Nat,
         at.etc = u, at.home = u + 1, at.passwd = u + 2,
         \A i \in 1..Len(users) : at.homes[i] = u + 2 + i,
         NEW T,
         T = WriteCluster(at.passwd, PasswdSector(Passwd(users, rootpw)))
               \o WriteHomes
               \o WriteCluster(at.home, DirSector(HomeSlots(users, at)))
               \o WriteCluster(at.etc, DirSector(EtcSlots(at)))
  PROVE  /\ Fresh(T, u, u + 3 + Len(users))
         /\ \A D : UserData(D, T, spc, fatSecs, users, rootpw, at)
<1> DEFINE n == Len(users)
           x == PasswdSector(Passwd(users, rootpw))
           y == DirSector(HomeSlots(users, at))
           z == DirSector(EtcSlots(at))
           X == [i \in 1..n |-> DirSector(Dots(at.homes[i], at.home))]
           B == [i \in 1..n |-> WriteCluster(at.homes[i], DirSector(Dots(at.homes[i], at.home)))]
           A1 == WriteCluster(u + 2, x)
           A2 == FlattenSeq(B)
           A3 == WriteCluster(u + 1, y)
           A4 == WriteCluster(u, z)
<1>1. n \in Nat /\ n <= MaxUsers
  BY LenProperties DEF UsersOK
<1>2. T = A1 \o A2 \o A3 \o A4
  BY DEF WriteHomes
<1>3. Fresh(A1, u + 2, u + 3) /\ ClusterGiven(A1, u + 2, x)
  <2>1. u + 2 \in Int /\ (u + 2) + 1 = u + 3
    OBVIOUS
  <2> HIDE DEF x
  <2>2. Fresh(A1, u + 2, (u + 2) + 1) /\ ClusterGiven(A1, u + 2, x)
    BY <2>1, ClusterWrite
  <2> QED BY <2>1, <2>2
<1>4. Fresh(A2, u + 3, u + 3 + n) /\ \A i \in 1..n : ClusterGiven(A2, u + 2 + i, X[i])
  <2>1. \A i \in 1..n : at.homes[i] = (u + 3) + i - 1 /\ u + 2 + i = (u + 3) + i - 1
    BY <1>1
  <2>2. \A i \in 1..n : X[i] = DirSector(Dots(at.homes[i], at.home))
    OBVIOUS
  <2> HIDE DEF X
  <2>3. B = [i \in 1..n |-> WriteCluster((u + 3) + i - 1, X[i])]
    <3> HIDE DEF n
    <3> QED BY <2>1, <2>2
  <2>4. u + 3 \in Int /\ (u + 3) + n = u + 3 + n
    BY <1>1
  <2> HIDE DEF B, n
  <2>5. Fresh(FlattenSeq(B), u + 3, (u + 3) + n)
        /\ \A i \in 1..n : ClusterGiven(FlattenSeq(B), (u + 3) + i - 1, X[i])
    BY <1>1, <2>3, <2>4, ClustersGiven
  <2> QED BY <2>1, <2>4, <2>5
<1>5. Fresh(A3, u + 1, u + 2) /\ ClusterGiven(A3, u + 1, y)
  <2>1. u + 1 \in Int /\ (u + 1) + 1 = u + 2
    OBVIOUS
  <2> HIDE DEF y
  <2>2. Fresh(A3, u + 1, (u + 1) + 1) /\ ClusterGiven(A3, u + 1, y)
    BY <2>1, ClusterWrite
  <2> QED BY <2>1, <2>2
<1>6. Fresh(A4, u, u + 1) /\ ClusterGiven(A4, u, z)
  <2>1. u \in Int
    OBVIOUS
  <2> HIDE DEF z
  <2> QED BY <2>1, ClusterWrite
<1> HIDE DEF A1, A2, A3, A4, x, y, z
<1> DEFINE B2 == A1 \o A2
           B3 == B2 \o A3
           B4 == B3 \o A4
           v == u + 3 + n
<1>7. /\ v \in Int /\ u \in Int /\ u + 1 \in Int /\ u + 2 \in Int /\ u + 3 \in Int
      /\ u + 3 <= v /\ \A i \in 1..n : u + 2 + i \in Int /\ u + 3 <= u + 2 + i
  BY <1>1
<1>8. Fresh(B2, u + 2, v)
  <2>1. u + 2 <= u + 2 /\ u + 2 <= u + 3 /\ v <= v
    BY <1>7
  <2>2. Fresh(A2, u + 3, v)
    <3>1. Fresh(A2, u + 3, u + 3 + n)
      BY <1>4
    <3> HIDE DEF n
    <3> QED BY <3>1
  <2> HIDE DEF n, v
  <2> QED BY <1>3, <1>7, <2>1, <2>2, FreshConcat
<1>9. ClusterGiven(B2, u + 2, x) /\ \A i \in 1..n : ClusterGiven(B2, u + 2 + i, X[i])
  <2>1. u + 2 < u + 3 /\ \A i \in 1..n : u + 3 <= u + 2 + i
    <3> HIDE DEF n, v
    <3> QED BY <1>7
  <2>2. Fresh(A2, u + 3, v)
    BY <1>4 DEF v
  <2> HIDE DEF n, v, X
  <2>3. /\ \A w, q : ClusterGiven(A1, w, q) /\ w \in Int /\ (w < u + 3 \/ v <= w)
              => ClusterGiven(B2, w, q)
        /\ \A w, q : ClusterGiven(A2, w, q) /\ w \in Int /\ (w < u + 2 \/ u + 3 <= w)
              => ClusterGiven(B2, w, q)
    BY <1>3, <1>7, <2>2, FreshConcat
  <2> HIDE DEF B2
  <2> QED BY <1>3, <1>4, <1>7, <2>1, <2>3
<1> HIDE DEF B2
<1>10. Fresh(B3, u + 1, v) /\ ClusterGiven(B3, u + 1, y)
       /\ \A w, q : ClusterGiven(B2, w, q) /\ w \in Int /\ u + 2 <= w => ClusterGiven(B3, w, q)
  <2>1. u + 1 <= u + 2 /\ u + 1 <= u + 1 /\ v <= v /\ u + 2 <= v /\ u + 1 < u + 2
    BY <1>7
  <2> HIDE DEF n, v
  <2> QED BY <1>5, <1>7, <1>8, <2>1, FreshConcat
<1> HIDE DEF B3
<1>11. Fresh(B4, u, v) /\ ClusterGiven(B4, u, z)
       /\ \A w, q : ClusterGiven(B3, w, q) /\ w \in Int /\ u + 1 <= w => ClusterGiven(B4, w, q)
  <2>1. u <= u + 1 /\ u <= u /\ v <= v /\ u + 1 <= v /\ u < u + 1
    BY <1>7
  <2> HIDE DEF n, v
  <2> QED BY <1>6, <1>7, <1>10, <2>1, FreshConcat
<1> HIDE DEF B4
<1>12. T = B4
  BY <1>2 DEF B4, B3, B2
<1>13. /\ ClusterGiven(T, u + 2, x) /\ ClusterGiven(T, u + 1, y) /\ ClusterGiven(T, u, z)
       /\ \A i \in 1..n : ClusterGiven(T, u + 2 + i, X[i])
  <2>1. u + 2 <= u + 2 /\ u + 1 <= u + 2 /\ u + 1 <= u + 1
        /\ \A i \in 1..n : u + 2 <= u + 2 + i /\ u + 1 <= u + 2 + i
    BY <1>7
  <2> HIDE DEF n, X
  <2> QED BY <1>7, <1>9, <1>10, <1>11, <1>12, <2>1
<1>14. \A D : UserData(D, T, spc, fatSecs, users, rootpw, at)
  <2> SUFFICES ASSUME NEW D PROVE UserData(D, T, spc, fatSecs, users, rootpw, at)
    OBVIOUS
  <2>1. /\ Cluster(D, T, spc, fatSecs, u + 2, x) /\ Cluster(D, T, spc, fatSecs, u + 1, y)
        /\ Cluster(D, T, spc, fatSecs, u, z)
    BY <1>13, GivenCluster
  <2>2. \A i \in 1..n : Cluster(D, T, spc, fatSecs, u + 2 + i, X[i])
    <3> HIDE DEF X, n
    <3> QED BY <1>13, GivenCluster
  <2>3. \A i \in 1..n : X[i] = DirSector(Dots(at.homes[i], at.home))
    OBVIOUS
  <2> HIDE DEF X
  <2> QED BY <2>1, <2>2, <2>3 DEF UserData, x, y, z
<1> QED BY <1>11, <1>12, <1>14 DEF v

LEMMA UsersNums ==
  ASSUME Installable, TypeInv, P > 20, NEW d, Running(d)
  PROVE  /\ Laid(Top(d, floppy, spc)) /\ d \in KernelDisks /\ floppy \in ProgramDisks
         /\ UsersOK(users) /\ Len(users) \in Nat /\ Len(users) <= MaxUsers
         /\ Top(d, floppy, spc) \in Nat
         /\ UsersAt(d, floppy, spc) \in Nat /\ UsersAt(d, floppy, spc) > BinAt(d, spc)
         /\ BinAt(d, spc) \in Nat /\ BinAt(d, spc) >= 4
         /\ Top(d, floppy, spc) = UsersAt(d, floppy, spc) + 3 + MaxUsers
         /\ MaxUsers \in Nat
         /\ at.bin = BinAt(d, spc) /\ Len(at.files) = Len(BinFiles(floppy))
         /\ at.etc = UsersAt(d, floppy, spc) /\ at.home = UsersAt(d, floppy, spc) + 1
         /\ at.passwd = UsersAt(d, floppy, spc) + 2
         /\ \A i \in 1..Len(users) : at.homes[i] = UsersAt(d, floppy, spc) + 2 + i
<1>1. P \in 0..24 /\ P > 8 /\ P > 18 /\ P > 19 /\ P \in 18..24
  BY PNat
<1>2. floppy \in ProgramDisks /\ UsersOK(users) /\ d \in KernelDisks /\ PlanInv(d)
  BY <1>1 DEF TypeInv, Running
<1>3. /\ Laid(Top(d, floppy, spc)) /\ Top(d, floppy, spc) \in Nat
      /\ UsersAt(d, floppy, spc) \in Nat /\ UsersAt(d, floppy, spc) > BinAt(d, spc)
      /\ BinAt(d, spc) \in Nat /\ BinAt(d, spc) >= 4
      /\ Top(d, floppy, spc) = UsersAt(d, floppy, spc) + 3 + MaxUsers
      /\ MaxUsers \in Nat
  BY <1>1, <1>2, BinNums
<1>4. /\ at.bin = BinAt(d, spc) /\ Len(at.files) = Len(BinFiles(floppy))
      /\ at.etc = UsersAt(d, floppy, spc) /\ at.home = UsersAt(d, floppy, spc) + 1
      /\ at.passwd = UsersAt(d, floppy, spc) + 2
      /\ \A i \in 1..Len(users) : at.homes[i] = UsersAt(d, floppy, spc) + 2 + i
  BY <1>1, <1>2, PlanNums
<1>5. Len(users) \in Nat /\ Len(users) <= MaxUsers
  BY <1>2, LenProperties DEF UsersOK
<1> QED BY <1>2, <1>3, <1>4, <1>5

\* The accounts are written.
LEMMA WriteUsersIInv ==
  ASSUME Installable, IInv, WriteUsers
  PROVE  IInv'
<1> DEFINE e == floppy
           T == WriteCluster(at.passwd, PasswdSector(Passwd(users, rootpw)))
                  \o WriteHomes
                  \o WriteCluster(at.home, DirSector(HomeSlots(users, at)))
                  \o WriteCluster(at.etc, DirSector(EtcSlots(at)))
<1>1. /\ pc = "users_data" /\ todo = <<>> /\ pc' = "root_dir" /\ todo' = T
      /\ UNCHANGED <<hdd, size, floppy, users, rootpw, spc, fatSecs, next, at>>
  BY DEF WriteUsers, Queue, At
<1>2. P = 21 /\ P' = 22 /\ pc' \in DOMAIN Place
  BY <1>1, PlaceIs, PlaceDomain DEF P
<1>3. PICK d : Running(d)
  BY <1>1, LatePlace
<1>4. TypeInv /\ P > 8 /\ P > 20
  BY <1>1, <1>2, LatePlace
<1> DEFINE t == Top(d, e, spc)
           u == UsersAt(d, e, spc)
           h == u + 3 + Len(users)
<1>5. /\ Laid(t) /\ d \in KernelDisks /\ e \in ProgramDisks
      /\ UsersOK(users) /\ Len(users) \in Nat /\ Len(users) <= MaxUsers
      /\ t \in Nat /\ u \in Nat /\ u > BinAt(d, spc)
      /\ BinAt(d, spc) \in Nat /\ BinAt(d, spc) >= 4
      /\ t = u + 3 + MaxUsers /\ MaxUsers \in Nat
      /\ at.bin = BinAt(d, spc) /\ Len(at.files) = Len(BinFiles(e))
      /\ at.etc = u /\ at.home = u + 1 /\ at.passwd = u + 2
      /\ \A i \in 1..Len(users) : at.homes[i] = u + 2 + i
  BY <1>3, <1>4, UsersNums
<1>6. Fresh(T, u, h) /\ \A D : UserData(D, T, spc, fatSecs, users, rootpw, at)
  <2>1. u >= 4 /\ u + 3 + MaxUsers <= t
    BY <1>5
  <2> HIDE DEF t, u
  <2>2. T = WriteCluster(at.passwd, PasswdSector(Passwd(users, rootpw)))
              \o WriteHomes
              \o WriteCluster(at.home, DirSector(HomeSlots(users, at)))
              \o WriteCluster(at.etc, DirSector(EtcSlots(at)))
    OBVIOUS
  <2> HIDE DEF T
  <2> QED BY <1>5, <2>1, <2>2, WriteUsersData
<1> HIDE DEF T
<1>7. Confined(todo', t, u, h, 3, 3) /\ IsSeq(todo') /\ ~InSeq(todo', Fail)
  <2>1. u \in 2..t /\ h \in u..t
    BY <1>5
  <2> HIDE DEF u, t, h
  <2> QED BY <1>1, <1>5, <1>6, <2>1, FreshConfined DEF Fresh
<1>8. Queues(d, e, u, h, 3, 3)
  <2>1. P \in 15..22 /\ P' \in 16..23 /\ u >= 3 /\ P' > 17 /\ P' > 18 /\ P' # 16
    BY <1>2, <1>5
  <2> HIDE DEF u, h
  <2> QED BY <1>1, <1>2, <1>3, <1>5, <1>7, <2>1 DEF Queues
<1>9. PlanInv(d)'
  <2>1. ~(P' \in 8..16) /\ ~(P' \in 16..18) /\ P' # 19 /\ P' # 20
    BY <1>2
  <2> QED BY <1>1, <1>2, <1>3, <1>4, <2>1 DEF PlanInv, Running
<1>10. BinFacts(hdd, todo', d, e, at)
  <2>1. P > 19 /\ u <= u
    BY <1>2, <1>5
  <2> HIDE DEF h
  <2> QED BY <1>5, <1>7, <1>8, <2>1, KeepBinFacts
<1>11. UserLinks(hdd, todo', fatSecs, users, at)
  <2>1. UserLinks(hdd, <<>>, fatSecs, users, at)
    <3>1. FileFacts(d) /\ todo = <<>> /\ ~InSeq(todo, Fail) /\ P > 20
      BY <1>1, <1>2, <1>3, EmptyHas DEF Running
    <3> QED BY <3>1 DEF FileFacts
  <2>2. /\ at.etc \in 3..t - 1 /\ at.home \in 3..t - 1 /\ at.passwd \in 3..t - 1
        /\ \A i \in 1..Len(users) : at.homes[i] \in 3..t - 1
    <3> HIDE DEF t, u, h
    <3>1. u \in Nat /\ t \in Nat /\ u >= 5 /\ u + 3 + Len(users) <= t
      BY <1>5
    <3>2. at.etc = u /\ at.home = u + 1 /\ at.passwd = u + 2 /\ Len(users) \in Nat
      BY <1>5
    <3>3. ASSUME NEW i \in 1..Len(users)
          PROVE  at.homes[i] \in 3..t - 1 /\ at.homes[i] >= 3
      <4>1. at.homes[i] = u + 2 + i
        BY <1>5
      <4> QED BY <3>1, <3>2, <4>1
    <3> QED BY <3>1, <3>2, <3>3
  <2> HIDE DEF t, u, h
  <2> QED BY <1>5, <1>7, <2>1, <2>2, KeepLinks DEF UserLinks
<1>12. UserData(hdd, todo', spc, fatSecs, users, rootpw, at)
  BY <1>1, <1>6
<1>13. FileFacts(d)'
  <2>1. ~(P' > 22)
    BY <1>2
  <2> HIDE DEF t, u, h
  <2> QED BY <1>1, <1>2, <1>5, <1>10, <1>11, <1>12, <2>1 DEF FileFacts, BinFacts
<1> QED BY <1>2, <1>8, <1>9, <1>13, QueuesIInv
-----------------------------------------------------------------------------
(* The invariant is kept: the root directory, and the end.                  *)

\* The root directory is one sector, over a cluster of zeros.
LEMMA WriteRootFacts ==
  ASSUME NEW t, Laid(t), NEW w, w = Write(S(2), DirSector(RootSlots(at))),
         NEW D, Cluster(D, <<>>, spc, fatSecs, 2, Zero)
  PROVE  /\ Confined(<<w>>, t, 2, 3, 3, 3) /\ IsSeq(<<w>>) /\ ~InSeq(<<w>>, Fail)
         /\ Cluster(D, <<w>>, spc, fatSecs, 2, DirSector(RootSlots(at)))
<1> DEFINE x == DirSector(RootSlots(at))
<1>1. /\ t \in Nat /\ t >= 4 /\ spc \in Nat \ {0} /\ S(2) = DataStart(fatSecs)
      /\ S(3) = DataStart(fatSecs) + spc /\ DataStart(fatSecs) \in Nat
  BY LaidIs
<1>2. IsSeq(<<w>>) /\ \A o : InSeq(<<w>>, o) <=> o = w
  BY OneHas
<1>3. w.op = "write" /\ w.lba = S(2) /\ w # Fail
  BY OpFields
<1> HIDE DEF x
<1>4. Within(<<w>>, S(2), S(3), 3, 3)
  <2>1. S(2) \in S(2)..S(3) - 1
    BY <1>1
  <2> QED BY <1>2, <2>1 DEF Within
<1>5. Confined(<<w>>, t, 2, 3, 3, 3)
  BY <1>1, <1>4 DEF Confined
<1>6. ASSUME NEW i \in 1..spc
      PROVE  WillBe(D, <<w>>, fatSecs, Start(spc, fatSecs, 2) + i - 1, IF i = 1 THEN x ELSE Zero)
  <2>1. Sec(D, S(2) + i - 1) = IF i = 1 THEN Zero ELSE Zero
    BY WillDone DEF Cluster, S
  <2>2. CASE i = 1
    <3>1. S(2) + i - 1 = S(2)
      BY <1>1, <2>2
    <3> QED BY <1>2, <2>2, <3>1 DEF WillBe, S, x
  <2>3. CASE i # 1
    <3>1. S(2) + i - 1 # S(2)
      BY <1>1, <2>3
    <3> QED BY <1>2, <1>3, <2>1, <2>3, <3>1 DEF WillBe, Touches, S
  <2> QED BY <2>2, <2>3
<1>7. Cluster(D, <<w>>, spc, fatSecs, 2, x)
  BY <1>6 DEF Cluster
<1> QED BY <1>2, <1>3, <1>5, <1>7 DEF x

\* The boot sector and its neighbours stay.
LEMMA KeepStart ==
  ASSUME NEW t, Laid(t), NEW T, NEW a, NEW b, NEW g, NEW h, Confined(T, t, a, b, g, h),
         NEW d, d.stage2 \in Nat, d.stage2 <= Stage2Max,
         NEW D, WillBe(D, <<>>, fatSecs, 0, MbrSec(size)),
         WillBe(D, <<>>, fatSecs, PartStart, VbrSec(size, spc, fatSecs)),
         Stage2There(D, <<>>, fatSecs, d)
  PROVE  /\ WillBe(D, T, fatSecs, 0, MbrSec(size))
         /\ WillBe(D, T, fatSecs, PartStart, VbrSec(size, spc, fatSecs))
         /\ Stage2There(D, T, fatSecs, d)
<1>1. /\ PartStart \in Nat /\ Res \in Nat /\ Res >= 2 + Stage2Max /\ Stage2Max \in Nat
  BY Sizes
<1>2. PartStart \in PartStart..PartStart + Res - 1
  BY <1>1
<1>3. Stage2There(D, T, fatSecs, d)
  <2> SUFFICES ASSUME NEW i \in 1..d.stage2
               PROVE  WillBe(D, T, fatSecs, PartStart + 1 + i, FileSector(d, "stage2", i))
    BY DEF Stage2There
  <2>1. PartStart + 1 + i \in PartStart..PartStart + Res - 1
    BY <1>1
  <2>2. WillBe(D, <<>>, fatSecs, PartStart + 1 + i, FileSector(d, "stage2", i))
    BY DEF Stage2There
  <2> QED BY <2>1, <2>2, KeepBoot
<1> QED BY <1>2, <1>3, KeepBoot

\* The root directory, the last part.
LEMMA WriteRootDirIInv ==
  ASSUME Installable, IInv, WriteRootDir
  PROVE  IInv'
<1> DEFINE e == floppy
           w == Write(S(2), DirSector(RootSlots(at)))
<1>1. /\ pc = "root_dir" /\ todo = <<>> /\ pc' = "reboot"
      /\ todo' = <<Write(DataLba, DirSector(RootSlots(at)))>>
      /\ UNCHANGED <<hdd, size, floppy, users, rootpw, spc, fatSecs, next, at>>
  BY DEF WriteRootDir, Queue, At
<1>2. P = 22 /\ P' = 23 /\ pc' \in DOMAIN Place
  BY <1>1, PlaceIs, PlaceDomain DEF P
<1>3. PICK d : Running(d)
  BY <1>1, LatePlace
<1>4. TypeInv /\ P > 8 /\ P > 20
  BY <1>1, <1>2, LatePlace
<1> DEFINE t == Top(d, e, spc)
           u == UsersAt(d, e, spc)
<1>5. /\ Laid(t) /\ d \in KernelDisks /\ e \in ProgramDisks
      /\ UsersOK(users) /\ Len(users) \in Nat /\ Len(users) <= MaxUsers
      /\ t \in Nat /\ u \in Nat /\ u > BinAt(d, spc)
      /\ BinAt(d, spc) \in Nat /\ BinAt(d, spc) >= 4
      /\ t = u + 3 + MaxUsers /\ MaxUsers \in Nat
      /\ at.bin = BinAt(d, spc) /\ Len(at.files) = Len(BinFiles(e))
      /\ at.etc = u /\ at.home = u + 1 /\ at.passwd = u + 2
      /\ \A i \in 1..Len(users) : at.homes[i] = u + 2 + i
  BY <1>3, <1>4, UsersNums
<1>6. todo' = <<w>>
  <2>1. S(2) = DataStart(fatSecs)
    BY <1>5, LaidIs
  <2> QED BY <1>1, <2>1 DEF DataLba, DataStart
<1>7. /\ WillBe(hdd, <<>>, fatSecs, 0, MbrSec(size))
      /\ WillBe(hdd, <<>>, fatSecs, PartStart, VbrSec(size, spc, fatSecs))
      /\ Cluster(hdd, <<>>, spc, fatSecs, 2, Zero)
      /\ Stage2There(hdd, <<>>, fatSecs, d)
  BY <1>1, <1>2, <1>3 DEF Running, BootFacts
<1>8. /\ Confined(todo', t, 2, 3, 3, 3) /\ IsSeq(todo') /\ ~InSeq(todo', Fail)
      /\ Cluster(hdd, todo', spc, fatSecs, 2, DirSector(RootSlots(at)))
  <2>1. w = Write(S(2), DirSector(RootSlots(at)))
    OBVIOUS
  <2> HIDE DEF t, w
  <2> QED BY <1>5, <1>6, <1>7, <2>1, WriteRootFacts
<1>9. Queues(d, e, 2, 3, 3, 3)
  <2>1. P \in 15..22 /\ P' \in 16..23 /\ P' > 17 /\ P' > 18 /\ P' # 16
    BY <1>2
  <2> HIDE DEF u
  <2> QED BY <1>1, <1>2, <1>3, <1>5, <1>8, <2>1 DEF Queues
<1>10. /\ WillBe(hdd, todo', fatSecs, 0, MbrSec(size))
       /\ WillBe(hdd, todo', fatSecs, PartStart, VbrSec(size, spc, fatSecs))
       /\ Stage2There(hdd, todo', fatSecs, d)
  <2>1. d.stage2 \in Nat /\ d.stage2 <= Stage2Max
    BY <1>5 DEF Installable, SourcesOK, KernelDiskOK, KernelDisks, Verified
  <2> HIDE DEF t
  <2> QED BY <1>5, <1>7, <1>8, <2>1, KeepStart
<1>11. BootFacts(d)'
  <2>1. ~(P' < 23)
    BY <1>2
  <2> QED BY <1>1, <1>10, <2>1 DEF BootFacts
<1>12. PlanInv(d)'
  <2>1. ~(P' \in 8..16) /\ ~(P' \in 16..18) /\ P' # 19 /\ P' # 20
    BY <1>2
  <2> QED BY <1>1, <1>2, <1>3, <1>4, <2>1 DEF PlanInv, Running
<1>13. OpsInv(d)'
  <2>1. /\ ~(P' \in 0..9 \cup {17, 18, 24}) /\ P' # 10 /\ P' # 11 /\ P' # 12 /\ P' # 13
        /\ P' # 14 /\ P' # 15 /\ ~(P' \in {16} \cup 19..22)
    BY <1>2
  <2>2. todo' = <<Write(Start(spc, fatSecs, 2)', DirSector(RootSlots(at))')>>
    BY <1>1, <1>6 DEF S, RootSlots, Start, DataStart
  <2> HIDE DEF w
  <2> QED BY <2>1, <2>2 DEF OpsInv
<1>14. BinFacts(hdd, todo', d, e, at)
  <2>1. P > 19 /\ 3 <= 3 /\ 3 = 3
    BY <1>2
  <2> QED BY <1>5, <1>8, <1>9, <2>1, KeepBinFacts
<1>15. UserLinks(hdd, todo', fatSecs, users, at)
  <2>1. UserLinks(hdd, <<>>, fatSecs, users, at)
    <3>1. FileFacts(d) /\ todo = <<>> /\ ~InSeq(todo, Fail) /\ P > 20
      BY <1>1, <1>2, <1>3, EmptyHas DEF Running
    <3> QED BY <3>1 DEF FileFacts
  <2>2. /\ at.etc \in 3..t - 1 /\ at.home \in 3..t - 1 /\ at.passwd \in 3..t - 1
        /\ \A i \in 1..Len(users) : at.homes[i] \in 3..t - 1
    <3> HIDE DEF t, u
    <3>1. u \in Nat /\ t \in Nat /\ u >= 5 /\ u + 3 + Len(users) <= t
      BY <1>5
    <3>2. at.etc = u /\ at.home = u + 1 /\ at.passwd = u + 2 /\ Len(users) \in Nat
      BY <1>5
    <3>3. ASSUME NEW i \in 1..Len(users)
          PROVE  at.homes[i] \in 3..t - 1 /\ at.homes[i] >= 3
      <4>1. at.homes[i] = u + 2 + i
        BY <1>5
      <4> QED BY <3>1, <3>2, <4>1
    <3> QED BY <3>1, <3>2, <3>3
  <2> HIDE DEF t, u
  <2> QED BY <1>5, <1>8, <2>1, <2>2, KeepLinks DEF UserLinks
<1>16. UserData(hdd, todo', spc, fatSecs, users, rootpw, at)
  <2>1. UserData(hdd, <<>>, spc, fatSecs, users, rootpw, at)
    <3>1. FileFacts(d) /\ todo = <<>> /\ ~InSeq(todo, Fail) /\ P > 21
      BY <1>1, <1>2, <1>3, EmptyHas DEF Running
    <3> QED BY <3>1 DEF FileFacts
  <2>2. /\ at.etc \in 2..t - 1 /\ at.home \in 2..t - 1 /\ at.passwd \in 2..t - 1
        /\ 3 <= at.etc /\ 3 <= at.home /\ 3 <= at.passwd
        /\ \A i \in 1..Len(users) : at.homes[i] \in 2..t - 1 /\ 3 <= at.homes[i]
    <3> HIDE DEF t, u
    <3>1. u \in Nat /\ t \in Nat /\ u >= 5 /\ u + 3 + Len(users) <= t
      BY <1>5
    <3>2. at.etc = u /\ at.home = u + 1 /\ at.passwd = u + 2 /\ Len(users) \in Nat
      BY <1>5
    <3>3. ASSUME NEW i \in 1..Len(users)
          PROVE  at.homes[i] \in 2..t - 1 /\ at.homes[i] >= 3
      <4>1. at.homes[i] = u + 2 + i
        BY <1>5
      <4> QED BY <3>1, <3>2, <4>1
    <3> QED BY <3>1, <3>2, <3>3
  <2> HIDE DEF t, u
  <2>3. \A c, x : c \in 2..t - 1 /\ 3 <= c /\ Cluster(hdd, <<>>, spc, fatSecs, c, x)
                    => Cluster(hdd, todo', spc, fatSecs, c, x)
    BY <1>5, <1>8, KeepCluster
  <2> QED BY <2>1, <2>2, <2>3 DEF UserData
<1>17. FileFacts(d)'
  <2>1. at' = at /\ Len(at'.files) = Len(BinFiles(e))
    BY <1>1, <1>5
  <2> HIDE DEF t, u
  <2> QED BY <1>1, <1>8, <1>14, <1>15, <1>16, <2>1 DEF FileFacts, BinFacts
<1>18. ClearInv'
  <2>1. RootBlank(hdd, spc, fatSecs)
    BY <1>9, QueuesIs
  <2>2. ~(P' = 12) /\ ~(P' = 13) /\ ~(P' \in 14..22)
    BY <1>2
  <2> QED BY <1>1, <2>1, <2>2 DEF ClearInv
<1>19. Running(d)'
  BY <1>5, <1>11, <1>12, <1>13, <1>17 DEF Running
<1>20. P' > 8 /\ ~(P' \in 1..15) /\ ~(P' \in 8..16)
  BY <1>2
<1> QED BY <1>1, <1>2, <1>4, <1>5, <1>8, <1>18, <1>19, <1>20, MoveIInv

LEMMA FinishIInv ==
  ASSUME IInv, Finish
  PROVE  IInv'
<1>1. /\ pc = "reboot" /\ todo = <<>> /\ pc' = "done" /\ todo' = <<>>
      /\ UNCHANGED <<hdd, size, floppy, users, rootpw, spc, fatSecs, next, at>>
  BY DEF Finish, At, Goto, memory
<1>2. P = 23 /\ P' = 24 /\ pc' \in DOMAIN Place
  BY <1>1, PlaceIs, PlaceDomain DEF P
<1>3. PICK d : Running(d)
  BY <1>1, LatePlace
<1>4. TypeInv /\ P > 8
  BY <1>1, LatePlace
<1>5. /\ ~(P \in 8..16) /\ ~(P \in 16..18) /\ P # 19 /\ P # 20 /\ P > 9 /\ P > 10 /\ P > 12
      /\ P > 13 /\ P > 15 /\ P > 18 /\ P > 19 /\ P > 20 /\ P > 21 /\ P > 22
      /\ ~(P' \in 8..16) /\ ~(P' \in 16..18) /\ P' # 19 /\ P' # 20 /\ P' > 20 /\ ~(P' < 23)
      /\ P \in 18..24 /\ P' \in 18..24 /\ ~(P' \in 1..15) /\ P' > 8
  BY <1>2
<1>6. BootFacts(d)' /\ PlanInv(d)' /\ FileFacts(d)'
  <2>1. BootFacts(d)'
    BY <1>1, <1>3, <1>5 DEF Running, BootFacts
  <2>2. PlanInv(d)'
    BY <1>1, <1>3, <1>5 DEF Running, PlanInv
  <2>3. FileFacts(d)'
    BY <1>1, <1>3, <1>5 DEF Running, FileFacts
  <2> QED BY <2>1, <2>2, <2>3
<1>7. OpsInv(d)'
  <2>1. /\ P' # 10 /\ P' # 11 /\ P' # 12 /\ P' # 13
        /\ P' # 14 /\ P' # 15 /\ ~(P' \in {16} \cup 19..22) /\ P' # 23
    BY <1>2
  <2> QED BY <1>1, <2>1 DEF OpsInv
<1>8. ClearInv'
  BY <1>1, <1>2 DEF ClearInv
<1>9. IsSeq(todo')
  BY <1>1, EmptyHas
<1>10. Running(d)'
  BY <1>3, <1>6, <1>7 DEF Running
<1>11. floppy' \in ProgramDisks
  BY <1>1, <1>4, <1>5 DEF TypeInv
<1> QED BY <1>1, <1>2, <1>4, <1>5, <1>8, <1>9, <1>10, <1>11, MoveIInv
-----------------------------------------------------------------------------
LEMMA SameIInv ==
  ASSUME IInv, UNCHANGED vars
  PROVE  IInv'
<1>1. UNCHANGED <<pc, todo, hdd, size, floppy, users, rootpw, spc, fatSecs, next, at>>
  BY DEF vars, memory
<1>2. P' = P
  BY <1>1 DEF P
<1>3. TypeInv' /\ ClearInv' /\ DiskInv'
  <2>1. TypeInv'
    BY <1>1, <1>2 DEF IInv, TypeInv
  <2>2. ClearInv'
    BY <1>1, <1>2 DEF IInv, ClearInv
  <2>3. DiskInv'
    BY <1>1 DEF IInv, DiskInv
  <2> QED BY <2>1, <2>2, <2>3
<1>4. ASSUME NEW d, Running(d) PROVE Running(d)'
  <2>1. OpsInv(d)'
    BY <1>1, <1>2, <1>4 DEF Running, OpsInv
  <2>2. PlanInv(d)'
    BY <1>1, <1>2, <1>4 DEF Running, PlanInv
  <2>3. BootFacts(d)'
    BY <1>1, <1>2, <1>4 DEF Running, BootFacts
  <2>4. FileFacts(d)'
    BY <1>1, <1>2, <1>4 DEF Running, FileFacts
  <2> QED BY <1>4, <2>1, <2>2, <2>3, <2>4 DEF Running
<1> QED BY <1>1, <1>2, <1>3, <1>4 DEF IInv

\* Every step keeps the invariant.
LEMMA NextIInv ==
  ASSUME Installable, IInv, [Next]_vars
  PROVE  IInv'
<1>1. CASE UNCHANGED vars
  BY <1>1, SameIInv
<1>2. CASE Next
  <2>1. CASE Program
    <3>1. CASE Geometry
      BY <3>1, SourceIInv
    <3>2. CASE Validate
      BY <3>2, ValidateIInv
    <3>3. CASE Layout
      BY <3>3, LayoutIInv
    <3>4. CASE WriteMbr
      BY <3>4, WriteMbrIInv
    <3>5. CASE WriteVbr
      BY <3>5, WriteVbrIInv
    <3>6. CASE ClearFat
      BY <3>6, ClearFatIInv
    <3>7. CASE InitRoot
      BY <3>7, InitRootIInv
    <3>8. CASE CopyStage2
      BY <3>8, CopyStage2IInv
    <3>9. CASE LoadSource
      BY <3>9, LoadSourceIInv
    <3>10. CASE CopyKernel
      BY <3>10, CopyKernelIInv
    <3>11. CASE PromptProgram
      BY <3>11, PromptProgramIInv
    <3>12. CASE AllocBin
      BY <3>12, AllocBinIInv
    <3>13. CASE CopyBinFile
      BY <3>13, CopyBinFileIInv
    <3>14. CASE WriteBinDir
      BY <3>14, WriteBinDirIInv
    <3>15. CASE AllocUsers
      BY <3>15, AllocUsersIInv
    <3>16. CASE WriteUsers
      BY <3>16, WriteUsersIInv
    <3>17. CASE WriteRootDir
      BY <3>17, WriteRootDirIInv
    <3>18. CASE Finish
      BY <3>18, FinishIInv
    <3>19. CASE Step
      BY <3>19, StepIInv
    <3> QED BY <2>1, <3>1, <3>2, <3>3, <3>4, <3>5, <3>6, <3>7, <3>8, <3>9, <3>10, <3>11,
               <3>12, <3>13, <3>14, <3>15, <3>16, <3>17, <3>18, <3>19 DEF Program
  <2>2. CASE Answer
    <3>1. PICK d \in Floppies \cup {NoDisk} : TryB(d) \/ Swap(d) \/ SwapProgram(d)
      BY <2>2 DEF Answer
    <3>2. CASE TryB(d) \/ Swap(d)
      BY <3>2, SourceIInv
    <3>3. CASE SwapProgram(d)
      BY <3>3, SwapProgramIInv
    <3> QED BY <3>1, <3>2, <3>3
  <2>3. CASE Confirm \/ UsersDone \/ \E p \in Passwords : SetRootPassword(p)
    BY <2>3, PromptsIInv
  <2>4. CASE PowerOff \/ Restart
    BY <2>4, OffIInv
  <2>5. CASE \E n \in Names, p \in Passwords : AddUser(n, p)
    BY <2>5, AddUserIInv
  <2> QED BY <1>2, <2>1, <2>2, <2>3, <2>4, <2>5 DEF Next
<1> QED BY <1>1, <1>2

\* The invariant holds of every state of every number of installations in a row,
\* of calc_dst_layout_fat32, the write_* procedures and write_sector_lba32, with
\* operations that fail and power that goes between any two of them.
THEOREM Inductive ==
  ASSUME Installable
  PROVE  Spec => []IInv
<1>1. Init => IInv
  BY InitIInv
<1>2. IInv /\ [Next]_vars => IInv'
  BY NextIInv
<1> QED BY <1>1, <1>2, PTL DEF Spec
-----------------------------------------------------------------------------
(* No sector is written but for an installation.                            *)

\* What is queued lies within the partition, or is the partition table.
LEMMA OpsInPartition ==
  ASSUME Installable, IInv, todo # <<>>
  PROVE  InPartition(Head(todo))
<1>1. TypeInv /\ P \in 0..24
  BY PNat DEF IInv
<1>2. P >= 8
  BY <1>1 DEF IInv
<1>3. PICK d : Running(d)
  BY <1>2 DEF IInv
<1>4. OpsInv(d) /\ d \in KernelDisks
  BY <1>3 DEF Running
<1>5. InSeq(todo, Head(todo))
  BY <1>1, HeadTailHas DEF TypeInv
<1>6. P > 8 /\ P \in {10, 11, 12, 13, 14, 15, 16, 19, 20, 21, 22, 23}
  BY <1>1, <1>2, <1>4 DEF OpsInv
<1>7. PICK e : e \in ProgramDisks
  BY DEF Installable, SourcesOK
<1> DEFINE o == Head(todo)
<1>8. /\ size \in Nat /\ PartStart \in Nat \ {0} /\ Res \in Nat /\ Res >= 2
      /\ S(2) = DataStart(fatSecs) /\ S(3) = DataStart(fatSecs) + spc
      /\ DataStart(fatSecs) \in Nat /\ DataStart(fatSecs) >= PartStart + Res + fatSecs
      /\ spc \in Nat \ {0} /\ fatSecs \in Nat \ {0} /\ size \in HddSizes
      /\ Settled(size, spc, fatSecs)
  BY <1>1, <1>6, SettledNow
\* sectors written, and clusters linked, of an installation with the program disk x
<1>9. ASSUME NEW x \in ProgramDisks
      PROVE  /\ S(Top(d, x, spc)) <= size /\ S(Top(d, x, spc)) \in Nat
             /\ S(3) <= S(Top(d, x, spc)) /\ Top(d, x, spc) \in Nat
             /\ \A c \in 3..Top(d, x, spc) - 1 :
                  /\ c <= Clusters + 1 /\ FatLba(c) < PartStart + Res + fatSecs
  <2> DEFINE t == Top(d, x, spc)
  <2>1. Laid(t)
    BY <1>1, <1>4, <1>6, LaidNow
  <2> HIDE DEF t
  <2>2. S(t) <= size /\ S(t) \in Nat /\ t \in Nat /\ t >= 4
    BY <2>1, LaidIs
  <2>3. S(3) <= S(t)
    BY <2>1, <2>2, LaidOrder
  <2>4. \A c \in 0..t - 1 : /\ FatLba(c) \in PartStart + Res..PartStart + Res + fatSecs - 1
                            /\ c <= CountOf(size, spc, fatSecs) + 1
    BY <2>1, RoomNums DEF Laid
  <2>5. CountOf(size, spc, fatSecs) = Clusters
    BY DEF CountOf, Clusters, DataSecs
  <2>6. \A c \in 3..t - 1 : c \in 0..t - 1
    OBVIOUS
  <2>7. \A y \in PartStart + Res..PartStart + Res + fatSecs - 1 : y < PartStart + Res + fatSecs
    BY <1>8
  <2> QED BY <2>2, <2>3, <2>4, <2>5, <2>6, <2>7 DEF t
<1> HIDE DEF o
<1>10. ASSUME NEW l, NEW x, o = Write(l, x), l \in PartStart..size - 1
       PROVE  InPartition(o)
  BY <1>8, <1>10, OpFields DEF InPartition
<1>11. CASE P = 10
  <2>1. o = Write(0, MbrSec(size))
    BY <1>4, <1>5, <1>11 DEF OpsInv, o
  <2>2. size > 0
    BY <1>8, Sizes
  <2>3. MbrSec(size).k = "mbr"
    BY DEF MbrSec
  <2> QED BY <2>1, <2>2, <2>3, OpFields DEF InPartition, o
<1>12. PartStart + Res + fatSecs <= S(3) /\ S(3) <= size
  BY <1>7, <1>8, <1>9
<1>13. CASE P = 11
  <2>1. \E x : o = Write(PartStart, x) \/ o = Write(PartStart + 1, x)
    BY <1>4, <1>5, <1>13 DEF OpsInv, o
  <2>2. PartStart \in PartStart..size - 1 /\ PartStart + 1 \in PartStart..size - 1
    BY <1>8, <1>12
  <2> QED BY <1>10, <2>1, <2>2 DEF o
<1>14. CASE P = 12
  <2>1. PICK l \in PartStart + Res..DataStart(fatSecs) - 1 : \E x : o = Write(l, x)
    BY <1>4, <1>5, <1>14 DEF OpsInv, o
  <2>2. l \in PartStart..size - 1
    BY <1>8, <1>12
  <2> QED BY <1>10, <2>1, <2>2 DEF o
<1>15. CASE P = 13
  <2>1. PICK l \in S(2)..S(3) - 1 : \E x : o = Write(l, x)
    BY <1>4, <1>5, <1>8, <1>15 DEF OpsInv, o, S
  <2>2. l \in PartStart..size - 1
    BY <1>8, <1>12
  <2> QED BY <1>10, <2>1, <2>2 DEF o
<1>16. ASSUME o = Read \/ o = Fail
       PROVE  InPartition(o)
  BY <1>16, OpFields DEF InPartition
<1>17. CASE P = 14
  <2>1. Within(todo, PartStart + 2, PartStart + Res, 0, 0)
    BY <1>4, <1>17 DEF OpsInv
  <2>2. \/ \E l \in PartStart + 2..(PartStart + Res) - 1 : \E x : o = Write(l, x)
        \/ o = Read \/ o = Fail
    <3>1. \A c \in 0..0 - 1 : FALSE
      OBVIOUS
    <3>2. \/ \E l \in PartStart + 2..(PartStart + Res) - 1 : \E x : o = Write(l, x)
          \/ \E c \in 0..0 - 1 : o = Mirror(c) \/ \E v : o = Link(c, v)
          \/ o = Read \/ o = Fail
      BY <1>5, <2>1 DEF Within, o
    <3> QED BY <3>1, <3>2
  <2>3. \A l \in PartStart + 2..(PartStart + Res) - 1 : l \in PartStart..size - 1
    BY <1>8, <1>12
  <2> QED BY <1>10, <1>16, <2>2, <2>3 DEF o
<1>18. CASE P = 15
  BY <1>4, <1>5, <1>16, <1>18 DEF OpsInv, o
<1>19. CASE P \in {16} \cup 19..22
  <2>1. PICK x \in ProgramDisks : Within(todo, S(3), S(Top(d, x, spc)), 3, Top(d, x, spc))
    BY <1>4, <1>19 DEF OpsInv, S
  <2>2. \/ \E l \in S(3)..S(Top(d, x, spc)) - 1 : \E z : o = Write(l, z)
        \/ \E c \in 3..Top(d, x, spc) - 1 : o = Mirror(c) \/ \E v : o = Link(c, v)
        \/ o = Read \/ o = Fail
    BY <1>5, <2>1 DEF Within, o
  <2>3. \A l \in S(3)..S(Top(d, x, spc)) - 1 : l \in PartStart..size - 1
    BY <1>8, <1>9
  <2>4. ASSUME NEW c \in 3..Top(d, x, spc) - 1, o = Mirror(c) \/ \E v : o = Link(c, v)
        PROVE  InPartition(o)
    <3>1. o.op \in {"link", "mirror"} /\ o.cluster = c /\ o.op # "write"
      BY <2>4, OpFields
    <3>2. c <= Clusters + 1 /\ FatLba(c) < PartStart + Res + fatSecs
      BY <1>9
    <3> QED BY <3>1, <3>2 DEF InPartition
  <2> QED BY <1>10, <1>16, <2>2, <2>3, <2>4 DEF o
<1>20. CASE P = 23
  <2>1. todo = <<Write(S(2), DirSector(RootSlots(at)))>>
    BY <1>4, <1>20 DEF OpsInv, S
  <2>2. o = Write(S(2), DirSector(RootSlots(at)))
    BY <2>1 DEF o
  <2>3. S(2) \in PartStart..size - 1
    BY <1>8, <1>12
  <2> QED BY <1>10, <2>2, <2>3 DEF o
<1> QED BY <1>6, <1>11, <1>13, <1>14, <1>15, <1>17, <1>18, <1>19, <1>20 DEF o

\* Which floppy is in the drive.
LEMMA FloppyIs ==
  ASSUME Installable, IInv, todo # <<>>
  PROVE  /\ floppy # NoDisk /\ floppy.sig /\ floppy.bpb
         /\ \/ /\ "kernel" \in floppy.roles /\ floppy.kernel.kind = "file"
               /\ Res >= 2 + floppy.stage2
            \/ /\ "program" \in floppy.roles /\ floppy.bin.kind = "dir"
               /\ at.kernel # Bad
<1>1. TypeInv /\ P \in 0..24
  BY PNat DEF IInv
<1>2. P >= 8
  BY <1>1 DEF IInv
<1>3. PICK d : Running(d)
  BY <1>2 DEF IInv
<1>4. P \notin {17, 18, 24}
  BY <1>3 DEF Running, OpsInv
<1>5. CASE P \in 8..16
  <2>1. floppy \in KernelDisks
    BY <1>1, <1>5 DEF TypeInv
  <2>2. floppy.stage2 \in Nat /\ floppy.stage2 <= Stage2Max
    BY <2>1 DEF Installable, SourcesOK, KernelDiskOK, KernelDisks, Verified
  <2>3. Res >= 2 + floppy.stage2
    BY <2>2, Sizes
  <2> QED BY <2>1, <2>3 DEF KernelDisks, Prepared, Verified
<1>6. CASE P \in 19..23
  <2>1. floppy \in ProgramDisks
    BY <1>1, <1>6 DEF TypeInv
  <2>2. at.kernel = 3
    BY <1>3, <1>6 DEF Running, PlanInv, BinPlan, FullPlan
  <2>3. Bad # 3
    BY DEF Bad
  <2> QED BY <2>1, <2>2, <2>3 DEF ProgramDisks, HasPrograms, Prepared
<1> QED BY <1>1, <1>2, <1>4, <1>5, <1>6

\* Only Step changes the disk.
LEMMA OnlyStep ==
  ASSUME Next, hdd' # hdd
  PROVE  todo # <<>>
BY DEF Next, Program, Answer, Step, Geometry, Validate, Layout, WriteMbr, WriteVbr, ClearFat,
       InitRoot, CopyStage2, LoadSource, CopyKernel, PromptProgram, AllocBin, CopyBinFile,
       WriteBinDir, AllocUsers, WriteUsers, WriteRootDir, Finish, TryB, Swap, SwapProgram,
       Confirm, UsersDone, PowerOff, Restart, SetRootPassword, AddUser, Queue, Goto, Halt,
       Retry

\* ValidatedFirst: the installer writes to the hard disk only after a floppy was
\* verified (verify_source_seolsem_image), only within its partition and the
\* partition table, and only from a floppy with the role it asked for.
THEOREM Validated ==
  ASSUME Installable
  PROVE  Spec => ValidatedFirst
<1> DEFINE Allowed ==
       /\ InPartition(Head(todo))
       /\ floppy # NoDisk /\ floppy.sig /\ floppy.bpb
       /\ \/ /\ "kernel" \in floppy.roles /\ floppy.kernel.kind = "file"
             /\ Res >= 2 + floppy.stage2
          \/ /\ "program" \in floppy.roles /\ floppy.bin.kind = "dir"
             /\ at.kernel # Bad
<1>1. IInv /\ [Next]_vars => [hdd' # hdd => Allowed]_vars
  <2> SUFFICES ASSUME IInv, Next, hdd' # hdd PROVE Allowed
    BY DEF vars
  <2>1. todo # <<>>
    BY OnlyStep
  <2> QED BY <2>1, OpsInPartition, FloppyIs
<1>2. ValidatedFirst <=> [][hdd' # hdd => Allowed]_vars
  BY DEF ValidatedFirst
<1> HIDE DEF Allowed
<1>3. Spec => [][Next]_vars
  BY PTL DEF Spec
<1> QED BY <1>1, <1>2, <1>3, Inductive, PTL
-----------------------------------------------------------------------------
(* What the boot loader and the kernel read.                                *)

\* A chain of clusters in a row, followed from its first.
LEMMA AlongRow ==
  ASSUME NEW c, NEW m \in Nat, NEW F, F = [i \in 0..m |-> F[i]], F[0] = c,
         \A i \in 1..m : F[i] = FatOf(F[i - 1])
  PROVE  Along(c, m) = F[m]
<1> DEFINE Built(g) == [i \in 0..m |-> IF i = 0 THEN c ELSE FatOf(g[i - 1])]
           C == CHOOSE g : g = Built(g)
<1>1. F = Built(F)
  <2>1. \A i \in 0..m : F[i] = IF i = 0 THEN c ELSE FatOf(F[i - 1])
    <3>1. \A i \in 0..m : i = 0 \/ i \in 1..m
      OBVIOUS
    <3> QED BY <3>1
  <2> QED BY <2>1
<1>2. C = Built(C)
  <2> HIDE DEF Built
  <2> QED BY <1>1
<1>3. Along(c, m) = C[m]
  BY DEF Along
<1> HIDE DEF C
<1>4. \A i \in 0..m : C[i] = IF i = 0 THEN c ELSE FatOf(C[i - 1])
  BY <1>2
<1> DEFINE J == {j \in Nat : j <= m => C[j] = F[j]}
<1>5. 0 \in J
  BY <1>4
<1>6. ASSUME NEW j \in Nat, j \in J PROVE j + 1 \in J
  <2> SUFFICES ASSUME j + 1 <= m PROVE C[j + 1] = F[j + 1]
    OBVIOUS
  <2>1. j + 1 \in 0..m /\ j + 1 \in 1..m /\ j + 1 # 0 /\ (j + 1) - 1 = j /\ C[j] = F[j]
    BY <1>6
  <2> HIDE DEF Built
  <2>2. C[j + 1] = FatOf(C[j])
    BY <1>4, <2>1
  <2>3. F[j + 1] = FatOf(F[j])
    BY <2>1
  <2> QED BY <2>1, <2>2, <2>3
<1>7. \A j \in Nat : j \in J
  <2> HIDE DEF J
  <2> QED BY <1>5, <1>6, NatSetInduction
<1> QED BY <1>3, <1>7

\* The clusters from c to c + m - 1 are chained.
Chained(c, m) == \A i \in 1..m : FatOf(c + i - 1) = IF i = m THEN Eoc ELSE c + i

LEMMA AlongChain ==
  ASSUME NEW c \in Nat, NEW m \in Nat, Chained(c, m)
  PROVE  \A j \in 0..m : Along(c, j) = IF j = m /\ m > 0 THEN Eoc ELSE c + j
<1> SUFFICES ASSUME NEW j \in 0..m
             PROVE  Along(c, j) = IF j = m /\ m > 0 THEN Eoc ELSE c + j
  OBVIOUS
<1> DEFINE F == [i \in 0..j |-> IF i = m /\ m > 0 THEN Eoc ELSE c + i]
<1>1. F[0] = c
  OBVIOUS
<1>2. ASSUME NEW i \in 1..j PROVE F[i] = FatOf(F[i - 1])
  <2>1. i \in 1..m /\ i - 1 \in 0..j /\ ~(i - 1 = m) /\ i \in 0..j /\ m > 0
    BY <1>2
  <2>2. F[i - 1] = c + (i - 1)
    BY <2>1
  <2>3. c + (i - 1) = c + i - 1
    BY <2>1
  <2>4. F[i] = IF i = m THEN Eoc ELSE c + i
    BY <2>1
  <2> HIDE DEF F
  <2> QED BY <2>1, <2>2, <2>3, <2>4 DEF Chained
<1>3. F = [i \in 0..j |-> F[i]] /\ j \in Nat
  OBVIOUS
<1>4. F[j] = IF j = m /\ m > 0 THEN Eoc ELSE c + j
  OBVIOUS
<1> HIDE DEF F
<1>5. Along(c, j) = F[j]
  BY <1>1, <1>2, <1>3, AlongRow
<1> QED BY <1>4, <1>5

LEMMA ChainHas ==
  ASSUME NEW c \in Nat, c >= 2, NEW m \in Nat, Chained(c, m)
  PROVE  HasChain(FirstOf(c, m), m)
<1>1. \A j \in 0..m : Along(c, j) = IF j = m /\ m > 0 THEN Eoc ELSE c + j
  BY AlongChain
<1>2. CASE m = 0
  BY <1>2 DEF HasChain, FirstOf
<1>3. CASE m # 0
  <2>1. \A i \in 0..m - 1 : Along(c, i) >= 2
    <3>1. \A i \in 0..m - 1 : i \in 0..m /\ i # m /\ c + i >= 2
      OBVIOUS
    <3> QED BY <1>1, <3>1
  <2>2. Along(c, m) = Eoc
    BY <1>1, <1>3
  <2> QED BY <1>3, <2>1, <2>2 DEF HasChain, FirstOf
<1> QED BY <1>2, <1>3

LEMMA OneChain ==
  ASSUME NEW c \in Nat, c >= 2, FatOf(c) = Eoc
  PROVE  HasChain(c, 1)
<1>1. Chained(c, 1)
  BY DEF Chained
<1> QED BY <1>1, ChainHas DEF FirstOf

\* The boot sector says k sectors to a cluster and n to a FAT.
Reads(k, n) == k \in Nat \ {0} /\ n \in Nat /\ Vbr.spc = k /\ Vbr.fat = n

\* A disk laid out for this size is read with its own numbers.
LEMMA ReadsIs ==
  ASSUME NEW k, NEW n, Reads(k, n)
  PROVE  /\ \A c : DiskLba(c) = Start(k, n, c)
         /\ \A l : HddSec(l) = Sec(hdd, l)
         /\ \A c : FatOf(c) = Ent(hdd, c)
<1>1. \A l : HddSec(l) = Sec(hdd, l)
  BY DEF HddSec, Sec
<1>2. \A c : FatOf(c) = Ent(hdd, c)
  BY <1>1 DEF FatOf, Ent
<1>3. \A c : DiskLba(c) = Start(k, n, c)
  BY Zenon DEF Reads, DiskLba, DiskData, Start, DataStart
<1> QED BY <1>1, <1>2, <1>3

SlotsOf(x) == {x[j] : j \in 1..Len(x)}
SlotsIn(c, i) ==
  LET s == HddSec(DiskLba(c) + i)
  IN IF s.k = "dir" THEN {s.slots[j] : j \in 1..Len(s.slots)} ELSE {}

LEMMA DirIs ==
  ASSUME NEW k, NEW n, Reads(k, n), NEW c
  PROVE  DirOf(c) = UNION {SlotsIn(c, i) : i \in 0..k - 1}
BY DEF DirOf, SlotsIn, Reads

LEMMA SectorSlots ==
  ASSUME NEW c, NEW i, NEW x
  PROVE  /\ HddSec(DiskLba(c) + i) = DirSector(x) => SlotsIn(c, i) = SlotsOf(x)
         /\ HddSec(DiskLba(c) + i).k # "dir" => SlotsIn(c, i) = {}
BY DEF SlotsIn, SlotsOf, DirSector

\* A directory of one cluster that has its slots in the first sector.
LEMMA DirOfCluster ==
  ASSUME NEW k, NEW n, Reads(k, n), NEW c \in Int, NEW x,
         Sec(hdd, Start(k, n, c)) = DirSector(x),
         \A i \in 2..k : Sec(hdd, Start(k, n, c) + i - 1).k # "dir"
  PROVE  DirOf(c) = SlotsOf(x)
<1>1. k \in Nat \ {0} /\ n \in Nat /\ Start(k, n, c) \in Int
  BY StartIs DEF Reads
<1>2. \A i : HddSec(DiskLba(c) + i) = Sec(hdd, Start(k, n, c) + i)
  BY ReadsIs
<1>3. SlotsIn(c, 0) = SlotsOf(x)
  <2>1. Start(k, n, c) + 0 = Start(k, n, c)
    BY <1>1
  <2> QED BY <1>2, <2>1, SectorSlots
<1>4. \A i \in 0..k - 1 : i # 0 => SlotsIn(c, i) = {}
  <2> SUFFICES ASSUME NEW i \in 0..k - 1, i # 0 PROVE SlotsIn(c, i) = {}
    OBVIOUS
  <2>1. i + 1 \in 2..k /\ Start(k, n, c) + (i + 1) - 1 = Start(k, n, c) + i
    BY <1>1
  <2> QED BY <1>2, <2>1, SectorSlots
<1>5. 0 \in 0..k - 1
  BY <1>1
<1>6. UNION {SlotsIn(c, i) : i \in 0..k - 1} = SlotsOf(x)
  <2> DEFINE Q == 0..k - 1
  <2> HIDE DEF Q
  <2>1. 0 \in Q /\ \A i \in Q : i # 0 => SlotsIn(c, i) = {}
    BY <1>4, <1>5 DEF Q
  <2>2. UNION {SlotsIn(c, i) : i \in Q} = SlotsOf(x)
    BY <1>3, <2>1
  <2> QED BY <2>2 DEF Q
<1> QED BY <1>6, DirIs

LEMMA ClusterDir ==
  ASSUME NEW k, NEW n, Reads(k, n), NEW c \in Int, NEW x,
         Cluster(hdd, <<>>, k, n, c, DirSector(x))
  PROVE  DirOf(c) = SlotsOf(x)
<1>1. k \in Nat \ {0} /\ n \in Nat /\ Start(k, n, c) \in Int
  BY StartIs DEF Reads
<1>2. \A i \in 1..k : Sec(hdd, Start(k, n, c) + i - 1) = IF i = 1 THEN DirSector(x) ELSE Zero
  BY WillDone DEF Cluster
<1>3. Sec(hdd, Start(k, n, c)) = DirSector(x)
  <2>1. 1 \in 1..k /\ Start(k, n, c) + 1 - 1 = Start(k, n, c)
    BY <1>1
  <2> QED BY <1>2, <2>1
<1>4. \A i \in 2..k : Sec(hdd, Start(k, n, c) + i - 1).k # "dir"
  <2>1. \A i \in 2..k : i \in 1..k /\ i # 1
    OBVIOUS
  <2>2. Zero.k # "dir"
    BY DEF Zero
  <2> QED BY <1>2, <2>1, <2>2
<1> QED BY <1>3, <1>4, DirOfCluster

LEMMA LeastOfTwo ==
  ASSUME NEW a \in Int, NEW b \in Int
  PROVE  Min({a, b}) = IF a <= b THEN a ELSE b
BY DEF Min

\* The sectors of a listing hold its slots, and nothing else.
LEMMA SlotsSpread ==
  ASSUME NEW U, NEW x \in Seq(U), NEW k \in Nat, Len(x) <= DirSlots * k
  PROVE  UNION {SlotsOf(SectorOf(x, i)) : i \in 1..k} = SlotsOf(x)
<1>1. Len(x) \in Nat /\ DirSlots \in Nat \ {0}
  BY LenProperties, Sizes
<1> DEFINE m(i) == DirSlots * (i - 1) + 1
           z(i) == IF Len(x) <= DirSlots * i THEN Len(x) ELSE DirSlots * i
<1>2. ASSUME NEW i \in 1..k
      PROVE  /\ m(i) \in Nat /\ m(i) >= 1 /\ z(i) \in Nat /\ z(i) <= Len(x)
             /\ SectorOf(x, i) = SubSeq(x, m(i), z(i))
  <2>1. DirSlots * (i - 1) \in Nat /\ DirSlots * i \in Nat
    BY <1>1
  <2>2. Min({Len(x), DirSlots * i}) = z(i)
    BY <1>1, <2>1, LeastOfTwo
  <2>3. m(i) \in Nat /\ m(i) >= 1
    <3> DEFINE p == DirSlots * (i - 1)
    <3> HIDE DEF p
    <3>1. p + 1 \in Nat /\ p + 1 >= 1
      BY <2>1 DEF p
    <3> QED BY <3>1 DEF p
  <2>4. z(i) \in Nat /\ z(i) <= Len(x)
    <3> DEFINE p == DirSlots * i
    <3> HIDE DEF p
    <3>1. p \in Nat
      BY <2>1 DEF p
    <3>2. (IF Len(x) <= p THEN Len(x) ELSE p) \in Nat
          /\ (IF Len(x) <= p THEN Len(x) ELSE p) <= Len(x)
      BY <1>1, <3>1
    <3> QED BY <3>2 DEF p
  <2>5. SectorOf(x, i) = SubSeq(x, m(i), z(i))
    <3> HIDE DEF z
    <3> QED BY <2>2 DEF SectorOf
  <2> QED BY <2>3, <2>4, <2>5
<1>3. ASSUME NEW i \in 1..k
      PROVE  SlotsOf(SectorOf(x, i)) = {x[j] : j \in m(i)..z(i)}
  <2> DEFINE a == m(i)
             b == z(i)
             y == SubSeq(x, a, b)
  <2>1. a \in Nat /\ a >= 1 /\ b \in Nat /\ b <= Len(x) /\ SectorOf(x, i) = y
    BY <1>2
  <2> HIDE DEF m, z
  <2>2. \A j \in a..b : x[j] \in U
    BY <1>1, <2>1, ElementOfSeq
  <2>3. /\ Len(y) = IF a <= b THEN b - a + 1 ELSE 0
        /\ \A j \in 1..b - a + 1 : y[j] = x[a + j - 1]
    <3> HIDE DEF a, b
    <3> QED BY <2>1, <2>2, SubSeqProperties
  <2> HIDE DEF y, a, b
  <2>4. ASSUME NEW s, s \in SlotsOf(y) PROVE s \in {x[j] : j \in a..b}
    <3>1. PICK j \in 1..Len(y) : s = y[j]
      BY <2>4 DEF SlotsOf
    <3>2. j \in 1..b - a + 1 /\ a + j - 1 \in a..b
      BY <2>1, <2>3
    <3> QED BY <2>3, <3>1, <3>2
  <2>5. ASSUME NEW j \in a..b PROVE x[j] \in SlotsOf(y)
    <3>1. j - a + 1 \in 1..b - a + 1 /\ j - a + 1 \in 1..Len(y) /\ a + (j - a + 1) - 1 = j
      BY <2>1, <2>3
    <3>2. y[j - a + 1] = x[j]
      BY <2>3, <3>1
    <3> QED BY <3>1, <3>2 DEF SlotsOf
  <2>6. SlotsOf(y) = {x[j] : j \in a..b}
    BY <2>4, <2>5
  <2> QED BY <2>1, <2>6 DEF a, b
<1>4. ASSUME NEW j \in 1..Len(x) PROVE \E i \in 1..k : j \in m(i)..z(i)
  <2> DEFINE q == (j - 1) \div DirSlots
  <2>1. q \in Nat /\ (j - 1) % DirSlots \in 0..DirSlots - 1
        /\ j - 1 = DirSlots * q + ((j - 1) % DirSlots)
    <3>1. j - 1 \in Nat
      OBVIOUS
    <3> QED BY <1>1, <3>1, DivMod
  <2>2. q < k
    <3>1. j - 1 \in Nat /\ j - 1 < k * DirSlots
      BY <1>1
    <3> QED BY <1>1, <3>1, DivLess
  <2> DEFINE r == (j - 1) % DirSlots
             p == DirSlots * q
  <2>3. p \in Nat /\ DirSlots * (q + 1) = p + DirSlots /\ DirSlots * ((q + 1) - 1) = p
    BY <1>1, <2>1
  <2> HIDE DEF q, r
  <2>4. j - 1 = p + r /\ r \in 0..DirSlots - 1
    BY <2>1 DEF r
  <2> HIDE DEF p
  <2>5. q + 1 \in 1..k
    BY <2>1, <2>2
  <2>6. m(q + 1) = p + 1 /\ z(q + 1) = IF Len(x) <= p + DirSlots THEN Len(x) ELSE p + DirSlots
    BY <2>3
  <2> HIDE DEF m, z
  <2>7. j \in m(q + 1)..z(q + 1)
    BY <1>1, <2>3, <2>4, <2>6
  <2> QED BY <2>5, <2>7
<1>5. ASSUME NEW i \in 1..k, NEW j \in m(i)..z(i) PROVE j \in 1..Len(x)
  <2>1. m(i) \in Nat /\ m(i) >= 1 /\ z(i) \in Nat /\ z(i) <= Len(x)
    BY <1>2
  <2> HIDE DEF m, z
  <2> QED BY <1>1, <2>1
<1> HIDE DEF m, z
<1>6. ASSUME NEW s, s \in UNION {SlotsOf(SectorOf(x, i)) : i \in 1..k}
      PROVE  s \in SlotsOf(x)
  <2>1. PICK i \in 1..k : s \in SlotsOf(SectorOf(x, i))
    BY <1>6
  <2>2. PICK j \in m(i)..z(i) : s = x[j]
    BY <1>3, <2>1
  <2> QED BY <1>5, <2>2 DEF SlotsOf
<1>7. ASSUME NEW s, s \in SlotsOf(x)
      PROVE  s \in UNION {SlotsOf(SectorOf(x, i)) : i \in 1..k}
  <2>1. PICK j \in 1..Len(x) : s = x[j]
    BY <1>7 DEF SlotsOf
  <2>2. PICK i \in 1..k : j \in m(i)..z(i)
    BY <1>4
  <2>3. s \in SlotsOf(SectorOf(x, i))
    BY <1>3, <2>1, <2>2
  <2> QED BY <2>3
<1> QED BY <1>6, <1>7
-----------------------------------------------------------------------------
\* The listing x has the entries for itself and its parent, and those of F.
DotsAre(x, c, p, m, F) ==
  /\ IsSeq(x) /\ Len(x) = m + 2
  /\ SlotsOf(x) = {Slot(".", TRUE, c, 0), Slot("..", TRUE, p, 0)}
                    \cup {F[i] : i \in 1..m}

\* Directories with their "." and "..".
LEMMA DotsSlots ==
  ASSUME NEW c, NEW p, NEW m \in Nat, NEW F, F = [i \in 1..m |-> F[i]],
         NEW x, x = Dots(c, p) \o F
  PROVE  DotsAre(x, c, p, m, F)
<1> DEFINE v == Slot(".", TRUE, c, 0)
           w == Slot("..", TRUE, p, 0)
           D == <<v, w>>
<1> HIDE DEF v, w
<1>1. IsSeq(D) /\ \A o : InSeq(D, o) <=> o = v \/ o = w
  BY PairHas
<1>2. IsSeq(F) /\ Len(F) = m /\ \A o : InSeq(F, o) <=> \E i \in 1..m : F[i] = o
  BY TableSeq
<1>3. Len(D) = 2 /\ D \in Seq({v, w})
  OBVIOUS
<1>4. x = D \o F
  BY DEF Dots, v, w
<1> HIDE DEF D
<1>5. IsSeq(D \o F) /\ \A o : InSeq(D \o F, o) <=> InSeq(D, o) \/ InSeq(F, o)
  BY <1>1, <1>2, ConcatHas
<1>6. Len(D \o F) = m + 2
  <2>1. PICK V : F \in Seq(V)
    BY <1>2 DEF IsSeq
  <2> DEFINE U == {v, w} \cup V
  <2>2. D \in Seq(U) /\ F \in Seq(U)
    BY <1>3, <2>1
  <2> HIDE DEF U
  <2>3. Len(D \o F) = Len(D) + Len(F)
    BY <2>2, ConcatProperties
  <2> QED BY <1>2, <1>3, <2>3
<1>7. \A o : o \in SlotsOf(x) <=> InSeq(x, o)
  BY DEF SlotsOf, InSeq
<1>8. SlotsOf(x) = {v, w} \cup {F[i] : i \in 1..m}
  <2>1. \A o : o \in SlotsOf(x) <=> o = v \/ o = w \/ \E i \in 1..m : F[i] = o
    <3>1. \A o : InSeq(F, o) <=> \E i \in 1..m : F[i] = o
      BY <1>2
    <3>2. \A o : o \in SlotsOf(x) <=> InSeq(D, o) \/ InSeq(F, o)
      BY <1>4, <1>5, <1>7
    <3> QED BY <1>1, <3>1, <3>2
  <2>2. \A o : o \in {v, w} \cup {F[i] : i \in 1..m}
                <=> o = v \/ o = w \/ \E i \in 1..m : F[i] = o
    OBVIOUS
  <2> QED BY <2>1, <2>2
<1> QED BY <1>4, <1>5, <1>6, <1>8 DEF v, w, DotsAre

\* A directory of its own: one cluster, itself and its parent first.
LEMMA DirWhole ==
  ASSUME NEW c \in Nat, c >= 2, NEW p, NEW X,
         DirOf(c) = {Slot(".", TRUE, c, 0), Slot("..", TRUE, p, 0)} \cup X,
         \A x \in X : x.name \notin {".", ".."}, FatOf(c) = Eoc
  PROVE  WholeDir(c, p)
<1>1. HasChain(c, 1)
  BY OneChain
<1> DEFINE v == Slot(".", TRUE, c, 0)
           w == Slot("..", TRUE, p, 0)
<1>2. v.name = "." /\ w.name = ".." /\ v.first = c /\ w.first = p
  BY DEF Slot
<1> HIDE DEF v, w
<1>3. DirOf(c) = {v, w} \cup X
  BY DEF v, w
<1>4. Named(c, ".") = {v}
  BY <1>2, <1>3 DEF Named
<1>5. Named(c, "..") = {w}
  BY <1>2, <1>3 DEF Named
<1> QED BY <1>1, <1>2, <1>4, <1>5 DEF WholeDir

\* A file that is there is read whole.
LEMMA FileWhole ==
  ASSUME NEW k, NEW n, Reads(k, n), NEW c \in Nat, c >= 2, NEW d, NEW f, f.secs \in Nat,
         FileThere(hdd, <<>>, k, n, d, f, c),
         NEW s, s.first = FirstOf(c, Ceil(f.secs, k)), s.secs = f.secs, s.name = f.name
  PROVE  WholeFile(s, d)
<1> DEFINE m == Ceil(f.secs, k)
<1>1. k \in Nat \ {0} /\ n \in Nat /\ Start(k, n, c) \in Int /\ Vbr.spc = k
  <2>1. k \in Nat \ {0} /\ n \in Nat /\ Vbr.spc = k
    BY DEF Reads
  <2>2. c \in Int
    OBVIOUS
  <2> QED BY <2>1, <2>2, StartIs
<1>2. m \in Nat /\ f.secs <= m * k /\ (f.secs > 0 => m > 0)
  BY <1>1, CeilIs
<1>3. Chained(c, m)
  BY WillDone, ReadsIs DEF Chained, FileThere
<1> HIDE DEF m
<1>4. HasChain(s.first, m)
  BY <1>2, <1>3, ChainHas DEF m
<1>5. ASSUME NEW i \in 1..s.secs
      PROVE  ChainSector(s.first, i - 1) = FileSector(d, s.name, i)
  <2> DEFINE q == (i - 1) \div k
             r == (i - 1) % k
  <2>1. i - 1 \in Nat /\ i <= f.secs /\ f.secs > 0
    OBVIOUS
  <2>2. q \in Nat /\ r \in 0..k - 1 /\ i - 1 = k * q + r
    BY <1>1, <2>1, DivMod
  <2>3. q < m
    <3>1. i - 1 < m * k
      <4> DEFINE z == m * k
      <4>1. z \in Nat /\ f.secs <= z
        BY <1>1, <1>2
      <4> HIDE DEF z
      <4>2. i - 1 < z
        BY <2>1, <4>1
      <4> QED BY <4>2 DEF z
    <3> QED BY <1>1, <1>2, <2>1, <3>1, DivLess
  <2>4. s.first = c
    BY <1>2, <2>1 DEF FirstOf, m
  <2> HIDE DEF q, r
  <2>5. Along(c, q) = c + q
    <3>1. q \in 0..m /\ ~(q = m)
      BY <1>2, <2>2, <2>3
    <3> QED BY <1>2, <1>3, <3>1, AlongChain
  <2>6. ChainSector(c, i - 1) = Sec(hdd, Start(k, n, c + q) + r)
    BY <1>1, <2>5, ReadsIs DEF ChainSector, q, r
  <2>7. Start(k, n, c + q) + r = Start(k, n, c) + i - 1
    <3>1. Start(k, n, c + q) = Start(k, n, c) + q * k
      <4>1. c \in Int /\ q \in Int /\ k \in Nat \ {0} /\ n \in Nat
        BY <1>1, <2>2
      <4> QED BY <4>1, StartPlus, Zenon
    <3>2. q * k \in Nat /\ q * k = k * q
      BY <1>1, <2>2
    <3> DEFINE z == k * q
    <3> HIDE DEF z
    <3>3. z \in Nat /\ i - 1 = z + r /\ Start(k, n, c + q) = Start(k, n, c) + z
      BY <2>2, <3>1, <3>2 DEF z
    <3> QED BY <1>1, <2>1, <2>2, <3>3
  <2>8. Sec(hdd, Start(k, n, c) + i - 1) = FileSector(d, f.name, i)
    BY WillDone DEF FileThere
  <2> QED BY <2>4, <2>6, <2>7, <2>8
<1> QED BY <1>1, <1>4, <1>5 DEF WholeFile, m
-----------------------------------------------------------------------------
(* A whole installation, as it is read.                                     *)

Holds(k, n, d, e, us, pw) ==
  /\ Installable /\ k \in Nat \ {0} /\ n \in Nat
  /\ Len(BinFiles(e)) + 2 <= DirSlots * k
  /\ Installed(hdd, size, k, n, d, e, us, pw)

\* A whole installation, read by the boot loader and by the kernel.
LEMMA HoldsReads ==
  ASSUME NEW k, NEW n, NEW d, NEW e, NEW us, NEW pw, Holds(k, n, d, e, us, pw)
  PROVE  /\ Reads(k, n) /\ Vbr = VbrSec(size, k, n)
         /\ d \in KernelDisks /\ e \in ProgramDisks /\ UsersOK(us)
         /\ HddSec(0) = MbrSec(size)
<1>1. /\ Sec(hdd, 0) = MbrSec(size) /\ Sec(hdd, PartStart) = VbrSec(size, k, n)
      /\ d \in KernelDisks /\ e \in ProgramDisks /\ UsersOK(us)
      /\ k \in Nat \ {0} /\ n \in Nat
  BY DEF Holds, Installed
<1>2. \A l : HddSec(l) = Sec(hdd, l)
  BY DEF HddSec, Sec
<1>3. Vbr = VbrSec(size, k, n)
  BY <1>1, <1>2 DEF Vbr
<1> QED BY <1>1, <1>2, <1>3 DEF Reads, VbrSec

\* The root directory lists the kernel and the three directories.
LEMMA RootHolds ==
  ASSUME NEW k, NEW n, NEW d, NEW e, NEW us, NEW pw, Holds(k, n, d, e, us, pw)
  PROVE  LET u == UsersAt(d, e, k) IN
         /\ Slot("KERNEL.BIN", FALSE, 3, d.kernel.secs) \in Named(2, "KERNEL.BIN")
         /\ Slot("BIN", TRUE, BinAt(d, k), 0) \in Named(2, "BIN")
         /\ Slot("ETC", TRUE, u, 0) \in Named(2, "ETC")
         /\ Slot("HOME", TRUE, u + 1, 0) \in Named(2, "HOME")
<1> DEFINE a == FullPlan(d, e, k, us)
           x == RootSlots(a)
<1>1. Reads(k, n) /\ d \in KernelDisks /\ e \in ProgramDisks /\ UsersOK(us)
  BY HoldsReads
<1>2. Cluster(hdd, <<>>, k, n, 2, DirSector(x))
  BY DEF Holds, Installed
<1>3. /\ a.kernel = 3 /\ a.ksecs = d.kernel.secs /\ a.bin = BinAt(d, k)
      /\ a.etc = UsersAt(d, e, k) /\ a.home = UsersAt(d, e, k) + 1
  BY <1>1, PlanIs DEF Holds
<1> HIDE DEF a
<1>4. /\ x = <<Slot("KERNEL.BIN", FALSE, 3, d.kernel.secs), Slot("BIN", TRUE, BinAt(d, k), 0),
               Slot("ETC", TRUE, UsersAt(d, e, k), 0),
               Slot("HOME", TRUE, UsersAt(d, e, k) + 1, 0)>>
  BY <1>3 DEF RootSlots
<1> HIDE DEF x
<1>5. DirOf(2) = SlotsOf(x)
  BY <1>1, <1>2, ClusterDir
<1>6. /\ x[1] = Slot("KERNEL.BIN", FALSE, 3, d.kernel.secs)
      /\ x[2] = Slot("BIN", TRUE, BinAt(d, k), 0)
      /\ x[3] = Slot("ETC", TRUE, UsersAt(d, e, k), 0)
      /\ x[4] = Slot("HOME", TRUE, UsersAt(d, e, k) + 1, 0)
      /\ Len(x) = 4
  BY <1>4
<1>7. x[1] \in SlotsOf(x) /\ x[2] \in SlotsOf(x) /\ x[3] \in SlotsOf(x) /\ x[4] \in SlotsOf(x)
  <2>1. 1 \in 1..Len(x) /\ 2 \in 1..Len(x) /\ 3 \in 1..Len(x) /\ 4 \in 1..Len(x)
    BY <1>6
  <2> QED BY <2>1 DEF SlotsOf
<1>8. /\ x[1].name = "KERNEL.BIN" /\ x[2].name = "BIN" /\ x[3].name = "ETC"
      /\ x[4].name = "HOME"
  BY <1>6 DEF Slot
<1>9. /\ x[1] \in Named(2, "KERNEL.BIN") /\ x[2] \in Named(2, "BIN")
      /\ x[3] \in Named(2, "ETC") /\ x[4] \in Named(2, "HOME")
  BY <1>5, <1>7, <1>8 DEF Named
<1> QED BY <1>6, <1>9

\* The kernel: its file, and what it takes to boot it.
LEMMA KernelHolds ==
  ASSUME NEW k, NEW n, NEW d, NEW e, NEW us, NEW pw, Holds(k, n, d, e, us, pw)
  PROVE  KernelBoots /\ WholeKernel
<1> DEFINE s == Slot("KERNEL.BIN", FALSE, 3, d.kernel.secs)
           m == Ceil(d.kernel.secs, k)
<1>1. /\ Reads(k, n) /\ Vbr = VbrSec(size, k, n) /\ d \in KernelDisks
      /\ e \in ProgramDisks /\ HddSec(0) = MbrSec(size) /\ k \in Nat \ {0} /\ n \in Nat
      /\ Vbr.spc = k
  BY HoldsReads DEF Reads
<1>2. /\ d \in Floppies /\ d.kernel.kind = "file" /\ d.kernel.name = "KERNEL.BIN"
      /\ d.kernel.secs \in Nat \ {0} /\ d.stage2 \in Nat \ {0}
  BY <1>1 DEF Holds, Installable, SourcesOK, KernelDiskOK, KernelDisks, Verified
<1>3. s \in Named(2, "KERNEL.BIN")
  BY RootHolds
<1>4. FileThere(hdd, <<>>, k, n, d, d.kernel, 3) /\ Stage2There(hdd, <<>>, n, d)
  BY DEF Holds, Installed
<1>5. m \in Nat /\ m > 0
  BY <1>1, <1>2, CeilNat
<1>6. s.name = d.kernel.name /\ s.secs = d.kernel.secs /\ s.first = 3 /\ FirstOf(3, m) = 3
  <2>1. s.name = "KERNEL.BIN" /\ s.secs = d.kernel.secs /\ s.first = 3
    BY DEF Slot
  <2> HIDE DEF m, s
  <2> QED BY <1>2, <1>5, <2>1 DEF FirstOf
<1> HIDE DEF s
<1>7. WholeFile(s, d)
  <2>1. s.first = FirstOf(3, Ceil(d.kernel.secs, k)) /\ 3 \in Nat /\ 3 >= 2
        /\ d.kernel.secs \in Nat
    BY <1>2, <1>6
  <2> QED BY <1>1, <1>4, <1>6, <2>1, FileWhole
<1>8. \A i \in 1..d.stage2 : HddSec(PartStart + 1 + i) = FileSector(d, "stage2", i)
  BY <1>1, <1>4, WillDone, ReadsIs DEF Stage2There
<1>9. WholeKernel
  BY <1>2, <1>3, <1>6, <1>7, <1>8 DEF WholeKernel
<1>10. HddSec(PartStart + 2).k = "file"
  <2>1. 1 \in 1..d.stage2 /\ PartStart + 1 + 1 = PartStart + 2
    BY <1>2, Sizes
  <2>2. HddSec(PartStart + 2) = FileSector(d, "stage2", 1)
    BY <1>8, <2>1
  <2> QED BY <2>2 DEF FileSector
<1>11. FatOf(s.first) # Free
  <2>1. Ent(hdd, 3) # Free
    BY <1>1, InstalledLinked DEF Holds
  <2> QED BY <1>1, <1>6, <2>1, ReadsIs
<1>12. \A i \in 1..m - 1 : Along(s.first, i) # Eoc
  <2>1. Chained(3, m)
    BY <1>1, <1>4, WillDone, ReadsIs DEF Chained, FileThere
  <2> SUFFICES ASSUME NEW i \in 1..m - 1 PROVE Along(s.first, i) # Eoc
    OBVIOUS
  <2>2. i \in 0..m /\ ~(i = m) /\ 3 + i # -1
    BY <1>5
  <2> HIDE DEF m
  <2>3. Along(3, i) = 3 + i
    BY <1>5, <2>1, <2>2, AlongChain
  <2> QED BY <1>6, <2>2, <2>3 DEF Eoc
<1>13. HddSec(0).k = "mbr" /\ Vbr.k = "vbr"
  BY <1>1 DEF MbrSec, VbrSec
<1>14. KernelBoots
  BY <1>1, <1>3, <1>6, <1>10, <1>11, <1>12, <1>13 DEF KernelBoots
<1> QED BY <1>9, <1>14
-----------------------------------------------------------------------------
\* A directory of one cluster that spreads its slots over the sectors.
LEMMA SpreadDir ==
  ASSUME NEW k, NEW n, Reads(k, n), NEW c \in Int, NEW x, IsSeq(x), Len(x) <= DirSlots * k,
         \A i \in 1..k : Sec(hdd, Start(k, n, c) + i - 1) = DirSector(SectorOf(x, i))
  PROVE  DirOf(c) = SlotsOf(x)
<1>1. k \in Nat \ {0} /\ n \in Nat
  BY DEF Reads
<1>2. Start(k, n, c) \in Int
  BY <1>1, StartIs
<1>3. \A i : HddSec(DiskLba(c) + i) = Sec(hdd, Start(k, n, c) + i)
  BY ReadsIs
<1>4. ASSUME NEW i \in 1..k PROVE SlotsIn(c, i - 1) = SlotsOf(SectorOf(x, i))
  <2>1. Start(k, n, c) + (i - 1) = Start(k, n, c) + i - 1
    BY <1>2
  <2>2. HddSec(DiskLba(c) + (i - 1)) = DirSector(SectorOf(x, i))
    BY <1>3, <2>1
  <2> QED BY <2>2, SectorSlots
<1>5. UNION {SlotsOf(SectorOf(x, i)) : i \in 1..k} = SlotsOf(x)
  <2>1. PICK U : x \in Seq(U)
    BY DEF IsSeq
  <2> QED BY <1>1, <2>1, SlotsSpread
<1>6. UNION {SlotsIn(c, i) : i \in 0..k - 1} = UNION {SlotsOf(SectorOf(x, i)) : i \in 1..k}
  <2>1. \A i \in 0..k - 1 : i + 1 \in 1..k /\ (i + 1) - 1 = i
    BY <1>1
  <2>2. \A i \in 1..k : i - 1 \in 0..k - 1
    BY <1>1
  <2>3. \A i \in 0..k - 1 : SlotsIn(c, i) = SlotsOf(SectorOf(x, i + 1))
    BY <1>4, <2>1
  <2> QED BY <1>4, <2>1, <2>2, <2>3
<1> QED BY <1>5, <1>6, DirIs

\* BIN: its listing, and the files.
LEMMA BinHolds ==
  ASSUME NEW k, NEW n, NEW d, NEW e, NEW us, NEW pw, Holds(k, n, d, e, us, pw)
  PROVE  WholeBin
<1> DEFINE a == FullPlan(d, e, k, us)
           m == Len(BinFiles(e))
           b == BinAt(d, k)
           f(i) == BinFiles(e)[i]
           c(i) == FileAt(d, e, k, i)
           F == [i \in 1..m |-> Slot(f(i).name, FALSE, a.files[i], f(i).secs)]
           x == BinSlots(e, a)
<1>1. /\ Reads(k, n) /\ d \in KernelDisks /\ e \in ProgramDisks /\ UsersOK(us)
      /\ k \in Nat \ {0} /\ n \in Nat /\ Installable
  BY HoldsReads DEF Holds
<1>2. /\ a.bin = b /\ b \in Nat /\ b >= 4 /\ m \in Nat
      /\ \A i \in 1..m : a.files[i] = FirstOf(c(i), Ceil(f(i).secs, k))
  BY <1>1, PlanIs
<1>3. /\ WillLink(hdd, <<>>, n, a.bin, Eoc) /\ BinThere(hdd, <<>>, k, n, e, a)
      /\ FilesThere(hdd, <<>>, k, n, d, e, m) /\ m + 2 <= DirSlots * k
  BY DEF Holds, Installed
<1>4. \A i \in 1..m : f(i).secs \in Nat /\ f(i).name \notin {".", ".."}
  BY <1>1, BinFilesAre
<1>5. \A i \in 1..m : c(i) \in Nat /\ c(i) > b
  <2>1. \A i \in 1..m + 1 : c(i) \in Nat /\ c(i) > b
    BY <1>1, FilesOrder
  <2> HIDE DEF m, c, b
  <2> QED BY <1>2, <2>1
<1>6. x = Dots(a.bin, 0) \o F
  BY DEF BinSlots
<1>7. /\ F = [i \in 1..m |-> F[i]]
      /\ \A i \in 1..m : /\ F[i].name = f(i).name /\ F[i].secs = f(i).secs
                         /\ F[i].first = FirstOf(c(i), Ceil(f(i).secs, k))
  BY <1>2 DEF Slot
<1> HIDE DEF F, x, a, b, f, c
<1>8. /\ IsSeq(x) /\ Len(x) = m + 2
      /\ SlotsOf(x) = {Slot(".", TRUE, b, 0), Slot("..", TRUE, 0, 0)} \cup {F[i] : i \in 1..m}
  <2>1. x = Dots(b, 0) \o F
    BY <1>2, <1>6
  <2>2. m \in Nat /\ F = [i \in 1..m |-> F[i]]
    BY <1>2, <1>7
  <2> HIDE DEF m
  <2>3. DotsAre(x, b, 0, m, F)
    BY <2>1, <2>2, DotsSlots
  <2> QED BY <2>3 DEF DotsAre
<1>9. DirOf(b) = SlotsOf(x)
  <2>1. \A i \in 1..k : Sec(hdd, Start(k, n, b) + i - 1) = DirSector(SectorOf(x, i))
    BY <1>2, <1>3, WillDone DEF BinThere, x
  <2>2. Len(x) <= DirSlots * k /\ b \in Int
    BY <1>2, <1>3, <1>8
  <2> QED BY <1>1, <1>8, <2>1, <2>2, SpreadDir
<1>10. WholeDir(b, 0)
  <2>1. FatOf(b) = Eoc
    BY <1>1, <1>2, <1>3, WillDone, ReadsIs
  <2>2. \A s \in {F[i] : i \in 1..m} : s.name \notin {".", ".."}
    BY <1>4, <1>7
  <2>3. b >= 2
    BY <1>2
  <2> QED BY <1>2, <1>8, <1>9, <2>1, <2>2, <2>3, DirWhole
<1>11. ASSUME NEW g \in Plain(e), g.kind = "file"
       PROVE  \E s \in Named(b, g.name) : s.secs = g.secs /\ WholeFile(s, e)
  <2>1. PICK i \in 1..m : f(i) = g
    BY <1>1, <1>11 DEF Installable, SourcesOK, ProgramDiskOK, f
  <2>2. F[i] \in Named(b, g.name)
    BY <1>7, <1>8, <1>9, <2>1 DEF Named
  <2>3. FileThere(hdd, <<>>, k, n, e, f(i), c(i))
    BY <1>3 DEF FilesThere, f, c
  <2>4. c(i) >= 2 /\ c(i) \in Nat /\ f(i).secs \in Nat
    BY <1>2, <1>4, <1>5
  <2>5. WholeFile(F[i], e)
    BY <1>1, <1>7, <2>3, <2>4, FileWhole
  <2> QED BY <1>7, <2>1, <2>2, <2>5
<1>12. e \in Floppies /\ e.bin.kind = "dir"
  BY <1>1 DEF ProgramDisks, HasPrograms
<1>13. \E s \in Named(2, "BIN") : s.first = b
  <2>1. Slot("BIN", TRUE, b, 0) \in Named(2, "BIN")
    BY RootHolds DEF b
  <2>2. Slot("BIN", TRUE, b, 0).first = b
    BY DEF Slot
  <2> QED BY <2>1, <2>2
<1> QED BY <1>10, <1>11, <1>12, <1>13 DEF WholeBin
-----------------------------------------------------------------------------
\* PASSWD has one line to a name.
LEMMA PasswdIs ==
  ASSUME NEW us, UsersOK(us), NEW pw
  PROVE  LET t == Passwd(us, pw) IN
         /\ Len(us) \in Nat /\ Len(t) = Len(us) + 1
         /\ t[1].name = ROOT /\ t[1].uid = 0 /\ t[1].pass = pw
         /\ \A i \in 1..Len(us) : /\ t[i + 1].name = us[i].name /\ t[i + 1].uid = i
                                  /\ t[i + 1].home = us[i].name
                                  /\ t[i + 1].pass = us[i].pass
<1> DEFINE m == Len(us)
           h == Line(ROOT, 0, "", pw)
           G == [i \in 1..m |-> Line(us[i].name, Uid(i), us[i].name, us[i].pass)]
           t == Passwd(us, pw)
<1>1. m \in Nat
  BY LenProperties DEF UsersOK
<1>2. t = <<h>> \o G
  BY DEF Passwd
<1>3. /\ h.name = ROOT /\ h.uid = 0 /\ h.pass = pw
      /\ \A i \in 1..m : /\ G[i].name = us[i].name /\ G[i].uid = i
                         /\ G[i].home = us[i].name /\ G[i].pass = us[i].pass
  BY DEF Line, Uid
<1>4. G = [i \in 1..m |-> G[i]]
  OBVIOUS
<1> HIDE DEF G, h, t
<1>5. IsSeq(G) /\ Len(G) = m
  BY <1>1, <1>4, TableSeq
<1>6. PICK V : G \in Seq(V)
  BY <1>5 DEF IsSeq
<1> DEFINE U == {h} \cup V
<1>7. <<h>> \in Seq(U) /\ G \in Seq(U) /\ Len(<<h>>) = 1 /\ <<h>>[1] = h
  BY <1>6
<1> HIDE DEF U
<1>8. /\ Len(t) = 1 + m
      /\ \A i \in 1..1 + m : t[i] = IF i <= 1 THEN <<h>>[i] ELSE G[i - 1]
  <2>1. /\ Len(<<h>> \o G) = Len(<<h>>) + Len(G)
        /\ \A i \in 1..Len(<<h>>) + Len(G) : (<<h>> \o G)[i] =
             IF i <= Len(<<h>>) THEN <<h>>[i] ELSE G[i - Len(<<h>>)]
    BY <1>7, ConcatProperties
  <2> QED BY <1>2, <1>5, <1>7, <2>1
<1>9. t[1] = h /\ \A i \in 1..m : t[i + 1] = G[i]
  <2>1. 1 \in 1..1 + m /\ \A i \in 1..m : /\ i + 1 \in 1..1 + m /\ ~(i + 1 <= 1)
                                          /\ (i + 1) - 1 = i
    BY <1>1
  <2> HIDE DEF m
  <2> QED BY <1>7, <1>8, <2>1
<1>10. Len(t) = m + 1
  BY <1>1, <1>8
<1> QED BY <1>1, <1>3, <1>9, <1>10 DEF t

LEMMA FirstSector ==
  ASSUME NEW k, NEW n, Reads(k, n), NEW c \in Nat, NEW y, FatOf(c) = Eoc,
         Cluster(hdd, <<>>, k, n, c, y)
  PROVE  ChainSector(c, 0) = y
<1>1. k \in Nat \ {0} /\ n \in Nat /\ Vbr.spc = k
  BY DEF Reads
<1>2. Start(k, n, c) \in Int /\ c \in Int
  BY <1>1, StartIs
<1>3. Along(c, 0) = c
  <2>1. Chained(c, 1)
    BY DEF Chained
  <2>2. 0 \in 0..1 /\ ~(0 = 1) /\ c + 0 = c
    OBVIOUS
  <2> QED BY <2>1, <2>2, AlongChain
<1>4. 0 \div k = 0 /\ 0 % k = 0
  BY <1>1
<1>5. ChainSector(c, 0) = Sec(hdd, Start(k, n, c) + 0)
  BY <1>1, <1>3, <1>4, ReadsIs DEF ChainSector
<1>6. 1 \in 1..k /\ Start(k, n, c) + 1 - 1 = Start(k, n, c) + 0
  BY <1>1, <1>2
<1> QED BY <1>5, <1>6, WillDone DEF Cluster
-----------------------------------------------------------------------------
\* The clusters of the accounts, as they are read.
AccountsRead(u, us, pw) ==
  /\ u \in Nat /\ u >= 4 /\ UsersOK(us) /\ Len(us) \in Nat
  /\ Slot("ETC", TRUE, u, 0) \in Named(2, "ETC")
  /\ Slot("HOME", TRUE, u + 1, 0) \in Named(2, "HOME")
  /\ \A c \in u..u + 2 + Len(us) : FatOf(c) = Eoc
  /\ DirOf(u) = {Slot(".", TRUE, u, 0), Slot("..", TRUE, 0, 0)}
                  \cup {Slot("PASSWD", FALSE, u + 2, 1)}
  /\ DirOf(u + 1) = {Slot(".", TRUE, u + 1, 0), Slot("..", TRUE, 0, 0)}
                      \cup {Slot(us[i].name, TRUE, u + 2 + i, 0) : i \in 1..Len(us)}
  /\ \A i \in 1..Len(us) :
       DirOf(u + 2 + i) = {Slot(".", TRUE, u + 2 + i, 0), Slot("..", TRUE, u + 1, 0)}
                            \cup {}
  /\ ChainSector(u + 2, 0) = PasswdSector(Passwd(us, pw))

\* The accounts of an installation are those entered.
LEMMA AccountsHold ==
  ASSUME NEW k, NEW n, NEW d, NEW e, NEW us, NEW pw, Holds(k, n, d, e, us, pw)
  PROVE  AccountsRead(UsersAt(d, e, k), us, pw)
<1> DEFINE a == FullPlan(d, e, k, us)
           u == UsersAt(d, e, k)
           m == Len(us)
<1>1. /\ Reads(k, n) /\ d \in KernelDisks /\ e \in ProgramDisks /\ UsersOK(us)
      /\ k \in Nat \ {0} /\ n \in Nat /\ Installable
  BY HoldsReads DEF Holds
<1>2. /\ a.etc = u /\ a.home = u + 1 /\ a.passwd = u + 2 /\ m \in Nat /\ u \in Nat
      /\ u >= 4 /\ \A i \in 1..m : a.homes[i] = u + 2 + i
  <2>1. /\ a.etc = u /\ a.home = u + 1 /\ a.passwd = u + 2 /\ m \in Nat /\ u \in Nat
        /\ BinAt(d, k) \in Nat /\ BinAt(d, k) >= 4 /\ u > BinAt(d, k)
        /\ \A i \in 1..m : a.homes[i] = u + 2 + i
    BY <1>1, PlanIs
  <2> HIDE DEF a, u, m
  <2> QED BY <2>1
<1>3. UserLinks(hdd, <<>>, n, us, a) /\ UserData(hdd, <<>>, k, n, us, pw, a)
  BY DEF Holds, Installed
<1>4. /\ Slot("ETC", TRUE, u, 0) \in Named(2, "ETC")
      /\ Slot("HOME", TRUE, u + 1, 0) \in Named(2, "HOME")
  BY RootHolds
<1> HIDE DEF a, u
<1>5. /\ FatOf(u) = Eoc /\ FatOf(u + 1) = Eoc /\ FatOf(u + 2) = Eoc
      /\ \A i \in 1..m : FatOf(u + 2 + i) = Eoc
  BY <1>1, <1>2, <1>3, WillDone, ReadsIs DEF UserLinks
<1>6. \A c \in u..u + 2 + m : FatOf(c) = Eoc
  <2> SUFFICES ASSUME NEW c \in u..u + 2 + m PROVE FatOf(c) = Eoc
    OBVIOUS
  <2>1. c = u \/ c = u + 1 \/ c = u + 2 \/ \E i \in 1..m : c = u + 2 + i
    <3>1. c - (u + 2) \in 1..m => c = u + 2 + (c - (u + 2))
      BY <1>2
    <3>2. c = u \/ c = u + 1 \/ c = u + 2 \/ c - (u + 2) \in 1..m
      BY <1>2
    <3> QED BY <3>1, <3>2
  <2> QED BY <1>5, <2>1
<1>7. /\ Cluster(hdd, <<>>, k, n, u + 2, PasswdSector(Passwd(us, pw)))
      /\ \A i \in 1..m : Cluster(hdd, <<>>, k, n, u + 2 + i, DirSector(Dots(u + 2 + i, u + 1)))
      /\ Cluster(hdd, <<>>, k, n, u + 1, DirSector(HomeSlots(us, a)))
      /\ Cluster(hdd, <<>>, k, n, u, DirSector(EtcSlots(a)))
  BY <1>2, <1>3 DEF UserData
<1>8. ChainSector(u + 2, 0) = PasswdSector(Passwd(us, pw))
  <2>1. u + 2 \in Nat
    BY <1>2
  <2> QED BY <1>1, <1>5, <1>7, <2>1, FirstSector
<1>9. DirOf(u) = {Slot(".", TRUE, u, 0), Slot("..", TRUE, 0, 0)}
                   \cup {Slot("PASSWD", FALSE, u + 2, 1)}
  <2> DEFINE s == Slot("PASSWD", FALSE, u + 2, 1)
             F == <<s>>
             x == EtcSlots(a)
  <2> HIDE DEF s
  <2>1. F = [i \in 1..1 |-> F[i]] /\ F[1] = s
    OBVIOUS
  <2>2. x = Dots(u, 0) \o F
    BY <1>2 DEF EtcSlots, s
  <2> HIDE DEF F, x
  <2>3. SlotsOf(x) = {Slot(".", TRUE, u, 0), Slot("..", TRUE, 0, 0)}
                       \cup {F[i] : i \in 1..1}
    <3>1. 1 \in Nat
      OBVIOUS
    <3>2. DotsAre(x, u, 0, 1, F)
      BY <2>1, <2>2, <3>1, DotsSlots
    <3> QED BY <3>2 DEF DotsAre
  <2>4. {F[i] : i \in 1..1} = {s}
    BY <2>1
  <2>5. DirOf(u) = SlotsOf(x)
    <3>1. u \in Int
      BY <1>2
    <3> QED BY <1>1, <1>7, <3>1, ClusterDir DEF x
  <2> QED BY <2>3, <2>4, <2>5 DEF s
<1>10. DirOf(u + 1) = {Slot(".", TRUE, u + 1, 0), Slot("..", TRUE, 0, 0)}
                        \cup {Slot(us[i].name, TRUE, u + 2 + i, 0) : i \in 1..m}
  <2> DEFINE F == [i \in 1..m |-> Slot(us[i].name, TRUE, a.homes[i], 0)]
             x == HomeSlots(us, a)
  <2>1. F = [i \in 1..m |-> F[i]] /\ \A i \in 1..m : F[i] = Slot(us[i].name, TRUE, u + 2 + i, 0)
    BY <1>2
  <2>2. x = Dots(u + 1, 0) \o F
    BY <1>2 DEF HomeSlots
  <2> HIDE DEF F, x
  <2>3. SlotsOf(x) = {Slot(".", TRUE, u + 1, 0), Slot("..", TRUE, 0, 0)}
                       \cup {F[i] : i \in 1..m}
    <3>1. m \in Nat
      BY <1>2
    <3> HIDE DEF m
    <3>2. DotsAre(x, u + 1, 0, m, F)
      BY <2>1, <2>2, <3>1, DotsSlots
    <3> QED BY <3>2 DEF DotsAre
  <2>4. {F[i] : i \in 1..m} = {Slot(us[i].name, TRUE, u + 2 + i, 0) : i \in 1..m}
    BY <2>1
  <2>5. DirOf(u + 1) = SlotsOf(x)
    <3>1. u + 1 \in Int
      BY <1>2
    <3> QED BY <1>1, <1>7, <3>1, ClusterDir DEF x
  <2> QED BY <2>3, <2>4, <2>5
<1>11. ASSUME NEW i \in 1..m
       PROVE  DirOf(u + 2 + i)
                = {Slot(".", TRUE, u + 2 + i, 0), Slot("..", TRUE, u + 1, 0)} \cup {}
  <2> DEFINE c == u + 2 + i
             p == u + 1
             v == Slot(".", TRUE, c, 0)
             w == Slot("..", TRUE, p, 0)
             x == <<v, w>>
  <2>1. c \in Int
    BY <1>2
  <2>2. Dots(c, p) = x
    BY DEF Dots
  <2> HIDE DEF v, w
  <2>3. SlotsOf(x) = {v, w}
    <3>1. \A o : InSeq(x, o) <=> o = v \/ o = w
      BY PairHas
    <3>2. \A o : o \in SlotsOf(x) <=> InSeq(x, o)
      BY DEF SlotsOf, InSeq
    <3> QED BY <3>1, <3>2
  <2>4. DirOf(c) = SlotsOf(x)
    <3> HIDE DEF x
    <3>1. Cluster(hdd, <<>>, k, n, c, DirSector(x))
      <4>1. Cluster(hdd, <<>>, k, n, c, DirSector(Dots(c, p)))
        BY <1>7
      <4> QED BY <2>2, <4>1
    <3> HIDE DEF c
    <3> QED BY <1>1, <2>1, <3>1, ClusterDir
  <2>5. {v, w} \cup {} = {v, w}
    OBVIOUS
  <2> QED BY <2>3, <2>4, <2>5 DEF v, w
<1> QED BY <1>1, <1>2, <1>4, <1>6, <1>8, <1>9, <1>10, <1>11 DEF AccountsRead, u
-----------------------------------------------------------------------------
\* The accounts us are in PASSWD, behind ROOT with the password pw.
Entered(us, pw) ==
  \E e \in Named(2, "ETC") : \E p \in Named(e.first, "PASSWD") :
    LET t == ChainSector(p.first, 0).lines IN
    /\ t[1].pass = pw /\ Len(t) = Len(us) + 1
    /\ \A i \in 1..Len(us) :
         t[i + 1].name = us[i].name /\ t[i + 1].pass = us[i].pass

LEMMA NamesOf ==
  ASSUME NEW us, UsersOK(us), NEW i \in 1..Len(us)
  PROVE  us[i].name \in Names
<1> DEFINE R == [name : Names, pass : Passwords]
<1>1. us \in Seq(R)
  BY DEF UsersOK
<1> HIDE DEF R
<1>2. us[i] \in R
  BY <1>1, ElementOfSeq
<1> QED BY <1>2 DEF R

\* No name and no uid twice.
LEMMA LinesDiffer ==
  ASSUME Installable, NEW us, UsersOK(us), NEW pw
  PROVE  LET t == Passwd(us, pw) IN
         \A i, j \in 1..Len(t) : i # j => t[i].uid # t[j].uid /\ t[i].name # t[j].name
<1> DEFINE t == Passwd(us, pw)
           m == Len(us)
<1>1. /\ m \in Nat /\ Len(t) = m + 1 /\ t[1].name = ROOT /\ t[1].uid = 0
      /\ \A i \in 1..m : t[i + 1].name = us[i].name /\ t[i + 1].uid = i
  BY PasswdIs
<1>2. \A i \in 1..m : us[i].name \in Names
  BY NamesOf
<1>3. ROOT \notin Names
  BY DEF Installable, SourcesOK
<1>4. \A i, j \in 1..m : i # j => us[i].name # us[j].name
  BY DEF UsersOK
<1> HIDE DEF t, m
<1>5. \A i \in 1..m + 1 : i = 1 \/ (i - 1 \in 1..m /\ (i - 1) + 1 = i)
  BY <1>1
<1>6. \A i \in 1..m + 1 : t[i].uid = i - 1
  <2>1. 1 - 1 = 0
    OBVIOUS
  <2> QED BY <1>1, <1>5, <2>1
<1> SUFFICES ASSUME NEW i \in 1..m + 1, NEW j \in 1..m + 1, i # j
             PROVE  t[i].uid # t[j].uid /\ t[i].name # t[j].name
  BY <1>1 DEF t
<1>7. t[i].uid # t[j].uid
  <2>1. i - 1 # j - 1
    BY <1>1
  <2> QED BY <1>6, <2>1
<1>8. t[i].name # t[j].name
  <2>1. CASE i = 1
    <3>1. j - 1 \in 1..m /\ (j - 1) + 1 = j
      BY <1>5, <2>1
    <3>2. t[j].name = us[j - 1].name
      BY <1>1, <3>1
    <3> QED BY <1>1, <1>2, <1>3, <2>1, <3>1, <3>2
  <2>2. CASE j = 1
    <3>1. i - 1 \in 1..m /\ (i - 1) + 1 = i
      BY <1>5, <2>2
    <3>2. t[i].name = us[i - 1].name
      BY <1>1, <3>1
    <3> QED BY <1>1, <1>2, <1>3, <2>2, <3>1, <3>2
  <2>3. CASE i # 1 /\ j # 1
    <3>1. /\ i - 1 \in 1..m /\ (i - 1) + 1 = i /\ j - 1 \in 1..m /\ (j - 1) + 1 = j
      BY <1>5, <2>3
    <3>2. i - 1 # j - 1
      BY <1>1
    <3>3. t[i].name = us[i - 1].name /\ t[j].name = us[j - 1].name
      BY <1>1, <3>1
    <3> QED BY <1>4, <3>1, <3>2, <3>3
  <2> QED BY <2>1, <2>2, <2>3
<1> QED BY <1>7, <1>8

\* Accounts that were entered have a line and a home each.
LEMMA AccountsWhole ==
  ASSUME Installable, NEW u, NEW us, NEW pw, AccountsRead(u, us, pw)
  PROVE  WholeAccounts /\ Entered(us, pw)
<1> DEFINE m == Len(us)
           q == Slot("PASSWD", FALSE, u + 2, 1)
           s(i) == Slot(us[i].name, TRUE, u + 2 + i, 0)
           t == Passwd(us, pw)
<1>1. u \in Nat /\ u >= 4 /\ UsersOK(us) /\ m \in Nat
  BY DEF AccountsRead
<1>2. PICK e \in Named(2, "ETC") : e.first = u
  <2>1. Slot("ETC", TRUE, u, 0) \in Named(2, "ETC")
    BY DEF AccountsRead
  <2>2. Slot("ETC", TRUE, u, 0).first = u
    BY DEF Slot
  <2> QED BY <2>1, <2>2
<1>3. PICK h \in Named(2, "HOME") : h.first = u + 1
  <2>1. Slot("HOME", TRUE, u + 1, 0) \in Named(2, "HOME")
    BY DEF AccountsRead
  <2>2. Slot("HOME", TRUE, u + 1, 0).first = u + 1
    BY DEF Slot
  <2> QED BY <2>1, <2>2
<1>4. \A i \in 1..m : us[i].name \in Names
  BY <1>1, NamesOf
<1>5. Names \cap {".", ".."} = {}
  BY DEF Installable, SourcesOK
<1>6. /\ q.name = "PASSWD" /\ q.first = u + 2
      /\ \A i \in 1..m : s(i).name = us[i].name /\ s(i).first = u + 2 + i
  BY DEF Slot
<1>7. /\ DirOf(u) = {Slot(".", TRUE, u, 0), Slot("..", TRUE, 0, 0)} \cup {q}
      /\ DirOf(u + 1) = {Slot(".", TRUE, u + 1, 0), Slot("..", TRUE, 0, 0)}
                          \cup {s(i) : i \in 1..m}
      /\ \A i \in 1..m :
           DirOf(u + 2 + i) = {Slot(".", TRUE, u + 2 + i, 0), Slot("..", TRUE, u + 1, 0)}
                                \cup {}
  BY DEF AccountsRead
<1>8. \A c \in u..u + 2 + m : FatOf(c) = Eoc
  BY DEF AccountsRead
<1>9. ChainSector(u + 2, 0).lines = t
  <2>1. ChainSector(u + 2, 0) = PasswdSector(t)
    BY DEF AccountsRead
  <2> QED BY <2>1 DEF PasswdSector
<1>10. /\ Len(t) = m + 1 /\ t[1].name = ROOT /\ t[1].uid = 0 /\ t[1].pass = pw
       /\ \A i \in 1..m : /\ t[i + 1].name = us[i].name /\ t[i + 1].home = us[i].name
                          /\ t[i + 1].pass = us[i].pass
  BY <1>1, PasswdIs
<1>11. \A i, j \in 1..Len(t) : i # j => t[i].uid # t[j].uid /\ t[i].name # t[j].name
  BY <1>1, LinesDiffer
<1> HIDE DEF q, s, t, m
<1>12. /\ u \in u..u + 2 + m /\ u + 1 \in u..u + 2 + m /\ u + 2 \in u..u + 2 + m
       /\ \A i \in 1..m : u + 2 + i \in u..u + 2 + m /\ u + 2 + i \in Nat /\ u + 2 + i >= 2
       /\ u + 1 \in Nat /\ u + 2 \in Nat /\ u >= 2 /\ u + 1 >= 2 /\ u + 2 >= 2
  BY <1>1
<1>13. WholeDir(u, 0)
  <2>1. \A x \in {q} : x.name \notin {".", ".."}
    BY <1>6
  <2>2. FatOf(u) = Eoc
    BY <1>8, <1>12
  <2>3. u \in Nat /\ u >= 2
        /\ DirOf(u) = {Slot(".", TRUE, u, 0), Slot("..", TRUE, 0, 0)} \cup {q}
    BY <1>1, <1>7, <1>12
  <2> QED BY <2>1, <2>2, <2>3, DirWhole, Zenon
<1>14. WholeDir(u + 1, 0)
  <2>1. \A x \in {s(i) : i \in 1..m} : x.name \notin {".", ".."}
    BY <1>4, <1>5, <1>6
  <2>2. FatOf(u + 1) = Eoc
    BY <1>8, <1>12
  <2> QED BY <1>7, <1>12, <2>1, <2>2, DirWhole
<1>15. ASSUME NEW i \in 1..m PROVE WholeDir(u + 2 + i, u + 1)
  <2>1. \A x \in {} : x.name \notin {".", ".."}
    OBVIOUS
  <2>2. FatOf(u + 2 + i) = Eoc /\ u + 2 + i \in Nat /\ u + 2 + i >= 2
    BY <1>8, <1>12
  <2>3. DirOf(u + 2 + i) = {Slot(".", TRUE, u + 2 + i, 0), Slot("..", TRUE, u + 1, 0)} \cup {}
    BY <1>7
  <2> DEFINE c == u + 2 + i
             p == u + 1
             X == {}
  <2>4. /\ c \in Nat /\ c >= 2 /\ FatOf(c) = Eoc
        /\ \A x \in X : x.name \notin {".", ".."}
        /\ DirOf(c) = {Slot(".", TRUE, c, 0), Slot("..", TRUE, p, 0)} \cup X
    BY <2>1, <2>2, <2>3
  <2> HIDE DEF c, p, X
  <2>5. WholeDir(c, p)
    BY <2>4, DirWhole, Zenon
  <2> QED BY <2>5 DEF c, p
<1>16. q \in Named(u, "PASSWD") /\ HasChain(u + 2, 1)
  <2>1. q \in Named(u, "PASSWD")
    BY <1>6, <1>7 DEF Named
  <2>2. FatOf(u + 2) = Eoc
    BY <1>8, <1>12
  <2> QED BY <1>12, <2>1, <2>2, OneChain
<1>17. ASSUME NEW i \in 2..Len(t)
       PROVE  \E x \in Named(u + 1, t[i].home) :
                /\ WholeDir(x.first, u + 1)
                /\ \A r \in DirOf(u + 1) : r # x => r.first # x.first
  <2>1. i - 1 \in 1..m /\ (i - 1) + 1 = i
    BY <1>1, <1>10
  <2> DEFINE j == i - 1
  <2>2. t[i].home = us[j].name
    BY <1>10, <2>1
  <2> HIDE DEF j
  <2>3. j \in 1..m
    BY <2>1 DEF j
  <2>4. s(j) \in Named(u + 1, us[j].name) /\ s(j).first = u + 2 + j
    BY <1>6, <1>7, <2>3 DEF Named
  <2>5. WholeDir(s(j).first, u + 1)
    BY <1>15, <2>3, <2>4
  <2>6. ASSUME NEW r \in DirOf(u + 1), r # s(j) PROVE r.first # s(j).first
    <3>1. CASE r = Slot(".", TRUE, u + 1, 0)
      <4>1. r.first = u + 1
        BY <3>1 DEF Slot
      <4>2. u + 1 # u + 2 + j
        BY <1>1, <2>3
      <4> QED BY <2>4, <4>1, <4>2
    <3>2. CASE r = Slot("..", TRUE, 0, 0)
      <4>1. r.first = 0
        BY <3>2 DEF Slot
      <4>2. 0 # u + 2 + j
        BY <1>1, <2>3
      <4> QED BY <2>4, <4>1, <4>2
    <3>3. CASE \E l \in 1..m : r = s(l)
      <4>1. PICK l \in 1..m : r = s(l)
        BY <3>3
      <4>2. l # j
        BY <2>6, <4>1
      <4>3. u + 2 + l # u + 2 + j
        BY <1>1, <2>3, <4>2
      <4> QED BY <1>6, <2>4, <4>1, <4>3
    <3> QED BY <1>7, <3>1, <3>2, <3>3
  <2> QED BY <2>2, <2>4, <2>5, <2>6
<1>18. WholeAccounts
  <2> DEFINE Lines(y) ==
         /\ y[1].name = ROOT /\ y[1].uid = 0
         /\ \A i, j \in 1..Len(y) : i # j => y[i].uid # y[j].uid /\ y[i].name # y[j].name
         /\ \A i \in 2..Len(y) : \E x \in Named(h.first, y[i].home) :
              /\ WholeDir(x.first, h.first)
              /\ \A r \in DirOf(h.first) : r # x => r.first # x.first
  <2>1. Lines(t)
    BY <1>3, <1>10, <1>11, <1>17
  <2> HIDE DEF Lines
  <2>2. Lines(ChainSector(q.first, 0).lines)
    BY <1>6, <1>9, <2>1
  <2>3. q \in Named(e.first, "PASSWD") /\ HasChain(q.first, 1)
    BY <1>2, <1>6, <1>16
  <2>4. WholeDir(e.first, 0) /\ WholeDir(h.first, 0)
    BY <1>2, <1>3, <1>13, <1>14
  <2> QED BY <2>2, <2>3, <2>4 DEF WholeAccounts, Lines
<1>19. Entered(us, pw)
  <2>1. q \in Named(e.first, "PASSWD") /\ ChainSector(q.first, 0).lines = t
    BY <1>2, <1>6, <1>9, <1>16
  <2> QED BY <1>10, <2>1 DEF Entered, m
<1> QED BY <1>18, <1>19

\* The kernel takes the volume for a FAT32.
LEMMA Mounts ==
  ASSUME NEW k, NEW n, Settled(size, k, n), size \in HddSizes, Vbr = VbrSec(size, k, n),
         Fat32Min <= MinClusters
  PROVE  MountsAsFat32
<1>1. /\ size \in Nat /\ k \in Nat \ {0} /\ n \in Nat /\ CountOf(size, k, n) \in Nat
      /\ CountOf(size, k, n) >= MinClusters
  BY LayNums
<1>2. /\ Vbr.total = size - PartStart /\ Vbr.spc = k /\ Vbr.fat = n
  BY DEF VbrSec
<1>3. PartStart \in Nat /\ Res \in Nat /\ Fat32Min \in Nat /\ MinClusters \in Nat
  BY Sizes
<1>4. Vbr.total - (DiskData - PartStart) = size - PartStart - Res - 2 * n
  BY <1>1, <1>2, <1>3 DEF DiskData
<1>5. CountOf(size, k, n) >= Fat32Min
  BY <1>1, <1>3
<1> QED BY <1>2, <1>4, <1>5 DEF MountsAsFat32, CountOf

\* What a disk that holds an installation gives.
LEMMA HoldsAll ==
  ASSUME NEW k, NEW n, NEW d, NEW e, NEW us, NEW pw, Holds(k, n, d, e, us, pw)
  PROVE  KernelBoots /\ SystemWhole /\ Entered(us, pw)
<1>1. WholeAccounts /\ Entered(us, pw)
  BY AccountsHold, AccountsWhole DEF Holds
<1> QED BY <1>1, KernelHolds, BinHolds DEF SystemWhole
-----------------------------------------------------------------------------
(* A disk that boots has the whole system.                                  *)

\* A root directory without a kernel to boot.
LEMMA BlankFails ==
  ASSUME NEW k, NEW n, Reads(k, n), RootBlank(hdd, k, n)
  PROVE  ~KernelBoots
<1>1. k \in Nat \ {0} /\ n \in Nat
  BY DEF Reads
<1>2. Start(k, n, 2) \in Int
  <2>1. 2 \in Int
    OBVIOUS
  <2> QED BY <1>1, <2>1, StartIs
<1>3. \A i \in 0..k - 1 : SlotsIn(2, i) = {}
  <2> SUFFICES ASSUME NEW i \in 0..k - 1 PROVE SlotsIn(2, i) = {}
    OBVIOUS
  <2>1. i + 1 \in 1..k /\ Start(k, n, 2) + (i + 1) - 1 = Start(k, n, 2) + i
    BY <1>1, <1>2
  <2>2. Sec(hdd, Start(k, n, 2) + i).k # "dir"
    BY <2>1 DEF RootBlank
  <2>3. HddSec(DiskLba(2) + i).k # "dir"
    BY <2>2, ReadsIs
  <2> QED BY <2>3, SectorSlots
<1>4. DirOf(2) = {}
  BY <1>3, DirIs
<1> QED BY <1>4 DEF KernelBoots, Named

\* With the FAT cleared, an old listing leads nowhere.
LEMMA OldFails ==
  ASSUME NEW k, NEW n, Reads(k, n), RootOld(hdd, k, n)
  PROVE  ~KernelBoots
<1>1. PICK a : a.kernel = 3 /\ Sec(hdd, Start(k, n, 2)) = DirSector(RootSlots(a))
  BY DEF RootOld
<1>2. Ent(hdd, 3) = Free /\ \A i \in 2..k : Sec(hdd, Start(k, n, 2) + i - 1).k # "dir"
  BY DEF RootOld
<1> DEFINE x == RootSlots(a)
<1>3. DirOf(2) = SlotsOf(x)
  <2>1. 2 \in Int
    OBVIOUS
  <2> HIDE DEF x
  <2> QED BY <1>1, <1>2, <2>1, DirOfCluster DEF x
<1>4. /\ x[1].first = 3 /\ x[2].name = "BIN" /\ x[3].name = "ETC" /\ x[4].name = "HOME"
      /\ Len(x) = 4
  BY <1>1 DEF RootSlots, Slot
<1> HIDE DEF x
<1>5. \A s \in Named(2, "KERNEL.BIN") : s.first = 3
  <2> SUFFICES ASSUME NEW s \in Named(2, "KERNEL.BIN") PROVE s.first = 3
    OBVIOUS
  <2>1. PICK j \in 1..Len(x) : s = x[j]
    BY <1>3 DEF Named, SlotsOf
  <2>2. s.name = "KERNEL.BIN"
    BY DEF Named
  <2>3. j = 1 \/ j = 2 \/ j = 3 \/ j = 4
    BY <1>4
  <2> QED BY <1>4, <2>1, <2>2, <2>3
<1>6. FatOf(3) = Free
  BY <1>2, ReadsIs
<1> QED BY <1>5, <1>6 DEF KernelBoots

\* An installation that is on the disk is complete.
LEMMA SoundComplete ==
  ASSUME Installable, size \in HddSizes, NEW k, NEW n, Settled(size, k, n),
         Sound(hdd, size, k, n)
  PROVE  BootsComplete
<1> SUFFICES ASSUME KernelBoots PROVE SystemWhole
  BY DEF BootsComplete
<1>1. k \in Nat \ {0} /\ n \in Nat
  BY LayNums
<1>2. Vbr = Sec(hdd, PartStart)
  BY DEF Vbr, HddSec, Sec
<1>3. Vbr.k = "vbr"
  BY DEF KernelBoots
<1>4. Vbr = VbrSec(size, k, n)
  BY <1>2, <1>3 DEF Sound
<1>5. Reads(k, n)
  BY <1>1, <1>4 DEF Reads, VbrSec
<1>6. ~RootBlank(hdd, k, n) /\ ~RootOld(hdd, k, n)
  BY <1>5, BlankFails, OldFails
<1>7. PICK d, e, us, pw : Installed(hdd, size, k, n, d, e, us, pw)
  BY <1>6 DEF Sound
<1>8. d \in KernelDisks /\ e \in ProgramDisks
  BY <1>7 DEF Installed
<1>9. Len(BinFiles(e)) + 2 <= DirSlots * k
  BY <1>8, RoomOf
<1>10. Holds(k, n, d, e, us, pw)
  BY <1>1, <1>7, <1>9 DEF Holds
<1> QED BY <1>10, HoldsAll

\* The invariant says of a disk that boots that it is complete.
LEMMA InvBoots ==
  ASSUME Installable, IInv
  PROVE  BootsComplete
<1>1. size \in HddSizes /\ DiskInv
  BY DEF IInv, TypeInv
<1>2. CASE hdd = <<>>
  <2>1. 0 \notin DOMAIN hdd
    BY <1>2
  <2>2. HddSec(0).k # "mbr"
    BY <2>1 DEF HddSec, Old
  <2> QED BY <2>2 DEF BootsComplete, KernelBoots
<1>3. CASE \E k, n : Settled(size, k, n) /\ Sound(hdd, size, k, n)
  BY <1>1, <1>3, SoundComplete
<1> QED BY <1>1, <1>2, <1>3 DEF DiskInv

\* An installation that ended is on the disk.
LEMMA InvComplete ==
  ASSUME Installable, IInv
  PROVE  Complete
<1> SUFFICES ASSUME pc = "done"
             PROVE  KernelBoots /\ SystemWhole /\ MountsAsFat32 /\ Entered(users, rootpw)
  BY DEF Complete, Entered
<1>1. P = 24
  BY PlaceIs DEF P
<1>2. PICK d : Running(d)
  BY LatePlace
<1>3. TypeInv /\ P > 8
  BY LatePlace
<1>4. /\ P > 9 /\ P > 10 /\ P > 13 /\ P > 15 /\ P > 18 /\ P > 19 /\ P > 20 /\ P > 21
      /\ P > 22 /\ P \in 18..24
  BY <1>1
<1>5. todo = <<>>
  BY <1>1, <1>2 DEF Running, OpsInv
<1>6. /\ BootFacts(d) /\ FileFacts(d) /\ PlanInv(d) /\ d \in KernelDisks
      /\ floppy \in ProgramDisks /\ UsersOK(users) /\ ~InSeq(todo, Fail)
  BY <1>2, <1>3, <1>4, <1>5, EmptyHas DEF Running, TypeInv
<1>7. at = FullPlan(d, floppy, spc, users)
  BY <1>4, <1>6 DEF PlanInv
<1>8. Len(at.files) = Len(BinFiles(floppy))
  BY <1>3, <1>4, <1>6, PlanNums
<1>9. /\ Sec(hdd, 0) = MbrSec(size) /\ Sec(hdd, PartStart) = VbrSec(size, spc, fatSecs)
      /\ Stage2There(hdd, <<>>, fatSecs, d)
  BY <1>4, <1>5, <1>6, WillDone DEF BootFacts
<1>10. /\ FileThere(hdd, <<>>, spc, fatSecs, d, d.kernel, 3)
       /\ WillLink(hdd, <<>>, fatSecs, at.bin, Eoc)
       /\ FilesThere(hdd, <<>>, spc, fatSecs, d, floppy, Len(at.files))
       /\ BinThere(hdd, <<>>, spc, fatSecs, floppy, at)
       /\ UserLinks(hdd, <<>>, fatSecs, users, at)
       /\ UserData(hdd, <<>>, spc, fatSecs, users, rootpw, at)
       /\ Cluster(hdd, <<>>, spc, fatSecs, 2, DirSector(RootSlots(at)))
  BY <1>4, <1>5, <1>6 DEF FileFacts
<1>11. Installed(hdd, size, spc, fatSecs, d, floppy, users, rootpw)
  BY <1>6, <1>7, <1>8, <1>9, <1>10 DEF Installed
<1>12. /\ Len(BinFiles(floppy)) + 2 <= DirSlots * spc
       /\ spc \in Nat \ {0} /\ fatSecs \in Nat /\ size \in HddSizes
       /\ Settled(size, spc, fatSecs)
  BY <1>3, <1>6, LaidNow, SettledNow
<1>13. Holds(spc, fatSecs, d, floppy, users, rootpw)
  BY <1>11, <1>12 DEF Holds
<1>14. MountsAsFat32
  <2>1. Vbr = VbrSec(size, spc, fatSecs)
    BY <1>13, HoldsReads
  <2>2. Fat32Min <= MinClusters
    BY DEF Installable, SourcesOK
  <2> QED BY <1>12, <2>1, <2>2, Mounts
<1> QED BY <1>13, <1>14, HoldsAll

\* BootsComplete: whenever the boot loader would find a kernel on the disk, an
\* installation that was cut short included, the kernel, BIN, PASSWD and the homes
\* are all there and whole: the root directory (write_root_dir_cluster_fat32) is
\* the last sector written.
THEOREM BootsWhole ==
  ASSUME Installable
  PROVE  Spec => []BootsComplete
<1>1. IInv => BootsComplete
  BY InvBoots
<1> QED BY <1>1, Inductive, PTL

\* Complete: an installer that says it is done (reboot_hdd_after_key) left a disk
\* that boots, that the kernel mounts as FAT32, and that has the accounts entered.
THEOREM EndsComplete ==
  ASSUME Installable
  PROVE  Spec => []Complete
<1>1. IInv => Complete
  BY InvComplete
<1> QED BY <1>1, Inductive, PTL
=============================================================================
