---------------------------- MODULE FatFsProofs ----------------------------
(***************************************************************************)
(* The file system, in four parts.  First its write-back cache: what the   *)
(* kernel reads through its one cached FAT sector is what the disk holds,  *)
(* in every copy of the FAT, except in the sector it has changed and not   *)
(* yet written.                                                            *)
(*                                                                         *)
(* Then the tree of files that FatFs keeps on the disk (FatFsTree), as     *)
(* long as no transfer fails and the power stays.  Every allocated cluster *)
(* is on one chain; every chain is named by one entry or belongs to the    *)
(* running call; and every chain holds what its entry says.  The witness   *)
(* of the shape is a function own that gives each cluster the head of its  *)
(* chain, a function rank that gives its place there, and a function lev   *)
(* that gives each directory its depth.  One lemma per action shows that   *)
(* the action keeps the shape.                                             *)
(*                                                                         *)
(* The third part derives the properties of FatFs from it, and the fourth  *)
(* that FatFs implements FileTree: the tree is drawn from the entries, and *)
(* every step maps to one of FileTree or to a stutter.                     *)
(***************************************************************************)
EXTENDS FatFsTree, Induction

\* The shapes of the variables that the argument indexes.
CacheTypeOK ==
  /\ fat = [k \in 1..NumFats |-> [c \in Clusters |-> fat[k][c]]]
  /\ cache = [c \in Clusters |-> cache[c]]
  /\ copy \in 1..NumFats
  /\ dirty \in BOOLEAN
  /\ crashed \in BOOLEAN

\* A flush under way blocks every other access to the cache.
FlushBlocks == copy # 1 => dirty /\ (Flushing \/ Evicting)

\* The copies already written hold the cached sector; a clean sector is held
\* by all.
WrittenCopies ==
  \A k \in 1..NumFats, c \in Clusters :
    (Cached(c) /\ (dirty => k < copy) /\ (crashed => k = 1))
      => fat[k][c] = cache[c]

\* Outside the cached sector the copies are the same.
UncachedAgree ==
  ~crashed => \A k \in 1..NumFats, c \in Clusters :
                ~Cached(c) => fat[k][c] = fat[1][c]

CacheInv == CacheTypeOK /\ FlushBlocks /\ WrittenCopies /\ UncachedAgree
-----------------------------------------------------------------------------
LEMMA SectorsFromOne == \A c \in Clusters : SectorOf(c) # NoSector
  BY FatAssumption DEF SectorOf, NoSector, Clusters

LEMMA FirstCopy == NumFats \in Nat /\ 1 \in 1..NumFats
  BY FatAssumption

\* The invariant holds of a mounted volume.
LEMMA InitCache == Init => CacheInv
<1> SUFFICES ASSUME Init PROVE CacheInv
  OBVIOUS
<1>1. CacheTypeOK
  <2>1. fat = [k \in 1..NumFats |-> [c \in Clusters |-> fat[k][c]]]
    BY DEF Init
  <2>2. cache = [c \in Clusters |-> cache[c]]
    BY DEF Init, NoCache
  <2> QED
    BY <2>1, <2>2, FirstCopy DEF Init, CacheTypeOK
<1>2. FlushBlocks
  BY DEF Init, FlushBlocks
<1>3. WrittenCopies
  BY SectorsFromOne DEF Init, WrittenCopies, Cached
<1>4. UncachedAgree
  BY FatAssumption DEF Init, UncachedAgree
<1> QED
  BY <1>1, <1>2, <1>3, <1>4 DEF CacheInv

\* The inductive invariant gives the property.
LEMMA CacheInvImplies == CacheInv => CacheCoherent
  BY FatAssumption
  DEF CacheInv, CacheTypeOK, FlushBlocks, WrittenCopies, UncachedAgree,
      CacheCoherent, View
-----------------------------------------------------------------------------
(* What each kind of access does to the cache. *)

\* Outside a flush, and where no sector is awaited, the next flush starts with
\* the first copy.
LEMMA NoFlushUnderWay ==
  ASSUME CacheInv, ~Flushing, ~Evicting
  PROVE  copy = 1
  BY DEF CacheInv, FlushBlocks

\* An access finds its sector loaded, and no flush under way.
LEMMA AccessIsSettled ==
  ASSUME Access
  PROVE  ~Flushing /\ ~Evicting
  BY DEF Access, Flushing, Evicting, Need

LEMMA UntouchedKeeps ==
  ASSUME CacheInv, copy = 1, UNCHANGED <<fat, cacheVars, crashed>>
  PROVE  CacheInv'
  BY DEF CacheInv, CacheTypeOK, FlushBlocks, WrittenCopies, UncachedAgree,
         cacheVars, Cached

LEMMA SetEntryKeeps ==
  ASSUME CacheInv, NEW v, SetEntry(v)
  PROVE  CacheInv'
<1>1. copy = 1 /\ copy' = 1
  BY AccessIsSettled, NoFlushUnderWay DEF SetEntry
<1>2. /\ fat' = fat /\ cur' = cur /\ dirty' = TRUE /\ crashed' = crashed
      /\ cache' = [cache EXCEPT ![Need] = v]
  BY DEF SetEntry, diskVars, NoFault, faultVars
<1>3. CacheTypeOK'
  BY <1>1, <1>2 DEF CacheInv, CacheTypeOK
<1>4. FlushBlocks'
  BY <1>1 DEF FlushBlocks
<1>5. WrittenCopies'
  BY <1>1, <1>2 DEF WrittenCopies
<1>6. UncachedAgree'
  BY <1>2 DEF CacheInv, UncachedAgree, Cached
<1> QED
  BY <1>3, <1>4, <1>5, <1>6 DEF CacheInv

LEMMA NeedKept ==
  ASSUME View' = View, UNCHANGED <<data, dirty, cur, pc, f>>
  PROVE  Need' = Need
<1>1. \A d, s : FlushHops(d, s)' = FlushHops(d, s)
  BY DEF FlushHops, Chain, NextOf, Cached
<1>2. \A d : EndMarks(d)' = EndMarks(d)
  BY DEF EndMarks, Scan, Listing, SlotsOf, Chain, NextOf
<1>3. \A d, s : DirtyHop(d, s)' = DirtyHop(d, s)
  <2>1. \A d : Chain(View, d)' = Chain(View, d)
    BY DEF Chain, NextOf
  <2> QED
    BY <1>1, <2>1 DEF DirtyHop
<1> QED
  BY <1>2, <1>3 DEF Need

LEMMA FlushedCopy ==
  ASSUME CacheInv
  PROVE  /\ \A k \in 1..NumFats, c \in Clusters :
              Flushed[k][c] = IF k = copy /\ Cached(c) THEN cache[c]
                              ELSE fat[k][c]
         /\ Flushed = [k \in 1..NumFats |-> [c \in Clusters |-> Flushed[k][c]]]
  BY DEF CacheInv, CacheTypeOK, Flushed

LEMMA FlushCopyKeeps ==
  ASSUME CacheInv, FlushCopy
  PROVE  CacheInv'
<1>1. /\ fat' = Flushed /\ cache' = cache /\ cur' = cur /\ crashed' = crashed
      /\ dirty /\ dirty' = (copy < NumFats)
      /\ copy' = IF copy < NumFats THEN copy + 1 ELSE 1
      /\ pc' = pc /\ f' = f
  BY DEF FlushCopy, LastCopy, NoFault, faultVars
<1>2. \A c : Cached(c)' <=> Cached(c)
  BY <1>1 DEF Cached
<1>3. copy \in 1..NumFats
  BY DEF CacheInv, CacheTypeOK
<1>4. CacheTypeOK'
  BY <1>1, <1>3, FlushedCopy, FatAssumption DEF CacheInv, CacheTypeOK
<1>5. FlushBlocks'
  <2>1. Flushing \/ Evicting
    BY DEF FlushCopy
  <2>2. dirty' => Need' = Need
    <3>1. View' = View
      BY <1>1, <1>2, FlushedCopy, FatAssumption DEF View
    <3> QED
      BY <1>1, <3>1, NeedKept DEF FlushCopy, CacheInv, CacheTypeOK
  <2>3. dirty' => (Flushing \/ Evicting)'
    BY <2>1, <2>2, <1>1 DEF Flushing, Evicting, Cached
  <2> QED
    BY <1>1, <2>3, <1>3 DEF FlushBlocks
<1>6. WrittenCopies'
  <2> SUFFICES ASSUME NEW k \in 1..NumFats, NEW c \in Clusters, Cached(c),
                      dirty' => k < copy', crashed => k = 1
               PROVE  fat'[k][c] = cache[c]
    BY <1>1, <1>2 DEF WrittenCopies
  <2>1. k = copy \/ k < copy
    <3>1. CASE copy < NumFats
      <4>1. dirty' /\ copy' = copy + 1
        BY <3>1, <1>1
      <4> QED
        BY <4>1, <1>3, FirstCopy
    <3>2. CASE ~(copy < NumFats)
      BY <3>2, <1>3, FirstCopy
    <3> QED
      BY <3>1, <3>2
  <2>2. CASE k = copy
    BY <2>2, <1>1, FlushedCopy
  <2>3. CASE k < copy
    BY <2>3, <1>1, <1>3, FlushedCopy DEF CacheInv, WrittenCopies
  <2> QED
    BY <2>1, <2>2, <2>3
<1>7. UncachedAgree'
  BY <1>1, <1>2, <1>3, FlushedCopy, FatAssumption, SMTT(30) DEF CacheInv,
     UncachedAgree
<1> QED
  BY <1>4, <1>5, <1>6, <1>7 DEF CacheInv

LEMMA LoadKeeps ==
  ASSUME CacheInv, LoadSector
  PROVE  CacheInv'
<1>1. /\ fat' = fat /\ dirty = FALSE /\ dirty' = FALSE /\ copy' = copy
      /\ crashed' = crashed /\ cur' = SectorOf(Need)
      /\ cache' = [c \in Clusters |-> IF SectorOf(c) = SectorOf(Need)
                                      THEN fat[1][c] ELSE Free]
  BY DEF LoadSector, MayLoad, diskVars, NoFault, faultVars, CacheInv,
     CacheTypeOK
<1>2. copy = 1
  BY <1>1 DEF CacheInv, FlushBlocks
<1>3. CacheTypeOK' /\ FlushBlocks'
  BY <1>1, <1>2 DEF CacheInv, CacheTypeOK, FlushBlocks
<1>4. \A k \in 1..NumFats, c \in Clusters :
        ~crashed => fat[k][c] = fat[1][c]
  BY <1>1, FatAssumption DEF CacheInv, WrittenCopies, UncachedAgree
<1>5. WrittenCopies' /\ UncachedAgree'
  BY <1>1, <1>4 DEF WrittenCopies, UncachedAgree, Cached
<1> QED
  BY <1>3, <1>5 DEF CacheInv

LEMMA FlushFailsKeeps ==
  ASSUME CacheInv, FlushFails
  PROVE  CacheInv'
<1>1. /\ fat' \in {fat, Flushed} /\ dirty = TRUE /\ dirty' = TRUE /\ copy' = 1
      /\ crashed' = crashed /\ cur' = cur /\ cache' = cache
  BY DEF FlushFails, Fault, CacheInv, CacheTypeOK
<1>2. CacheTypeOK' /\ FlushBlocks'
  BY <1>1, FlushedCopy, FatAssumption DEF CacheInv, CacheTypeOK, FlushBlocks
<1>3. WrittenCopies'
  BY <1>1 DEF WrittenCopies
<1>4. UncachedAgree'
  BY <1>1, FlushedCopy, FatAssumption DEF CacheInv, UncachedAgree, Cached
<1> QED
  BY <1>2, <1>3, <1>4 DEF CacheInv

LEMMA ReadFailsKeeps ==
  ASSUME CacheInv, ReadFails
  PROVE  CacheInv'
<1>1. /\ fat' = fat /\ dirty = FALSE /\ dirty' = FALSE /\ copy' = copy
      /\ crashed' = crashed /\ cur' = NoSector /\ cache' = NoCache
  BY DEF ReadFails, diskVars, Fault, CacheInv, CacheTypeOK
<1>2. copy = 1
  BY <1>1 DEF CacheInv, FlushBlocks
<1>3. CacheTypeOK' /\ FlushBlocks'
  BY <1>1, <1>2 DEF CacheInv, CacheTypeOK, FlushBlocks, NoCache
<1>4. \A k \in 1..NumFats, c \in Clusters :
        ~crashed => fat[k][c] = fat[1][c]
  BY <1>1, FatAssumption DEF CacheInv, WrittenCopies, UncachedAgree
<1>5. WrittenCopies' /\ UncachedAgree'
  BY <1>1, <1>4, SectorsFromOne DEF WrittenCopies, UncachedAgree, Cached
<1> QED
  BY <1>3, <1>5 DEF CacheInv

LEMMA CrashKeeps ==
  ASSUME CacheInv, Crash
  PROVE  CacheInv'
<1>1. /\ fat' = fat /\ dirty' = FALSE /\ copy' = 1 /\ crashed' = TRUE
      /\ cur' = NoSector /\ cache' = NoCache
  BY DEF Crash, diskVars
<1>2. CacheTypeOK' /\ FlushBlocks'
  BY <1>1, FirstCopy DEF CacheInv, CacheTypeOK, FlushBlocks, NoCache
<1>3. WrittenCopies' /\ UncachedAgree'
  BY <1>1, SectorsFromOne DEF WrittenCopies, UncachedAgree, Cached
<1> QED
  BY <1>2, <1>3 DEF CacheInv
-----------------------------------------------------------------------------
(* Every step is one of these accesses, and some only where no flush waits. *)

\* Steps of a call that only read the cached sector, or do not use it.
LEMMA KeepKeeps ==
  ASSUME CacheInv, ~Flushing \/ ~dirty, ~Evicting, Keep, UNCHANGED crashed
  PROVE  CacheInv'
  BY UntouchedKeeps DEF Keep, CacheInv, FlushBlocks

LEMMA WriteDataCrashed ==
  ASSUME NEW new, NEW w, WriteData(new, w)
  PROVE  UNCHANGED crashed
  BY DEF WriteData, NoFault, Fault, faultVars

LEMMA WriteSlotCrashed ==
  ASSUME NEW loc, NEW e, NEW w, WriteSlot(loc, e, w)
  PROVE  UNCHANGED crashed
  BY WriteDataCrashed DEF WriteSlot, Fault

\* The walks at the beginning of a call leave the FAT alone, or write copies of
\* the dirty sector.
Walked ==
  /\ UNCHANGED crashed
  /\ \/ fat' = fat
     \/ /\ dirty /\ \E k \in 0..NumFats : fat' = FlushedTo(k)
        /\ \E k, who : Fault(k, who)

LEMMA WalkIs ==
  ASSUME NEW d, NEW s, WalkFails(FlushHops(d, s))
  PROVE  Walked
  BY FatAssumption DEF WalkFails, FlushHops, Fault, Walked

LEMMA LookupIs ==
  ASSUME NEW d, NEW n, NEW hits, Lookup(d, n, hits)
  PROVE  Walked
  BY WalkIs DEF Lookup, Sought, Walked

\* fs_delete_dir after its lookup, and when the walk of the directory fails.
Decided(d, n, hits) ==
  LET target == IF hits = {} THEN 0 ELSE EntryOf(hits).start IN
  CASE \/ hits = {}
       \/ hits # {} /\ ~EntryOf(hits).dir
       \/ Protected(target) -> Return("fail")
    [] OTHER ->
         IF ~IsDirEmpty(View, target) THEN Return("notempty")
         ELSE /\ f' = [Frame0("rmdir", d, n) EXCEPT
                         !.loc = LocOf(d, hits), !.old = target]
              /\ Goto("tombstone")

LEMMA DeleteDirIs ==
  ASSUME NEW d, NEW n, DeleteDir(d, n)
  PROVE  /\ Begin /\ UNCHANGED cwd
         /\ \/ \E hits \in {Matches(View, d, n), {}} :
                 /\ Lookup(d, n, hits)
                 /\ Decided(d, n, hits)
            \/ /\ Return("notempty")
               /\ \E h, s : WalkFails(FlushHops(h, s))
  BY Zenon DEF DeleteDir, Decided

LEMMA CallBegins ==
  /\ \A d, n, p, k : Write(d, n, p, k) => Begin /\ Walked
  /\ \A d, n : CreateDir(d, n) \/ Delete(d, n) \/ DeleteDir(d, n) => Begin /\ Walked
  /\ \A d : ChangeDir(d) \/ Read(d) \/ Sync => Begin /\ Walked
<1>1. ASSUME NEW d, NEW n, NEW p, NEW k, Write(d, n, p, k)
      PROVE  Begin /\ Walked
  BY <1>1, LookupIs DEF Write
<1>2. ASSUME NEW d, NEW n, CreateDir(d, n) \/ Delete(d, n)
      PROVE  Begin /\ Walked
  BY <1>2, LookupIs DEF CreateDir, Delete
<1>3. ASSUME NEW d, NEW n, DeleteDir(d, n)
      PROVE  Begin /\ Walked
  BY <1>3, DeleteDirIs, LookupIs, WalkIs
<1>4. ASSUME NEW d, ChangeDir(d) \/ Read(d) \/ Sync
      PROVE  Begin /\ Walked
  BY <1>4 DEF ChangeDir, Read, Sync, NoFault, faultVars, Walked
<1> QED
  BY <1>1, <1>2, <1>3, <1>4

LEMMA CallKeeps ==
  ASSUME CacheInv, Call
  PROVE  CacheInv'
<1>1. Begin /\ Walked
  BY CallBegins DEF Call
<1>2. ~Flushing /\ ~Evicting
  BY <1>1 DEF Begin, Flushing, Evicting, Need
<1>3. CASE fat' = fat
  BY <1>1, <1>2, <1>3, NoFlushUnderWay, UntouchedKeeps DEF Begin, Walked
<1>4. ASSUME dirty, NEW k \in 0..NumFats, fat' = FlushedTo(k)
      PROVE  CacheInv'
  BY <1>1, <1>2, <1>4, NoFlushUnderWay, FatAssumption
  DEF Begin, Walked, FlushedTo, cacheVars, CacheInv, CacheTypeOK,
      FlushBlocks, WrittenCopies, UncachedAgree, Cached
<1> QED
  BY <1>1, <1>3, <1>4 DEF Walked

LEMMA AllocKeeps ==
  ASSUME CacheInv, AllocStep
  PROVE  CacheInv'
<1>1. CASE FindFree
  BY <1>1, AccessIsSettled, NoFlushUnderWay, UntouchedKeeps
  DEF FindFree, diskVars, NoFault, faultVars
<1>2. CASE DiskFull
  <2>1. ~Flushing /\ ~Evicting
    BY <1>2, FatAssumption DEF DiskFull, Flushing, Evicting, Need
  <2> QED
    BY <1>2, <2>1, KeepKeeps DEF DiskFull, NoFault, faultVars
<1>3. CASE FindSkips \/ LinkFails \/ SealFails
  BY <1>3, FlushFailsKeeps, ReadFailsKeeps
  DEF FindSkips, LinkFails, SealFails, LoadFails
<1>4. CASE MarkEoc \/ LinkPrev \/ Seal
  BY <1>4, SetEntryKeeps DEF MarkEoc, LinkPrev, Seal
<1>5. CASE Unlink
  BY <1>5, SetEntryKeeps, FlushFailsKeeps, ReadFailsKeeps DEF Unlink, LoadFails
<1> QED
  BY <1>1, <1>2, <1>3, <1>4, <1>5 DEF AllocStep

LEMMA ExtendKeeps ==
  ASSUME CacheInv, ExtendStep
  PROVE  CacheInv'
<1>1. CASE FindSlot \/ Extend \/ ClearDir
  <2>1. ~Flushing /\ ~Evicting
    BY <1>1 DEF FindSlot, Extend, ClearDir, Flushing, Evicting, Need
  <2>2. Keep /\ UNCHANGED crashed
    BY <1>1, WriteDataCrashed
    DEF FindSlot, Extend, ClearDir, NoFault, Fault, faultVars
  <2> QED
    BY <2>1, <2>2, KeepKeeps
<1>2. CASE ExtendDone
  <2>1. ~dirty /\ ~Evicting
    BY <1>2 DEF ExtendDone, Clean, Evicting, Need
  <2> QED
    BY <1>2, <2>1, KeepKeeps DEF ExtendDone, NoFault, faultVars
<1>3. CASE LinkDir \/ SealDir
  BY <1>3, SetEntryKeeps DEF LinkDir, SealDir
<1>4. CASE LinkDirFails \/ SealDirFails \/ SlotFails \/ ExtendFails
  BY <1>4, FlushFailsKeeps, ReadFailsKeeps
  DEF LinkDirFails, SealDirFails, SlotFails, ExtendFails, LoadFails
<1>5. CASE UnlinkDir
  BY <1>5, SetEntryKeeps, FlushFailsKeeps, ReadFailsKeeps
  DEF UnlinkDir, LoadFails
<1> QED
  BY <1>1, <1>2, <1>3, <1>4, <1>5 DEF ExtendStep

LEMMA StoreKeeps ==
  ASSUME CacheInv, StoreStep
  PROVE  CacheInv'
<1>1. CASE WriteCluster \/ InitDir \/ WriteEntry \/ Tombstone
  <2>1. ~Flushing /\ ~Evicting
    BY <1>1 DEF WriteCluster, InitDir, WriteEntry, Tombstone, Flushing,
                Evicting, Need
  <2>2. Keep /\ UNCHANGED crashed
    BY <1>1, WriteDataCrashed, WriteSlotCrashed
    DEF WriteCluster, InitDir, WriteEntry, Tombstone
  <2> QED
    BY <2>1, <2>2, KeepKeeps
<1>2. CASE NextCluster
  BY <1>2, AccessIsSettled, KeepKeeps DEF NextCluster, NoFault, faultVars
<1>3. CASE MarkEnd
  <2>1. ~Flushing /\ ~Evicting
    BY <1>3, AccessIsSettled, FatAssumption
    DEF MarkEnd, Flushing, Evicting, Need
  <2>2. Keep /\ UNCHANGED crashed
    BY <1>3, WriteSlotCrashed DEF MarkEnd, NoFault, faultVars
  <2> QED
    BY <2>1, <2>2, KeepKeeps
<1>4. CASE NextFails \/ MarkSkips
  BY <1>4, FlushFailsKeeps, ReadFailsKeeps DEF NextFails, MarkSkips, LoadFails
<1> QED
  BY <1>1, <1>2, <1>3, <1>4 DEF StoreStep

LEMMA FlushStepKeeps ==
  ASSUME CacheInv, FlushStep
  PROVE  CacheInv'
<1>1. CASE Flushed1 \/ Flushed2 \/ Aborted
  <2>1. ~dirty /\ ~Evicting
    BY <1>1 DEF Flushed1, Flushed2, Aborted, Clean, Evicting, Need
  <2> QED
    BY <1>1, <2>1, KeepKeeps DEF Flushed1, Flushed2, Aborted, NoFault,
       faultVars
<1> QED
  BY <1>1, FlushCopyKeeps, LoadKeeps, FlushFailsKeeps DEF FlushStep, FlushError

LEMMA FreeKeeps ==
  ASSUME CacheInv, FreeStep
  PROVE  CacheInv'
  BY SetEntryKeeps, FlushFailsKeeps, ReadFailsKeeps
  DEF FreeStep, FreeCluster, FreeLosesTail, FreeLast, FreeError, LoadFails

LEMMA NextKeeps ==
  ASSUME CacheInv, [Next]_vars
  PROVE  CacheInv'
<1>1. CASE UNCHANGED vars
  <2>1. Need' = Need
    BY <1>1, NeedKept DEF vars, View, Cached
  <2> QED
    BY <1>1, <2>1 DEF vars, CacheInv, CacheTypeOK, FlushBlocks, WrittenCopies,
       UncachedAgree, Cached, Flushing, Evicting
<1>2. CASE ReadDone
  <2>1. ~Flushing /\ ~Evicting
    BY <1>2 DEF ReadDone, Flushing, Evicting, Need
  <2> QED
    BY <1>2, <2>1, KeepKeeps DEF ReadDone, NoFault, faultVars
<1>3. CASE ReadError
  BY <1>3, FlushFailsKeeps, ReadFailsKeeps DEF ReadError, LoadFails
<1> QED
  BY <1>1, <1>2, <1>3, CallKeeps, AllocKeeps, ExtendKeeps, StoreKeeps,
     FlushStepKeeps, FreeKeeps, CrashKeeps DEF Next, Step

\* The cache invariant holds in every reachable state.
THEOREM CacheInvariant == Spec => []CacheInv
<1> QED
  BY InitCache, NextKeeps, PTL DEF Spec

\* In every reachable state every copy of the FAT on disk is what the kernel
\* sees, except in a dirty sector; after a power loss, at least the first copy.
THEOREM CacheAlwaysCoherent == Spec => []CacheCoherent
<1> QED
  BY CacheInvariant, CacheInvImplies, PTL
-----------------------------------------------------------------------------
(* Where a call may report success. *)

LEMMA FailingSteps ==
  ASSUME AllocStep \/ FreeStep \/ FlushError \/ Aborted \/ Crash
  PROVE  ~(pc' = "idle" /\ ret' = "ok")
<1>1. CASE AllocStep
  BY <1>1 DEF AllocStep, FindFree, FindSkips, DiskFull, MarkEoc, LinkPrev,
     LinkFails, Unlink, Seal, SealFails, Linked, FreeChain, Goto, Same, Return
<1>2. CASE FreeStep
  <2>1. FreeReturns => ~(pc' = "idle" /\ ret' = "ok")
    BY DEF FreeReturns, Goto, Same, Return
  <2> QED
    BY <1>2, <2>1 DEF FreeStep, FreeCluster, FreeLosesTail, FreeLast,
       FreeError,
       Goto, Same, Return
<1> QED
  BY <1>1, <1>2 DEF FlushError, Aborted, Crash, Return

LEMMA ExtendFailing ==
  ASSUME ExtendStep
  PROVE  ~(pc' = "idle" /\ ret' = "ok")
<1>1. \A fr, n : Alloc(fr, n) => pc' # "idle"
  BY DEF Alloc, Goto
<1>2. \A fr : Store(fr) => pc' # "idle"
  BY <1>1 DEF Store, Goto
<1> QED
  BY <1>1, <1>2
  DEF ExtendStep, FindSlot, SlotFails, TakeSlot, Extend, ExtendFails, LinkDir,
      LinkDirFails, SealDir, SealDirFails, ClearDir, UnlinkDir, ExtendDone,
      FreeChain, Goto, Same, Return

LEMMA StoreFailing ==
  ASSUME StoreStep
  PROVE  ~(pc' = "idle" /\ ret' = "ok")
  BY DEF StoreStep, WriteCluster, NextCluster, NextFails, InitDir, WriteEntry,
     Tombstone, MarkEnd, MarkSkips, FreeChain, Goto, Same, Return

\* Only the end of a flush reports success.
LEMMA SuccessIsFlushed ==
  ASSUME [Next]_vars, pc \notin {"idle", "read"}, pc' = "idle", ret' = "ok"
  PROVE  Flushed1 \/ Flushed2
<1>1. ~(UNCHANGED vars)
  BY DEF vars
<1>2. ~Call
  BY Zenon DEF Call, Write, CreateDir, Delete, DeleteDir, ChangeDir, Sync,
     Read, Begin
<1>3. ~ReadDone /\ ~ReadError
  BY DEF ReadDone, ReadError
<1>4. ~FlushCopy /\ ~LoadSector
  BY DEF FlushCopy, LoadSector
<1> QED
  BY <1>1, <1>2, <1>3, <1>4, FailingSteps, ExtendFailing, StoreFailing
  DEF Next, Step, FlushStep

LEMMA CleanIsDurable ==
  ASSUME CacheInv, ~dirty, NEW k \in 1..NumFats, NEW c \in Clusters,
         k = 1 \/ ~crashed
  PROVE  fat[k][c] = View[c]
  BY DEF CacheInv, WrittenCopies, UncachedAgree, View

LEMMA SuccessStep ==
  ASSUME CacheInv, [Next]_vars, pc \notin {"idle", "read"}, pc' = "idle",
         ret' = "ok", NEW k \in 1..NumFats, NEW c \in Clusters,
         k = 1 \/ ~crashed
  PROVE  fat'[k][c] = View'[c]
<1>1. Flushed1 \/ Flushed2
  BY SuccessIsFlushed
<1>2. ~dirty /\ UNCHANGED <<fat, cache, cur>>
  BY <1>1 DEF Flushed1, Flushed2, Clean, Keep, cacheVars
<1>3. fat[k][c] = View[c]
  BY <1>2, CleanIsDurable
<1> QED
  BY <1>2, <1>3 DEF View, Cached

\* In every behaviour a call that changes the volume and reports success has
\* every copy of the FAT on the disk when it returns, whatever transfers failed
\* before.
THEOREM SuccessAlwaysDurable == Spec => SuccessIsDurable
<1>1. CacheInv /\ [Next]_vars =>
        [(pc \notin {"idle", "read"} /\ pc' = "idle" /\ ret' = "ok")
           => \A k \in 1..NumFats, c \in Clusters :
                (k = 1 \/ ~crashed) => fat'[k][c] = View'[c]]_vars
  BY SuccessStep
<1> QED
  BY <1>1, CacheInvariant, PTL DEF Spec, SuccessIsDurable

-----------------------------------------------------------------------------
(* The types of the variables.  What a call finds in a directory depends on *)
(* the chain it walks and on the levels of the tree, two recursive functions *)
(* of the model: what is said of them is proved by induction on the length   *)
(* of the walk (module Induction).                                           *)

\* The hops of Chain are those its definition says.
LEMMA ChainHops ==
  ASSUME NEW v, NEW c
  PROVE  /\ Chain(v, c)[0] = c
         /\ \A i \in 1..MaxCluster :
              Chain(v, c)[i] = NextOf(v, Chain(v, c)[i - 1])
<1> DEFINE Hop(i, g) == IF i = 0 THEN c ELSE NextOf(v, g[i - 1])
           S == {n \in Nat : \E g : \A i \in 0..n : g[i] = Hop(i, g)}
<1>1. 0 \in S
  <2>1. \A i \in 0..0 : [j \in 0..0 |-> c][i] = Hop(i, [j \in 0..0 |-> c])
    OBVIOUS
  <2> QED BY <2>1
<1>2. ASSUME NEW n \in Nat, n \in S PROVE n + 1 \in S
  <2>1. PICK g : \A i \in 0..n : g[i] = Hop(i, g) BY <1>2
  <2> DEFINE h == [i \in 0..n + 1 |-> IF i = n + 1 THEN NextOf(v, g[n]) ELSE g[i]]
  <2>2. \A i \in 0..n : h[i] = g[i] OBVIOUS
  <2>3. h[n + 1] = NextOf(v, h[n]) OBVIOUS
  <2> HIDE DEF h
  <2>4. \A i \in 0..n + 1 : h[i] = Hop(i, h)
    <3> SUFFICES ASSUME NEW i \in 0..n + 1 PROVE h[i] = Hop(i, h)
      OBVIOUS
    <3>1. CASE i = n + 1 BY <3>1, <2>3
    <3>2. CASE i # n + 1 /\ i # 0
      <4>1. i \in 0..n /\ i - 1 \in 0..n BY <3>2
      <4> QED BY <4>1, <2>1, <2>2, <3>2
    <3>3. CASE i = 0 BY <3>3, <2>1, <2>2
    <3> QED BY <3>1, <3>2, <3>3
  <2> HIDE DEF Hop
  <2> QED BY <2>4
<1>3. MaxCluster \in S
  <2> HIDE DEF S
  <2> QED BY <1>1, <1>2, NatSetInduction, FatAssumption
<1>4. PICK g : \A i \in 0..MaxCluster : g[i] = Hop(i, g)
  BY <1>3
<1> DEFINE G == [i \in 0..MaxCluster |-> g[i]]
<1>5. \A i \in 0..MaxCluster : G[i] = Hop(i, G)
  <2>1. \A i \in 0..MaxCluster : G[i] = g[i] OBVIOUS
  <2>2. \A i \in 0..MaxCluster : i # 0 => i - 1 \in 0..MaxCluster
    BY FatAssumption
  <2> HIDE DEF G
  <2> QED BY <1>4, <2>1, <2>2
<1>6. G = [i \in 0..MaxCluster |-> Hop(i, G)]
  <2> HIDE DEF Hop
  <2>1. G = [i \in 0..MaxCluster |-> G[i]] OBVIOUS
  <2> HIDE DEF G
  <2>2. [i \in 0..MaxCluster |-> G[i]] = [i \in 0..MaxCluster |-> Hop(i, G)]
    BY <1>5
  <2> QED BY <2>1, <2>2
<1>7. \E hop : hop = [i \in 0..MaxCluster |-> Hop(i, hop)]
  <2> HIDE DEF G, Hop
  <2> QED BY <1>6
<1> DEFINE C == Chain(v, c)
<1>8. C = [i \in 0..MaxCluster |-> Hop(i, C)]
  BY <1>7 DEF Chain
<1>9. \A i \in 0..MaxCluster : C[i] = Hop(i, C)
  <2> HIDE DEF C, Hop
  <2> QED BY <1>8
<1> QED BY <1>9, FatAssumption

\* The first of a nonempty set of slots is one of them.
LEMMA FirstIsLeast ==
  ASSUME NEW S, S # {}, \A x \in S : x[1] \in Nat
  PROVE  First(S) \in S /\ \A y \in S : First(S)[1] <= y[1]
<1> DEFINE P == {x[1] : x \in S}
<1>1. \E n \in P : \A m \in P : n <= m
  BY LeastNat
<1>2. \E x \in S : \A y \in S : x[1] <= y[1]
  BY <1>1
<1> QED
  BY <1>2 DEF First

\* A chain holds cluster numbers, and 0 past its end.
LEMMA ChainType ==
  ASSUME NEW v \in [Clusters -> FatVal], NEW c \in Cl0
  PROVE  \A i \in 0..MaxCluster : Chain(v, c)[i] \in Cl0
<1> DEFINE S == {n \in Nat : n <= MaxCluster => Chain(v, c)[n] \in Cl0}
<1>1. 0 \in S
  BY ChainHops
<1>2. ASSUME NEW n \in Nat, n \in S PROVE n + 1 \in S
  <2>1. SUFFICES ASSUME n + 1 <= MaxCluster PROVE Chain(v, c)[n + 1] \in Cl0
    OBVIOUS
  <2>2. n + 1 \in 1..MaxCluster /\ (n + 1) - 1 = n
    BY <2>1, FatAssumption
  <2>3. Chain(v, c)[n + 1] = NextOf(v, Chain(v, c)[n])
    BY <2>2, ChainHops
  <2> QED
    BY <2>3 DEF NextOf, Cl0
<1> HIDE DEF S
<1>3. \A n \in Nat : n \in S
  BY <1>1, <1>2, NatSetInduction
<1> QED
  BY <1>3, FatAssumption DEF S

\* A position in a directory gives back its cluster and its slot.
LEMMA SlotPosition ==
  ASSUME NEW K \in Nat \ {0}, NEW i \in Nat, NEW s \in 1..K
  PROVE  /\ i * K + s - 1 \in Nat
         /\ (i * K + s - 1) \div K = i
         /\ 1 + ((i * K + s - 1) % K) = s
  OBVIOUS

DataOK == data \in [Clusters -> Content]

\* The slots and the parent of a cluster, whatever it holds.
LEMMA SlotsOfType ==
  ASSUME DataOK, NEW c \in Clusters
  PROVE  SlotsOf(c) \in [1..Slots -> Slot] /\ ParentOf(c) \in Cl0
<1>1. data[c] \in Content
  BY DEF DataOK
<1>2. CASE data[c].kind = "dir"
  <2>1. data[c] \in [kind: {"dir"}, parent: Cl0, slot: [1..Slots -> Slot]]
    BY <1>1, <1>2 DEF Content, Raw
  <2> QED BY <1>2, <2>1 DEF SlotsOf, ParentOf
<1>3. CASE data[c].kind # "dir"
  BY <1>3 DEF SlotsOf, EmptySlots, Slot, ParentOf, Cl0
<1> QED
  BY <1>2, <1>3

\* What a directory lists: slots of the clusters of its chain.
LEMMA ListingType ==
  ASSUME DataOK, NEW v \in [Clusters -> FatVal], NEW d \in Cl0,
         NEW x \in Listing(v, d)
  PROVE  \E i \in 0..MaxCluster, s \in 1..Slots :
           /\ Chain(v, d)[i] \in Clusters
           /\ x = <<i * Slots + s - 1, SlotsOf(Chain(v, d)[i])[s]>>
           /\ x[1] \in Nat /\ x[2] \in Slot
           /\ LocAt(v, d, x[1]) = <<Chain(v, d)[i], s>>
<1>1. PICK i \in 0..MaxCluster, s \in 1..Slots :
        /\ Chain(v, d)[i] # 0
        /\ x = <<i * Slots + s - 1, SlotsOf(Chain(v, d)[i])[s]>>
  BY DEF Listing
<1>2. Chain(v, d)[i] \in Clusters
  BY <1>1, ChainType DEF Cl0
<1>3. SlotsOf(Chain(v, d)[i])[s] \in Slot
  BY <1>2, SlotsOfType
<1>4. Slots \in Nat \ {0} /\ i \in Nat
  BY FatAssumption
<1>5. /\ i * Slots + s - 1 \in Nat
      /\ (i * Slots + s - 1) \div Slots = i
      /\ 1 + ((i * Slots + s - 1) % Slots) = s
  BY <1>4, SlotPosition
<1>6. x[1] = i * Slots + s - 1 /\ x[2] = SlotsOf(Chain(v, d)[i])[s]
  BY <1>1
<1>7. LocAt(v, d, x[1]) = <<Chain(v, d)[i], s>>
  BY <1>5, <1>6 DEF LocAt
<1> QED
  BY <1>1, <1>2, <1>3, <1>5, <1>6, <1>7

\* Directories have a first cluster, in every entry of the disk.
DirsHaveStart ==
  \A c \in Clusters, s \in 1..Slots :
    (SlotsOf(c)[s].tag = "live" /\ SlotsOf(c)[s].dir)
      => SlotsOf(c)[s].start \in Clusters

Storing == {"slot", "extend", "find", "eoc", "link", "unlink", "seal", "xlink",
            "xeoc", "xzero", "xundo", "xflush", "data", "next", "dirinit",
            "entry"}
Allocating == {"find", "eoc", "link", "unlink", "seal"}

\* What the running call keeps in its locals at each of its steps.
FrameOK ==
  /\ pc \in Storing => f.kind \in {"write", "mkdir"}
  /\ f.kind \in {"write", "mkdir"} => f.dir \in Clusters /\ f.name \in Names
  /\ f.kind = "write" => f.payload \in Payloads
  /\ f.kind = "mkdir" => f.cnt = 1
  /\ pc \in {"eoc", "link", "unlink"} => f.cl \in Clusters
  /\ pc \in {"seal", "xlink", "xeoc", "xzero", "xflush", "dirinit"} => f.first \in Clusters
  /\ (pc = "entry" /\ f.kind = "mkdir") => f.first \in Clusters
  /\ (pc \in Allocating /\ f.last = 0) => f.cnt # 0
  /\ pc \in {"data", "next"} => f.kind = "write" /\ f.index \in 1..f.cnt
  /\ pc = "next" => f.index < f.cnt

TypeInv == TypeOK /\ FrameOK /\ DirsHaveStart

LEMMA ViewType == TypeInv => View \in [Clusters -> FatVal]
  BY FatAssumption DEF TypeInv, TypeOK, View

LEMMA TypeInvData == TypeInv => DataOK
  BY DEF TypeInv, TypeOK, DataOK

\* An entry found in a directory.
LEMMA EntryType ==
  ASSUME TypeInv, NEW v \in [Clusters -> FatVal], NEW d \in Cl0,
         NEW x \in LiveSlots(v, d)
  PROVE  /\ x[1] \in Nat
         /\ x[2].tag = "live" /\ x[2].name \in Names /\ x[2].dir \in BOOLEAN
         /\ x[2].start \in Cl0 /\ x[2].len \in 0..MaxCount
         /\ x[2].dir => x[2].start \in Clusters
         /\ LocAt(v, d, x[1]) \in Clusters \X (1..Slots)
<1>1. x \in Listing(v, d) /\ x[2].tag = "live"
  BY DEF LiveSlots, Scan
<1>2. PICK i \in 0..MaxCluster, s \in 1..Slots :
        /\ Chain(v, d)[i] \in Clusters
        /\ x = <<i * Slots + s - 1, SlotsOf(Chain(v, d)[i])[s]>>
        /\ x[1] \in Nat /\ x[2] \in Slot
        /\ LocAt(v, d, x[1]) = <<Chain(v, d)[i], s>>
  BY <1>1, ListingType, TypeInvData
<1>3. x[2] = SlotsOf(Chain(v, d)[i])[s]
  BY <1>2
<1>4. x[2] \in [tag: {"live"}, name: Names, dir: BOOLEAN, start: Cl0,
                len: 0..MaxCount]
  BY <1>1, <1>2 DEF Slot, EndMark, Deleted
<1>5. x[2].dir => x[2].start \in Clusters
  BY <1>1, <1>2, <1>3 DEF TypeInv, DirsHaveStart
<1> QED
  BY <1>1, <1>2, <1>4, <1>5

\* What the lookup of a name finds.
LEMMA HitsType ==
  ASSUME TypeInv, NEW v \in [Clusters -> FatVal], NEW d \in Cl0, NEW n,
         NEW hits, hits = Matches(v, d, n), hits # {}
  PROVE  /\ First(hits) \in LiveSlots(v, d)
         /\ EntryOf(hits).tag = "live" /\ EntryOf(hits).name = n
         /\ EntryOf(hits).dir \in BOOLEAN
         /\ EntryOf(hits).start \in Cl0 /\ EntryOf(hits).len \in 0..MaxCount
         /\ EntryOf(hits).dir => EntryOf(hits).start \in Clusters
         /\ LocAt(v, d, First(hits)[1]) \in Clusters \X (1..Slots)
<1>1. \A x \in hits : x \in LiveSlots(v, d) /\ x[2].name = n /\ x[1] \in Nat
  BY EntryType DEF Matches
<1>2. First(hits) \in hits
  BY <1>1, FirstIsLeast
<1> QED
  BY <1>1, <1>2, EntryType DEF EntryOf

\* The slot a new entry is given.
LEMMA FreeSlotType ==
  ASSUME TypeInv, NEW v \in [Clusters -> FatVal], NEW d \in Cl0,
         NEW free, free \subseteq FreeSlots(v, d), free # {}
  PROVE  LocAt(v, d, First(free)[1]) \in Clusters \X (1..Slots)
<1>1. \A x \in free : /\ x[1] \in Nat
                      /\ LocAt(v, d, x[1]) \in Clusters \X (1..Slots)
  <2> SUFFICES ASSUME NEW x \in free
               PROVE  /\ x[1] \in Nat
                      /\ LocAt(v, d, x[1]) \in Clusters \X (1..Slots)
    OBVIOUS
  <2>1. x \in Listing(v, d)
    BY DEF FreeSlots, Scan
  <2> QED
    BY <2>1, ListingType, TypeInvData
<1> QED
  BY <1>1, FirstIsLeast

\* The levels of the tree of paths, as their definition says.
LEMMA LevelsAre ==
  ASSUME NEW v
  PROVE  /\ Levels(v)[0] = {<<<<>>, RootEntry>>}
         /\ \A k \in 1..MaxDepth :
              Levels(v)[k] =
                UNION {{<<Append(x[1], e.name), e>> : e \in Entries(v, x[2].start)}
                         : x \in {y \in Levels(v)[k - 1] : y[2].dir}}
<1> DEFINE G(T) == UNION {{<<Append(x[1], e.name), e>> : e \in Entries(v, x[2].start)}
                         : x \in {y \in T : y[2].dir}}
           Hop(i, g) == IF i = 0 THEN {<<<<>>, RootEntry>>} ELSE G(g[i - 1])
           S == {n \in Nat : \E g : \A i \in 0..n : g[i] = Hop(i, g)}
<1>0. MaxDepth \in Nat
  BY FatAssumption
<1>1. 0 \in S
  <2>1. \A i \in 0..0 : [j \in 0..0 |-> {<<<<>>, RootEntry>>}][i] = Hop(i, [j \in 0..0 |-> {<<<<>>, RootEntry>>}])
    OBVIOUS
  <2> QED BY <2>1
<1>2. ASSUME NEW n \in Nat, n \in S PROVE n + 1 \in S
  <2>1. PICK g : \A i \in 0..n : g[i] = Hop(i, g) BY <1>2
  <2> HIDE DEF G
  <2> DEFINE h == [i \in 0..n + 1 |-> IF i = n + 1 THEN G(g[n]) ELSE g[i]]
  <2>2. \A i \in 0..n : h[i] = g[i] OBVIOUS
  <2>3. h[n + 1] = G(h[n]) OBVIOUS
  <2> HIDE DEF h
  <2>4. \A i \in 0..n + 1 : h[i] = Hop(i, h)
    <3> SUFFICES ASSUME NEW i \in 0..n + 1 PROVE h[i] = Hop(i, h)
      OBVIOUS
    <3>1. CASE i = n + 1 BY <3>1, <2>3
    <3>2. CASE i # n + 1 /\ i # 0
      <4>1. i \in 0..n /\ i - 1 \in 0..n BY <3>2
      <4> QED BY <4>1, <2>1, <2>2, <3>2
    <3>3. CASE i = 0 BY <3>3, <2>1, <2>2
    <3> QED BY <3>1, <3>2, <3>3
  <2> HIDE DEF Hop
  <2> QED BY <2>4
<1>3. MaxDepth \in S
  <2> HIDE DEF S
  <2> QED BY <1>0, <1>1, <1>2, NatSetInduction
<1>4. PICK g : \A i \in 0..MaxDepth : g[i] = Hop(i, g)
  BY <1>3
<1> DEFINE F == [i \in 0..MaxDepth |-> g[i]]
<1>5. \A i \in 0..MaxDepth : F[i] = Hop(i, F)
  <2>1. \A i \in 0..MaxDepth : F[i] = g[i] OBVIOUS
  <2>2. \A i \in 0..MaxDepth : i # 0 => i - 1 \in 0..MaxDepth
    BY <1>0
  <2> HIDE DEF F, G
  <2> QED BY <1>4, <2>1, <2>2
<1>6. F = [i \in 0..MaxDepth |-> Hop(i, F)]
  <2> HIDE DEF Hop
  <2>1. F = [i \in 0..MaxDepth |-> F[i]] OBVIOUS
  <2> HIDE DEF F
  <2>2. [i \in 0..MaxDepth |-> F[i]] = [i \in 0..MaxDepth |-> Hop(i, F)]
    BY <1>5
  <2> QED BY <2>1, <2>2
<1>7. \E lev : lev = [i \in 0..MaxDepth |-> Hop(i, lev)]
  <2> HIDE DEF F, Hop
  <2> QED BY <1>6
<1> DEFINE C == Levels(v)
<1>8. C = [i \in 0..MaxDepth |-> Hop(i, C)]
  BY <1>7 DEF Levels
<1>9. \A i \in 0..MaxDepth : C[i] = Hop(i, C)
  <2> HIDE DEF C, Hop
  <2> QED BY <1>8
<1> HIDE DEF G
<1>10. C[0] = {<<<<>>, RootEntry>>} /\ \A k \in 1..MaxDepth : C[k] = G(C[k-1])
  BY <1>9, <1>0
<1> QED BY <1>10 DEF G

\* Every entry that can be reached by a path is on one of the levels.
LEMMA PathEntriesAre ==
  ASSUME NEW v, NEW x
  PROVE  x \in PathEntries(v) <=> \E k \in 0..MaxDepth : x \in Levels(v)[k]
  BY DEF PathEntries

\* Every directory that a path leads to has a first cluster.
LEMMA DirPathsType ==
  ASSUME TypeInv, NEW v \in [Clusters -> FatVal], NEW x \in DirPaths(v)
  PROVE  x[2].start \in Clusters
<1> DEFINE S == {k \in Nat : k <= MaxDepth =>
                   \A y \in Levels(v)[k] : y[2].dir => y[2].start \in Clusters}
<1>0. MaxDepth \in Nat /\ Root \in Clusters
  BY FatAssumption
<1>1. 0 \in S
  BY LevelsAre, <1>0 DEF RootEntry, Entry
<1>2. ASSUME NEW k \in Nat, k \in S PROVE k + 1 \in S
  <2> SUFFICES ASSUME k + 1 <= MaxDepth, NEW y \in Levels(v)[k + 1], y[2].dir
               PROVE  y[2].start \in Clusters
    OBVIOUS
  <2>1. k + 1 \in 1..MaxDepth /\ (k + 1) - 1 = k /\ k <= MaxDepth
    BY <1>0
  <2>2. PICK z \in Levels(v)[k] :
          /\ z[2].dir
          /\ \E e \in Entries(v, z[2].start) : y = <<Append(z[1], e.name), e>>
    BY <2>1, LevelsAre
  <2>3. z[2].start \in Cl0
    BY <1>2, <2>1, <2>2 DEF Cl0
  <2>4. PICK w \in LiveSlots(v, z[2].start) : y[2] = w[2]
    BY <2>2 DEF Entries
  <2> QED
    BY <2>2, <2>3, <2>4, EntryType
<1> HIDE DEF S
<1>3. \A k \in Nat : k \in S
  BY <1>1, <1>2, NatSetInduction
<1>4. PICK k \in 0..MaxDepth : x \in Levels(v)[k] /\ x[2].dir
  BY PathEntriesAre DEF DirPaths
<1> QED
  BY <1>3, <1>4, <1>0 DEF S

\* The parts of the invariant: the memory and the disk, and the running call.
MemOK ==
  /\ fat \in [1..NumFats -> [Clusters -> FatVal]]
  /\ data \in [Clusters -> Content] /\ DirsHaveStart
  /\ cache \in [Clusters -> FatVal]
  /\ cur \in {NoSector} \cup {SectorOf(c) : c \in Clusters}
  /\ dirty \in BOOLEAN /\ copy \in 1..NumFats
  /\ hint \in Clusters /\ cwd \in Clusters /\ ops \in 0..MaxOps
FaultsOK ==
  /\ faults \in 0..MaxFaults /\ crashed \in BOOLEAN /\ cut \in BOOLEAN
  /\ suspect \subseteq Clusters \X Names
CallOK ==
  /\ pc \in Labels /\ f \in Frame
  /\ ret \in {"none", "ok", "fail", "notempty"}
  /\ FrameOK

\* The invariant, by its parts.
LEMMA TypeParts == TypeInv <=> MemOK /\ FaultsOK /\ CallOK
  BY DEF TypeInv, TypeOK, MemOK, FaultsOK, CallOK

\* What the assumption says of the constants.
LEMMA Bounds ==
  /\ MaxCount \in Nat /\ MaxDepth \in Nat /\ MaxOps \in Nat /\ MaxFaults \in Nat
  /\ MaxCluster \in Nat /\ Slots \in Nat \ {0} /\ NumFats \in Nat \ {0}
  /\ Clusters \subseteq Nat /\ 0 \notin Clusters /\ Root \in Clusters
  /\ 2 \in Clusters /\ MaxCluster \in Clusters
  BY FatAssumption DEF Clusters

\* A fault puts at risk entries of the volume.
LEMMA TargetType == TypeInv => Target \subseteq Clusters \X Names
  BY DEF TypeInv, FrameOK, Target

LEMMA FaultType ==
  ASSUME TypeInv, NEW k, NEW who, who \subseteq Clusters \X Names, Fault(k, who)
  PROVE  FaultsOK'
  BY Bounds DEF TypeInv, TypeOK, FaultsOK, Fault, MayFault

LEMMA NoFaultType == ASSUME TypeInv, NoFault PROVE FaultsOK'
  BY DEF TypeInv, TypeOK, FaultsOK, NoFault, faultVars

\* The contents the kernel writes.
Writable(new) ==
  /\ new \in [Clusters -> Content]
  /\ \A c \in Clusters, s \in 1..Slots :
       LET e == (IF new[c].kind = "dir" THEN new[c].slot ELSE EmptySlots)[s]
       IN  (e.tag = "live" /\ e.dir) => e.start \in Clusters

\* A write of a cluster leaves a well-formed disk, whether or not it fails.
LEMMA WriteDataType ==
  ASSUME TypeInv, NEW new, Writable(new), NEW w, WriteData(new, w)
  PROVE  data' \in [Clusters -> Content] /\ DirsHaveStart' /\ FaultsOK'
<1>1. data' \in {data, new} /\ FaultsOK'
  BY FaultType, NoFaultType, TargetType DEF WriteData
<1>2. CASE data' = new
  BY <1>2, <1>1 DEF Writable, DirsHaveStart, SlotsOf
<1>3. CASE data' = data
  BY <1>3, <1>1 DEF TypeInv, TypeOK, DirsHaveStart, SlotsOf
<1> QED
  BY <1>1, <1>2, <1>3

LEMMA DataWritable == TypeInv => Writable(data)
  BY DEF TypeInv, TypeOK, DirsHaveStart, Writable, SlotsOf

\* A cluster may be replaced by any well-formed contents.
LEMMA ClusterWritable ==
  ASSUME TypeInv, NEW c \in Cl0, NEW x \in Content,
         x.kind = "dir" => \A s \in 1..Slots :
           (x.slot[s].tag = "live" /\ x.slot[s].dir) => x.slot[s].start \in Clusters
  PROVE  Writable([data EXCEPT ![c] = x])
<1> DEFINE new == [data EXCEPT ![c] = x]
<1>1. new \in [Clusters -> Content]
  BY DEF TypeInv, TypeOK
<1>2. \A k \in Clusters : new[k] = IF k = c THEN x ELSE data[k]
  BY DEF TypeInv, TypeOK
<1> HIDE DEF new
<1>3. \A s \in 1..Slots : EmptySlots[s].tag # "live"
  BY DEF EmptySlots, EndMark
<1>4. ASSUME NEW k \in Clusters, NEW s \in 1..Slots,
             NEW e, e = (IF new[k].kind = "dir" THEN new[k].slot ELSE EmptySlots)[s],
             e.tag = "live", e.dir
      PROVE  e.start \in Clusters
  <2>1. CASE k = c
    <3>1. new[k] = x BY <2>1, <1>2
    <3>2. CASE x.kind = "dir"
      <4>1. e = x.slot[s] BY <3>1, <3>2, <1>4
      <4> QED BY <4>1, <3>2, <1>4
    <3>3. CASE x.kind # "dir"
      <4>1. e = EmptySlots[s] BY <3>1, <3>3, <1>4
      <4> QED BY <4>1, <1>3, <1>4
    <3> QED BY <3>2, <3>3
  <2>2. CASE k # c
    <3>1. e = SlotsOf(k)[s]
      BY <2>2, <1>2, <1>4 DEF SlotsOf
    <3> QED BY <3>1, <1>4 DEF TypeInv, DirsHaveStart
  <2> QED BY <2>1, <2>2
<1>5. \A k \in Clusters, s \in 1..Slots :
        LET e == (IF new[k].kind = "dir" THEN new[k].slot ELSE EmptySlots)[s]
        IN  (e.tag = "live" /\ e.dir) => e.start \in Clusters
  BY <1>4
<1>6. Writable(new)
  BY <1>1, <1>5 DEF Writable
<1> QED
  BY <1>6 DEF new

\* So may an entry of a directory.
LEMMA PutSlotWritable ==
  ASSUME TypeInv, NEW loc \in Loc, NEW e \in Slot,
         (e.tag = "live" /\ e.dir) => e.start \in Clusters
  PROVE  Writable(PutSlot(loc, e))
<1>1. CASE loc[1] \in Clusters
  <2> DEFINE sl == [SlotsOf(loc[1]) EXCEPT ![loc[2]] = e]
             x == DirData(ParentOf(loc[1]), sl)
  <2>1. /\ SlotsOf(loc[1]) \in [1..Slots -> Slot] /\ ParentOf(loc[1]) \in Cl0
    BY <1>1, SlotsOfType, TypeInvData
  <2>2. sl \in [1..Slots -> Slot]
    BY <2>1
  <2>3. x \in Content /\ x.slot = sl /\ x.kind = "dir"
    BY <2>1, <2>2 DEF Content, DirData
  <2>4. \A s \in 1..Slots :
          (sl[s].tag = "live" /\ sl[s].dir) => sl[s].start \in Clusters
    BY <1>1, <2>1 DEF TypeInv, DirsHaveStart
  <2> HIDE DEF x, sl
  <2>5. Writable([data EXCEPT ![loc[1]] = x])
    BY <1>1, <2>3, <2>4, ClusterWritable DEF Cl0
  <2> QED
    BY <2>5 DEF PutSlot, x, sl
<1>2. CASE loc[1] \notin Clusters
  <2>1. PutSlot(loc, e) = data
    BY <1>2 DEF PutSlot, TypeInv, TypeOK
  <2> QED BY <2>1, DataWritable
<1> QED BY <1>1, <1>2

LEMMA WriteSlotType ==
  ASSUME TypeInv, NEW loc \in Loc, NEW e \in Slot, NEW w,
         (e.tag = "live" /\ e.dir) => e.start \in Clusters,
         WriteSlot(loc, e, w)
  PROVE  data' \in [Clusters -> Content] /\ DirsHaveStart' /\ FaultsOK'
<1>1. CASE WriteData(PutSlot(loc, e), w)
  BY <1>1, PutSlotWritable, WriteDataType
<1>2. CASE data' = data /\ Fault("read", {})
  <2>1. FaultsOK'
    BY <1>2, FaultType
  <2> QED BY <1>2, <2>1 DEF TypeInv, TypeOK, DirsHaveStart, SlotsOf
<1> QED BY <1>1, <1>2 DEF WriteSlot

LEMMA SameDataType ==
  ASSUME TypeInv, data' = data
  PROVE  data' \in [Clusters -> Content] /\ DirsHaveStart'
  BY DEF TypeInv, TypeOK, DirsHaveStart, SlotsOf

\* A step that leaves the FAT alone.
LEMMA KeepType ==
  ASSUME TypeInv, Keep, data' \in [Clusters -> Content], DirsHaveStart'
  PROVE  MemOK'
  BY DEF TypeInv, TypeOK, MemOK, Keep, cacheVars

\* The entry of the FAT that a step needs is one of the FAT, or none.
LEMMA DirtyHopType ==
  ASSUME TypeInv, NEW d \in Cl0, NEW s
  PROVE  DirtyHop(d, s) \in Cl0
<1>1. \A S : S # {} => Only(S) \in S
  BY Zenon DEF Only
<1> QED
  BY <1>1, ViewType, ChainType, Bounds DEF DirtyHop, FlushHops, Cl0

LEMMA NeedType == TypeInv => Need \in Cl0
<1> SUFFICES ASSUME TypeInv PROVE Need \in Cl0
  OBVIOUS
<1>1. f.dir \in Cl0 /\ f \in Frame
  BY DEF TypeInv, TypeOK, Frame
<1> QED
  BY <1>1, DirtyHopType, Bounds DEF Need, Frame, Loc, Cl0

\* A change of an entry of the FAT.
LEMMA SetEntryType ==
  ASSUME TypeInv, NEW v \in FatVal, SetEntry(v), hint' \in Clusters
  PROVE  MemOK' /\ FaultsOK'
<1>1. FaultsOK'
  BY NoFaultType DEF SetEntry
<1>2. data' \in [Clusters -> Content] /\ DirsHaveStart'
  BY SameDataType DEF SetEntry, diskVars
<1> QED
  BY <1>1, <1>2 DEF TypeInv, TypeOK, MemOK, SetEntry, diskVars

LEMMA FlushedType == TypeInv => Flushed \in [1..NumFats -> [Clusters -> FatVal]]
<1> SUFFICES ASSUME TypeInv PROVE Flushed \in [1..NumFats -> [Clusters -> FatVal]]
  OBVIOUS
<1>1. [c \in Clusters |-> IF Cached(c) THEN cache[c] ELSE fat[copy][c]]
        \in [Clusters -> FatVal]
  BY DEF TypeInv, TypeOK
<1> QED
  BY <1>1 DEF TypeInv, TypeOK, Flushed

\* A flush that fails, and a load that fails.
LEMMA FlushFailsType ==
  ASSUME TypeInv, FlushFails
  PROVE  MemOK' /\ FaultsOK' /\ hint' = hint
<1>1. FaultsOK'
  BY FaultType DEF FlushFails
<1>2. data' \in [Clusters -> Content] /\ DirsHaveStart'
  BY SameDataType DEF FlushFails
<1>3. fat' \in [1..NumFats -> [Clusters -> FatVal]]
  BY FlushedType DEF FlushFails, TypeInv, TypeOK
<1> QED
  BY <1>1, <1>2, <1>3, Bounds DEF TypeInv, TypeOK, MemOK, FlushFails

LEMMA ReadFailsType ==
  ASSUME TypeInv, ReadFails
  PROVE  MemOK' /\ FaultsOK' /\ hint' = hint
<1>1. FaultsOK'
  BY FaultType DEF ReadFails
<1>2. data' \in [Clusters -> Content] /\ DirsHaveStart'
  BY SameDataType DEF ReadFails, diskVars
<1>3. cache' \in [Clusters -> FatVal] /\ cur' = NoSector
  BY DEF ReadFails, NoCache, FatVal
<1> QED
  BY <1>1, <1>2, <1>3 DEF TypeInv, TypeOK, MemOK, ReadFails, diskVars

LEMMA LoadFailsType ==
  ASSUME TypeInv, LoadFails
  PROVE  MemOK' /\ FaultsOK' /\ hint' = hint
  BY FlushFailsType, ReadFailsType DEF LoadFails

\* The invariant holds at first.
LEMMA InitType == Init => TypeInv
<1> SUFFICES ASSUME Init PROVE TypeInv
  OBVIOUS
<1>1. fat \in [1..NumFats -> [Clusters -> FatVal]] /\ cache \in [Clusters -> FatVal]
  <2>1. Free \in FatVal /\ Eoc \in FatVal
    BY DEF FatVal
  <2>2. [c \in Clusters |-> IF c = Root THEN Eoc ELSE Free] \in [Clusters -> FatVal]
    BY <2>1
  <2>3. fat \in [1..NumFats -> [Clusters -> FatVal]]
    BY <2>2 DEF Init
  <2>4. cache \in [Clusters -> FatVal]
    BY <2>1 DEF Init, NoCache
  <2> QED
    BY <2>3, <2>4
<1>2. DirData(0, EmptySlots) \in Content /\ Raw \in Content
  <2>1. EmptySlots \in [1..Slots -> Slot]
    BY DEF Slot, EmptySlots
  <2>2. DirData(0, EmptySlots) \in [kind: {"dir"}, parent: Cl0, slot: [1..Slots -> Slot]]
    BY <2>1 DEF DirData, Cl0
  <2> QED
    BY <2>2 DEF Content
<1>3. data \in [Clusters -> Content]
  BY <1>2 DEF Init
<1>4. DirsHaveStart
  BY DEF Init, DirsHaveStart, SlotsOf, EmptySlots, EndMark, DirData, Raw
<1>5. NoFrame \in Frame
  BY Bounds DEF NoFrame, Frame, Kinds, Cl0, Loc
<1>6. MemOK
  <2>1. /\ cur = NoSector /\ dirty = FALSE /\ copy = 1 /\ hint = 2 /\ cwd = Root
        /\ ops = 0
    BY DEF Init
  <2>2. 1 \in 1..NumFats /\ 0 \in 0..MaxOps
    BY FatAssumption
  <2> QED
    BY <1>1, <1>3, <1>4, <2>1, <2>2, Bounds DEF MemOK
<1>7. FaultsOK
  <2>1. faults = 0 /\ crashed = FALSE /\ cut = FALSE /\ suspect = {}
    BY DEF Init
  <2>2. 0 \in 0..MaxFaults
    BY FatAssumption
  <2> QED
    BY <2>1, <2>2 DEF FaultsOK
<1>8. CallOK
  BY <1>5 DEF Init, CallOK, FrameOK, NoFrame, Labels, Storing, Allocating
<1> QED BY <1>6, <1>7, <1>8, TypeParts

\* Between calls the locals are those of no call.
LEMMA NoFrameType ==
  /\ NoFrame \in Frame
  /\ \A r \in {"none", "ok", "fail", "notempty"} : Return(r) => CallOK'
<1>1. NoFrame \in Frame
  BY Bounds DEF NoFrame, Frame, Kinds, Cl0, Loc
<1>2. ASSUME NEW r \in {"none", "ok", "fail", "notempty"}, Return(r)
      PROVE  CallOK'
  BY <1>1, <1>2 DEF Return, CallOK, FrameOK, NoFrame, Labels, Storing,
     Allocating
<1> QED BY <1>1, <1>2

\* The locals stay as they are, and the new label asks no more of them.
LEMMA SameType ==
  ASSUME TypeInv, NEW l \in Labels, Same(l),
         l \in Storing => pc \in Storing,
         l \in {"eoc", "link", "unlink"} => pc \in {"eoc", "link", "unlink"},
         l \in {"seal", "xlink", "xeoc", "xzero", "xflush", "dirinit"}
           => pc \in {"seal", "xlink", "xeoc", "xzero", "xflush", "dirinit"},
         (l = "entry" /\ f.kind = "mkdir") => pc \in {"entry", "dirinit"},
         (l \in Allocating /\ f.last = 0) => pc \in Allocating,
         l \in {"data", "next"} => pc \in {"data", "next"},
         l = "next" => f.index < f.cnt
  PROVE  CallOK'
  BY DEF Same, Goto, TypeInv, TypeOK, CallOK, FrameOK

\* The release of a chain starts, or there is none to release.
LEMMA FreeChainType ==
  ASSUME TypeInv, NEW c \in Cl0, NEW then \in {"done", "abort", "fail"},
         FreeChain(c, then)
  PROVE  CallOK'
<1>1. CASE c # 0
  <2>1. f' = [f EXCEPT !.c = c, !.then = then] /\ pc' = "free" /\ ret' = ret
    BY <1>1 DEF FreeChain, Goto
  <2>2. f' \in Frame
    BY <2>1 DEF TypeInv, TypeOK, Frame
  <2> QED
    BY <2>1, <2>2 DEF TypeInv, TypeOK, CallOK, FrameOK, Labels, Storing,
       Allocating, Frame
<1>2. CASE c = 0
  <2>1. CASE then = "abort"
    <3>1. Same("abort") BY <1>2, <2>1 DEF FreeChain
    <3> QED BY <3>1, SameType DEF Labels, Storing, Allocating
  <2>2. CASE then # "abort"
    BY <1>2, <2>2, NoFrameType DEF FreeChain
  <2> QED BY <2>1, <2>2
<1> QED BY <1>1, <1>2

\* The release of a chain ends.
LEMMA FreeReturnsType ==
  ASSUME TypeInv, FreeReturns
  PROVE  CallOK'
<1>1. CASE f.then = "done"
  <2>1. Same("flush2") BY <1>1 DEF FreeReturns
  <2> QED BY <2>1, SameType DEF Labels, Storing, Allocating
<1>2. CASE f.then = "abort"
  <2>1. Same("abort") BY <1>2 DEF FreeReturns
  <2> QED BY <2>1, SameType DEF Labels, Storing, Allocating
<1>3. CASE f.then \notin {"done", "abort"}
  BY <1>3, NoFrameType DEF FreeReturns
<1> QED BY <1>1, <1>2, <1>3

\* An allocation starts.
LEMMA AllocType ==
  ASSUME TypeInv, NEW fr \in Frame, NEW n \in 0..MaxCount + 1, Alloc(fr, n),
         fr.kind \in {"write", "mkdir"}, fr.dir \in Clusters, fr.name \in Names,
         fr.kind = "write" => fr.payload \in Payloads,
         fr.kind = "mkdir" => fr.cnt = 1,
         fr.last = 0 => fr.cnt # 0
  PROVE  CallOK'
<1>1. /\ f' = [fr EXCEPT !.left = n, !.first = 0, !.prev = 0, !.scan = hint,
                         !.tries = 0]
      /\ pc' = "find" /\ ret' = ret
  BY DEF Alloc, Goto
<1>2. f' \in Frame
  <2>1. hint \in Cl0 /\ 0 \in Cl0 /\ 0 \in 0..MaxCluster
    BY Bounds DEF TypeInv, TypeOK, Cl0
  <2> QED
    BY <1>1, <2>1 DEF Frame
<1>3. /\ f'.kind = fr.kind /\ f'.dir = fr.dir /\ f'.name = fr.name
      /\ f'.payload = fr.payload /\ f'.cnt = fr.cnt /\ f'.last = fr.last
  BY <1>1 DEF Frame
<1> QED
  BY <1>1, <1>2, <1>3 DEF TypeInv, TypeOK, CallOK, FrameOK, Labels,
     Allocating, Storing

\* A file or a directory is stored: its chain first, if it has one.
LEMMA StoreType ==
  ASSUME TypeInv, NEW fr \in Frame, Store(fr),
         fr.kind \in {"write", "mkdir"}, fr.dir \in Clusters, fr.name \in Names,
         fr.kind = "write" => fr.payload \in Payloads,
         fr.kind = "mkdir" => fr.cnt = 1
  PROVE  CallOK'
<1>1. CASE fr.cnt # 0
  <2>1. fr.cnt \in 0..MaxCount + 1
    BY Bounds DEF Frame
  <2> QED
    BY <1>1, <2>1, AllocType DEF Store
<1>2. CASE fr.cnt = 0
  BY <1>2 DEF Store, Goto, TypeInv, TypeOK, CallOK, FrameOK, Labels,
     Allocating, Storing
<1> QED BY <1>1, <1>2

LEMMA SuccType == \A c \in Clusters : Succ(c) \in Clusters
  BY FatAssumption DEF Succ, Clusters
-----------------------------------------------------------------------------
LEMMA Frame0Type ==
  ASSUME NEW kind \in Kinds, NEW d \in Cl0, NEW n \in Names
  PROVE  /\ Frame0(kind, d, n) \in Frame
         /\ Frame0(kind, d, n).kind = kind /\ Frame0(kind, d, n).dir = d
         /\ Frame0(kind, d, n).name = n
<1>1. NoFrame \in Frame
  BY NoFrameType
<1> HIDE DEF NoFrame
<1> QED BY <1>1 DEF Frame0, Frame

LEMMA TypePartsNext == MemOK' /\ FaultsOK' /\ CallOK' => TypeInv'
  BY DEF TypeInv, TypeOK, MemOK, FaultsOK, CallOK

LEMMA WalkFailsType == ASSUME TypeInv, NEW s, WalkFails(s) PROVE FaultsOK'
  BY FaultType DEF WalkFails

\* The lookup of a name changes the record of the faults and the FAT alone.
LEMMA LookupType ==
  ASSUME TypeInv, NEW d \in Clusters, NEW n, NEW hits, Lookup(d, n, hits)
  PROVE  /\ FaultsOK'
         /\ hits = Matches(View, d, n) \/ hits = {}
         /\ hits # {} => /\ EntryOf(hits).dir \in BOOLEAN
                         /\ EntryOf(hits).start \in Cl0
                         /\ LocOf(d, hits) \in Loc
<1>1. CASE hits = {} /\ WalkFails(Sought(d, n))
  BY <1>1, WalkFailsType
<1>2. CASE /\ hits = Matches(View, d, n)
           /\ suspect' \in {suspect, Clusters \X Names}
           /\ UNCHANGED <<faults, crashed, cut>>
  <2>1. FaultsOK'
    BY <1>2 DEF TypeInv, TypeOK, FaultsOK
  <2> QED
    BY <1>2, <2>1, HitsType, ViewType DEF LocOf, Loc, Cl0
<1> QED
  BY <1>1, <1>2 DEF Lookup

\* A call starts.
LEMMA BeginType ==
  ASSUME TypeInv, Begin, Walked, cwd' \in Clusters
  PROVE  MemOK'
<1>1. data' \in [Clusters -> Content] /\ DirsHaveStart'
  BY SameDataType DEF Begin
<1>2. ops' \in 0..MaxOps
  BY Bounds DEF TypeInv, TypeOK, Begin
<1>3. fat' \in [1..NumFats -> [Clusters -> FatVal]]
  BY DEF TypeInv, TypeOK, Walked, FlushedTo
<1> QED
  BY <1>1, <1>2, <1>3 DEF TypeInv, TypeOK, MemOK, Begin, cacheVars

\* The calls keep the invariant.
LEMMA WriteType ==
  ASSUME TypeInv, NEW d \in Clusters, NEW n \in Names, NEW p \in Payloads,
         NEW k \in 0..MaxCount, Write(d, n, p, k)
  PROVE  TypeInv'
<1>0. d \in Cl0 /\ "write" \in Kinds /\ "mkdir" \in Kinds
  BY DEF Cl0, Kinds
<1>1. PICK hits :
       /\ Lookup(d, n, hits)
       /\ LET fr == [Frame0("write", d, n) EXCEPT !.payload = p, !.cnt = k] IN
          CASE hits = {} -> f' = fr /\ Goto("slot")
            [] hits # {} /\ EntryOf(hits).dir -> Return("fail")
            [] OTHER -> Store([fr EXCEPT !.loc = LocOf(d, hits),
                                         !.old = EntryOf(hits).start])
  BY DEF Write
<1> DEFINE fr == [Frame0("write", d, n) EXCEPT !.payload = p, !.cnt = k]
<1>2. /\ fr \in Frame /\ fr.kind = "write" /\ fr.dir = d /\ fr.name = n
      /\ fr.payload = p /\ fr.cnt = k
  <2> DEFINE g == Frame0("write", d, n)
  <2>1. g \in Frame /\ g.kind = "write" /\ g.dir = d /\ g.name = n
    BY <1>0, Frame0Type
  <2>2. fr = [g EXCEPT !.payload = p, !.cnt = k]
    OBVIOUS
  <2> HIDE DEF g, fr
  <2> QED BY <2>1, <2>2 DEF Frame
<1> HIDE DEF fr
<1>3. CallOK'
  <2>1. CASE hits = {}
    <3>1. f' = fr /\ pc' = "slot" /\ ret' = ret
      BY <1>1, <2>1 DEF fr, Goto
    <3> QED
      BY <1>2, <3>1 DEF TypeInv, TypeOK, CallOK, FrameOK, Labels, Storing,
         Allocating
  <2>2. CASE hits # {} /\ EntryOf(hits).dir
    <3>1. Return("fail") BY <1>1, <2>2
    <3> QED BY <3>1, NoFrameType
  <2>3. CASE hits # {} /\ ~EntryOf(hits).dir
    <3> DEFINE g == [fr EXCEPT !.loc = LocOf(d, hits), !.old = EntryOf(hits).start]
    <3>1. Store(g)
      BY <1>1, <2>3 DEF fr
    <3>2. LocOf(d, hits) \in Loc /\ EntryOf(hits).start \in Cl0
      BY <1>1, <2>3, LookupType
    <3>3. /\ g \in Frame /\ g.kind = "write" /\ g.dir = d /\ g.name = n
          /\ g.payload = p /\ g.cnt = k
      BY <1>2, <3>2 DEF Frame
    <3> HIDE DEF g
    <3> QED BY <3>1, <3>3, StoreType
  <2> QED BY <2>1, <2>2, <2>3
<1>4. FaultsOK'
  BY <1>1, LookupType
<1>5. MemOK'
  BY CallBegins, BeginType DEF Write, TypeInv, TypeOK
<1> QED
  BY <1>3, <1>4, <1>5, TypePartsNext

LEMMA CreateDirType ==
  ASSUME TypeInv, NEW d \in Clusters, NEW n \in Names, CreateDir(d, n)
  PROVE  TypeInv'
<1>0. d \in Cl0 /\ "write" \in Kinds /\ "mkdir" \in Kinds
  BY DEF Cl0, Kinds
<1>1. PICK hits :
       /\ Lookup(d, n, hits)
       /\ IF hits # {} THEN Return("fail")
          ELSE f' = [Frame0("mkdir", d, n) EXCEPT !.cnt = 1] /\ Goto("slot")
  BY DEF CreateDir
<1>2. CallOK'
  <2>1. CASE hits # {}
    BY <1>1, <2>1, NoFrameType
  <2>2. CASE hits = {}
    <3> DEFINE fr == [Frame0("mkdir", d, n) EXCEPT !.cnt = 1]
    <3>1. /\ fr \in Frame /\ fr.kind = "mkdir" /\ fr.dir = d /\ fr.name = n
          /\ fr.cnt = 1
      BY <1>0, Frame0Type, FatAssumption DEF Frame
    <3>2. f' = fr /\ pc' = "slot" /\ ret' = ret
      BY <1>1, <2>2 DEF Goto
    <3> HIDE DEF fr
    <3> QED
      BY <3>1, <3>2 DEF TypeInv, TypeOK, CallOK, FrameOK, Labels, Storing,
         Allocating
  <2> QED BY <2>1, <2>2
<1>3. FaultsOK'
  BY <1>1, LookupType
<1>4. MemOK'
  BY CallBegins, BeginType DEF CreateDir, TypeInv, TypeOK
<1> QED
  BY <1>2, <1>3, <1>4, TypePartsNext

LEMMA DeleteType ==
  ASSUME TypeInv, NEW d \in Clusters, NEW n \in Names, Delete(d, n) \/ DeleteDir(d, n)
  PROVE  TypeInv'
<1>0. d \in Cl0 /\ {"delete", "rmdir"} \subseteq Kinds
  BY DEF Cl0, Kinds
<1>4. MemOK'
  BY CallBegins, BeginType DEF Delete, DeleteDir, TypeInv, TypeOK
<1>5. CASE Return("notempty") /\ \E s : WalkFails(s)
  BY <1>4, <1>5, WalkFailsType, NoFrameType, TypePartsNext
<1>6. SUFFICES ASSUME ~(Return("notempty") /\ \E s : WalkFails(s)) PROVE TypeInv'
  BY <1>5
<1>1. PICK hits :
       /\ Lookup(d, n, hits)
       /\ \/ Return("fail") \/ Return("notempty")
          \/ \E kind \in {"delete", "rmdir"} :
               /\ hits # {}
               /\ f' = [Frame0(kind, d, n) EXCEPT !.loc = LocOf(d, hits),
                                                  !.old = EntryOf(hits).start]
               /\ Goto("tombstone")
  <2>1. CASE Delete(d, n)
    BY <2>1 DEF Delete
  <2>2. CASE DeleteDir(d, n)
    <3>1. PICK hits : Lookup(d, n, hits) /\ Decided(d, n, hits)
      BY <1>6, <2>2, DeleteDirIs
    <3>2. CASE hits = {} \/ (hits # {} /\ ~EntryOf(hits).dir) \/ Protected(IF hits = {} THEN 0 ELSE EntryOf(hits).start)
      BY <3>1, <3>2 DEF Decided
    <3>3. CASE hits # {} /\ EntryOf(hits).dir /\ ~Protected(EntryOf(hits).start)
      <4>1. IF ~IsDirEmpty(View, EntryOf(hits).start) THEN Return("notempty")
                      ELSE /\ f' = [Frame0("rmdir", d, n) EXCEPT
                                      !.loc = LocOf(d, hits),
                                      !.old = EntryOf(hits).start]
                           /\ Goto("tombstone")
        BY <3>1, <3>3 DEF Decided
      <4> QED BY <4>1, <3>1, <3>3
    <3> QED BY <3>2, <3>3
  <2> QED BY <2>1, <2>2
<1>2. CallOK'
  <2>1. CASE Return("fail") \/ Return("notempty")
    BY <2>1, NoFrameType
  <2>2. CASE ~(Return("fail") \/ Return("notempty"))
    <3>1. PICK kind \in {"delete", "rmdir"} :
               /\ hits # {}
               /\ f' = [Frame0(kind, d, n) EXCEPT !.loc = LocOf(d, hits),
                                                  !.old = EntryOf(hits).start]
               /\ Goto("tombstone")
      BY <1>1, <2>2
    <3> DEFINE g == Frame0(kind, d, n)
    <3>2. g \in Frame /\ g.kind = kind /\ g.dir = d /\ g.name = n
      BY <1>0, Frame0Type
    <3>3. LocOf(d, hits) \in Loc /\ EntryOf(hits).start \in Cl0
      BY <1>1, <3>1, LookupType
    <3>4. f' = [g EXCEPT !.loc = LocOf(d, hits), !.old = EntryOf(hits).start]
      BY <3>1
    <3> HIDE DEF g
    <3>5. f' \in Frame /\ f'.kind \in {"delete", "rmdir"}
      BY <3>2, <3>3, <3>4 DEF Frame
    <3> QED
      BY <3>1, <3>5 DEF Goto, TypeInv, TypeOK, CallOK, FrameOK, Labels,
         Storing, Allocating
  <2> QED BY <2>1, <2>2
<1>3. FaultsOK'
  BY <1>1, LookupType
<1> QED
  BY <1>2, <1>3, <1>4, TypePartsNext

LEMMA SimpleCallType ==
  ASSUME TypeInv,
         \/ \E d \in Clusters : ChangeDir(d) \/ Read(d)
         \/ Sync
  PROVE  TypeInv'
<1>1. FaultsOK'
  BY NoFaultType DEF ChangeDir, Read, Sync
<1>2. MemOK'
  BY CallBegins, BeginType DEF ChangeDir, Read, Sync, TypeInv, TypeOK
<1>3. CallOK'
  <2>1. ASSUME NEW d \in Clusters, ChangeDir(d) PROVE CallOK'
    BY <2>1, NoFrameType DEF ChangeDir
  <2> DEFINE n == NoFrame
  <2>0. n \in Frame /\ n.kind = "none" /\ n.last = 0
    BY NoFrameType DEF NoFrame
  <2>2. ASSUME NEW c \in Clusters, Read(c) PROVE CallOK'
    <3>1. f' = [n EXCEPT !.kind = "read", !.c = c] /\ pc' = "read" /\ ret' = ret
      BY <2>2 DEF Read, Goto
    <3> HIDE DEF n
    <3>2. f' \in Frame /\ f'.kind = "read"
      <4>1. c \in Cl0 /\ "read" \in Kinds
        BY DEF Cl0, Kinds
      <4> QED BY <2>0, <3>1, <4>1, ZenonT(40) DEF Frame
    <3> QED
      BY <3>1, <3>2 DEF TypeInv, TypeOK, CallOK, FrameOK, Labels, Storing,
         Allocating
  <2>3. ASSUME Sync PROVE CallOK'
    <3>1. f' = [n EXCEPT !.kind = "sync"] /\ pc' = "flush2" /\ ret' = ret
      BY <2>3 DEF Sync, Goto
    <3> HIDE DEF n
    <3>2. f' \in Frame /\ f'.kind = "sync"
      BY <2>0, <3>1 DEF Frame, Kinds
    <3> QED
      BY <3>1, <3>2 DEF TypeInv, TypeOK, CallOK, FrameOK, Labels, Storing,
         Allocating
  <2> QED BY <2>1, <2>2, <2>3
<1> QED
  BY <1>1, <1>2, <1>3, TypePartsNext

LEMMA CallType ==
  ASSUME TypeInv, Call
  PROVE  TypeInv'
<1>1. \A x \in DirPaths(View) : x[2].start \in Clusters
  BY DirPathsType, ViewType
<1>2. \A d \in LiveDirs(View) : d \in Clusters
  BY <1>1 DEF LiveDirs
<1>3. \A c \in SectorHeads : c \in Clusters
  BY DEF SectorHeads
<1>4. ASSUME NEW x \in DirPaths(View), NEW n \in Names,
             LET d == x[2].start IN
             \/ /\ Len(x[1]) < MaxDepth
                /\ \/ \E p \in Payloads, size \in 0..MaxCount : Write(d, n, p, size)
                   \/ CreateDir(d, n)
             \/ Delete(d, n)
             \/ DeleteDir(d, n)
      PROVE  TypeInv'
  BY <1>1, <1>4, WriteType, CreateDirType, DeleteType
<1>5. ASSUME \/ \E d \in LiveDirs(View) : ChangeDir(d)
             \/ \E c \in SectorHeads : Read(c)
             \/ Sync
      PROVE  TypeInv'
  BY <1>2, <1>3, <1>5, SimpleCallType
<1> QED
  BY <1>4, <1>5 DEF Call

\* The locals of the running call.
LEMMA FrameFields ==
  ASSUME TypeInv
  PROVE  /\ f.dir \in Cl0 /\ f.cnt \in 0..MaxCount /\ f.loc \in Loc
         /\ f.old \in Cl0 /\ f.last \in Cl0 /\ f.left \in 0..MaxCount + 1
         /\ f.first \in Cl0 /\ f.prev \in Cl0 /\ f.cl \in Cl0 /\ f.scan \in Cl0
         /\ f.tries \in 0..MaxCluster /\ f.c \in Cl0
         /\ f.index \in 0..MaxCount + 1
         /\ f.then \in {"none", "done", "abort", "fail"}
  BY DEF TypeInv, TypeOK, Frame

LEMMA ValueTypes == Free \in FatVal /\ Eoc \in FatVal
  BY DEF FatVal

\* Keep, and no fault, on the data as they are.
LEMMA QuietType ==
  ASSUME TypeInv, Keep, UNCHANGED data, NoFault, CallOK'
  PROVE  TypeInv'
  BY KeepType, SameDataType, NoFaultType, TypePartsNext

\* A cluster has been added to the chain being allocated.
LEMMA LinkedType ==
  ASSUME TypeInv, pc \in {"eoc", "link"}, Linked
  PROVE  CallOK'
<1> DEFINE first == IF f.first = 0 THEN f.cl ELSE f.first
<1>1. f.cl \in Clusters /\ first \in Clusters
  <2>1. f.cl \in Clusters
    BY DEF TypeInv, FrameOK
  <2> QED BY <2>1, FrameFields DEF Cl0
<1> HIDE DEF first
<1>2. CASE f.left > 1
  <2>1. /\ f' = [f EXCEPT !.first = first, !.prev = f.cl, !.left = f.left - 1,
                          !.scan = hint, !.tries = 0]
        /\ pc' = "find" /\ ret' = ret
    BY <1>2 DEF Linked, Goto, first
  <2>2. hint \in Cl0 /\ 0 \in 0..MaxCluster /\ f.left - 1 \in 0..MaxCount + 1
        /\ f.cl \in Cl0 /\ first \in Cl0
    BY <1>1, <1>2, FrameFields, Bounds DEF TypeInv, TypeOK, Cl0
  <2>3. f' \in Frame
    BY <2>1, <2>2 DEF TypeInv, TypeOK, Frame
  <2>4. f'.kind = f.kind /\ f'.dir = f.dir /\ f'.name = f.name
        /\ f'.payload = f.payload /\ f'.cnt = f.cnt /\ f'.last = f.last
    BY <2>1 DEF TypeInv, TypeOK, Frame
  <2> QED
    BY <2>1, <2>3, <2>4 DEF TypeInv, TypeOK, CallOK, FrameOK, Labels, Storing,
       Allocating
<1>3. CASE ~(f.left > 1)
  <2>1. /\ f' = [f EXCEPT !.first = first, !.prev = f.cl, !.left = 0]
        /\ pc' = "seal" /\ ret' = ret
    BY <1>3 DEF Linked, Goto, first
  <2>2. f.cl \in Cl0 /\ first \in Cl0 /\ 0 \in 0..MaxCount + 1
    BY <1>1, Bounds DEF Cl0
  <2>3. f' \in Frame
    BY <2>1, <2>2 DEF TypeInv, TypeOK, Frame
  <2>4. f'.kind = f.kind /\ f'.dir = f.dir /\ f'.name = f.name /\ f'.first = first
        /\ f'.payload = f.payload /\ f'.cnt = f.cnt /\ f'.last = f.last
    BY <2>1 DEF TypeInv, TypeOK, Frame
  <2> QED
    BY <1>1, <2>1, <2>3, <2>4 DEF TypeInv, TypeOK, CallOK, FrameOK, Labels,
       Storing, Allocating
<1> QED BY <1>2, <1>3

\* The search for a free cluster moves on.
LEMMA ScanType ==
  ASSUME TypeInv, pc = "find", f.tries < MaxCluster - 1, f.scan \in Clusters,
         f' = [f EXCEPT !.scan = Succ(f.scan), !.tries = @ + 1], Goto("find")
  PROVE  CallOK'
<1>1. Succ(f.scan) \in Cl0 /\ f.tries + 1 \in 0..MaxCluster
  BY SuccType, FrameFields, Bounds DEF Cl0
<1>2. f' \in Frame
  BY <1>1 DEF TypeInv, TypeOK, Frame
<1>3. f'.kind = f.kind /\ f'.dir = f.dir /\ f'.name = f.name
      /\ f'.payload = f.payload /\ f'.cnt = f.cnt /\ f'.last = f.last
  BY DEF TypeInv, TypeOK, Frame
<1> QED
  BY <1>2, <1>3 DEF Goto, TypeInv, TypeOK, CallOK, FrameOK, Labels, Storing,
     Allocating

\* The steps of an allocation keep the invariant.
LEMMA AllocStepType ==
  ASSUME TypeInv, AllocStep
  PROVE  TypeInv'
<1>1. CASE FindFree
  <2>1. f.tries < MaxCluster - 1 /\ f.scan \in Clusters /\ pc = "find"
    BY <1>1, FrameFields DEF FindFree, Access, Need, Cl0
  <2>2. CallOK' /\ hint' \in Clusters
    <3>1. CASE IsFree(View, f.scan)
      <4>1. f' = [f EXCEPT !.cl = f.scan] /\ pc' = "eoc" /\ ret' = ret
            /\ hint' = Succ(f.scan)
        BY <1>1, <3>1 DEF FindFree, Goto
      <4>2. f' \in Frame /\ f'.kind = f.kind /\ f'.dir = f.dir /\ f'.name = f.name
            /\ f'.payload = f.payload /\ f'.cnt = f.cnt /\ f'.last = f.last
            /\ f'.cl = f.scan
        BY <4>1, FrameFields DEF TypeInv, TypeOK, Frame
      <4> QED
        BY <2>1, <4>1, <4>2, SuccType DEF TypeInv, TypeOK, CallOK, FrameOK,
           Labels, Storing, Allocating
    <3>2. CASE ~IsFree(View, f.scan)
      BY <1>1, <2>1, <3>2, ScanType DEF FindFree, TypeInv, TypeOK
    <3> QED BY <3>1, <3>2
  <2>3. data' \in [Clusters -> Content] /\ DirsHaveStart' /\ FaultsOK'
    BY <1>1, SameDataType, NoFaultType DEF FindFree, diskVars
  <2>4. MemOK'
    BY <1>1, <2>2, <2>3 DEF TypeInv, TypeOK, MemOK, FindFree, diskVars,
       cacheVars
  <2> QED BY <2>2, <2>3, <2>4, TypePartsNext
<1>2. CASE FindSkips
  <2>1. f.tries < MaxCluster - 1 /\ f.scan \in Clusters /\ pc = "find"
    BY <1>2, FrameFields DEF FindSkips, LoadFails, Evicting, Need, Cl0
  <2>2. CallOK'
    BY <1>2, <2>1, ScanType DEF FindSkips
  <2> QED BY <1>2, <2>2, LoadFailsType, TypePartsNext DEF FindSkips
<1>3. CASE DiskFull
  BY <1>3, FreeChainType, FrameFields, QuietType DEF DiskFull
<1>4. CASE MarkEoc
  <2>1. CallOK'
    <3>1. CASE Same("link")
      BY <1>4, <3>1, SameType DEF MarkEoc, Labels, Storing, Allocating
    <3>2. CASE Linked
      BY <1>4, <3>2, LinkedType DEF MarkEoc
    <3> QED BY <1>4, <3>1, <3>2 DEF MarkEoc
  <2> QED
    BY <1>4, <2>1, ValueTypes, SetEntryType, TypePartsNext DEF MarkEoc,
       TypeInv, TypeOK
<1>5. CASE LinkPrev
  <2>1. f.cl \in FatVal
    BY <1>5, FrameFields DEF LinkPrev, FatVal, TypeInv, FrameOK
  <2> QED
    BY <1>5, <2>1, LinkedType, SetEntryType, TypePartsNext DEF LinkPrev,
       TypeInv, TypeOK
<1>6. CASE LinkFails
  <2>1. CallOK'
    BY <1>6, SameType DEF LinkFails, Labels, Storing, Allocating
  <2> QED BY <1>6, <2>1, LoadFailsType, TypePartsNext DEF LinkFails
<1>7. CASE Unlink
  <2>1. CallOK'
    BY <1>7, FreeChainType, FrameFields DEF Unlink
  <2>2. MemOK' /\ FaultsOK'
    BY <1>7, LoadFailsType, ValueTypes, SetEntryType DEF Unlink, TypeInv,
       TypeOK
  <2> QED BY <2>1, <2>2, TypePartsNext
<1>8. CASE Seal
  <2>1. CallOK'
    <3>1. CASE Same("xlink") \/ (Same("dirinit") /\ f.last = 0)
      BY <1>8, <3>1, SameType DEF Seal, Labels, Storing, Allocating
    <3>2. CASE /\ f.last = 0 /\ f.kind # "mkdir"
               /\ f' = [f EXCEPT !.c = f.first, !.index = 1] /\ Goto("data")
      <4>1. 1 \in 0..MaxCount + 1 /\ f.cnt \in Nat
        BY Bounds, FrameFields
      <4>2. f' \in Frame /\ f'.kind = f.kind /\ f'.dir = f.dir /\ f'.name = f.name
            /\ f'.payload = f.payload /\ f'.cnt = f.cnt /\ f'.last = f.last
            /\ f'.index = 1
        BY <3>2, <4>1, FrameFields, ZenonT(40) DEF TypeInv, TypeOK, Frame
      <4>3. f.kind = "write" /\ f.cnt # 0
        BY <1>8, <3>2 DEF Seal, TypeInv, FrameOK, Storing, Allocating
      <4> QED
        BY <3>2, <4>1, <4>2, <4>3 DEF Goto, TypeInv, TypeOK, CallOK, FrameOK,
           Labels, Storing, Allocating
    <3> QED BY <1>8, <3>1, <3>2 DEF Seal
  <2> QED
    BY <1>8, <2>1, ValueTypes, SetEntryType, TypePartsNext DEF Seal, TypeInv,
       TypeOK
<1>9. CASE SealFails
  BY <1>9, FreeChainType, FrameFields, LoadFailsType, TypePartsNext
     DEF SealFails
<1> QED
  BY <1>1, <1>2, <1>3, <1>4, <1>5, <1>6, <1>7, <1>8, <1>9 DEF AllocStep

\* The place of the new entry is the only change of the locals.
LEMMA FrameKept ==
  ASSUME TypeInv
  PROVE  \A l \in Loc, b \in BOOLEAN : 
           LET g == [f EXCEPT !.loc = l, !.mark = b] IN
           /\ g \in Frame /\ g.kind = f.kind /\ g.dir = f.dir /\ g.name = f.name
           /\ g.payload = f.payload /\ g.cnt = f.cnt /\ g.last = f.last
  BY DEF TypeInv, TypeOK, Frame

LEMMA TakeSlotType ==
  ASSUME TypeInv, NEW free, free \subseteq FreeSlots(View, f.dir), free # {},
         f.kind \in {"write", "mkdir"}, f.dir \in Clusters, TakeSlot(free)
  PROVE  CallOK'
<1> DEFINE l == LocAt(View, f.dir, First(free)[1])
           b == (EntryOf(free) = EndMark)
           g == [f EXCEPT !.loc = l, !.mark = b]
<1>1. Store(g)
  BY DEF TakeSlot, LocOf
<1>2. l \in Loc
  BY FreeSlotType, ViewType DEF Cl0, Loc
<1>3. b \in BOOLEAN OBVIOUS
<1> HIDE DEF l, b
<1>4. g \in Frame /\ g.kind = f.kind /\ g.dir = f.dir /\ g.name = f.name
         /\ g.payload = f.payload /\ g.cnt = f.cnt
  BY <1>2, <1>3, FrameKept
<1> HIDE DEF g
<1> QED
  BY <1>1, <1>4, StoreType DEF TypeInv, FrameOK

LEMMA FindSlotType ==
  ASSUME TypeInv, FindSlot \/ SlotFails
  PROVE  TypeInv'
<1>1. pc = "slot" /\ f.kind \in {"write", "mkdir"} /\ f.dir \in Clusters
  BY DEF FindSlot, SlotFails, TypeInv, FrameOK, Storing
<1>2. CallOK'
  <2>1. CASE Same("extend")
    BY <1>1, <2>1, SameType DEF Labels, Storing, Allocating
  <2>2. CASE ~Same("extend")
    <3>1. \E free : /\ free \subseteq FreeSlots(View, f.dir) /\ free # {}
                   /\ TakeSlot(free)
      <4>1. CASE FindSlot
        BY <2>2, <4>1 DEF FindSlot
      <4>2. CASE SlotFails
        BY <2>2, <4>2, Zenon DEF SlotFails
      <4> QED BY <4>1, <4>2
    <3> QED BY <1>1, <3>1, TakeSlotType
  <2> QED BY <2>1, <2>2
<1>3. CASE FindSlot
  <2>1. NoFault \/ Fault("read", {}) BY <1>3 DEF FindSlot
  <2>2. FaultsOK' BY <2>1, NoFaultType, FaultType
  <2> QED
    BY <1>2, <1>3, <2>2, KeepType, SameDataType, TypePartsNext DEF FindSlot
<1>4. CASE SlotFails
  BY <1>2, <1>4, LoadFailsType, TypePartsNext DEF SlotFails
<1> QED BY <1>3, <1>4

LEMMA ChainSetType ==
  ASSUME NEW v \in [Clusters -> FatVal], NEW c \in Cl0
  PROVE  ChainSet(v, c) \subseteq Clusters
  BY ChainType DEF ChainSet, Cl0

LEMMA ExtendActionType ==
  ASSUME TypeInv, Extend \/ ExtendFails
  PROVE  TypeInv'
<1>1. f.kind \in {"write", "mkdir"} /\ f.dir \in Clusters
  BY DEF Extend, ExtendFails, TypeInv, FrameOK, Storing
<1>2. CallOK'
  <2>1. CASE Return("fail")
    BY <2>1, NoFrameType
  <2>2. CASE ~Return("fail")
    <3>1. PICK last : /\ last \in ChainSet(View, f.dir) \/ (last = Need /\ Need # 0)
                      /\ Alloc([f EXCEPT !.last = last], 1)
      BY <2>2 DEF Extend, ExtendFails, LoadFails, Evicting
    <3>2. last \in Clusters
      BY <1>1, <3>1, ChainSetType, ViewType, NeedType DEF Cl0
    <3> DEFINE g == [f EXCEPT !.last = last]
    <3>3. g \in Frame /\ g.kind = f.kind /\ g.dir = f.dir /\ g.name = f.name
           /\ g.payload = f.payload /\ g.cnt = f.cnt /\ g.last = last
      BY <3>2 DEF TypeInv, TypeOK, Frame, Cl0
    <3>4. Alloc(g, 1)
      BY <3>1
    <3> HIDE DEF g
    <3>5. 1 \in 0..MaxCount + 1 /\ last # 0
      BY Bounds, <3>2
    <3> QED
      BY <1>1, <3>3, <3>4, <3>5, AllocType DEF TypeInv, FrameOK
  <2> QED BY <2>1, <2>2
<1>3. CASE Extend
  <2>1. NoFault \/ Fault("read", {}) BY <1>3 DEF Extend
  <2>2. FaultsOK' BY <2>1, NoFaultType, FaultType
  <2> QED
    BY <1>2, <1>3, <2>2, KeepType, SameDataType, TypePartsNext DEF Extend
<1>4. CASE ExtendFails
  BY <1>2, <1>4, LoadFailsType, TypePartsNext DEF ExtendFails
<1> QED BY <1>3, <1>4

LEMMA EmptyDirWritable ==
  ASSUME TypeInv, NEW c \in Cl0, NEW p \in Cl0
  PROVE  Writable([data EXCEPT ![c] = DirData(p, EmptySlots)])
<1> DEFINE x == DirData(p, EmptySlots)
<1>1. EmptySlots \in [1..Slots -> Slot]
  BY DEF EmptySlots, Slot
<1>2. x \in [kind: {"dir"}, parent: Cl0, slot: [1..Slots -> Slot]]
  BY <1>1 DEF DirData
<1>3. x \in Content BY <1>2 DEF Content
<1>4. x.slot = EmptySlots BY DEF DirData
<1>5. \A s \in 1..Slots : EmptySlots[s].tag # "live"
  BY DEF EmptySlots, EndMark
<1> HIDE DEF x
<1>6. Writable([data EXCEPT ![c] = x])
  BY <1>3, <1>4, <1>5, ClusterWritable
<1> QED BY <1>6 DEF x

\* The extension of a directory keeps the invariant.
LEMMA ExtendStepType ==
  ASSUME TypeInv, ExtendStep
  PROVE  TypeInv'
<1>1. CASE FindSlot \/ SlotFails \/ Extend \/ ExtendFails
  BY <1>1, FindSlotType, ExtendActionType
<1>2. CASE LinkDir
  <2>1. CallOK'
    BY <1>2, SameType DEF LinkDir, Labels, Storing, Allocating
  <2>2. f.first \in FatVal
    BY <1>2 DEF LinkDir, TypeInv, FrameOK, FatVal
  <2> QED BY <1>2, <2>1, <2>2, SetEntryType, TypePartsNext DEF LinkDir,
             TypeInv, TypeOK
<1>3. CASE LinkDirFails
  BY <1>3, FreeChainType, FrameFields, LoadFailsType, TypePartsNext
     DEF LinkDirFails
<1>4. CASE SealDir
  <2>1. CallOK'
    BY <1>4, SameType DEF SealDir, Labels, Storing, Allocating
  <2> QED BY <1>4, <2>1, ValueTypes, SetEntryType, TypePartsNext DEF SealDir,
             TypeInv, TypeOK
<1>5. CASE SealDirFails
  <2>1. CallOK'
    BY <1>5, SameType DEF SealDirFails, Labels, Storing, Allocating
  <2> QED BY <1>5, <2>1, LoadFailsType, TypePartsNext DEF SealDirFails
<1>6. CASE ClearDir
  <2>1. PICK w \in BOOLEAN :
       /\ WriteData([data EXCEPT ![f.first] = DirData(0, EmptySlots)], w)
       /\ Same(IF w THEN "xflush" ELSE "xundo")
    BY <1>6 DEF ClearDir
  <2>2. data' \in [Clusters -> Content] /\ DirsHaveStart' /\ FaultsOK'
    BY <2>1, EmptyDirWritable, FrameFields, WriteDataType DEF Cl0
  <2>3. CallOK'
    <3>1. CASE w
      <4>1. Same("xflush") BY <2>1, <3>1
      <4> QED BY <4>1, <1>6, SameType DEF ClearDir, Labels, Storing, Allocating
    <3>2. CASE ~w
      <4>1. Same("xundo") BY <2>1, <3>2
      <4> QED BY <4>1, <1>6, SameType DEF ClearDir, Labels, Storing, Allocating
    <3> QED BY <3>1, <3>2
  <2> QED BY <1>6, <2>2, <2>3, KeepType, TypePartsNext DEF ClearDir
<1>7. CASE UnlinkDir
  <2>1. CallOK'
    BY <1>7, FreeChainType, FrameFields DEF UnlinkDir
  <2>2. MemOK' /\ FaultsOK'
    BY <1>7, LoadFailsType, ValueTypes, SetEntryType DEF UnlinkDir, TypeInv,
       TypeOK
  <2> QED BY <2>1, <2>2, TypePartsNext
<1>8. CASE ExtendDone
  <2> DEFINE g == [f EXCEPT !.loc = <<f.first, 1>>, !.mark = TRUE, !.last = 0,
                            !.first = 0, !.prev = 0, !.cl = 0]
  <2>1. 1 \in 1..Slots /\ 0 \in Cl0
    BY Bounds DEF Cl0
  <2>2. <<f.first, 1>> \in Loc
    BY <2>1, FrameFields DEF Loc
  <2>3. g \in Frame /\ g.kind = f.kind /\ g.dir = f.dir /\ g.name = f.name
           /\ g.payload = f.payload /\ g.cnt = f.cnt
    BY <2>1, <2>2 DEF TypeInv, TypeOK, Frame
  <2>4. Store(g) BY <1>8 DEF ExtendDone
  <2> HIDE DEF g
  <2>5. f.kind \in {"write", "mkdir"}
    BY <1>8 DEF ExtendDone, TypeInv, FrameOK, Storing
  <2>6. CallOK'
    BY <2>3, <2>4, <2>5, StoreType DEF TypeInv, FrameOK
  <2> QED BY <1>8, <2>6, QuietType DEF ExtendDone
<1> QED
  BY <1>1, <1>2, <1>3, <1>4, <1>5, <1>6, <1>7, <1>8 DEF ExtendStep

\* The writes of a call keep the invariant.
LEMMA StoreStepType ==
  ASSUME TypeInv, StoreStep
  PROVE  TypeInv'
<1>1. CASE WriteCluster
  <2>1. PICK w \in BOOLEAN :
       /\ WriteData([data EXCEPT ![f.c] = FileData(f.payload, f.index)], w)
       /\ CASE ~w -> FreeChain(f.first, "abort")
            [] w /\ f.index < f.cnt -> Same("next")
            [] OTHER -> Same("entry")
    BY <1>1 DEF WriteCluster
  <2>2. f.kind = "write" /\ f.payload \in Payloads /\ f.index \in 1..MaxCount /\ pc = "data"
    BY <1>1, FrameFields, Bounds DEF WriteCluster, TypeInv, FrameOK
  <2> DEFINE x == FileData(f.payload, f.index)
  <2>3. x \in Content /\ x.kind = "file"
    BY <2>2 DEF FileData, Content
  <2> HIDE DEF x
  <2>4. Writable([data EXCEPT ![f.c] = x])
    BY <2>3, ClusterWritable, FrameFields
  <2>5. data' \in [Clusters -> Content] /\ DirsHaveStart' /\ FaultsOK'
    BY <2>1, <2>4, WriteDataType DEF x
  <2>6. CallOK'
    <3>1. CASE ~w
      BY <2>1, <3>1, FreeChainType, FrameFields
    <3>2. CASE w /\ f.index < f.cnt
      <4>1. Same("next") BY <2>1, <3>2
      <4> QED BY <2>2, <3>2, <4>1, SameType DEF Labels, Storing, Allocating
    <3>3. CASE w /\ ~(f.index < f.cnt)
      <4>1. Same("entry") BY <2>1, <3>3
      <4> QED BY <2>2, <4>1, SameType DEF Labels, Storing, Allocating
    <3> QED BY <3>1, <3>2, <3>3
  <2> QED BY <1>1, <2>5, <2>6, KeepType, TypePartsNext DEF WriteCluster
<1>2. CASE NextCluster
  <2>1. CallOK'
    <3>1. CASE NextOf(View, f.c) = 0
      BY <1>2, <3>1, FreeChainType, FrameFields DEF NextCluster
    <3>2. CASE NextOf(View, f.c) # 0
      <4>1. f' = [f EXCEPT !.c = NextOf(View, f.c), !.index = f.index + 1]
            /\ pc' = "data" /\ ret' = ret /\ pc = "next"
        BY <1>2, <3>2 DEF NextCluster, Goto
      <4>2. NextOf(View, f.c) \in Cl0
        BY ViewType DEF NextOf, Cl0
      <4>3. f.kind = "write" /\ f.index + 1 \in 1..f.cnt /\ f.index + 1 \in 0..MaxCount + 1
        BY <4>1, FrameFields, Bounds DEF TypeInv, FrameOK
      <4>4. f' \in Frame /\ f'.kind = f.kind /\ f'.dir = f.dir /\ f'.name = f.name
            /\ f'.payload = f.payload /\ f'.cnt = f.cnt /\ f'.last = f.last
            /\ f'.index = f.index + 1
        BY <4>1, <4>2, <4>3 DEF TypeInv, TypeOK, Frame
      <4> QED
        BY <4>1, <4>3, <4>4 DEF TypeInv, TypeOK, CallOK, FrameOK, Labels,
           Storing, Allocating
    <3> QED BY <3>1, <3>2
  <2> QED BY <1>2, <2>1, QuietType DEF NextCluster
<1>3. CASE NextFails
  BY <1>3, FreeChainType, FrameFields, LoadFailsType, TypePartsNext
     DEF NextFails
<1>4. CASE InitDir
  <2>1. PICK w \in BOOLEAN, parent \in {0, f.dir} :
       /\ WriteData([data EXCEPT ![f.first] = DirData(parent, EmptySlots)], w)
       /\ IF w THEN Same("entry") ELSE FreeChain(f.first, "abort")
    BY <1>4 DEF InitDir
  <2>2. data' \in [Clusters -> Content] /\ DirsHaveStart' /\ FaultsOK'
    BY <2>1, EmptyDirWritable, FrameFields, WriteDataType DEF Cl0
  <2>3. CallOK'
    <3>1. CASE w
      BY <1>4, <2>1, <3>1, SameType DEF InitDir, Labels, Storing, Allocating
    <3>2. CASE ~w
      BY <2>1, <3>2, FreeChainType, FrameFields
    <3> QED BY <3>1, <3>2
  <2> QED BY <1>4, <2>2, <2>3, KeepType, TypePartsNext DEF InitDir
<1>5. CASE WriteEntry
  <2> DEFINE e == IF f.kind = "mkdir" THEN Entry(f.name, TRUE, f.first, 0)
                  ELSE Entry(f.name, FALSE, f.first, f.cnt)
  <2>1. PICK w \in BOOLEAN :
       /\ WriteSlot(f.loc, e, w)
       /\ IF w THEN Same(IF f.mark THEN "mark" ELSE "flush")
               ELSE FreeChain(f.first, "abort")
    BY <1>5 DEF WriteEntry
  <2>2. f.name \in Names /\ (f.kind = "mkdir" => f.first \in Clusters)
    BY <1>5 DEF WriteEntry, TypeInv, FrameOK, Storing
  <2>3. e \in [tag: {"live"}, name: Names, dir: BOOLEAN, start: Cl0, len: 0..MaxCount]
    BY <2>2, FrameFields, Bounds DEF Entry
  <2>4. e \in Slot BY <2>3 DEF Slot
  <2>5. e.dir => e.start \in Clusters BY <2>2 DEF Entry
  <2> HIDE DEF e
  <2>6. data' \in [Clusters -> Content] /\ DirsHaveStart' /\ FaultsOK'
    BY <2>1, <2>4, <2>5, WriteSlotType, FrameFields
  <2>7. CallOK'
    <3>1. CASE ~w
      BY <2>1, <3>1, FreeChainType, FrameFields
    <3>2. CASE w
      <4>1. Same("mark") \/ Same("flush") BY <2>1, <3>2
      <4> QED BY <4>1, SameType DEF Labels, Storing, Allocating
    <3> QED BY <3>1, <3>2
  <2> QED BY <1>5, <2>6, <2>7, KeepType, TypePartsNext DEF WriteEntry
<1>6. CASE Tombstone
  <2>1. PICK w \in BOOLEAN :
       /\ WriteSlot(f.loc, Deleted, w)
       /\ IF w THEN Same("flush") ELSE Return("fail")
    BY <1>6 DEF Tombstone
  <2>2. Deleted \in Slot /\ Deleted.tag # "live"
    BY DEF Deleted, Slot
  <2>3. data' \in [Clusters -> Content] /\ DirsHaveStart' /\ FaultsOK'
    BY <2>1, <2>2, WriteSlotType, FrameFields
  <2>4. CallOK'
    BY <2>1, SameType, NoFrameType DEF Labels, Storing, Allocating
  <2> QED BY <1>6, <2>3, <2>4, KeepType, TypePartsNext DEF Tombstone
<1>7. CASE MarkEnd
  <2> DEFINE nxt == IF f.loc[2] < Slots THEN <<f.loc[1], f.loc[2] + 1>>
                    ELSE <<NextOf(View, f.loc[1]), 1>>
  <2>1. nxt \in Loc
    <3>1. f.loc[1] \in Cl0 /\ f.loc[2] \in 1..Slots
      BY FrameFields DEF Loc
    <3>2. NextOf(View, f.loc[1]) \in Cl0
      BY ViewType DEF NextOf, Cl0
    <3> QED BY <3>1, <3>2, Bounds DEF Loc
  <2>2. \/ nxt[1] = 0 /\ Same("flush") /\ NoFault /\ UNCHANGED data
        \/ \E w \in BOOLEAN :
             /\ WriteSlot(nxt, EndMark, w)
             /\ IF w THEN Same("flush") ELSE Return("fail")
    BY <1>7 DEF MarkEnd
  <2> HIDE DEF nxt
  <2>3. EndMark \in Slot /\ EndMark.tag # "live"
    BY DEF EndMark, Slot
  <2>4. data' \in [Clusters -> Content] /\ DirsHaveStart' /\ FaultsOK'
    BY <2>1, <2>2, <2>3, WriteSlotType, NoFaultType, SameDataType
  <2>5. CallOK'
    <3>1. Same("flush") \/ Return("fail") BY <2>2
    <3> QED BY <3>1, SameType, NoFrameType DEF Labels, Storing, Allocating
  <2> QED BY <1>7, <2>4, <2>5, KeepType, TypePartsNext DEF MarkEnd
<1>8. CASE MarkSkips
  <2>1. CallOK'
    BY <1>8, SameType DEF MarkSkips, Labels, Storing, Allocating
  <2> QED BY <1>8, <2>1, LoadFailsType, TypePartsNext DEF MarkSkips
<1> QED
  BY <1>1, <1>2, <1>3, <1>4, <1>5, <1>6, <1>7, <1>8 DEF StoreStep

\* The flushes keep the invariant.
LEMMA FlushStepType ==
  ASSUME TypeInv, FlushStep
  PROVE  TypeInv'
<1>1. CASE FlushCopy
  <2>1. fat' \in [1..NumFats -> [Clusters -> FatVal]]
    BY <1>1, FlushedType DEF FlushCopy
  <2>2. copy' \in 1..NumFats /\ dirty' \in BOOLEAN
    BY <1>1, Bounds DEF FlushCopy, LastCopy, TypeInv, TypeOK
  <2>3. data' \in [Clusters -> Content] /\ DirsHaveStart' /\ FaultsOK'
    BY <1>1, SameDataType, NoFaultType DEF FlushCopy
  <2>4. MemOK'
    BY <1>1, <2>1, <2>2, <2>3 DEF FlushCopy, MemOK, TypeInv, TypeOK
  <2>5. CallOK'
    BY <1>1 DEF FlushCopy, CallOK, FrameOK, TypeInv, TypeOK
  <2> QED BY <2>3, <2>4, <2>5, TypePartsNext
<1>2. CASE LoadSector
  <2>1. Need \in Clusters
    BY <1>2, NeedType DEF LoadSector, MayLoad, Evicting, Cl0
  <2>2. cur' \in {NoSector} \cup {SectorOf(c) : c \in Clusters}
    BY <1>2, <2>1 DEF LoadSector
  <2>3. cache' \in [Clusters -> FatVal]
    <3>1. 1 \in 1..NumFats BY Bounds
    <3> QED BY <1>2, <3>1, ValueTypes DEF LoadSector, TypeInv, TypeOK
  <2>4. data' \in [Clusters -> Content] /\ DirsHaveStart' /\ FaultsOK'
    BY <1>2, SameDataType, NoFaultType DEF LoadSector, diskVars
  <2>5. MemOK'
    BY <1>2, <2>2, <2>3, <2>4 DEF LoadSector, MemOK, TypeInv, TypeOK, diskVars
  <2>6. CallOK'
    BY <1>2 DEF LoadSector, CallOK, FrameOK, TypeInv, TypeOK
  <2> QED BY <2>4, <2>5, <2>6, TypePartsNext
<1>3. CASE Flushed1
  <2>1. CallOK'
    BY <1>3, FreeChainType, NoFrameType, FrameFields DEF Flushed1
  <2> QED BY <1>3, <2>1, QuietType DEF Flushed1
<1>4. CASE Flushed2 \/ Aborted
  BY <1>4, NoFrameType, QuietType DEF Flushed2, Aborted
<1>5. CASE FlushError
  BY <1>5, NoFrameType, FlushFailsType, TypePartsNext DEF FlushError
<1> QED BY <1>1, <1>2, <1>3, <1>4, <1>5 DEF FlushStep

\* The release of a chain keeps the invariant.
LEMMA FreeStepType ==
  ASSUME TypeInv, FreeStep
  PROVE  TypeInv'
<1>1. CASE FreeCluster
  <2>1. CallOK'
    <3>1. CASE NextOf(View, f.c) # 0
      <4>1. f' = [f EXCEPT !.c = NextOf(View, f.c)] /\ pc' = "free" /\ ret' = ret
        BY <1>1, <3>1 DEF FreeCluster, Goto
      <4>2. NextOf(View, f.c) \in Cl0
        BY ViewType DEF NextOf, Cl0
      <4>3. f' \in Frame /\ f'.kind = f.kind /\ f'.dir = f.dir /\ f'.name = f.name
            /\ f'.payload = f.payload /\ f'.cnt = f.cnt /\ f'.last = f.last
        BY <4>1, <4>2 DEF TypeInv, TypeOK, Frame
      <4> QED
        BY <4>1, <4>3 DEF TypeInv, TypeOK, CallOK, FrameOK, Labels, Storing,
           Allocating
    <3>2. CASE NextOf(View, f.c) = 0
      BY <1>1, <3>2, FreeReturnsType DEF FreeCluster
    <3> QED BY <3>1, <3>2
  <2> QED
    BY <1>1, <2>1, ValueTypes, SetEntryType, TypePartsNext DEF FreeCluster,
       TypeInv, TypeOK
<1>2. CASE FreeLosesTail
  <2>1. CallOK'
    BY <1>2, SameType DEF FreeLosesTail, Labels, Storing, Allocating
  <2> QED BY <1>2, <2>1, LoadFailsType, TypePartsNext DEF FreeLosesTail
<1>3. CASE FreeLast
  BY <1>3, FreeReturnsType, ValueTypes, SetEntryType, TypePartsNext
     DEF FreeLast, TypeInv, TypeOK
<1>4. CASE FreeError
  <2>1. CallOK'
    <3>1. Same("abort") \/ Return("fail")
      BY <1>4 DEF FreeError
    <3>2. CASE Same("abort")
      BY <3>2, SameType DEF Labels, Storing, Allocating
    <3>3. CASE Return("fail")
      BY <3>3, NoFrameType
    <3> QED BY <3>1, <3>2, <3>3
  <2> QED BY <1>4, <2>1, LoadFailsType, TypePartsNext DEF FreeError
<1> QED BY <1>1, <1>2, <1>3, <1>4 DEF FreeStep

\* Power may be lost at any moment.
LEMMA CrashType ==
  ASSUME TypeInv, Crash
  PROVE  TypeInv'
<1>1. FaultsOK'
  <2>1. faults < MaxFaults /\ faults' = faults + 1 /\ crashed' = TRUE /\ ops' = ops
        /\ cut' = cut /\ suspect' = suspect \cup Target
    BY DEF Crash, MayFault
  <2>2. faults' \in 0..MaxFaults /\ ops' \in 0..MaxOps /\ cut' \in BOOLEAN
    BY <2>1, Bounds DEF TypeInv, TypeOK
  <2>3. suspect' \subseteq Clusters \X Names
    BY <2>1, TargetType DEF TypeInv, TypeOK
  <2> QED BY <2>1, <2>2, <2>3 DEF FaultsOK
<1>2. data' \in [Clusters -> Content] /\ DirsHaveStart'
  BY SameDataType DEF Crash, diskVars
<1>3. cache' \in [Clusters -> FatVal]
  BY ValueTypes DEF Crash, NoCache
<1>4. MemOK'
  <2>1. fat' = fat /\ cur' = NoSector /\ dirty' = FALSE /\ copy' = 1 /\ hint' = 2
        /\ cwd' = Root /\ ops' = ops
    BY DEF Crash, diskVars
  <2>2. fat' \in [1..NumFats -> [Clusters -> FatVal]] /\ ops' \in 0..MaxOps
    BY <2>1 DEF TypeInv, TypeOK
  <2>3. copy' \in 1..NumFats
    BY <2>1, Bounds
  <2>4. hint' \in Clusters /\ cwd' \in Clusters
    BY <2>1, Bounds
  <2>5. cur' \in {NoSector} \cup {SectorOf(c) : c \in Clusters}
    BY <2>1
  <2>6. dirty' \in BOOLEAN
    BY <2>1
  <2> QED
    BY <1>2, <1>3, <2>2, <2>3, <2>4, <2>5, <2>6 DEF MemOK
<1>5. CallOK'
  <2>1. Return("none")
    BY DEF Crash
  <2> QED BY <2>1, NoFrameType
<1> QED BY <1>1, <1>4, <1>5, TypePartsNext

\* Every step keeps the invariant.
LEMMA NextType ==
  ASSUME TypeInv, [Next]_vars
  PROVE  TypeInv'
<1>1. CASE UNCHANGED vars
  BY <1>1 DEF vars, TypeInv, TypeOK, FrameOK, DirsHaveStart, SlotsOf
<1>2. CASE ReadDone
  BY <1>2, NoFrameType, QuietType DEF ReadDone
<1>3. CASE ReadError
  BY <1>3, NoFrameType, LoadFailsType, TypePartsNext DEF ReadError
<1> QED
  BY <1>1, <1>2, <1>3, CallType, AllocStepType, ExtendStepType, StoreStepType,
     FlushStepType, FreeStepType, CrashType DEF Next, Step

\* Every variable keeps its type, whatever fails: no step leaves the volume.
THEOREM TypesHold == Spec => []TypeOK
<1>1. Init => TypeInv
  BY InitType
<1>2. TypeInv /\ [Next]_vars => TypeInv'
  BY NextType
<1>3. TypeInv => TypeOK
  BY DEF TypeInv
<1> QED BY <1>1, <1>2, <1>3, PTL DEF Spec
-----------------------------------------------------------------------------
(* The tree on the disk. *)

LEMMA Values ==
  /\ Free \notin Clusters /\ Eoc \notin Clusters /\ Eoc # Free
  /\ 0 \notin Clusters /\ Root \in Clusters /\ Eoc \in FatVal
  BY FatAssumption DEF Free, Eoc, Clusters, FatVal

LEMMA Heads ==
  ASSUME NEW D
  PROVE  /\ Root \in DirHeads(D) /\ DirHeads(D) \subseteq Named(D)
         /\ Named(D) \subseteq Clusters
  BY Values DEF DirHeads, Named

LEMMA StartNamed ==
  ASSUME NEW D, OneName(D), NEW l \in Live(D), At(D, l).start # 0
  PROVE  /\ At(D, l).start \in Named(D) \ {Root}
         /\ At(D, l).dir => At(D, l).start \in DirHeads(D)
  BY DEF OneName, Named, DirHeads, Cl0

LEMMA FilesStay ==
  ASSUME NEW D, OneName(D), NEW v, NEW own, NEW rank, NEW v2, NEW own2,
         NEW rank2, FilesWhole(v, D, own, rank),
         \A l \in Live(D), p \in Payloads :
           (/\ ~At(D, l).dir /\ At(D, l).start # 0
            /\ FileIs(v, D, own, rank, At(D, l).start, p, At(D, l).len))
             => FileIs(v2, D, own2, rank2, At(D, l).start, p, At(D, l).len)
  PROVE  FilesWhole(v2, D, own2, rank2)
  BY DEF FilesWhole

\* A free cluster becomes a chain of its own.
LEMMA ShapeGrow ==
  ASSUME NEW v \in [Clusters -> FatVal], NEW D, NEW P, NEW U,
         NEW own, NEW rank, NEW lev, Shape(v, D, P, U, own, rank, lev),
         NEW c \in Clusters, v[c] = Free,
         NEW v2, v2 = [v EXCEPT ![c] = Eoc],
         NEW own2, own2 = [own EXCEPT ![c] = c],
         NEW rank2, rank2 = [rank EXCEPT ![c] = 0]
  PROVE  Shape(v2, D, P \cup {c}, U, own2, rank2, lev)
<1>0. /\ Witness(own, rank, lev) /\ Chained(v, own, rank) /\ OneBefore(v)
      /\ OnePlace(v, own, rank) /\ OwnersHeld(v, own)
      /\ HeadsFirst(v, D, P, own, rank) /\ Reached(v, D, P) /\ OneName(D)
      /\ FilesWhole(v, D, own, rank) /\ DirsAreDirs(v, D, U, own)
      /\ Levelled(D, own, lev) /\ MarksLast(v, D, own) /\ NamesOnce(D, own)
  BY DEF Shape
<1>1. /\ v2 \in [Clusters -> FatVal]
      /\ v2[c] = Eoc /\ \A x \in Clusters : x # c => v2[x] = v[x]
  BY Values
<1>2. /\ own \in [Clusters -> Cl0] /\ rank \in [Clusters -> Nat]
      /\ own2[c] = c /\ \A x \in Clusters : x # c => own2[x] = own[x]
      /\ rank2[c] = 0 /\ \A x \in Clusters : x # c => rank2[x] = rank[x]
  BY <1>0 DEF Witness
<1>3. Witness(own2, rank2, lev)
  BY <1>0, <1>2 DEF Witness, Cl0
<1>4. \A x \in Clusters : v[x] # c /\ (Held(v, x) => x # c /\ own[x] # c)
  BY <1>0, Values DEF Chained, OwnersHeld, Held
<1>5. \A x \in Clusters : Held(v2, x) <=> Held(v, x) \/ x = c
  BY <1>1, Values DEF Held
<1>6. c \notin Named(D) /\ c \notin P
  BY <1>0 DEF HeadsFirst, Held
<1>7. Chained(v2, own2, rank2)
  BY <1>0, <1>1, <1>2, <1>4, <1>5, Values, ZenonT(40) DEF Chained
<1>8. OneBefore(v2)
  BY <1>0, <1>1, <1>4, Values DEF OneBefore
<1>9. OnePlace(v2, own2, rank2)
  BY <1>0, <1>2, <1>4, <1>5 DEF OnePlace
<1>10. OwnersHeld(v2, own2)
  BY <1>0, <1>2, <1>4, <1>5, ZenonT(40) DEF OwnersHeld
<1>11. HeadsFirst(v2, D, P \cup {c}, own2, rank2)
  <2>1. \A h \in Named(D) \cup P :
          h \in Clusters /\ Held(v, h) /\ \A x \in Clusters : v[x] # h
    BY <1>0 DEF HeadsFirst
  <2>2. ASSUME NEW h \in Named(D) \cup P
        PROVE  h \in Clusters /\ Held(v2, h) /\ \A x \in Clusters : v2[x] # h
    BY <2>1, <1>1, <1>5, Values
  <2>3. \A x \in Clusters : v2[x] # c
    BY <1>1, <1>4, Values
  <2>4. \A h \in Named(D) \cup P : own2[h] = own[h] /\ rank2[h] = rank[h]
    BY <2>1, <1>2, <1>6
  <2>5. c \in Clusters /\ Held(v2, c) /\ own2[c] = c /\ rank2[c] = 0
    BY <1>2, <1>5
  <2>6. QED
    BY <1>0, <2>2, <2>3, <2>4, <2>5, <1>6 DEF HeadsFirst
<1>12. Reached(v2, D, P \cup {c})
  <2>1. ASSUME NEW x \in Clusters, Held(v, x)
        PROVE  x \in Named(D) \cup P \/ \E p \in Clusters : v2[p] = x
    BY <1>0, <1>1, <2>1, Values DEF Reached
  <2>2. QED
    BY <2>1, <1>5 DEF Reached
<1>13. FilesWhole(v2, D, own2, rank2)
  <2>1. ASSUME NEW h \in Named(D), NEW p, NEW n, FileIs(v, D, own, rank, h, p, n)
        PROVE  FileIs(v2, D, own2, rank2, h, p, n)
    BY <2>1, <1>1, <1>2, <1>5, <1>6 DEF FileIs
  <2>2. ASSUME NEW l \in Live(D), NEW p \in Payloads, At(D, l).start # 0,
               FileIs(v, D, own, rank, At(D, l).start, p, At(D, l).len)
        PROVE  FileIs(v2, D, own2, rank2, At(D, l).start, p, At(D, l).len)
    BY <1>0, <2>1, <2>2, StartNamed
  <2>3. QED
    BY <1>0, <2>2, FilesStay
<1>14. \A l \in Live(D) :
         l[1] \in Clusters /\ Held(v, l[1]) /\ own2[l[1]] = own[l[1]]
  BY <1>0, <1>2, <1>4 DEF DirsAreDirs, Live, Places
<1>15. DirsAreDirs(v2, D, U, own2)
  <2>1. c \notin DirHeads(D)
    BY <1>6, Heads
  <2>2. QED
    BY <1>0, <1>2, <1>5, <1>14, <2>1 DEF DirsAreDirs
<1>16. Levelled(D, own2, lev) /\ NamesOnce(D, own2)
  BY <1>0, <1>14 DEF Levelled, NamesOnce
<1>17. MarksLast(v2, D, own2)
  BY <1>0, <1>1, <1>2, Values DEF MarksLast
<1> QED
  BY <1>3, <1>7, <1>8, <1>9, <1>10, <1>11, <1>12, <1>13, <1>15, <1>16, <1>17
  DEF Shape
\* What allows the chain b to be linked behind the cluster a.
LinkOK(v, D, U, V, own, a, b) ==
  /\ v[a] = Eoc /\ own[a] # 0 /\ own[a] # b
  /\ v[b] = Eoc /\ own[b] = b
  /\ \A x \in Clusters : (Held(v, x) /\ own[x] = b) => x = b
  /\ U \subseteq V
  /\ own[a] \in DirHeads(D) =>
       b \in V /\ \A s \in 1..Slots : At(D, <<a, s>>) # EndMark
  /\ \A l \in Live(D) : ~At(D, l).dir => At(D, l).start # own[a]

Joined(v, own, rank, a, b, v2, own2, rank2) ==
  /\ v2 = [v EXCEPT ![a] = b]
  /\ own2 = [own EXCEPT ![b] = own[a]]
  /\ rank2 = [rank EXCEPT ![b] = rank[a] + 1]

\* The chain b, of one cluster, is linked behind the last cluster a of another.
LEMMA ShapeLink ==
  ASSUME NEW v \in [Clusters -> FatVal], NEW D, NEW P, NEW U,
         NEW own, NEW rank, NEW lev, Shape(v, D, P, U, own, rank, lev),
         NEW a \in Clusters, NEW b \in P, NEW V, LinkOK(v, D, U, V, own, a, b),
         NEW Q, Q = P \ {b},
         NEW v2, NEW own2, NEW rank2, Joined(v, own, rank, a, b, v2, own2, rank2)
  PROVE  Shape(v2, D, Q, V, own2, rank2, lev)
<1> USE DEF LinkOK, Joined
<1>0. /\ Witness(own, rank, lev) /\ Chained(v, own, rank) /\ OneBefore(v)
      /\ OnePlace(v, own, rank) /\ OwnersHeld(v, own)
      /\ HeadsFirst(v, D, P, own, rank) /\ Reached(v, D, P) /\ OneName(D)
      /\ FilesWhole(v, D, own, rank) /\ DirsAreDirs(v, D, U, own)
      /\ Levelled(D, own, lev) /\ MarksLast(v, D, own) /\ NamesOnce(D, own)
  BY DEF Shape
<1>1. /\ b \in Clusters /\ b \notin Named(D) /\ b # 0
      /\ \A x \in Clusters : v[x] # b
  BY <1>0, Values DEF HeadsFirst
<1>2. /\ v2[a] = b /\ \A x \in Clusters : x # a => v2[x] = v[x]
      /\ \A x \in Clusters : v2[x] = Eoc => v[x] = Eoc
      /\ a # b
  BY <1>1, Values
<1>3. /\ own \in [Clusters -> Cl0] /\ rank \in [Clusters -> Nat]
      /\ own2[b] = own[a] /\ \A x \in Clusters : x # b => own2[x] = own[x]
      /\ rank2[b] = rank[a] + 1
      /\ \A x \in Clusters : x # b => rank2[x] = rank[x]
  BY <1>0, <1>1 DEF Witness
<1>4. Witness(own2, rank2, lev)
  BY <1>0, <1>3 DEF Witness
<1>5. /\ \A x \in Clusters : Held(v2, x) <=> Held(v, x)
      /\ Held(v, a) /\ Held(v, b)
  BY <1>1, <1>2, Values DEF Held
<1>6. /\ own[a] \in Clusters /\ Held(v, own[a]) /\ own[own[a]] = own[a]
  BY <1>0, <1>5 DEF OwnersHeld
<1>7. Chained(v2, own2, rank2)
  <2>1. ASSUME NEW x \in Clusters, x # a, v[x] \in Clusters
        PROVE  /\ Held(v2, v[x]) /\ own2[v[x]] = own2[x]
               /\ rank2[v[x]] = rank2[x] + 1
    <3>1. v[x] # b /\ x # b
      BY <1>1, <2>1, Values
    <3>2. QED
      BY <1>0, <1>3, <1>5, <2>1, <3>1 DEF Chained
  <2>2. own2[b] = own2[a] /\ rank2[b] = rank2[a] + 1 /\ Held(v2, b)
    <3>1. own2[a] = own[a] /\ rank2[a] = rank[a]
      BY <1>2, <1>3
    <3>2. QED
      BY <3>1, <1>1, <1>3, <1>5
  <2>3. QED
    BY <1>2, <2>1, <2>2 DEF Chained
<1>8. OneBefore(v2)
  BY <1>0, <1>1, <1>2 DEF OneBefore
<1>9. OnePlace(v2, own2, rank2)
  <2>1. ASSUME NEW x \in Clusters, Held(v, x), x # b, own[x] = own[a],
               rank[x] = rank[a] + 1
        PROVE  FALSE
    <3>1. rank[x] # 0 /\ rank[a] \in Nat
      BY <1>3, <2>1
    <3>2. x \notin Named(D) \cup P
      BY <1>0, <2>1, <3>1 DEF HeadsFirst
    <3>3. PICK p \in Clusters : v[p] = x
      BY <1>0, <2>1, <3>2 DEF Reached
    <3>4. Held(v, p) /\ own[p] = own[a] /\ rank[p] + 1 = rank[a] + 1
      BY <1>0, <2>1, <3>3, Values DEF Chained, Held
    <3>5. rank[p] = rank[a]
      BY <1>3, <3>1, <3>4
    <3>6. p = a
      BY <1>0, <1>5, <3>4, <3>5 DEF OnePlace
    <3>7. QED
      BY <3>3, <3>6, Values
  <2>2. \A x, y \in Clusters :
          (/\ Held(v, x) /\ Held(v, y) /\ own[x] = own[y] /\ own[x] # 0
           /\ rank[x] = rank[y]) => x = y
    BY <1>0 DEF OnePlace
  <2>3. QED
    BY <1>3, <1>5, <2>1, <2>2 DEF OnePlace
<1>10. OwnersHeld(v2, own2)
  <2>1. ASSUME NEW x \in Clusters, Held(v, x), own[x] # 0, x # b
        PROVE  own[x] \in Clusters /\ Held(v, own[x]) /\ own2[own[x]] = own[x]
    <3>1. own[x] # b
      BY <2>1
    <3>2. QED
      BY <1>0, <1>3, <2>1, <3>1 DEF OwnersHeld
  <2>2. own[a] \in Clusters /\ Held(v, own[a]) /\ own2[own[a]] = own[a]
    BY <1>3, <1>6
  <2>3. ASSUME NEW x \in Clusters, Held(v2, x), own2[x] # 0
        PROVE  /\ own2[x] \in Clusters /\ Held(v2, own2[x])
               /\ own2[own2[x]] = own2[x]
    <3>1. CASE x = b
      BY <3>1, <2>2, <1>3, <1>5
    <3>2. CASE x # b
      BY <3>2, <2>1, <2>3, <1>3, <1>5, ZenonT(40)
    <3>3. QED
      BY <3>1, <3>2
  <2>4. QED
    BY <2>3 DEF OwnersHeld
<1>11. HeadsFirst(v2, D, Q, own2, rank2)
  <2>1. ASSUME NEW h \in Named(D) \cup (Q)
        PROVE  /\ h \in Clusters /\ h # b /\ Held(v, h)
               /\ \A x \in Clusters : v[x] # h
    BY <1>0, <1>1 DEF HeadsFirst
  <2>2. ASSUME NEW h \in Named(D) \cup (Q)
        PROVE  /\ h \in Clusters /\ Held(v2, h)
               /\ \A x \in Clusters : v2[x] # h
    BY <2>1, <1>2, <1>5
  <2>3. \A h \in Named(D) \cup (Q) :
          own2[h] = own[h] /\ rank2[h] = rank[h]
    BY <2>1, <1>3
  <2>4. QED
    BY <1>0, <2>2, <2>3 DEF HeadsFirst
<1>12. Reached(v2, D, Q)
  <2>1. ASSUME NEW x \in Clusters, Held(v, x), x # b
        PROVE  \/ x \in Named(D) \cup (Q)
               \/ \E p \in Clusters : v2[p] = x
    BY <1>0, <1>2, <2>1, Values DEF Reached
  <2>2. QED
    BY <2>1, <1>2, <1>5 DEF Reached
<1>13. FilesWhole(v2, D, own2, rank2)
  <2>1. ASSUME NEW h \in Named(D), NEW p, NEW n, h # own[a],
               FileIs(v, D, own, rank, h, p, n)
        PROVE  FileIs(v2, D, own2, rank2, h, p, n)
    <3>1. ASSUME NEW x \in Clusters, Held(v2, x), own2[x] = h
          PROVE  /\ Held(v, x) /\ own[x] = h /\ rank2[x] = rank[x]
                 /\ v2[x] = v[x]
      BY <1>2, <1>3, <1>5, <2>1, <3>1
    <3>2. QED
      BY <2>1, <3>1 DEF FileIs
  <2>2. ASSUME NEW l \in Live(D), NEW p \in Payloads, At(D, l).start # 0,
               ~At(D, l).dir,
               FileIs(v, D, own, rank, At(D, l).start, p, At(D, l).len)
        PROVE  FileIs(v2, D, own2, rank2, At(D, l).start, p, At(D, l).len)
    BY <1>0, <2>1, <2>2, StartNamed
  <2>3. QED
    BY <1>0, <2>2, FilesStay
<1>14. \A l \in Live(D) :
         l[1] \in Clusters /\ Held(v, l[1]) /\ own2[l[1]] = own[l[1]]
  <2>1. \A l \in Live(D) : l[1] \in Clusters /\ Held(v, l[1]) /\ own[l[1]] # b
    BY <1>0, <1>1, Heads DEF DirsAreDirs, Live, Places
  <2>2. QED
    BY <2>1, <1>3
<1>15. DirsAreDirs(v2, D, V, own2)
  <2>1. ASSUME NEW x \in Clusters \ V, Held(v, x), own2[x] \in DirHeads(D)
        PROVE  own[x] \in DirHeads(D) /\ x \in Clusters \ U
    BY <1>3, <2>1
  <2>2. QED
    BY <1>0, <1>5, <1>14, <2>1 DEF DirsAreDirs
<1>16. Levelled(D, own2, lev) /\ NamesOnce(D, own2)
  BY <1>0, <1>14 DEF Levelled, NamesOnce
<1>17. MarksLast(v2, D, own2)
  <2>1. ASSUME NEW x \in Clusters, v2[x] \in Clusters, own2[x] \in DirHeads(D)
        PROVE  \A s \in 1..Slots : At(D, <<x, s>>) # EndMark
    <3>1. CASE x = a
      BY <3>1, <2>1, <1>2, <1>3
    <3>2. CASE x = b
      BY <3>2, <2>1, <1>2, Values
    <3>3. CASE x # a /\ x # b
      BY <3>3, <2>1, <1>0, <1>2, <1>3 DEF MarksLast
    <3>4. QED
      BY <3>1, <3>2, <3>3
  <2>2. QED
    BY <1>0, <2>1 DEF MarksLast
<1> QED
  BY <1>4, <1>7, <1>8, <1>9, <1>10, <1>11, <1>12, <1>13, <1>15, <1>16, <1>17
  DEF Shape

\* The first cluster of a chain given up is freed: its successor is next.
LEMMA ShapeFree ==
  ASSUME NEW v \in [Clusters -> FatVal], NEW D, NEW P, NEW U,
         NEW own, NEW rank, NEW lev, Shape(v, D, P, U, own, rank, lev),
         NEW c \in P, own[c] = 0,
         NEW Q, Q = (P \ {c}) \cup ({v[c]} \cap Clusters),
         NEW v2, v2 = [v EXCEPT ![c] = Free]
  PROVE  Shape(v2, D, Q, U, own, rank, lev)
<1>0. /\ Witness(own, rank, lev) /\ Chained(v, own, rank) /\ OneBefore(v)
      /\ OnePlace(v, own, rank) /\ OwnersHeld(v, own)
      /\ HeadsFirst(v, D, P, own, rank) /\ Reached(v, D, P) /\ OneName(D)
      /\ FilesWhole(v, D, own, rank) /\ DirsAreDirs(v, D, U, own)
      /\ Levelled(D, own, lev) /\ MarksLast(v, D, own) /\ NamesOnce(D, own)
  BY DEF Shape
<1>1. /\ c \in Clusters /\ c \notin Named(D) /\ c # 0
      /\ \A x \in Clusters : v[x] # c
  BY <1>0, Values DEF HeadsFirst
<1>2. /\ v2[c] = Free /\ \A x \in Clusters : x # c => v2[x] = v[x]
      /\ \A x \in Clusters : v2[x] \in Clusters => x # c /\ v2[x] = v[x]
  BY <1>1, Values
<1>3. /\ \A x \in Clusters : Held(v2, x) <=> (Held(v, x) /\ x # c)
      /\ \A x \in Clusters : v[x] \in Clusters => Held(v, x)
  BY <1>1, <1>2, Values DEF Held
<1>4. \A x \in Clusters : (Held(v, x) /\ own[x] # 0) => x # c /\ own[x] # c
  BY <1>0 DEF OwnersHeld
<1>5. Chained(v2, own, rank)
  <2>1. ASSUME NEW x \in Clusters, v2[x] \in Clusters
        PROVE  /\ Held(v2, v2[x]) /\ own[v2[x]] = own[x]
               /\ rank[v2[x]] = rank[x] + 1
    BY <1>0, <1>1, <1>2, <1>3, <2>1 DEF Chained
  <2>2. QED
    BY <2>1 DEF Chained
<1>6. OneBefore(v2)
  BY <1>0, <1>2 DEF OneBefore
<1>7. OnePlace(v2, own, rank)
  BY <1>0, <1>3 DEF OnePlace
<1>8. OwnersHeld(v2, own)
  BY <1>0, <1>3, <1>4 DEF OwnersHeld
<1>9. HeadsFirst(v2, D, Q, own, rank)
  <2>1. \A h \in Named(D) \cup (P \ {c}) :
          /\ h \in Clusters /\ h # c /\ Held(v, h)
          /\ \A x \in Clusters : v[x] # h
    BY <1>0, <1>1 DEF HeadsFirst
  <2>2. \A h \in Named(D) \cup (P \ {c}) :
          /\ h \in Clusters /\ Held(v2, h)
          /\ \A x \in Clusters : v2[x] # h
    BY <2>1, <1>2, <1>3
  <2>3. ASSUME v[c] \in Clusters
        PROVE  /\ Held(v2, v[c]) /\ own[v[c]] = 0
               /\ \A x \in Clusters : v2[x] # v[c]
    BY <1>0, <1>1, <1>2, <1>3, <2>3 DEF Chained, OneBefore
  <2>4. \A h \in Named(D) \cup Q :
          /\ h \in Clusters /\ Held(v2, h)
          /\ \A x \in Clusters : v2[x] # h
    BY <2>2, <2>3
  <2>5. \A h \in Named(D) : own[h] = h /\ rank[h] = 0
    BY <1>0 DEF HeadsFirst
  <2>6. \A h \in P :
          own[h] = 0 \/ (own[h] = h /\ rank[h] = 0 /\ h \notin Named(D))
    BY <1>0 DEF HeadsFirst
  <2>7. \A h \in Q : h \in P \/ (h = v[c] /\ v[c] \in Clusters)
    OBVIOUS
  <2>8. QED
    BY <2>3, <2>4, <2>5, <2>6, <2>7 DEF HeadsFirst
<1>10. Reached(v2, D, Q)
  <2>1. ASSUME NEW x \in Clusters, Held(v, x), x # c, x \notin Named(D) \cup Q
        PROVE  \E p \in Clusters : v2[p] = x
    <3>1. x \notin Named(D) \cup P /\ v[c] # x
      BY <2>1
    <3>2. QED
      BY <1>0, <1>2, <2>1, <3>1 DEF Reached
  <2>2. QED
    BY <2>1, <1>3 DEF Reached
<1>11. FilesWhole(v2, D, own, rank)
  <2>1. ASSUME NEW h \in Named(D), NEW p, NEW n, FileIs(v, D, own, rank, h, p, n)
        PROVE  FileIs(v2, D, own, rank, h, p, n)
    BY <2>1, <1>2, <1>3 DEF FileIs
  <2>2. ASSUME NEW l \in Live(D), NEW p \in Payloads, At(D, l).start # 0,
               FileIs(v, D, own, rank, At(D, l).start, p, At(D, l).len)
        PROVE  FileIs(v2, D, own, rank, At(D, l).start, p, At(D, l).len)
    BY <1>0, <2>1, <2>2, StartNamed
  <2>3. QED
    BY <1>0, <2>2, FilesStay
<1>12. DirsAreDirs(v2, D, U, own)
  <2>1. 0 \notin DirHeads(D)
    BY Heads, Values
  <2>2. \A l \in Live(D) : Held(v2, l[1]) /\ own[l[1]] \in DirHeads(D)
    BY <1>0, <1>3, <2>1 DEF DirsAreDirs, Live, Places
  <2>3. QED
    BY <1>0, <1>3, <2>2 DEF DirsAreDirs
<1>13. MarksLast(v2, D, own)
  BY <1>0, <1>2 DEF MarksLast
<1> QED
  BY <1>0, <1>5, <1>6, <1>7, <1>8, <1>9, <1>10, <1>11, <1>12, <1>13 DEF Shape

\* A chain that no entry names is given up.
LEMMA ShapeGiveUp ==
  ASSUME NEW v, NEW D, NEW P, NEW U,
         NEW own, NEW rank, NEW lev, Shape(v, D, P, U, own, rank, lev),
         NEW h \in P, own[h] # 0,
         NEW own2, own2 = [x \in Clusters |-> IF own[x] = h THEN 0 ELSE own[x]]
  PROVE  Shape(v, D, P, U, own2, rank, lev)
<1>0. /\ Witness(own, rank, lev) /\ Chained(v, own, rank) /\ OneBefore(v)
      /\ OnePlace(v, own, rank) /\ OwnersHeld(v, own)
      /\ HeadsFirst(v, D, P, own, rank) /\ Reached(v, D, P) /\ OneName(D)
      /\ FilesWhole(v, D, own, rank) /\ DirsAreDirs(v, D, U, own)
      /\ Levelled(D, own, lev) /\ MarksLast(v, D, own) /\ NamesOnce(D, own)
  BY DEF Shape
<1>1. h \notin Named(D) /\ own[h] = h /\ h \in Clusters /\ h # 0
  BY <1>0, Values DEF HeadsFirst
<1>2. \A x \in Clusters : own2[x] = IF own[x] = h THEN 0 ELSE own[x]
  OBVIOUS
<1>3. Witness(own2, rank, lev)
  BY <1>0 DEF Witness, Cl0
<1>4. Chained(v, own2, rank)
  BY <1>0, <1>2 DEF Chained
<1>5. OnePlace(v, own2, rank)
  BY <1>0, <1>2 DEF OnePlace
<1>6. OwnersHeld(v, own2)
  BY <1>0, <1>2 DEF OwnersHeld
<1>7. HeadsFirst(v, D, P, own2, rank)
  <2>1. \A x \in Named(D) : x \in Clusters /\ own[x] = x /\ own[x] # h
    BY <1>0, <1>1 DEF HeadsFirst
  <2>2. \A x \in Named(D) : own2[x] = x
    BY <2>1, <1>2
  <2>3. \A x \in P : x \in Clusters /\ own2[x] \in {own[x], 0}
    BY <1>0, <1>2 DEF HeadsFirst
  <2>4. QED
    BY <1>0, <2>2, <2>3 DEF HeadsFirst
<1>8. FilesWhole(v, D, own2, rank)
  <2>1. ASSUME NEW x \in Named(D), NEW p, NEW n, FileIs(v, D, own, rank, x, p, n)
        PROVE  FileIs(v, D, own2, rank, x, p, n)
    <3>1. x # 0
      BY Heads, Values
    <3>2. QED
      BY <2>1, <3>1, <1>2 DEF FileIs
  <2>2. ASSUME NEW l \in Live(D), NEW p \in Payloads, At(D, l).start # 0,
               FileIs(v, D, own, rank, At(D, l).start, p, At(D, l).len)
        PROVE  FileIs(v, D, own2, rank, At(D, l).start, p, At(D, l).len)
    BY <1>0, <2>1, <2>2, StartNamed
  <2>3. QED
    BY <1>0, <2>2, FilesStay
<1>9. \A l \in Live(D) : l[1] \in Clusters /\ own2[l[1]] = own[l[1]]
  <2>1. \A l \in Live(D) : l[1] \in Clusters /\ own[l[1]] # h
    BY <1>0, <1>1, Heads DEF DirsAreDirs, Live, Places
  <2>2. QED
    BY <2>1, <1>2
<1>10. \A x \in Clusters : own2[x] \in DirHeads(D) => own[x] \in DirHeads(D)
  BY <1>2, Heads, Values
<1>11. DirsAreDirs(v, D, U, own2)
  BY <1>0, <1>9, <1>10 DEF DirsAreDirs
<1>12. Levelled(D, own2, lev) /\ NamesOnce(D, own2)
  BY <1>0, <1>9 DEF Levelled, NamesOnce
<1>13. MarksLast(v, D, own2)
  BY <1>0, <1>10 DEF MarksLast
<1> QED
  BY <1>0, <1>3, <1>4, <1>5, <1>6, <1>7, <1>8, <1>11, <1>12, <1>13 DEF Shape

LEMMA SameHeads ==
  ASSUME NEW D, NEW D2, Live(D2) = Live(D),
         \A l \in Live(D) : At(D2, l) = At(D, l)
  PROVE  Named(D2) = Named(D) /\ DirHeads(D2) = DirHeads(D)
  BY DEF Named, DirHeads

\* A cluster without entries is written over, and holds none.
Cleared(D, D2, c) ==
  /\ \A x \in Clusters : x # c => D2[x] = D[x]
  /\ \A s \in 1..Slots : At(D2, <<c, s>>) = EndMark
  /\ \A l \in Live(D) : l[1] # c
WriteOK(v, D, D2, U, V, own, c) ==
  /\ Cleared(D, D2, c)
  /\ U \subseteq V \cup {c}
  /\ \A l \in Live(D) : ~At(D, l).dir => At(D, l).start # own[c]
  /\ own[c] \in DirHeads(D) => D2[c].kind = "dir" /\ v[c] \notin Clusters

\* A cluster that holds no entry and is not of a file is written.
LEMMA ShapeWrite ==
  ASSUME NEW v, NEW D, NEW P, NEW U, NEW V,
         NEW own, NEW rank, NEW lev, Shape(v, D, P, U, own, rank, lev),
         NEW c \in Clusters, NEW D2, WriteOK(v, D, D2, U, V, own, c)
  PROVE  Shape(v, D2, P, V, own, rank, lev)
<1> USE DEF WriteOK, Cleared
<1>0. /\ Witness(own, rank, lev) /\ Chained(v, own, rank) /\ OneBefore(v)
      /\ OnePlace(v, own, rank) /\ OwnersHeld(v, own)
      /\ HeadsFirst(v, D, P, own, rank) /\ Reached(v, D, P) /\ OneName(D)
      /\ FilesWhole(v, D, own, rank) /\ DirsAreDirs(v, D, U, own)
      /\ Levelled(D, own, lev) /\ MarksLast(v, D, own) /\ NamesOnce(D, own)
  BY DEF Shape
<1>1. \A x \in Clusters, s \in 1..Slots :
        x # c => At(D2, <<x, s>>) = At(D, <<x, s>>)
  BY DEF At
<1>2. \A l \in Places : l[1] \in Clusters /\ l[2] \in 1..Slots /\ l = <<l[1], l[2]>>
  BY DEF Places
<1>3. Live(D2) = Live(D)
  <2>1. EndMark.tag # "live"
    BY DEF EndMark
  <2>2. ASSUME NEW l \in Places, l[1] # c
        PROVE  l \in Live(D2) <=> l \in Live(D)
    BY <1>1, <1>2, <2>2 DEF Live
  <2>3. ASSUME NEW l \in Places, l[1] = c
        PROVE  l \notin Live(D2) /\ l \notin Live(D)
    BY <1>2, <2>1, <2>3 DEF Live
  <2>4. Live(D2) \subseteq Places /\ Live(D) \subseteq Places
    BY DEF Live
  <2>5. QED
    BY <2>2, <2>3, <2>4
<1>4. \A l \in Live(D) : At(D2, l) = At(D, l)
  BY <1>1, <1>2 DEF Live
<1>5. Named(D2) = Named(D) /\ DirHeads(D2) = DirHeads(D)
  BY <1>3, <1>4, SameHeads
<1>6. HeadsFirst(v, D2, P, own, rank) /\ Reached(v, D2, P)
  BY <1>0, <1>5 DEF HeadsFirst, Reached
<1>7. OneName(D2)
  BY <1>0, <1>3, <1>4 DEF OneName
<1>8. FilesWhole(v, D2, own, rank)
  <2>1. ASSUME NEW h, NEW p, NEW n, h # own[c], FileIs(v, D, own, rank, h, p, n)
        PROVE  FileIs(v, D2, own, rank, h, p, n)
    BY <2>1 DEF FileIs
  <2>2. ASSUME NEW l \in Live(D), ~At(D, l).dir, At(D, l).len # 0
        PROVE  /\ At(D, l).start # 0
               /\ \E p \in Payloads :
                    FileIs(v, D2, own, rank, At(D, l).start, p, At(D, l).len)
    <3>1. PICK p \in Payloads :
            FileIs(v, D, own, rank, At(D, l).start, p, At(D, l).len)
      BY <1>0, <2>2 DEF FilesWhole
    <3>2. FileIs(v, D2, own, rank, At(D, l).start, p, At(D, l).len)
      BY <2>1, <2>2, <3>1
    <3>3. At(D, l).start # 0
      BY <1>0, <2>2 DEF FilesWhole
    <3>4. QED
      BY <3>2, <3>3
  <2>3. \A l \in Live(D) : (~At(D, l).dir /\ At(D, l).len = 0) =>
          At(D, l).start = 0 /\ \E p \in Payloads : TRUE
    BY <1>0 DEF FilesWhole
  <2>4. QED
    BY <1>3, <1>4, <2>2, <2>3 DEF FilesWhole
<1>9. DirsAreDirs(v, D2, V, own)
  <2>1. ASSUME NEW x \in Clusters \ V, Held(v, x), own[x] \in DirHeads(D)
        PROVE  D2[x].kind = "dir"
    <3>1. CASE x = c
      BY <2>1, <3>1
    <3>2. CASE x # c
      BY <1>0, <2>1, <3>2 DEF DirsAreDirs
    <3>3. QED
      BY <3>1, <3>2
  <2>2. QED
    BY <1>0, <1>3, <1>5, <2>1 DEF DirsAreDirs
<1>10. Levelled(D2, own, lev) /\ NamesOnce(D2, own)
  BY <1>0, <1>3, <1>4 DEF Levelled, NamesOnce
<1>11. MarksLast(v, D2, own)
  <2>1. ASSUME NEW x \in Clusters, NEW s \in 1..Slots, NEW t \in 1..Slots,
               At(D2, <<x, s>>) = EndMark, s <= t
        PROVE  At(D2, <<x, t>>) = EndMark
    <3>1. CASE x = c
      BY <3>1
    <3>2. CASE x # c
      BY <1>0, <1>1, <2>1, <3>2 DEF MarksLast
    <3>3. QED
      BY <3>1, <3>2
  <2>2. ASSUME NEW x \in Clusters, NEW s \in 1..Slots,
               v[x] \in Clusters, own[x] \in DirHeads(D)
        PROVE  At(D2, <<x, s>>) # EndMark
    <3>1. x # c
      BY <2>2
    <3>2. QED
      BY <1>0, <1>1, <2>2, <3>1 DEF MarksLast
  <2>3. QED
    BY <1>5, <2>1, <2>2 DEF MarksLast
<1> QED
  BY <1>0, <1>6, <1>7, <1>8, <1>9, <1>10, <1>11 DEF Shape

\* One slot is replaced: D2 is D but for the slot loc.
Replaced(D, D2, loc, e) ==
  /\ \A l \in Places : At(D2, l) = IF l = loc THEN e ELSE At(D, l)
  /\ \A x \in Clusters : x # loc[1] => D2[x] = D[x]
  /\ D2[loc[1]].kind = "dir"

\* An entry is deleted.
LEMMA ShapeErase ==
  ASSUME NEW v, NEW D, NEW P, NEW U,
         NEW own, NEW rank, NEW lev, Shape(v, D, P, U, own, rank, lev),
         NEW loc \in Live(D), NEW D2, Replaced(D, D2, loc, Deleted),
         NEW old, old = At(D, loc).start,
         At(D, loc).dir => \A l \in Live(D) : own[l[1]] # old
  PROVE  /\ Shape(v, D2, P \cup ({old} \ {0}), U, own, rank, lev)
         /\ Live(D2) = Live(D) \ {loc}
         /\ Named(D2) = Named(D) \ {old}
         /\ DirHeads(D2) = DirHeads(D) \ {old}
         /\ old # Root
<1>0. /\ Witness(own, rank, lev) /\ Chained(v, own, rank) /\ OneBefore(v)
      /\ OnePlace(v, own, rank) /\ OwnersHeld(v, own)
      /\ HeadsFirst(v, D, P, own, rank) /\ Reached(v, D, P) /\ OneName(D)
      /\ FilesWhole(v, D, own, rank) /\ DirsAreDirs(v, D, U, own)
      /\ Levelled(D, own, lev) /\ MarksLast(v, D, own) /\ NamesOnce(D, own)
  BY DEF Shape
<1>1. /\ \A l \in Places : At(D2, l) = IF l = loc THEN Deleted ELSE At(D, l)
      /\ \A x \in Clusters : x # loc[1] => D2[x] = D[x]
      /\ D2[loc[1]].kind = "dir"
  BY DEF Replaced
<1>2. /\ Deleted.tag # "live" /\ Deleted # EndMark
      /\ At(D, loc).tag = "live" /\ EndMark.tag # "live"
  BY DEF Deleted, EndMark, Live
<1>3. /\ Live(D) \subseteq Places /\ Live(D2) \subseteq Places
      /\ \A l \in Places : l[1] \in Clusters /\ l[2] \in 1..Slots
      /\ loc \in Places
  BY DEF Live, Places
<1>4. Live(D2) = Live(D) \ {loc} /\ \A l \in Live(D2) : At(D2, l) = At(D, l)
  <2>1. \A l \in Places : l \in Live(D2) <=> l \in Live(D) /\ l # loc
    BY <1>1, <1>2 DEF Live
  <2>2. QED
    BY <1>1, <1>3, <2>1
<1>5. /\ \A l \in Live(D) : l # loc => At(D, l).start # old \/ old = 0
      /\ old # Root
  BY <1>0 DEF OneName
<1>6. old # 0 => old \in Named(D)
  BY <1>0, StartNamed
<1>7. Named(D2) = Named(D) \ {old}
  BY <1>4, <1>5, Values DEF Named
<1>8. DirHeads(D2) = DirHeads(D) \ {old}
  BY <1>4, <1>5, Values DEF DirHeads
<1>9. HeadsFirst(v, D2, P \cup ({old} \ {0}), own, rank)
  <2>1. \A h \in Named(D) \cup P :
          h \in Clusters /\ Held(v, h) /\ \A c \in Clusters : v[c] # h
    BY <1>0 DEF HeadsFirst
  <2>2. \A h \in Named(D) : own[h] = h /\ rank[h] = 0
    BY <1>0 DEF HeadsFirst
  <2>3. \A h \in P :
          own[h] = 0 \/ (own[h] = h /\ rank[h] = 0 /\ h \notin Named(D))
    BY <1>0 DEF HeadsFirst
  <2>4. QED
    BY <1>6, <1>7, <2>1, <2>2, <2>3 DEF HeadsFirst
<1>10. Reached(v, D2, P \cup ({old} \ {0}))
  <2>1. ASSUME NEW c \in Clusters, Held(v, c)
        PROVE  \/ c \in Named(D2) \cup (P \cup ({old} \ {0}))
               \/ \E p \in Clusters : v[p] = c
    <3>1. c # 0
      BY Values
    <3>2. QED
      BY <1>0, <1>7, <2>1, <3>1 DEF Reached
  <2>2. QED
    BY <2>1 DEF Reached
<1>11. OneName(D2)
  BY <1>0, <1>4 DEF OneName
<1>12. \A l \in Live(D) : own[l[1]] \in DirHeads(D) /\ own[l[1]] # old
  <2>1. ASSUME ~At(D, loc).dir PROVE old \notin DirHeads(D)
    BY <1>0, <1>5, <2>1, Values DEF DirHeads, OneName
  <2>2. QED
    BY <1>0, <2>1 DEF DirsAreDirs
<1>13. FilesWhole(v, D2, own, rank)
  <2>1. ASSUME NEW h, NEW p, NEW n, h # own[loc[1]], FileIs(v, D, own, rank, h, p, n)
        PROVE  FileIs(v, D2, own, rank, h, p, n)
    BY <2>1, <1>1 DEF FileIs
  <2>2. ASSUME NEW l \in Live(D), ~At(D, l).dir, At(D, l).len # 0
        PROVE  /\ At(D, l).start # 0
               /\ \E p \in Payloads :
                    FileIs(v, D2, own, rank, At(D, l).start, p, At(D, l).len)
    <3>1. PICK p \in Payloads :
            FileIs(v, D, own, rank, At(D, l).start, p, At(D, l).len)
      BY <1>0, <2>2 DEF FilesWhole
    <3>2. At(D, l).start # 0
      BY <1>0, <2>2 DEF FilesWhole
    <3>3. At(D, l).start \notin DirHeads(D)
      BY <1>0, <2>2, <3>2 DEF OneName, DirHeads
    <3>4. FileIs(v, D2, own, rank, At(D, l).start, p, At(D, l).len)
      BY <1>12, <2>1, <3>1, <3>3
    <3>5. QED
      BY <3>2, <3>4
  <2>3. \A l \in Live(D) : (~At(D, l).dir /\ At(D, l).len = 0) =>
          At(D, l).start = 0 /\ \E p \in Payloads : TRUE
    BY <1>0 DEF FilesWhole
  <2>4. QED
    BY <1>4, <2>2, <2>3 DEF FilesWhole
<1>14. DirsAreDirs(v, D2, U, own)
  <2>1. ASSUME NEW x \in Clusters \ U, Held(v, x), own[x] \in DirHeads(D2)
        PROVE  D2[x].kind = "dir"
    <3>1. CASE x = loc[1]
      BY <1>1, <3>1
    <3>2. CASE x # loc[1]
      BY <1>0, <1>1, <1>8, <2>1, <3>2 DEF DirsAreDirs
    <3>3. QED
      BY <3>1, <3>2
  <2>2. \A l \in Live(D2) : Held(v, l[1]) /\ own[l[1]] \in DirHeads(D2)
    BY <1>0, <1>4, <1>8, <1>12 DEF DirsAreDirs
  <2>3. QED
    BY <2>1, <2>2 DEF DirsAreDirs
<1>15. Levelled(D2, own, lev) /\ NamesOnce(D2, own)
  BY <1>0, <1>4 DEF Levelled, NamesOnce
<1>16. MarksLast(v, D2, own)
  <2>1. \A x \in Clusters, s \in 1..Slots :
          <<x, s>> \in Places /\ (<<x, s>> = loc => At(D, <<x, s>>) # EndMark)
    BY <1>2 DEF Places
  <2>2. \A x \in Clusters, s \in 1..Slots :
          At(D2, <<x, s>>) = EndMark <=> At(D, <<x, s>>) = EndMark
    BY <1>1, <1>2, <2>1
  <2>3. QED
    BY <1>0, <1>8, <2>2 DEF MarksLast
<1>17. Shape(v, D2, P \cup ({old} \ {0}), U, own, rank, lev)
  BY <1>0, <1>9, <1>10, <1>11, <1>13, <1>14, <1>15, <1>16 DEF Shape
<1> QED
  BY <1>4, <1>5, <1>7, <1>8, <1>17

\* What allows the entry e of the chain fst to be stored at loc.
StoreOK(v, D, P, own, rank, lev, loc, e, fst, lev2) ==
  /\ Held(v, loc[1]) /\ own[loc[1]] \in DirHeads(D)
  /\ \A s \in 1..Slots : s < loc[2] => At(D, <<loc[1], s>>) # EndMark
  /\ \A l \in Live(D) : own[l[1]] = own[loc[1]] => At(D, l).name # e.name
  /\ fst = 0 \/ (fst \in P /\ own[fst] # 0)
  /\ e.tag = "live" /\ e.start = fst
  /\ IF e.dir
     THEN /\ fst # 0 /\ D[fst].kind = "dir" /\ v[fst] \notin Clusters
          /\ \A c \in Clusters : (Held(v, c) /\ own[c] = fst) => c = fst
          /\ lev[own[loc[1]]] < MaxDepth
          /\ lev2 = [lev EXCEPT ![fst] = lev[own[loc[1]]] + 1]
     ELSE /\ lev2 = lev
          /\ \E p \in Payloads :
               IF e.len = 0 THEN fst = 0
               ELSE fst # 0 /\ FileIs(v, D, own, rank, fst, p, e.len)

\* An entry is stored in a slot that holds none; it names the chain fst, one of
\* P, or none when fst is 0.
LEMMA ShapeStore ==
  ASSUME NEW v, NEW D, NEW P, NEW U,
         NEW own, NEW rank, NEW lev, Shape(v, D, P, U, own, rank, lev),
         NEW loc \in Places \ Live(D), NEW e, NEW D2, Replaced(D, D2, loc, e),
         NEW fst, NEW lev2, StoreOK(v, D, P, own, rank, lev, loc, e, fst, lev2),
         NEW Q, Q = P \ {fst}
  PROVE  /\ Shape(v, D2, Q, U, own, rank, lev2)
         /\ Live(D2) = Live(D) \cup {loc}
         /\ Named(D2) = Named(D) \cup ({fst} \ {0})
         /\ DirHeads(D2) = DirHeads(D) \cup (IF e.dir THEN {fst} ELSE {})
         /\ \A h \in DirHeads(D) : lev2[h] = lev[h]
<1> USE DEF StoreOK
<1>0. /\ Witness(own, rank, lev) /\ Chained(v, own, rank) /\ OneBefore(v)
      /\ OnePlace(v, own, rank) /\ OwnersHeld(v, own)
      /\ HeadsFirst(v, D, P, own, rank) /\ Reached(v, D, P) /\ OneName(D)
      /\ FilesWhole(v, D, own, rank) /\ DirsAreDirs(v, D, U, own)
      /\ Levelled(D, own, lev) /\ MarksLast(v, D, own) /\ NamesOnce(D, own)
  BY DEF Shape
<1>1. /\ \A l \in Places : At(D2, l) = IF l = loc THEN e ELSE At(D, l)
      /\ \A x \in Clusters : x # loc[1] => D2[x] = D[x]
      /\ D2[loc[1]].kind = "dir"
  BY DEF Replaced
<1>2. e # EndMark /\ EndMark.tag # "live"
  BY DEF EndMark
<1>3. /\ Live(D) \subseteq Places /\ Live(D2) \subseteq Places
      /\ \A l \in Places : l[1] \in Clusters /\ l[2] \in 1..Slots
      /\ loc \in Places /\ loc \notin Live(D)
  BY DEF Live, Places
<1>4. /\ Live(D2) = Live(D) \cup {loc} /\ At(D2, loc) = e
      /\ \A l \in Live(D) : At(D2, l) = At(D, l)
  <2>1. \A l \in Places : l \in Live(D2) <=> l \in Live(D) \/ l = loc
    BY <1>1 DEF Live
  <2>2. QED
    BY <1>1, <1>3, <2>1
<1>5. fst # 0 => /\ fst \in Clusters /\ own[fst] = fst /\ rank[fst] = 0
                 /\ fst \notin Named(D) /\ fst # Root
                 /\ Held(v, fst) /\ \A c \in Clusters : v[c] # fst
  BY <1>0, Heads DEF HeadsFirst
<1>6. fst \notin DirHeads(D) /\ fst # Root
  BY <1>5, Heads, Values
<1>7. Named(D2) = Named(D) \cup ({fst} \ {0})
  BY <1>4, <1>5, Values DEF Named
<1>8. DirHeads(D2) = DirHeads(D) \cup (IF e.dir THEN {fst} ELSE {})
  BY <1>4, <1>5, Values DEF DirHeads
<1>9. \A h \in Clusters : h # fst => lev2[h] = lev[h]
  BY <1>0, <1>5 DEF Witness
<1>10. Witness(own, rank, lev2)
  <2>1. CASE e.dir
    <3>1. lev[own[loc[1]]] + 1 \in 0..MaxDepth
      <4>1. own[loc[1]] \in Clusters
        BY Heads
      <4>2. lev[own[loc[1]]] \in 0..MaxDepth /\ lev[own[loc[1]]] < MaxDepth
        BY <1>0, <2>1, <4>1 DEF Witness
      <4>3. QED
        BY <4>2, FatAssumption
    <3>2. lev2 = [lev EXCEPT ![fst] = lev[own[loc[1]]] + 1]
      BY <2>1
    <3>3. QED
      BY <1>0, <3>1, <3>2 DEF Witness
  <2>2. CASE ~e.dir
    BY <1>0, <2>2 DEF Witness
  <2>3. QED
    BY <2>1, <2>2
<1>11. HeadsFirst(v, D2, Q, own, rank)
  <2>1. \A h \in Named(D) \cup P :
          h \in Clusters /\ Held(v, h) /\ \A c \in Clusters : v[c] # h
    BY <1>0 DEF HeadsFirst
  <2>2. \A h \in Named(D) : own[h] = h /\ rank[h] = 0
    BY <1>0 DEF HeadsFirst
  <2>3. \A h \in P :
          own[h] = 0 \/ (own[h] = h /\ rank[h] = 0 /\ h \notin Named(D))
    BY <1>0 DEF HeadsFirst
  <2>4. QED
    BY <1>5, <1>7, <2>1, <2>2, <2>3 DEF HeadsFirst
<1>12. Reached(v, D2, Q)
  <2>1. ASSUME NEW c \in Clusters, Held(v, c)
        PROVE  \/ c \in Named(D2) \cup (Q)
               \/ \E p \in Clusters : v[p] = c
    <3>1. c # 0
      BY Values
    <3>2. QED
      BY <1>0, <1>7, <2>1, <3>1 DEF Reached
  <2>2. QED
    BY <2>1 DEF Reached
<1>13. OneName(D2)
  <2>1. \A l \in Live(D) :
          At(D, l).start # 0 => At(D, l).start # fst /\ At(D, l).start # Root
    BY <1>0, <1>5, <1>6, StartNamed
  <2>2. fst \in Cl0
    BY <1>5 DEF Cl0
  <2>3. e.dir => fst # 0
    OBVIOUS
  <2>4. QED
    BY <1>0, <1>4, <1>6, <2>1, <2>2, <2>3 DEF OneName
<1>14. own[loc[1]] # fst
  BY <1>6
<1>15. FilesWhole(v, D2, own, rank)
  <2>1. ASSUME NEW h, NEW p, NEW n, h # own[loc[1]], FileIs(v, D, own, rank, h, p, n)
        PROVE  FileIs(v, D2, own, rank, h, p, n)
    BY <2>1, <1>1 DEF FileIs
  <2>2. ASSUME NEW l \in Live(D), ~At(D, l).dir, At(D, l).len # 0
        PROVE  /\ At(D, l).start # 0
               /\ \E p \in Payloads :
                    FileIs(v, D2, own, rank, At(D, l).start, p, At(D, l).len)
    <3>1. PICK p \in Payloads :
            FileIs(v, D, own, rank, At(D, l).start, p, At(D, l).len)
      BY <1>0, <2>2 DEF FilesWhole
    <3>2. At(D, l).start # 0
      BY <1>0, <2>2 DEF FilesWhole
    <3>3. At(D, l).start \notin DirHeads(D)
      BY <1>0, <2>2, <3>2 DEF OneName, DirHeads
    <3>4. FileIs(v, D2, own, rank, At(D, l).start, p, At(D, l).len)
      BY <2>1, <3>1, <3>3
    <3>5. QED
      BY <3>2, <3>4
  <2>3. \A l \in Live(D) : (~At(D, l).dir /\ At(D, l).len = 0) =>
          At(D, l).start = 0 /\ \E p \in Payloads : TRUE
    BY <1>0 DEF FilesWhole
  <2>4. ASSUME ~e.dir, e.len # 0
        PROVE  fst # 0 /\ \E p \in Payloads : FileIs(v, D2, own, rank, fst, p, e.len)
    BY <1>14, <2>1, <2>4
  <2>5. (~e.dir /\ e.len = 0) => fst = 0 /\ \E p \in Payloads : TRUE
    OBVIOUS
  <2>6. QED
    BY <1>4, <2>2, <2>3, <2>4, <2>5 DEF FilesWhole
<1>16. DirsAreDirs(v, D2, U, own)
  <2>1. ASSUME NEW x \in Clusters \ U, Held(v, x), own[x] \in DirHeads(D2)
        PROVE  D2[x].kind = "dir"
    <3>1. CASE x = loc[1]
      BY <1>1, <3>1
    <3>2. CASE x # loc[1] /\ own[x] \in DirHeads(D)
      BY <1>0, <1>1, <2>1, <3>2 DEF DirsAreDirs
    <3>3. CASE x # loc[1] /\ own[x] = fst /\ e.dir
      BY <1>1, <2>1, <3>3
    <3>4. QED
      BY <1>8, <2>1, <3>1, <3>2, <3>3
  <2>2. \A l \in Live(D2) : Held(v, l[1]) /\ own[l[1]] \in DirHeads(D2)
    BY <1>0, <1>4, <1>8 DEF DirsAreDirs
  <2>3. QED
    BY <2>1, <2>2 DEF DirsAreDirs
<1>17. Levelled(D2, own, lev2)
  <2>1. ASSUME NEW l \in Live(D), At(D, l).dir
        PROVE  lev2[At(D, l).start] = lev2[own[l[1]]] + 1
    <3>1. At(D, l).start # 0
      BY <1>0, <2>1 DEF OneName
    <3>2. At(D, l).start \in Named(D) /\ At(D, l).start \in Clusters
      BY <1>0, <3>1, StartNamed, Heads
    <3>3. At(D, l).start # fst
      BY <1>5, <3>1, <3>2
    <3>4. own[l[1]] # fst /\ own[l[1]] \in Clusters
      BY <1>0, <1>6, Heads DEF DirsAreDirs
    <3>5. QED
      BY <1>0, <1>9, <2>1, <3>2, <3>3, <3>4 DEF Levelled
  <2>2. ASSUME e.dir PROVE lev2[fst] = lev2[own[loc[1]]] + 1
    <3>1. own[loc[1]] \in Clusters
      BY Heads
    <3>2. lev2[own[loc[1]]] = lev[own[loc[1]]]
      BY <1>9, <1>14, <3>1
    <3>3. fst \in Clusters /\ lev2 = [lev EXCEPT ![fst] = lev[own[loc[1]]] + 1]
      BY <2>2, <1>5
    <3>4. QED
      BY <1>0, <3>2, <3>3 DEF Witness
  <2>3. lev2[Root] = 0
    BY <1>0, <1>6, <1>9, Values DEF Levelled
  <2>4. QED
    BY <1>4, <2>1, <2>2, <2>3 DEF Levelled
<1>18. NamesOnce(D2, own)
  BY <1>0, <1>4 DEF NamesOnce
<1>19. MarksLast(v, D2, own)
  <2>1. \A x \in Clusters, s \in 1..Slots :
          /\ <<x, s>> \in Places
          /\ <<x, s>> = loc <=> (x = loc[1] /\ s = loc[2])
    BY <1>3 DEF Places
  <2>2. \A x \in Clusters, s \in 1..Slots :
          At(D2, <<x, s>>) = EndMark =>
            At(D, <<x, s>>) = EndMark /\ ~(x = loc[1] /\ s = loc[2])
    BY <1>1, <1>2, <2>1
  <2>3. \A x \in Clusters, s \in 1..Slots :
          ~(x = loc[1] /\ s = loc[2]) => At(D2, <<x, s>>) = At(D, <<x, s>>)
    BY <1>1, <2>1
  <2>4. ASSUME NEW x \in Clusters, NEW s \in 1..Slots, NEW t \in 1..Slots,
               At(D2, <<x, s>>) = EndMark, s <= t
        PROVE  At(D2, <<x, t>>) = EndMark
    <3>1. At(D, <<x, s>>) = EndMark /\ ~(x = loc[1] /\ s = loc[2])
      BY <2>2, <2>4
    <3>2. At(D, <<x, t>>) = EndMark
      BY <1>0, <2>4, <3>1 DEF MarksLast
    <3>3. ~(x = loc[1] /\ t = loc[2])
      BY <2>4, <3>1
    <3>4. QED
      BY <2>3, <3>2, <3>3
  <2>5. ASSUME NEW x \in Clusters, NEW s \in 1..Slots,
               v[x] \in Clusters, own[x] \in DirHeads(D2)
        PROVE  At(D2, <<x, s>>) # EndMark
    <3>1. CASE own[x] \in DirHeads(D)
      BY <1>0, <2>2, <2>5, <3>1 DEF MarksLast
    <3>2. CASE own[x] = fst /\ e.dir
      <4>1. Held(v, x)
        BY <2>5, Values DEF Held
      <4>2. x = fst
        BY <3>2, <4>1
      <4>3. QED
        BY <2>5, <3>2, <4>2
    <3>3. QED
      BY <1>8, <2>5, <3>1, <3>2
  <2>6. QED
    BY <2>4, <2>5 DEF MarksLast
<1>20. Shape(v, D2, Q, U, own, rank, lev2)
  BY <1>0, <1>10, <1>11, <1>12, <1>13, <1>15, <1>16, <1>17, <1>18, <1>19
  DEF Shape
<1> QED
  BY <1>4, <1>6, <1>7, <1>8, <1>9, <1>20, Heads
-----------------------------------------------------------------------------
(* What a walk over a chain or a directory finds.                           *)

LEMMA NextOfIs ==
  ASSUME NEW v, NEW c
  PROVE  /\ NextOf(v, c) # 0 => /\ c \in Clusters /\ v[c] \in Clusters
                                /\ NextOf(v, c) = v[c]
         /\ (c \in Clusters /\ v[c] \in Clusters) => NextOf(v, c) = v[c]
         /\ ~(c \in Clusters /\ v[c] \in Clusters) => NextOf(v, c) = 0
  BY DEF NextOf

\* A walk that has gone on for i steps has found a cluster at each of them.
LEMMA ChainPrefix ==
  ASSUME NEW v, NEW c, NEW i \in 0..MaxCluster, Chain(v, c)[i] # 0,
         NEW j \in 0..MaxCluster, j < i
  PROVE  /\ Chain(v, c)[j] \in Clusters /\ v[Chain(v, c)[j]] \in Clusters
         /\ Chain(v, c)[j + 1] = v[Chain(v, c)[j]]
<1> DEFINE S == {n \in Nat : n <= i => Chain(v, c)[i - n] # 0}
<1>0. MaxCluster \in Nat
  BY FatAssumption
<1>1. \A k \in 1..MaxCluster : Chain(v, c)[k] = NextOf(v, Chain(v, c)[k - 1])
  BY ChainHops
<1>2. 0 \in S
  BY <1>0
<1>3. ASSUME NEW n \in Nat, n \in S PROVE n + 1 \in S
  <2> SUFFICES ASSUME n + 1 <= i PROVE Chain(v, c)[i - (n + 1)] # 0
    OBVIOUS
  <2>1. i - n \in 1..MaxCluster /\ (i - n) - 1 = i - (n + 1) /\ n <= i
    BY <1>0
  <2>2. NextOf(v, Chain(v, c)[i - (n + 1)]) # 0
    BY <1>1, <1>3, <2>1
  <2>3. QED
    BY <2>2, NextOfIs, Values
<1> HIDE DEF S
<1>4. \A n \in Nat : n \in S
  BY <1>2, <1>3, NatSetInduction
<1>5. Chain(v, c)[j + 1] # 0
  <2>1. i - (j + 1) \in Nat /\ i - (j + 1) <= i /\ i - (i - (j + 1)) = j + 1
    BY <1>0
  <2>2. QED
    BY <2>1, <1>4 DEF S
<1>6. j + 1 \in 1..MaxCluster /\ (j + 1) - 1 = j
  BY <1>0
<1>7. Chain(v, c)[j + 1] = NextOf(v, Chain(v, c)[j])
  BY <1>1, <1>6
<1> QED
  BY <1>5, <1>7, NextOfIs

\* The chain of a named head, in a tree of the right shape: its clusters are
\* those the head owns, each at its rank.
LEMMA HeadWalk ==
  ASSUME NEW v \in [Clusters -> FatVal], NEW D, NEW P, NEW U,
         NEW own, NEW rank, NEW lev, Shape(v, D, P, U, own, rank, lev),
         NEW d \in Named(D)
  PROVE  \A i \in 0..MaxCluster : Chain(v, d)[i] # 0 =>
           /\ Chain(v, d)[i] \in Clusters /\ Held(v, Chain(v, d)[i])
           /\ own[Chain(v, d)[i]] = d /\ rank[Chain(v, d)[i]] = i
<1> DEFINE Found(n) == n <= MaxCluster => (Chain(v, d)[n] # 0 =>
             /\ Chain(v, d)[n] \in Clusters /\ Held(v, Chain(v, d)[n])
             /\ own[Chain(v, d)[n]] = d /\ rank[Chain(v, d)[n]] = n)
           S == {n \in Nat : Found(n)}
<1>0. MaxCluster \in Nat
  BY FatAssumption
<1>1. d \in Clusters /\ Held(v, d) /\ own[d] = d /\ rank[d] = 0
  BY DEF Shape, HeadsFirst
<1>2. 0 \in S
  BY <1>1, ChainHops
<1>3. ASSUME NEW n \in Nat, n \in S PROVE n + 1 \in S
  <2> SUFFICES ASSUME n + 1 <= MaxCluster, Chain(v, d)[n + 1] # 0
               PROVE  /\ Chain(v, d)[n + 1] \in Clusters
                      /\ Held(v, Chain(v, d)[n + 1])
                      /\ own[Chain(v, d)[n + 1]] = d
                      /\ rank[Chain(v, d)[n + 1]] = n + 1
    OBVIOUS
  <2>1. n \in 0..MaxCluster /\ n + 1 \in 0..MaxCluster /\ n < n + 1
    BY <1>0
  <2>2. /\ Chain(v, d)[n] \in Clusters /\ v[Chain(v, d)[n]] \in Clusters
        /\ Chain(v, d)[n + 1] = v[Chain(v, d)[n]]
    BY <2>1, ChainPrefix
  <2>3. own[Chain(v, d)[n]] = d /\ rank[Chain(v, d)[n]] = n
    BY <1>3, <2>1, <2>2, Values
  <2>4. Chained(v, own, rank)
    BY DEF Shape
  <2>5. QED
    BY <2>2, <2>3, <2>4 DEF Chained
<1> HIDE DEF S
<1>4. \A n \in Nat : n \in S
  BY <1>2, <1>3, NatSetInduction
<1> QED
  BY <1>0, <1>4 DEF S

\* A cluster that is not first on its chain has a predecessor.
LEMMA Predecessor ==
  ASSUME NEW v \in [Clusters -> FatVal], NEW D, NEW P, NEW U,
         NEW own, NEW rank, NEW lev, Shape(v, D, P, U, own, rank, lev),
         NEW c \in Clusters, Held(v, c), own[c] # 0, rank[c] # 0
  PROVE  \E p \in Clusters : /\ v[p] = c /\ Held(v, p)
                             /\ own[p] = own[c] /\ rank[c] = rank[p] + 1
<1>1. c \notin Named(D) \cup P
  BY DEF Shape, HeadsFirst
<1>2. PICK p \in Clusters : v[p] = c
  BY <1>1 DEF Shape, Reached
<1>3. Chained(v, own, rank)
  BY DEF Shape
<1> QED
  BY <1>2, <1>3, Values DEF Chained, Held

LEMMA OwnedWalk ==
  ASSUME NEW v \in [Clusters -> FatVal], NEW D, NEW P, NEW U,
         NEW own, NEW rank, NEW lev, Shape(v, D, P, U, own, rank, lev),
         NEW d \in Named(D)
  PROVE  \A c \in Clusters : (Held(v, c) /\ own[c] = d) =>
           rank[c] \in 0..MaxCluster /\ Chain(v, d)[rank[c]] = c
<1>0. MaxCluster \in Nat /\ rank \in [Clusters -> Nat]
  BY FatAssumption DEF Shape, Witness
<1>1. d \in Clusters /\ Held(v, d) /\ own[d] = d /\ rank[d] = 0 /\ d # 0
  BY Values DEF Shape, HeadsFirst
<1> DEFINE Of(n) == {c \in Clusters : Held(v, c) /\ own[c] = d /\ rank[c] = n}
           S == {n \in Nat : n <= MaxCluster => \A c \in Of(n) : Chain(v, d)[n] = c}
<1>2. 0 \in S
  <2>1. \A c \in Of(0) : c = d
    BY <1>1 DEF Shape, OnePlace
  <2>2. QED
    BY <2>1, ChainHops
<1>3. ASSUME NEW n \in Nat PROVE \A c \in Of(n + 1) : \E p \in Of(n) : v[p] = c
  <2> SUFFICES ASSUME NEW c \in Of(n + 1) PROVE \E p \in Of(n) : v[p] = c
    OBVIOUS
  <2>1. c \in Clusters /\ Held(v, c) /\ own[c] = d /\ rank[c] = n + 1 /\ rank[c] # 0
    OBVIOUS
  <2>2. PICK p \in Clusters : /\ v[p] = c /\ Held(v, p)
                              /\ own[p] = own[c] /\ rank[c] = rank[p] + 1
    BY <1>1, <2>1, Predecessor
  <2>3. rank[p] = n
    BY <1>0, <2>1, <2>2
  <2>4. QED
    BY <2>1, <2>2, <2>3
<1>4. ASSUME NEW n \in Nat, n \in S PROVE n + 1 \in S
  <2> SUFFICES ASSUME n + 1 <= MaxCluster, NEW c \in Of(n + 1)
               PROVE  Chain(v, d)[n + 1] = c
    OBVIOUS
  <2>1. PICK p \in Of(n) : v[p] = c
    BY <1>3
  <2>2. Chain(v, d)[n] = p
    BY <1>0, <1>4, <2>1
  <2>3. n + 1 \in 1..MaxCluster /\ (n + 1) - 1 = n
    BY <1>0
  <2>4. Chain(v, d)[n + 1] = NextOf(v, p)
    BY <2>2, <2>3, ChainHops
  <2>5. QED
    BY <2>1, <2>4, NextOfIs
<1> HIDE DEF S
<1>5. \A n \in Nat : n \in S
  BY <1>2, <1>4, NatSetInduction
<1>6. Of(MaxCluster) = {}
  <2> SUFFICES ASSUME NEW c \in Of(MaxCluster) PROVE FALSE
    OBVIOUS
  <2>1. Chain(v, d)[MaxCluster] # 0
    BY <1>0, <1>5, Values DEF S
  <2> DEFINE g == [i \in 0..MaxCluster |-> Chain(v, d)[i]]
  <2>2. \A i \in 0..MaxCluster : Chain(v, d)[i] # 0
    <3> SUFFICES ASSUME NEW i \in 0..MaxCluster PROVE Chain(v, d)[i] # 0
      OBVIOUS
    <3>1. i = MaxCluster \/ i < MaxCluster
      BY <1>0
    <3>2. MaxCluster \in 0..MaxCluster
      BY <1>0
    <3>3. QED
      BY <2>1, <3>1, <3>2, ChainPrefix, Values
  <2>3. \A i \in 0..MaxCluster : g[i] \in Clusters /\ rank[g[i]] = i
    BY <2>2, HeadWalk
  <2>4. g \in [0..MaxCluster -> Clusters]
    BY <2>3
  <2>5. IsFiniteSet(0..MaxCluster) /\ Cardinality(0..MaxCluster) = MaxCluster + 1
    BY <1>0, FS_Interval
  <2>6. /\ IsFiniteSet(Clusters)
        /\ Cardinality(Clusters) = IF 2 > MaxCluster THEN 0 ELSE MaxCluster - 1
    BY <1>0, FS_Interval DEF Clusters
  <2>7. Cardinality(Clusters) < Cardinality(0..MaxCluster)
    BY <1>0, <2>5, <2>6
  <2> HIDE DEF g
  <2>8. \E i, j \in 0..MaxCluster : i # j /\ g[i] = g[j]
    <3> DEFINE N == 0..MaxCluster
    <3>1. IsFiniteSet(N) /\ Cardinality(Clusters) < Cardinality(N) /\ g \in [N -> Clusters]
      BY <2>4, <2>5, <2>7
    <3> HIDE DEF N
    <3>2. \E i, j \in N : i # j /\ g[i] = g[j]
      BY <2>6, <3>1, FS_PigeonHole
    <3>3. QED
      BY <3>2 DEF N
  <2>9. QED
    BY <2>3, <2>8
<1> DEFINE T == {n \in Nat : Of(MaxCluster + n) = {}}
<1>7. 0 \in T
  BY <1>0, <1>6
<1>8. ASSUME NEW n \in Nat, n \in T PROVE n + 1 \in T
  <2>1. MaxCluster + n \in Nat /\ MaxCluster + (n + 1) = (MaxCluster + n) + 1
    BY <1>0
  <2>2. Of((MaxCluster + n) + 1) = {}
    BY <1>3, <1>8, <2>1
  <2>3. QED
    BY <2>1, <2>2
<1> HIDE DEF T
<1>9. \A n \in Nat : n \in T
  BY <1>7, <1>8, NatSetInduction
<1>10. ASSUME NEW c \in Clusters, Held(v, c), own[c] = d
       PROVE  rank[c] \in 0..MaxCluster /\ Chain(v, d)[rank[c]] = c
  <2>1. rank[c] \in Nat /\ c \in Of(rank[c])
    BY <1>0, <1>10
  <2>2. rank[c] <= MaxCluster
    <3> SUFFICES ASSUME rank[c] > MaxCluster PROVE FALSE
      BY <1>0, <2>1
    <3>1. rank[c] - MaxCluster \in Nat
          /\ MaxCluster + (rank[c] - MaxCluster) = rank[c]
      BY <1>0, <2>1
    <3>2. QED
      BY <2>1, <3>1, <1>9 DEF T
  <2>3. rank[c] \in 0..MaxCluster
    BY <1>0, <2>1, <2>2
  <2>4. QED
    BY <1>5, <2>1, <2>2, <2>3 DEF S
<1> QED
  BY <1>10

LEMMA ChainSetIs ==
  ASSUME NEW v \in [Clusters -> FatVal], NEW D, NEW P, NEW U,
         NEW own, NEW rank, NEW lev, Shape(v, D, P, U, own, rank, lev),
         NEW d \in Named(D)
  PROVE  ChainSet(v, d) = {c \in Clusters : Held(v, c) /\ own[c] = d}
<1>1. \A c \in ChainSet(v, d) : c \in Clusters /\ Held(v, c) /\ own[c] = d
  BY HeadWalk DEF ChainSet
<1>2. ASSUME NEW c \in Clusters, Held(v, c), own[c] = d
      PROVE  c \in ChainSet(v, d)
  <2>1. rank[c] \in 0..MaxCluster /\ Chain(v, d)[rank[c]] = c
    BY <1>2, OwnedWalk
  <2>2. QED
    BY <2>1, Values DEF ChainSet
<1> QED
  BY <1>1, <1>2

\* The place of a slot in its directory.
PosOf(rank, l) == rank[l[1]] * Slots + l[2] - 1
Mine(v, own, d) == {l \in Places : Held(v, l[1]) /\ own[l[1]] = d}

LEMMA Successors ==
  ASSUME NEW K \in Nat \ {0}, NEW i \in Nat, NEW j \in Nat, i < j
  PROVE  i * K + K <= j * K
<1>1. PICK n \in Nat : j = (i + 1) + n
  <2>1. j - (i + 1) \in Nat /\ j = (i + 1) + (j - (i + 1))
    OBVIOUS
  <2>2. QED
    BY <2>1
<1>2. n * K \in Nat /\ i * K \in Nat
  OBVIOUS
<1>3. j * K = i * K + K + n * K
  BY <1>1
<1> QED
  BY <1>2, <1>3

LEMMA Positions ==
  ASSUME NEW K \in Nat \ {0}, NEW i \in Nat, NEW s \in 1..K,
         NEW j \in Nat, NEW t \in 1..K
  PROVE  /\ (i * K + s - 1 < j * K + t - 1) => i < j \/ (i = j /\ s < t)
         /\ (i * K + s - 1 = j * K + t - 1) => i = j /\ s = t
<1>1. i * K \in Nat /\ j * K \in Nat
  OBVIOUS
<1>2. CASE i < j
  <2>1. i * K + K <= j * K
    BY <1>2, Successors
  <2>2. i * K + s - 1 < j * K + t - 1
    BY <1>1, <2>1
  <2>3. QED
    BY <1>1, <1>2, <2>2
<1>3. CASE j < i
  <2>1. j * K + K <= i * K
    BY <1>3, Successors
  <2>2. j * K + t - 1 < i * K + s - 1
    BY <1>1, <2>1
  <2>3. QED
    BY <1>1, <1>3, <2>2
<1>4. CASE i = j
  BY <1>1, <1>4
<1> QED
  BY <1>2, <1>3, <1>4

LEMMA SlotIs ==
  ASSUME NEW c, NEW s
  PROVE  SlotsOf(c)[s] = At(data, <<c, s>>)
  BY DEF SlotsOf, At

\* The slots a walk over the directory d lists are those of its clusters.
LEMMA ListingIs ==
  ASSUME NEW v \in [Clusters -> FatVal], NEW P, NEW U,
         NEW own, NEW rank, NEW lev, Shape(v, data, P, U, own, rank, lev),
         NEW d \in Named(data)
  PROVE  /\ \A l \in Mine(v, own, d) : /\ <<PosOf(rank, l), At(data, l)>> \in Listing(v, d)
                                       /\ LocAt(v, d, PosOf(rank, l)) = l
                                       /\ PosOf(rank, l) \in Nat
         /\ \A x \in Listing(v, d) :
              \E l \in Mine(v, own, d) : x = <<PosOf(rank, l), At(data, l)>>
<1>0. MaxCluster \in Nat /\ Slots \in Nat \ {0} /\ rank \in [Clusters -> Nat]
  BY FatAssumption DEF Shape, Witness
<1>1. ASSUME NEW l \in Mine(v, own, d)
      PROVE  /\ <<PosOf(rank, l), At(data, l)>> \in Listing(v, d)
             /\ LocAt(v, d, PosOf(rank, l)) = l
             /\ PosOf(rank, l) \in Nat
  <2>1. /\ l[1] \in Clusters /\ l[2] \in 1..Slots /\ l = <<l[1], l[2]>>
        /\ Held(v, l[1]) /\ own[l[1]] = d
    BY DEF Mine, Places
  <2>2. rank[l[1]] \in 0..MaxCluster /\ Chain(v, d)[rank[l[1]]] = l[1]
    BY <2>1, OwnedWalk
  <2>3. SlotsOf(l[1])[l[2]] = At(data, l)
    BY <2>1, SlotIs
  <2>4. l[1] # 0
    BY <2>1, Values
  <2>5. <<rank[l[1]] * Slots + l[2] - 1, SlotsOf(Chain(v, d)[rank[l[1]]])[l[2]]>>
          \in Listing(v, d)
    BY <2>1, <2>2, <2>4 DEF Listing
  <2>6. rank[l[1]] \in Nat
    BY <2>2
  <2>7. /\ PosOf(rank, l) \in Nat
        /\ PosOf(rank, l) \div Slots = rank[l[1]]
        /\ 1 + (PosOf(rank, l) % Slots) = l[2]
    BY <1>0, <2>1, <2>6, SlotPosition DEF PosOf
  <2>8. LocAt(v, d, PosOf(rank, l)) = l
    BY <2>1, <2>2, <2>7 DEF LocAt
  <2>9. QED
    BY <2>2, <2>3, <2>5, <2>7, <2>8 DEF PosOf
<1>2. ASSUME NEW x \in Listing(v, d)
      PROVE  \E l \in Mine(v, own, d) : x = <<PosOf(rank, l), At(data, l)>>
  <2>1. PICK i \in 0..MaxCluster, s \in 1..Slots :
          /\ Chain(v, d)[i] # 0
          /\ x = <<i * Slots + s - 1, SlotsOf(Chain(v, d)[i])[s]>>
    BY DEF Listing
  <2>2. /\ Chain(v, d)[i] \in Clusters /\ Held(v, Chain(v, d)[i])
        /\ own[Chain(v, d)[i]] = d /\ rank[Chain(v, d)[i]] = i
    BY <2>1, HeadWalk
  <2> DEFINE l == <<Chain(v, d)[i], s>>
  <2>3. l \in Mine(v, own, d)
    BY <2>2 DEF Mine, Places
  <2>4. PosOf(rank, l) = i * Slots + s - 1
    BY <2>2 DEF PosOf
  <2>5. SlotsOf(Chain(v, d)[i])[s] = At(data, l)
    BY SlotIs
  <2>6. QED
    BY <2>1, <2>3, <2>4, <2>5
<1> QED
  BY <1>1, <1>2

\* Nothing but end markers lies behind an end marker.
LEMMA BehindMarks ==
  ASSUME NEW v \in [Clusters -> FatVal], NEW D, NEW P, NEW U,
         NEW own, NEW rank, NEW lev, Shape(v, D, P, U, own, rank, lev),
         NEW d \in DirHeads(D),
         NEW l \in Mine(v, own, d), NEW m \in Mine(v, own, d),
         At(D, l) = EndMark, PosOf(rank, l) < PosOf(rank, m)
  PROVE  /\ l[1] = m[1] /\ l[2] < m[2]
         /\ At(D, m) = EndMark
<1>0. MaxCluster \in Nat /\ Slots \in Nat \ {0} /\ rank \in [Clusters -> Nat]
  BY FatAssumption DEF Shape, Witness
<1>1. /\ l[1] \in Clusters /\ l[2] \in 1..Slots /\ l = <<l[1], l[2]>>
      /\ m[1] \in Clusters /\ m[2] \in 1..Slots /\ m = <<m[1], m[2]>>
      /\ Held(v, l[1]) /\ own[l[1]] = d /\ Held(v, m[1]) /\ own[m[1]] = d
  BY DEF Mine, Places
<1>2. d \in Named(D)
  BY Heads
<1>3. MarksLast(v, D, own) /\ OnePlace(v, own, rank)
  BY DEF Shape
<1>4. rank[l[1]] < rank[m[1]] \/ (rank[l[1]] = rank[m[1]] /\ l[2] < m[2])
  BY <1>0, <1>1, Positions DEF PosOf
<1>5. ~(rank[l[1]] < rank[m[1]])
  <2> SUFFICES ASSUME rank[l[1]] < rank[m[1]] PROVE FALSE
    OBVIOUS
  <2>1. /\ rank[l[1]] \in 0..MaxCluster /\ Chain(v, d)[rank[l[1]]] = l[1]
        /\ rank[m[1]] \in 0..MaxCluster /\ Chain(v, d)[rank[m[1]]] = m[1]
    BY <1>1, <1>2, OwnedWalk
  <2>2. v[l[1]] \in Clusters
    BY <1>1, <2>1, ChainPrefix, Values
  <2>3. At(D, <<l[1], l[2]>>) # EndMark
    BY <1>1, <1>3, <2>2 DEF MarksLast
  <2>4. QED
    BY <1>1, <2>3
<1>6. l[1] = m[1] /\ l[2] < m[2]
  <2>1. rank[l[1]] = rank[m[1]] /\ l[2] < m[2]
    BY <1>4, <1>5
  <2>2. d # 0
    BY <1>2, Heads, Values
  <2>3. QED
    BY <1>1, <1>3, <2>1, <2>2 DEF OnePlace
<1>7. At(D, <<l[1], m[2]>>) = EndMark
  <2>1. l[2] <= m[2]
    BY <1>1, <1>6
  <2>2. QED
    BY <1>1, <1>3, <2>1 DEF MarksLast
<1> QED
  BY <1>1, <1>6, <1>7

\* What a scan of a directory sees: every entry, and the first end marker.
LEMMA ScanIs ==
  ASSUME NEW v \in [Clusters -> FatVal], NEW P, NEW U,
         NEW own, NEW rank, NEW lev, Shape(v, data, P, U, own, rank, lev),
         NEW d \in DirHeads(data)
  PROVE  /\ \A l \in Mine(v, own, d) : At(data, l) # EndMark =>
              <<PosOf(rank, l), At(data, l)>> \in Scan(v, d)
         /\ \A x \in Scan(v, d) :
              \E l \in Mine(v, own, d) :
                /\ x = <<PosOf(rank, l), At(data, l)>>
                /\ \A m \in Mine(v, own, d) : At(data, m) = EndMark =>
                     PosOf(rank, l) <= PosOf(rank, m)
         /\ (\E m \in Mine(v, own, d) : At(data, m) = EndMark) =>
              \E x \in Scan(v, d) : x[2] = EndMark
<1>0. d \in Named(data)
  BY Heads
<1>1. \A x : x \in Scan(v, d) <=>
        /\ x \in Listing(v, d)
        /\ \A y \in Listing(v, d) : y[2] = EndMark => x[1] <= y[1]
  BY DEF Scan
<1>2. /\ \A l \in Mine(v, own, d) : /\ <<PosOf(rank, l), At(data, l)>> \in Listing(v, d)
                                    /\ PosOf(rank, l) \in Nat
      /\ \A x \in Listing(v, d) :
           \E l \in Mine(v, own, d) : x = <<PosOf(rank, l), At(data, l)>>
  BY <1>0, ListingIs
<1>3. ASSUME NEW l \in Mine(v, own, d), At(data, l) # EndMark
      PROVE  <<PosOf(rank, l), At(data, l)>> \in Scan(v, d)
  <2>1. ASSUME NEW y \in Listing(v, d), y[2] = EndMark PROVE PosOf(rank, l) <= y[1]
    <3>1. PICK m \in Mine(v, own, d) : y = <<PosOf(rank, m), At(data, m)>>
      BY <1>2
    <3>2. ~(PosOf(rank, m) < PosOf(rank, l))
      BY <1>3, <2>1, <3>1, BehindMarks
    <3>3. PosOf(rank, l) \in Nat /\ PosOf(rank, m) \in Nat
      BY <1>2
    <3>4. QED
      BY <3>1, <3>2, <3>3
  <2>2. QED
    BY <1>1, <1>2, <2>1
<1>4. ASSUME NEW x \in Scan(v, d)
      PROVE  \E l \in Mine(v, own, d) :
                /\ x = <<PosOf(rank, l), At(data, l)>>
                /\ \A m \in Mine(v, own, d) : At(data, m) = EndMark =>
                     PosOf(rank, l) <= PosOf(rank, m)
  <2>1. PICK l \in Mine(v, own, d) : x = <<PosOf(rank, l), At(data, l)>>
    BY <1>1, <1>2
  <2>2. ASSUME NEW m \in Mine(v, own, d), At(data, m) = EndMark
        PROVE  PosOf(rank, l) <= PosOf(rank, m)
    <3>1. <<PosOf(rank, m), At(data, m)>> \in Listing(v, d)
      BY <1>2
    <3>2. x[1] <= PosOf(rank, m)
      BY <1>1, <2>2, <3>1
    <3>3. QED
      BY <2>1, <3>2
  <2>3. QED
    BY <2>1, <2>2
<1>5. ASSUME NEW m \in Mine(v, own, d), At(data, m) = EndMark
      PROVE  \E x \in Scan(v, d) : x[2] = EndMark
  <2> DEFINE T == {PosOf(rank, l) : l \in {k \in Mine(v, own, d) : At(data, k) = EndMark}}
  <2>1. T \subseteq Nat /\ T # {}
    BY <1>2, <1>5
  <2>2. \E n \in T : \A j \in T : n <= j
    <3> HIDE DEF T
    <3>1. QED BY <2>1, LeastNat
  <2>3. PICK l \in Mine(v, own, d) :
          /\ At(data, l) = EndMark
          /\ \A k \in Mine(v, own, d) :
               At(data, k) = EndMark => PosOf(rank, l) <= PosOf(rank, k)
    BY <2>2
  <2>4. \A y \in Listing(v, d) : y[2] = EndMark => PosOf(rank, l) <= y[1]
    BY <1>2, <2>3
  <2>5. <<PosOf(rank, l), At(data, l)>> \in Scan(v, d)
    BY <1>1, <1>2, <2>4
  <2>6. QED
    BY <2>3, <2>5
<1> QED
  BY <1>3, <1>4, <1>5

LEMMA LiveSlotsAre ==
  ASSUME NEW v \in [Clusters -> FatVal], NEW P, NEW U,
         NEW own, NEW rank, NEW lev, Shape(v, data, P, U, own, rank, lev),
         NEW d \in DirHeads(data)
  PROVE  /\ \A l \in Live(data) : own[l[1]] = d =>
              /\ <<PosOf(rank, l), At(data, l)>> \in LiveSlots(v, d)
              /\ LocAt(v, d, PosOf(rank, l)) = l
         /\ \A x \in LiveSlots(v, d) :
              \E l \in Live(data) : /\ own[l[1]] = d
                                    /\ x = <<PosOf(rank, l), At(data, l)>>
                                    /\ LocAt(v, d, x[1]) = l
         /\ \A x \in Listing(v, d) \ Scan(v, d) : x[2].tag # "live"
<1>0. d \in Named(data) /\ EndMark.tag # "live"
  BY Heads DEF EndMark
<1>a. \A l \in Mine(v, own, d) :
        /\ <<PosOf(rank, l), At(data, l)>> \in Listing(v, d)
        /\ LocAt(v, d, PosOf(rank, l)) = l
  BY <1>0, ListingIs
<1>1. \A l \in Live(data) : l \in Places /\ Held(v, l[1]) /\ At(data, l).tag = "live"
  BY DEF Shape, DirsAreDirs, Live
<1>2. \A l \in Live(data) : own[l[1]] = d =>
        l \in Mine(v, own, d) /\ At(data, l) # EndMark
  BY <1>0, <1>1 DEF Mine
<1>3. \A l \in Mine(v, own, d) : /\ own[l[1]] = d
                                 /\ At(data, l).tag = "live" => l \in Live(data)
  BY DEF Mine, Live
<1>4. \A l \in Live(data) : own[l[1]] = d =>
        /\ <<PosOf(rank, l), At(data, l)>> \in LiveSlots(v, d)
        /\ LocAt(v, d, PosOf(rank, l)) = l
  <2> SUFFICES ASSUME NEW l \in Live(data), own[l[1]] = d
               PROVE  /\ <<PosOf(rank, l), At(data, l)>> \in LiveSlots(v, d)
                      /\ LocAt(v, d, PosOf(rank, l)) = l
    OBVIOUS
  <2>1. <<PosOf(rank, l), At(data, l)>> \in Scan(v, d)
    BY <1>2, ScanIs
  <2>2. LocAt(v, d, PosOf(rank, l)) = l
    BY <1>2, <1>a
  <2>3. QED
    BY <1>1, <2>1, <2>2 DEF LiveSlots
<1>5. \A x \in LiveSlots(v, d) :
        \E l \in Live(data) : /\ own[l[1]] = d
                              /\ x = <<PosOf(rank, l), At(data, l)>>
                              /\ LocAt(v, d, x[1]) = l
  <2> SUFFICES ASSUME NEW x \in LiveSlots(v, d)
               PROVE  \E l \in Live(data) :
                        /\ own[l[1]] = d
                        /\ x = <<PosOf(rank, l), At(data, l)>>
                        /\ LocAt(v, d, x[1]) = l
    OBVIOUS
  <2>1. x \in Scan(v, d) /\ x[2].tag = "live"
    BY DEF LiveSlots
  <2>2. PICK l \in Mine(v, own, d) : x = <<PosOf(rank, l), At(data, l)>>
    BY <2>1, ScanIs
  <2>3. LocAt(v, d, PosOf(rank, l)) = l
    BY <1>a
  <2>4. QED
    BY <1>3, <2>1, <2>2, <2>3
<1>6. ASSUME NEW x \in Listing(v, d) \ Scan(v, d) PROVE x[2].tag # "live"
  <2>1. PICK l \in Mine(v, own, d) : x = <<PosOf(rank, l), At(data, l)>>
    BY <1>0, ListingIs
  <2>2. At(data, l) = EndMark
    BY <2>1, ScanIs
  <2>3. QED
    BY <1>0, <2>1, <2>2
<1> QED
  BY <1>4, <1>5, <1>6

\* The lookup of a name finds the entry that has it, if there is one.
LEMMA HitsAre ==
  ASSUME NEW v \in [Clusters -> FatVal], NEW P, NEW U,
         NEW own, NEW rank, NEW lev, Shape(v, data, P, U, own, rank, lev),
         NEW d \in DirHeads(data), NEW n, NEW hits, hits = Matches(v, d, n)
  PROVE  /\ hits = {} =>
              \A l \in Live(data) : own[l[1]] = d => At(data, l).name # n
         /\ hits # {} =>
              \E l \in Live(data) : /\ own[l[1]] = d /\ At(data, l).name = n
                                    /\ EntryOf(hits) = At(data, l)
                                    /\ LocAt(v, d, First(hits)[1]) = l
<1>1. ASSUME NEW l \in Live(data), own[l[1]] = d, At(data, l).name = n
      PROVE  <<PosOf(rank, l), At(data, l)>> \in hits
  <2>1. <<PosOf(rank, l), At(data, l)>> \in LiveSlots(v, d)
    BY <1>1, LiveSlotsAre
  <2>2. QED
    BY <1>1, <2>1 DEF Matches
<1>2. ASSUME hits # {}
      PROVE  \E l \in Live(data) : /\ own[l[1]] = d /\ At(data, l).name = n
                                   /\ EntryOf(hits) = At(data, l)
                                   /\ LocAt(v, d, First(hits)[1]) = l
  <2>1. \A x \in hits :
          /\ x[1] \in Nat /\ x[2].name = n
          /\ \E l \in Live(data) : /\ own[l[1]] = d
                                   /\ x = <<PosOf(rank, l), At(data, l)>>
                                   /\ LocAt(v, d, x[1]) = l
    <3> SUFFICES ASSUME NEW x \in hits
                 PROVE  /\ x[1] \in Nat /\ x[2].name = n
                        /\ \E l \in Live(data) :
                             /\ own[l[1]] = d
                             /\ x = <<PosOf(rank, l), At(data, l)>>
                             /\ LocAt(v, d, x[1]) = l
      OBVIOUS
    <3>1. x \in LiveSlots(v, d) /\ x[2].name = n
      BY DEF Matches
    <3>2. PICK l \in Live(data) : /\ own[l[1]] = d
                                  /\ x = <<PosOf(rank, l), At(data, l)>>
                                  /\ LocAt(v, d, x[1]) = l
      BY <3>1, LiveSlotsAre
    <3>3. l \in Mine(v, own, d) /\ d \in Named(data)
      BY <3>2, Heads DEF Mine, Live, Shape, DirsAreDirs
    <3>4. <<PosOf(rank, l), At(data, l)>> \in Listing(v, d) /\ PosOf(rank, l) \in Nat
      BY <3>3, ListingIs
    <3>5. QED
      BY <3>1, <3>2, <3>4
  <2>2. First(hits) \in hits
    BY <1>2, <2>1, FirstIsLeast
  <2>3. PICK l \in Live(data) :
          /\ own[l[1]] = d
          /\ First(hits) = <<PosOf(rank, l), At(data, l)>>
          /\ LocAt(v, d, First(hits)[1]) = l
    BY <2>1, <2>2
  <2>4. EntryOf(hits) = At(data, l)
    BY <2>3 DEF EntryOf
  <2>5. At(data, l).name = n
    BY <2>1, <2>2, <2>3
  <2>6. QED
    BY <2>3, <2>4, <2>5
<1> QED
  BY <1>1, <1>2

\* The search for a free slot.
LEMMA FreeSlotsAre ==
  ASSUME NEW v \in [Clusters -> FatVal], NEW P, NEW U,
         NEW own, NEW rank, NEW lev, Shape(v, data, P, U, own, rank, lev),
         NEW d \in DirHeads(data), NEW free, free = FreeSlots(v, d)
  PROVE  /\ free = {} =>
              \A m \in Mine(v, own, d) : At(data, m) # EndMark
         /\ free # {} =>
              \E l \in Mine(v, own, d) :
                /\ LocAt(v, d, First(free)[1]) = l
                /\ EntryOf(free) = At(data, l)
                /\ At(data, l) \in {EndMark, Deleted}
                /\ \A s \in 1..Slots : s < l[2] => At(data, <<l[1], s>>) # EndMark
<1>0. /\ d \in Named(data) /\ Slots \in Nat \ {0} /\ rank \in [Clusters -> Nat]
  BY Heads, FatAssumption DEF Shape, Witness
<1>1. ASSUME free = {}, NEW m \in Mine(v, own, d), At(data, m) = EndMark
      PROVE  FALSE
  <2>1. PICK x \in Scan(v, d) : x[2] = EndMark
    BY <1>1, ScanIs
  <2>2. QED
    BY <1>1, <2>1 DEF FreeSlots
<1>2. ASSUME free # {}
      PROVE  \E l \in Mine(v, own, d) :
               /\ LocAt(v, d, First(free)[1]) = l
               /\ EntryOf(free) = At(data, l)
               /\ At(data, l) \in {EndMark, Deleted}
               /\ \A s \in 1..Slots : s < l[2] => At(data, <<l[1], s>>) # EndMark
  <2>1. \A l \in Mine(v, own, d) :
          /\ <<PosOf(rank, l), At(data, l)>> \in Listing(v, d)
          /\ LocAt(v, d, PosOf(rank, l)) = l
          /\ PosOf(rank, l) \in Nat
    BY <1>0, ListingIs
  <2>2. \A x \in free : x \in Scan(v, d) /\ x[2] \in {EndMark, Deleted}
    BY DEF FreeSlots
  <2>3. \A x \in free :
          \E l \in Mine(v, own, d) :
            /\ x = <<PosOf(rank, l), At(data, l)>>
            /\ \A m \in Mine(v, own, d) : At(data, m) = EndMark =>
                 PosOf(rank, l) <= PosOf(rank, m)
    BY <2>2, ScanIs
  <2>4. \A x \in free : x[1] \in Nat
    BY <2>1, <2>3
  <2>5. First(free) \in free
    BY <1>2, <2>4, FirstIsLeast
  <2>6. PICK l \in Mine(v, own, d) :
          /\ First(free) = <<PosOf(rank, l), At(data, l)>>
          /\ \A m \in Mine(v, own, d) : At(data, m) = EndMark =>
               PosOf(rank, l) <= PosOf(rank, m)
    BY <2>3, <2>5
  <2>7. LocAt(v, d, First(free)[1]) = l /\ EntryOf(free) = At(data, l)
    BY <2>1, <2>6 DEF EntryOf
  <2>8. At(data, l) \in {EndMark, Deleted}
    BY <2>2, <2>5, <2>6
  <2>9. ASSUME NEW s \in 1..Slots, s < l[2], At(data, <<l[1], s>>) = EndMark
        PROVE  FALSE
    <3> DEFINE m == <<l[1], s>>
    <3>1. /\ l[1] \in Clusters /\ l[2] \in 1..Slots
          /\ Held(v, l[1]) /\ own[l[1]] = d
      BY DEF Mine, Places
    <3>2. m \in Mine(v, own, d)
      BY <3>1 DEF Mine, Places
    <3>3. PosOf(rank, l) <= PosOf(rank, m)
      BY <2>6, <2>9, <3>2
    <3>4. rank[l[1]] * Slots \in Nat
      BY <1>0, <3>1
    <3>5. PosOf(rank, m) < PosOf(rank, l)
      BY <2>9, <3>1, <3>4, <1>0 DEF PosOf
    <3>6. PosOf(rank, l) \in Nat /\ PosOf(rank, m) \in Nat
      BY <2>1, <3>2
    <3> HIDE DEF m
    <3>7. QED
      BY <3>3, <3>5, <3>6
  <2>10. QED
    BY <2>7, <2>8, <2>9
<1> QED
  BY <1>1, <1>2

LEMMA EmptyIs ==
  ASSUME NEW v \in [Clusters -> FatVal], NEW P, NEW U,
         NEW own, NEW rank, NEW lev, Shape(v, data, P, U, own, rank, lev),
         NEW d \in DirHeads(data), IsDirEmpty(v, d)
  PROVE  \A l \in Live(data) : own[l[1]] # d
<1>1. LiveSlots(v, d) = {}
  BY DEF IsDirEmpty
<1> QED
  BY <1>1, LiveSlotsAre, ZenonT(40)
-----------------------------------------------------------------------------
(* The paths.                                                               *)

LEMMA AtType ==
  ASSUME DataOK, NEW l \in Places
  PROVE  At(data, l) \in Slot
<1>1. l[1] \in Clusters /\ l[2] \in 1..Slots /\ l = <<l[1], l[2]>>
  BY DEF Places
<1>2. At(data, l) = SlotsOf(l[1])[l[2]]
  BY <1>1, SlotIs
<1> QED
  BY <1>1, <1>2, SlotsOfType

LEMMA LiveType ==
  ASSUME DataOK, NEW l \in Live(data)
  PROVE  /\ At(data, l).name \in Names /\ At(data, l).dir \in BOOLEAN
         /\ At(data, l).start \in Cl0 /\ At(data, l).len \in 0..MaxCount
         /\ At(data, l) \in Slot /\ l \in Places
         /\ l[1] \in Clusters /\ l[2] \in 1..Slots
<1>1. l \in Places /\ At(data, l).tag = "live"
  BY DEF Live
<1>2. At(data, l) \in Slot
  BY <1>1, AtType
<1>3. EndMark.tag # "live" /\ Deleted.tag # "live"
  BY DEF EndMark, Deleted
<1>4. At(data, l) \in [tag: {"live"}, name: Names, dir: BOOLEAN,
                       start: Cl0, len: 0..MaxCount]
  BY <1>1, <1>2, <1>3 DEF Slot
<1> QED
  BY <1>1, <1>2, <1>4 DEF Places

\* Levels(v)[k] holds paths of k names, and its directories have depth k.
LEMMA PathsLead ==
  ASSUME DataOK, NEW v \in [Clusters -> FatVal], NEW P, NEW U,
         NEW own, NEW rank, NEW lev, Shape(v, data, P, U, own, rank, lev)
  PROVE  \A k \in 0..MaxDepth : \A x \in Levels(v)[k] :
           /\ x[1] \in Seq(Names) /\ Len(x[1]) = k
           /\ x[2].dir => x[2].start \in DirHeads(data) /\ lev[x[2].start] = k
<1> DEFINE Right(k, x) ==
             /\ x[1] \in Seq(Names) /\ Len(x[1]) = k
             /\ x[2].dir => x[2].start \in DirHeads(data) /\ lev[x[2].start] = k
           S == {k \in Nat : k <= MaxDepth => \A x \in Levels(v)[k] : Right(k, x)}
<1>0. MaxDepth \in Nat
  BY FatAssumption
<1>1. 0 \in S
  <2>1. \A x \in Levels(v)[0] : x[1] = <<>> /\ x[2].start = Root
    BY LevelsAre DEF RootEntry, Entry
  <2>2. lev[Root] = 0
    BY DEF Shape, Levelled
  <2>3. <<>> \in Seq(Names) /\ Len(<<>>) = 0
    OBVIOUS
  <2>4. ASSUME NEW x \in Levels(v)[0] PROVE Right(0, x)
    <3>1. x[1] = <<>> /\ x[2].start = Root
      BY <2>1
    <3>2. QED
      BY <2>2, <2>3, <3>1, Heads
  <2>5. QED
    BY <2>4
<1>2. ASSUME NEW k \in Nat, k \in S PROVE k + 1 \in S
  <2> SUFFICES ASSUME k + 1 <= MaxDepth, NEW y \in Levels(v)[k + 1]
               PROVE  Right(k + 1, y)
    OBVIOUS
  <2>1. k + 1 \in 1..MaxDepth /\ (k + 1) - 1 = k /\ k <= MaxDepth
    BY <1>0
  <2>2. PICK z \in Levels(v)[k] :
          /\ z[2].dir
          /\ \E e \in Entries(v, z[2].start) : y = <<Append(z[1], e.name), e>>
    BY <2>1, LevelsAre
  <2>3. /\ z[1] \in Seq(Names) /\ Len(z[1]) = k
        /\ z[2].start \in DirHeads(data) /\ lev[z[2].start] = k
    BY <1>2, <2>1, <2>2
  <2>4. PICK x \in LiveSlots(v, z[2].start) :
          y = <<Append(z[1], x[2].name), x[2]>>
    BY <2>2 DEF Entries
  <2>5. PICK l \in Live(data) : own[l[1]] = z[2].start /\ x[2] = At(data, l)
    BY <2>3, LiveSlotsAre
  <2>6. At(data, l).name \in Names
    BY LiveType
  <2>7. y[1] \in Seq(Names) /\ Len(y[1]) = k + 1
    <3>1. y[1] = Append(z[1], At(data, l).name)
      BY <2>4, <2>5
    <3>2. QED
      BY <2>3, <2>6, <3>1
  <2>8. ASSUME At(data, l).dir
        PROVE  /\ At(data, l).start \in DirHeads(data)
               /\ lev[At(data, l).start] = k + 1
    <3>1. OneName(data) /\ Levelled(data, own, lev)
      BY DEF Shape
    <3>2. QED
      BY <2>3, <2>5, <2>8, <3>1, StartNamed DEF OneName, Levelled
  <2>9. y[2] = At(data, l)
    BY <2>4, <2>5
  <2>10. QED
    BY <2>7, <2>8, <2>9
<1> HIDE DEF S
<1>3. \A k \in Nat : k \in S
  BY <1>1, <1>2, NatSetInduction
<1> QED
  BY <1>0, <1>3 DEF S

\* Every directory is on the level of its depth.
LEMMA PathsReach ==
  ASSUME DataOK, NEW v \in [Clusters -> FatVal], NEW P, NEW U,
         NEW own, NEW rank, NEW lev, Shape(v, data, P, U, own, rank, lev)
  PROVE  \A d \in DirHeads(data) :
           /\ lev[d] \in 0..MaxDepth
           /\ \E x \in Levels(v)[lev[d]] : x[2].dir /\ x[2].start = d
<1> DEFINE S == {k \in Nat : k <= MaxDepth =>
                   \A d \in DirHeads(data) : lev[d] = k =>
                      \E x \in Levels(v)[k] : x[2].dir /\ x[2].start = d}
<1>0. MaxDepth \in Nat
  BY FatAssumption
<1>1. /\ \A d \in DirHeads(data) : lev[d] \in 0..MaxDepth
      /\ OneName(data) /\ Levelled(data, own, lev) /\ DirsAreDirs(v, data, U, own)
  BY Heads DEF Shape, Witness
<1>2. ASSUME NEW d \in DirHeads(data), d # Root
      PROVE  \E l \in Live(data) :
               /\ At(data, l).dir /\ At(data, l).start = d
               /\ own[l[1]] \in DirHeads(data) /\ lev[d] = lev[own[l[1]]] + 1
  BY <1>1, <1>2 DEF DirHeads, Levelled, DirsAreDirs
<1>3. 0 \in S
  <2>1. ASSUME NEW d \in DirHeads(data), lev[d] = 0 PROVE d = Root
    <3> SUFFICES ASSUME d # Root PROVE FALSE
      OBVIOUS
    <3>1. PICK l \in Live(data) : own[l[1]] \in DirHeads(data)
                                  /\ lev[d] = lev[own[l[1]]] + 1
      BY <1>2
    <3>2. lev[own[l[1]]] \in 0..MaxDepth
      BY <1>1, <3>1
    <3>3. QED
      BY <1>0, <2>1, <3>1, <3>2
  <2>2. <<<<>>, RootEntry>> \in Levels(v)[0]
    BY LevelsAre
  <2>3. RootEntry.dir /\ RootEntry.start = Root
    BY DEF RootEntry, Entry
  <2>4. QED
    BY <2>1, <2>2, <2>3
<1>4. ASSUME NEW k \in Nat, k \in S PROVE k + 1 \in S
  <2> SUFFICES ASSUME k + 1 <= MaxDepth, NEW d \in DirHeads(data), lev[d] = k + 1
               PROVE  \E x \in Levels(v)[k + 1] : x[2].dir /\ x[2].start = d
    OBVIOUS
  <2>1. k + 1 \in 1..MaxDepth /\ (k + 1) - 1 = k /\ k <= MaxDepth
    BY <1>0
  <2>2. d # Root
    BY <1>1 DEF Levelled
  <2>3. PICK l \in Live(data) :
          /\ At(data, l).dir /\ At(data, l).start = d
          /\ own[l[1]] \in DirHeads(data) /\ lev[d] = lev[own[l[1]]] + 1
    BY <1>2, <2>2
  <2>4. lev[own[l[1]]] = k
    <3>1. lev[own[l[1]]] \in 0..MaxDepth
      BY <1>1, <2>3
    <3>2. QED
      BY <1>0, <2>3, <3>1
  <2>5. PICK z \in Levels(v)[k] : z[2].dir /\ z[2].start = own[l[1]]
    BY <1>4, <2>1, <2>3, <2>4
  <2>6. At(data, l) \in Entries(v, z[2].start)
    <3>1. <<PosOf(rank, l), At(data, l)>> \in LiveSlots(v, z[2].start)
      BY <2>3, <2>5, LiveSlotsAre
    <3>2. QED
      BY <3>1 DEF Entries
  <2>7. <<Append(z[1], At(data, l).name), At(data, l)>> \in Levels(v)[k + 1]
    BY <2>1, <2>5, <2>6, LevelsAre
  <2>8. QED
    BY <2>3, <2>7
<1> HIDE DEF S
<1>5. \A k \in Nat : k \in S
  BY <1>3, <1>4, NatSetInduction
<1>6. ASSUME NEW d \in DirHeads(data)
      PROVE  \E x \in Levels(v)[lev[d]] : x[2].dir /\ x[2].start = d
  BY <1>0, <1>1, <1>5 DEF S
<1> QED
  BY <1>1, <1>6

\* The directories that paths lead to, and the entries of the whole tree.
LEMMA TreeIs ==
  ASSUME DataOK, NEW v \in [Clusters -> FatVal], NEW P, NEW U,
         NEW own, NEW rank, NEW lev, Shape(v, data, P, U, own, rank, lev)
  PROVE  /\ LiveDirs(v) = DirHeads(data)
         /\ \A x \in DirPaths(v) : /\ x[2].start \in DirHeads(data)
                                   /\ lev[x[2].start] = Len(x[1])
         /\ \A l \in Live(data) :
              <<own[l[1]], PosOf(rank, l), At(data, l)>> \in Located(v)
         /\ \A x \in Located(v) :
              \E l \in Live(data) : x = <<own[l[1]], PosOf(rank, l), At(data, l)>>
<1>1. ASSUME NEW x \in DirPaths(v)
      PROVE  x[2].start \in DirHeads(data) /\ lev[x[2].start] = Len(x[1])
  <2>1. PICK k \in 0..MaxDepth : x \in Levels(v)[k] /\ x[2].dir
    BY PathEntriesAre DEF DirPaths
  <2>2. QED
    BY <2>1, PathsLead
<1>2. ASSUME NEW d \in DirHeads(data)
      PROVE  \E x \in DirPaths(v) : x[2].start = d
  <2>1. PICK x \in Levels(v)[lev[d]] : x[2].dir /\ x[2].start = d
    BY PathsReach
  <2>2. x \in PathEntries(v)
    BY PathsReach, PathEntriesAre
  <2>3. QED
    BY <2>1, <2>2 DEF DirPaths
<1>3. LiveDirs(v) = DirHeads(data)
  BY <1>1, <1>2 DEF LiveDirs
<1>4. ASSUME NEW l \in Live(data)
      PROVE  <<own[l[1]], PosOf(rank, l), At(data, l)>> \in Located(v)
  <2>1. own[l[1]] \in DirHeads(data)
    BY DEF Shape, DirsAreDirs
  <2>2. <<PosOf(rank, l), At(data, l)>> \in LiveSlots(v, own[l[1]])
    BY <2>1, LiveSlotsAre
  <2>3. QED
    BY <1>3, <2>1, <2>2 DEF Located
<1>5. ASSUME NEW x \in Located(v)
      PROVE  \E l \in Live(data) : x = <<own[l[1]], PosOf(rank, l), At(data, l)>>
  <2>1. PICK d \in DirHeads(data) :
          \E y \in LiveSlots(v, d) : x = <<d, y[1], y[2]>>
    BY <1>3 DEF Located
  <2>2. PICK y \in LiveSlots(v, d) : x = <<d, y[1], y[2]>>
    BY <2>1
  <2>3. PICK l \in Live(data) : own[l[1]] = d /\ y = <<PosOf(rank, l), At(data, l)>>
    BY LiveSlotsAre
  <2>4. QED
    BY <2>2, <2>3
<1> QED
  BY <1>1, <1>3, <1>4, <1>5
-----------------------------------------------------------------------------
(* The invariant, label by label.                                           *)

Building == {"find", "eoc", "seal", "xlink", "data", "next", "dirinit", "entry"}

LEMMA SetsAre ==
  ASSUME NEW lab, NEW g
  PROVE  /\ lab \in Building => /\ Pending(lab, g) = {g.first} \ {0}
                                /\ Uncleared(lab, g) = {} /\ Fresh(lab, g) = {}
                                /\ Loose(lab, g) = {}
         /\ lab = "link" => /\ Pending(lab, g) = ({g.first} \ {0}) \cup {g.cl}
                            /\ Uncleared(lab, g) = {} /\ Fresh(lab, g) = {}
                            /\ Loose(lab, g) = {}
         /\ lab \in {"idle", "read", "flush2", "slot", "extend", "tombstone"} =>
              /\ Pending(lab, g) = {} /\ Uncleared(lab, g) = {}
              /\ Fresh(lab, g) = {} /\ Loose(lab, g) = {}
         /\ lab \in {"xeoc", "xzero"} =>
              /\ Pending(lab, g) = {} /\ Uncleared(lab, g) = {g.first}
              /\ Fresh(lab, g) = {} /\ Loose(lab, g) = {g.last, g.first}
         /\ lab = "xflush" =>
              /\ Pending(lab, g) = {} /\ Uncleared(lab, g) = {}
              /\ Fresh(lab, g) = {} /\ Loose(lab, g) = {g.last, g.first}
         /\ lab \in {"mark", "flush"} =>
              /\ Pending(lab, g) = {g.old} \ {0} /\ Uncleared(lab, g) = {}
              /\ Fresh(lab, g) = {g.first} /\ Loose(lab, g) = {}
         /\ lab = "free" =>
              /\ Pending(lab, g) = {g.c} /\ Uncleared(lab, g) = {}
              /\ Fresh(lab, g) = {} /\ Loose(lab, g) = {}
<1>1. \A A, B, C, E : (B = {} /\ C = {} /\ E = {}) => A \cup B \cup C \cup E = A
  OBVIOUS
<1>2. CASE lab \in Building
  BY <1>2 DEF Pending, Uncleared, Fresh, Loose, Building
<1>3. CASE lab = "link"
  BY <1>3 DEF Pending, Uncleared, Fresh, Loose, Building
<1>4. CASE lab \in {"idle", "read", "flush2", "slot", "extend", "tombstone"}
  BY <1>4 DEF Pending, Uncleared, Fresh, Loose, Building
<1>5. CASE lab \in {"xeoc", "xzero", "xflush"}
  BY <1>5 DEF Pending, Uncleared, Fresh, Loose, Building
<1>6. CASE lab \in {"mark", "flush", "free"}
  BY <1>6 DEF Pending, Uncleared, Fresh, Loose, Building
<1> QED
  BY <1>2, <1>3, <1>4, <1>5, <1>6

LEMMA QuietCall ==
  ASSUME NEW v, NEW disk, NEW D, NEW lab, NEW g, NEW cw,
         NEW own, NEW rank, NEW lev,
         lab \in {"idle", "read", "flush2"}
  PROVE  CallIs(v, disk, D, lab, g, cw, own, rank, lev)
           <=> Sound(v, disk, D, {}, {}, {}, {}, cw, own, rank, lev)
<1>1. /\ Pending(lab, g) = {} /\ Uncleared(lab, g) = {}
      /\ Fresh(lab, g) = {} /\ Loose(lab, g) = {}
  BY SetsAre
<1> QED
  BY <1>1 DEF CallIs

LEMMA SearchCall ==
  ASSUME NEW v, NEW disk, NEW D, NEW lab, NEW g, NEW cw,
         NEW own, NEW rank, NEW lev,
         lab \in {"slot", "extend", "tombstone"}
  PROVE  CallIs(v, disk, D, lab, g, cw, own, rank, lev)
           <=> /\ Sound(v, disk, D, {}, {}, {}, {}, cw, own, rank, lev)
               /\ lab = "slot" => AtSlot(D, g, own, lev)
               /\ lab = "extend" => AtExtend(v, D, g, own, lev)
               /\ lab = "tombstone" => AtTombstone(D, g, cw, own)
<1>1. /\ Pending(lab, g) = {} /\ Uncleared(lab, g) = {}
      /\ Fresh(lab, g) = {} /\ Loose(lab, g) = {}
  BY SetsAre
<1> QED
  BY <1>1 DEF CallIs

LEMMA BuildCall ==
  ASSUME NEW v, NEW disk, NEW D, NEW lab, NEW g, NEW cw,
         NEW own, NEW rank, NEW lev, lab \in Building
  PROVE  CallIs(v, disk, D, lab, g, cw, own, rank, lev)
           <=> /\ Sound(v, disk, D, {g.first} \ {0}, {}, {}, {}, cw, own, rank, lev)
               /\ g.first # 0 => own[g.first] # 0
               /\ lab = "find" => AtFind(v, D, g, own, rank, lev)
               /\ lab = "eoc" => AtEoc(v, D, g, own, rank, lev)
               /\ lab = "seal" => AtSeal(v, D, g, own, rank, lev)
               /\ lab = "xlink" => AtXlink(v, D, g, own, rank, lev)
               /\ lab = "data" => AtData(v, D, g, own, rank, lev, g.index - 1)
               /\ lab = "next" => AtData(v, D, g, own, rank, lev, g.index)
               /\ lab = "dirinit" => AtDirinit(v, D, g, own, rank, lev)
               /\ lab = "entry" => AtEntry(v, D, g, own, rank, lev)
<1>1. /\ Pending(lab, g) = {g.first} \ {0} /\ Uncleared(lab, g) = {}
      /\ Fresh(lab, g) = {} /\ Loose(lab, g) = {}
  BY SetsAre
<1>2. (\A h \in {g.first} \ {0} : own[h] # 0) <=> (g.first # 0 => own[g.first] # 0)
  OBVIOUS
<1> QED
  BY <1>1, <1>2 DEF CallIs, Building

LEMMA LinkCall ==
  ASSUME NEW v, NEW disk, NEW D, NEW lab, NEW g, NEW cw,
         NEW own, NEW rank, NEW lev, lab = "link"
  PROVE  CallIs(v, disk, D, lab, g, cw, own, rank, lev)
           <=> /\ Sound(v, disk, D, ({g.first} \ {0}) \cup {g.cl}, {}, {}, {},
                        cw, own, rank, lev)
               /\ g.first # 0 => own[g.first] # 0
               /\ own[g.cl] # 0
               /\ AtLink(v, D, g, own, rank, lev)
<1>1. /\ Pending(lab, g) = ({g.first} \ {0}) \cup {g.cl} /\ Uncleared(lab, g) = {}
      /\ Fresh(lab, g) = {} /\ Loose(lab, g) = {}
  BY SetsAre
<1>2. (\A h \in ({g.first} \ {0}) \cup {g.cl} : own[h] # 0)
        <=> (g.first # 0 => own[g.first] # 0) /\ own[g.cl] # 0
  OBVIOUS
<1> QED
  BY <1>1, <1>2 DEF CallIs

LEMMA ClearCall ==
  ASSUME NEW v, NEW disk, NEW D, NEW lab, NEW g, NEW cw,
         NEW own, NEW rank, NEW lev, lab \in {"xeoc", "xzero"}
  PROVE  CallIs(v, disk, D, lab, g, cw, own, rank, lev)
           <=> /\ Sound(v, disk, D, {}, {g.first}, {}, {g.last, g.first}, cw,
                        own, rank, lev)
               /\ AtXzero(v, D, g, own, lev)
<1>1. /\ Pending(lab, g) = {} /\ Uncleared(lab, g) = {g.first}
      /\ Fresh(lab, g) = {} /\ Loose(lab, g) = {g.last, g.first}
  BY SetsAre
<1> QED
  BY <1>1 DEF CallIs

LEMMA ExtendCall ==
  ASSUME NEW v, NEW disk, NEW D, NEW lab, NEW g, NEW cw,
         NEW own, NEW rank, NEW lev, lab = "xflush"
  PROVE  CallIs(v, disk, D, lab, g, cw, own, rank, lev)
           <=> /\ Sound(v, disk, D, {}, {}, {}, {g.last, g.first}, cw,
                        own, rank, lev)
               /\ AtXflush(v, D, g, own, lev)
<1>1. /\ Pending(lab, g) = {} /\ Uncleared(lab, g) = {}
      /\ Fresh(lab, g) = {} /\ Loose(lab, g) = {g.last, g.first}
  BY SetsAre
<1> QED
  BY <1>1 DEF CallIs

LEMMA FlushCall ==
  ASSUME NEW v, NEW disk, NEW D, NEW lab, NEW g, NEW cw,
         NEW own, NEW rank, NEW lev, lab \in {"mark", "flush"}
  PROVE  CallIs(v, disk, D, lab, g, cw, own, rank, lev)
           <=> /\ Sound(v, disk, D, {g.old} \ {0}, {}, {g.first}, {}, cw, own,
                        rank, lev)
               /\ g.old # 0 => own[g.old] # 0
               /\ lab = "mark" => AtMark(v, D, g, own)
               /\ AtStored(D, g, own)
<1>1. /\ Pending(lab, g) = {g.old} \ {0} /\ Uncleared(lab, g) = {}
      /\ Fresh(lab, g) = {g.first} /\ Loose(lab, g) = {}
  BY SetsAre
<1>2. (\A h \in {g.old} \ {0} : own[h] # 0) <=> (g.old # 0 => own[g.old] # 0)
  OBVIOUS
<1> QED
  BY <1>1, <1>2 DEF CallIs

LEMMA FreeCall ==
  ASSUME NEW v, NEW disk, NEW D, NEW lab, NEW g, NEW cw,
         NEW own, NEW rank, NEW lev, lab = "free"
  PROVE  CallIs(v, disk, D, lab, g, cw, own, rank, lev)
           <=> /\ Sound(v, disk, D, {g.c}, {}, {}, {}, cw, own, rank, lev)
               /\ AtFree(g, own)
<1>1. /\ Pending(lab, g) = {g.c} /\ Uncleared(lab, g) = {}
      /\ Fresh(lab, g) = {} /\ Loose(lab, g) = {}
  BY SetsAre
<1> QED
  BY <1>1 DEF CallIs
-----------------------------------------------------------------------------
(* What the steps do to the view of the FAT, without faults.                *)

LEMMA SameView ==
  ASSUME UNCHANGED <<fat, cacheVars>>
  PROVE  View' = View
  BY DEF View, Cached, cacheVars

LEMMA SetView ==
  ASSUME TypeInv, NEW x, SetEntry(x)
  PROVE  /\ Need \in Clusters /\ View' = [View EXCEPT ![Need] = x]
         /\ fat' = fat /\ data' = data /\ cwd' = cwd /\ NoFault
<1>1. /\ Need # 0 /\ cur = SectorOf(Need) /\ cache' = [cache EXCEPT ![Need] = x]
      /\ fat' = fat /\ data' = data /\ cwd' = cwd /\ cur' = cur /\ NoFault
  BY DEF SetEntry, Access, Cached, diskVars
<1>2. Need \in Clusters
  BY <1>1, NeedType DEF Cl0
<1>3. cache \in [Clusters -> FatVal]
  BY DEF TypeInv, TypeOK
<1>4. View' = [View EXCEPT ![Need] = x]
  BY <1>1, <1>2, <1>3 DEF View, Cached
<1> QED
  BY <1>1, <1>2, <1>4

LEMMA LoadView ==
  ASSUME CacheInv, LoadSector
  PROVE  /\ View' = View
         /\ fat' = fat /\ data' = data /\ cwd' = cwd /\ NoFault
         /\ pc' = pc /\ f' = f
<1>1. /\ ~dirty /\ cur' = SectorOf(Need) /\ NoFault
      /\ cache' = [c \in Clusters |->
                     IF SectorOf(c) = SectorOf(Need) THEN fat[1][c] ELSE Free]
      /\ fat' = fat /\ data' = data /\ cwd' = cwd /\ pc' = pc /\ f' = f
  BY DEF LoadSector, MayLoad, diskVars
<1>2. \A c \in Clusters : fat[1][c] = View[c]
  BY <1>1, CleanIsDurable, FirstCopy
<1>3. View' = [c \in Clusters |-> fat[1][c]]
  BY <1>1 DEF View, Cached
<1>4. View' = View
  BY <1>2, <1>3 DEF View
<1> QED
  BY <1>1, <1>4

LEMMA FlushView ==
  ASSUME CacheInv, FlushCopy
  PROVE  /\ View' = View
         /\ \A c \in Clusters : fat'[1][c] = fat[1][c] \/ fat'[1][c] = View[c]
         /\ data' = data /\ cwd' = cwd /\ NoFault /\ pc' = pc /\ f' = f
<1>1. /\ fat' = Flushed /\ cur' = cur /\ cache' = cache /\ NoFault
      /\ data' = data /\ cwd' = cwd /\ pc' = pc /\ f' = f
  BY DEF FlushCopy
<1>2. \A c \in Clusters :
        fat'[1][c] = IF 1 = copy /\ Cached(c) THEN cache[c] ELSE fat[1][c]
  BY <1>1, FlushedCopy, FirstCopy
<1>3. \A c \in Clusters : Cached(c) => fat'[1][c] = cache[c] \/ fat'[1][c] = fat[1][c]
  BY <1>2
<1>4. View' = View
  BY <1>1, <1>2 DEF View, Cached
<1>5. \A c \in Clusters : fat'[1][c] = fat[1][c] \/ fat'[1][c] = View[c]
  BY <1>2 DEF View
<1> QED
  BY <1>1, <1>4, <1>5

LEMMA NoFaults ==
  ASSUME TypeInv, faults' = 0
  PROVE  \A k, who : ~Fault(k, who)
<1>1. faults \in Nat
  BY Bounds DEF TypeInv, TypeOK
<1> QED
  BY <1>1 DEF Fault

LEMMA NoFailures ==
  ASSUME TypeInv, faults' = 0
  PROVE  /\ \A new, w : WriteData(new, w) => w /\ data' = new /\ NoFault
         /\ \A loc, e, w : WriteSlot(loc, e, w) =>
              w /\ data' = PutSlot(loc, e) /\ NoFault
         /\ ~FlushFails /\ ~LoadFails /\ ~Crash /\ \A hops : ~WalkFails(hops)
<1>1. \A k, who : ~Fault(k, who)
  BY NoFaults
<1>2. faults \in Nat
  BY Bounds DEF TypeInv, TypeOK
<1>3. ~FlushFails /\ ~ReadFails
  BY <1>1 DEF FlushFails, ReadFails
<1>4. ~Crash
  BY <1>2 DEF Crash
<1>5. \A new, w : WriteData(new, w) => w /\ data' = new /\ NoFault
  BY <1>1 DEF WriteData
<1>6. \A loc, e, w : WriteSlot(loc, e, w) =>
        w /\ data' = PutSlot(loc, e) /\ NoFault
  BY <1>1, <1>5 DEF WriteSlot
<1>7. \A hops : ~WalkFails(hops)
  BY <1>1 DEF WalkFails
<1> QED
  BY <1>3, <1>4, <1>5, <1>6, <1>7 DEF LoadFails

LEMMA PutIsReplaced ==
  ASSUME DataOK, NEW loc \in Places, NEW e
  PROVE  Replaced(data, PutSlot(loc, e), loc, e)
<1> DEFINE c == loc[1]
           new == DirData(ParentOf(c), [SlotsOf(c) EXCEPT ![loc[2]] = e])
           D2 == PutSlot(loc, e)
<1>1. c \in Clusters /\ loc[2] \in 1..Slots /\ loc = <<c, loc[2]>>
  BY DEF Places
<1>2. SlotsOf(c) \in [1..Slots -> Slot]
  BY <1>1, SlotsOfType
<1>3. D2[c] = new /\ \A x \in Clusters : x # c => D2[x] = data[x]
  BY <1>1 DEF PutSlot, DataOK
<1>4. new.kind = "dir" /\ new.slot = [SlotsOf(c) EXCEPT ![loc[2]] = e]
  BY DEF DirData
<1>5. ASSUME NEW l \in Places
      PROVE  At(D2, l) = IF l = loc THEN e ELSE At(data, l)
  <2>1. l[1] \in Clusters /\ l[2] \in 1..Slots /\ l = <<l[1], l[2]>>
    BY DEF Places
  <2>2. CASE l[1] # c
    <3>1. D2[l[1]] = data[l[1]] /\ l # loc
      BY <2>1, <2>2, <1>3
    <3> QED
      BY <3>1 DEF At
  <2>3. CASE l[1] = c
    <3>1. At(D2, l) = [SlotsOf(c) EXCEPT ![loc[2]] = e][l[2]]
      BY <2>3, <1>3, <1>4 DEF At
    <3>2. l = loc <=> l[2] = loc[2]
      BY <2>1, <2>3, <1>1
    <3>3. At(data, l) = SlotsOf(c)[l[2]]
      BY <2>3 DEF At, SlotsOf
    <3> QED
      BY <3>1, <3>2, <3>3, <2>1, <1>1, <1>2
  <2> QED
    BY <2>2, <2>3
<1> QED
  BY <1>3, <1>4, <1>5 DEF Replaced

\* The calls fail no transfer, so they damage nothing.
Quiet == faults' = 0 /\ faults = 0 /\ suspect = {} /\ ~crashed

LEMMA QuietStays ==
  ASSUME Quiet, NoFault
  PROVE  suspect' = {} /\ ~crashed'
  BY DEF Quiet, NoFault, faultVars
-----------------------------------------------------------------------------
(* The changes of Shape, with what the disk shows of it.                    *)

LEMMA SettledMore ==
  ASSUME NEW v, NEW disk, NEW D, NEW F, NEW L, NEW own,
         Settled(v, disk, D, F, L, own),
         NEW disk2, \A c \in Clusters : disk2[c] = disk[c] \/ disk2[c] = v[c],
         NEW D2, NEW F2, Named(D2) \ F2 \subseteq Named(D) \ F,
         NEW M, L \subseteq M
  PROVE  Settled(v, disk2, D2, F2, M, own)
  BY DEF Settled

LEMMA SoundGrow ==
  ASSUME NEW v \in [Clusters -> FatVal], NEW disk, NEW D, NEW P, NEW U, NEW F,
         NEW L, NEW cw, NEW own, NEW rank, NEW lev,
         Sound(v, disk, D, P, U, F, L, cw, own, rank, lev),
         NEW c \in Clusters, v[c] = Free,
         NEW v2, v2 = [v EXCEPT ![c] = Eoc],
         NEW own2, own2 = [own EXCEPT ![c] = c],
         NEW rank2, rank2 = [rank EXCEPT ![c] = 0]
  PROVE  Sound(v2, disk, D, P \cup {c}, U, F, L, cw, own2, rank2, lev)
<1>1. Shape(v, D, P, U, own, rank, lev) /\ Settled(v, disk, D, F, L, own)
      /\ cw \in DirHeads(D)
  BY DEF Sound
<1>2. Shape(v2, D, P \cup {c}, U, own2, rank2, lev)
  BY <1>1, ShapeGrow
<1>3. c \notin Named(D)
  BY <1>1 DEF Shape, HeadsFirst, Held
<1>4. own \in [Clusters -> Cl0]
  BY <1>1 DEF Shape, Witness
<1>5. Settled(v2, disk, D, F, L, own2)
  <2>1. \A x \in Clusters : x # c => v2[x] = v[x] /\ own2[x] = own[x]
    OBVIOUS
  <2>2. own2[c] = c
    BY <1>4
  <2> QED
    BY <1>1, <1>3, <2>1, <2>2 DEF Settled, Held
<1> QED
  BY <1>1, <1>2, <1>5 DEF Sound

LEMMA SoundLink ==
  ASSUME NEW v \in [Clusters -> FatVal], NEW disk, NEW D, NEW P, NEW U, NEW F,
         NEW L, NEW cw, NEW own, NEW rank, NEW lev,
         Sound(v, disk, D, P, U, F, L, cw, own, rank, lev),
         NEW a \in Clusters, NEW b \in P,
         NEW V, LinkOK(v, D, U, V, own, a, b),
         NEW Q, Q = P \ {b}, NEW M, L \subseteq M, own[a] \in Named(D) => a \in M /\ b \in M,
         NEW v2, NEW own2, NEW rank2, Joined(v, own, rank, a, b, v2, own2, rank2)
  PROVE  Sound(v2, disk, D, Q, V, F, M, cw, own2, rank2, lev)
<1>1. Shape(v, D, P, U, own, rank, lev) /\ Settled(v, disk, D, F, L, own)
      /\ cw \in DirHeads(D)
  BY DEF Sound
<1>2. Shape(v2, D, Q, V, own2, rank2, lev)
  BY <1>1, ShapeLink
<1>3. b \in Clusters /\ Held(v, b)
  BY <1>1 DEF Shape, HeadsFirst
<1>4. own \in [Clusters -> Cl0]
  BY <1>1 DEF Shape, Witness
<1>5. Settled(v2, disk, D, F, M, own2)
  <2>1. \A x \in Clusters : x # a => v2[x] = v[x]
    BY DEF Joined
  <2>2. \A x \in Clusters : x # b => own2[x] = own[x]
    BY DEF Joined
  <2>3. own2[b] = own[a] /\ a # b
    BY <1>3, <1>4 DEF LinkOK, Joined
  <2>4. Held(v, a)
    BY Values DEF Held, LinkOK
  <2> QED
    BY <1>1, <2>1, <2>2, <2>3, <2>4 DEF Settled, Held
<1> QED
  BY <1>1, <1>2, <1>5 DEF Sound

LEMMA SoundFree ==
  ASSUME NEW v \in [Clusters -> FatVal], NEW disk, NEW D, NEW P, NEW U, NEW F,
         NEW L, NEW cw, NEW own, NEW rank, NEW lev,
         Sound(v, disk, D, P, U, F, L, cw, own, rank, lev),
         NEW c \in P, own[c] = 0,
         NEW Q, Q = (P \ {c}) \cup ({v[c]} \cap Clusters),
         NEW v2, v2 = [v EXCEPT ![c] = Free]
  PROVE  Sound(v2, disk, D, Q, U, F, L, cw, own, rank, lev)
<1>1. Shape(v, D, P, U, own, rank, lev) /\ Settled(v, disk, D, F, L, own)
      /\ cw \in DirHeads(D)
  BY DEF Sound
<1>2. Shape(v2, D, Q, U, own, rank, lev)
  BY <1>1, ShapeFree
<1>3. c \in Clusters
  BY <1>1 DEF Shape, HeadsFirst
<1>4. Settled(v2, disk, D, F, L, own)
  BY <1>1, <1>3 DEF Settled, Held
<1> QED
  BY <1>1, <1>2, <1>4 DEF Sound

LEMMA SoundGiveUp ==
  ASSUME NEW v, NEW disk, NEW D, NEW P, NEW U, NEW F,
         NEW L, NEW cw, NEW own, NEW rank, NEW lev,
         Sound(v, disk, D, P, U, F, L, cw, own, rank, lev),
         NEW h \in P, own[h] # 0,
         NEW own2, own2 = [x \in Clusters |-> IF own[x] = h THEN 0 ELSE own[x]]
  PROVE  /\ Sound(v, disk, D, P, U, F, L, cw, own2, rank, lev)
         /\ own2[h] = 0 /\ h \in Clusters
<1>1. Shape(v, D, P, U, own, rank, lev) /\ Settled(v, disk, D, F, L, own)
      /\ cw \in DirHeads(D)
  BY DEF Sound
<1>2. Shape(v, D, P, U, own2, rank, lev)
  BY <1>1, ShapeGiveUp
<1>3. h \in Clusters /\ own[h] = h /\ h \notin Named(D)
  BY <1>1 DEF Shape, HeadsFirst
<1>4. \A x \in Clusters : own2[x] \in Named(D) => own[x] = own2[x]
  BY Heads, Values
<1>5. Settled(v, disk, D, F, L, own2)
  BY <1>1, <1>4 DEF Settled
<1> QED
  BY <1>1, <1>2, <1>3, <1>5 DEF Sound

LEMMA SoundErase ==
  ASSUME NEW v, NEW disk, NEW D, NEW P, NEW U, NEW F,
         NEW L, NEW cw, NEW own, NEW rank, NEW lev,
         Sound(v, disk, D, P, U, F, L, cw, own, rank, lev),
         NEW loc \in Live(D), NEW D2, Replaced(D, D2, loc, Deleted),
         NEW old, old = At(D, loc).start,
         At(D, loc).dir => old # cw /\ \A l \in Live(D) : own[l[1]] # old
  PROVE  /\ Sound(v, disk, D2, P \cup ({old} \ {0}), U, F, L, cw, own, rank, lev)
         /\ Live(D2) = Live(D) \ {loc}
         /\ Named(D2) = Named(D) \ {old}
         /\ DirHeads(D2) = DirHeads(D) \ {old}
         /\ old # Root
<1>1. Shape(v, D, P, U, own, rank, lev) /\ Settled(v, disk, D, F, L, own)
      /\ cw \in DirHeads(D)
  BY DEF Sound
<1>2. /\ Shape(v, D2, P \cup ({old} \ {0}), U, own, rank, lev)
      /\ Live(D2) = Live(D) \ {loc}
      /\ Named(D2) = Named(D) \ {old}
      /\ DirHeads(D2) = DirHeads(D) \ {old}
      /\ old # Root
  BY <1>1, ShapeErase
<1>3. Settled(v, disk, D2, F, L, own)
  BY <1>1, <1>2, SettledMore
<1>4. OneName(D)
  BY <1>1 DEF Shape
<1>5. ~At(D, loc).dir => cw # old
  <2> SUFFICES ASSUME ~At(D, loc).dir, cw = old PROVE FALSE
    OBVIOUS
  <2>1. PICK m \in Live(D) : At(D, m).dir /\ At(D, m).start = cw
    BY <1>1, <1>2 DEF DirHeads
  <2>2. m # loc /\ At(D, m).start = At(D, loc).start /\ At(D, m).start # 0
    BY <2>1, <1>4 DEF OneName
  <2> QED
    BY <2>2, <1>4 DEF OneName
<1> QED
  BY <1>1, <1>2, <1>3, <1>5 DEF Sound

LEMMA SoundStore ==
  ASSUME NEW v, NEW disk, NEW D, NEW P, NEW U, NEW F,
         NEW L, NEW cw, NEW own, NEW rank, NEW lev,
         Sound(v, disk, D, P, U, F, L, cw, own, rank, lev),
         NEW loc \in Places \ Live(D), NEW e, NEW D2, Replaced(D, D2, loc, e),
         NEW fst, NEW lev2, StoreOK(v, D, P, own, rank, lev, loc, e, fst, lev2),
         NEW Q, Q = P \ {fst}, NEW F2, F2 = F \cup {fst}
  PROVE  /\ Sound(v, disk, D2, Q, U, F2, L, cw, own, rank, lev2)
         /\ DirHeads(D) \subseteq DirHeads(D2)
<1>1. Shape(v, D, P, U, own, rank, lev) /\ Settled(v, disk, D, F, L, own)
      /\ cw \in DirHeads(D)
  BY DEF Sound
<1>2. /\ Shape(v, D2, Q, U, own, rank, lev2)
      /\ Live(D2) = Live(D) \cup {loc}
      /\ Named(D2) = Named(D) \cup ({fst} \ {0})
      /\ DirHeads(D2) = DirHeads(D) \cup (IF e.dir THEN {fst} ELSE {})
  BY <1>1, ShapeStore
<1>3. Settled(v, disk, D2, F2, L, own)
  BY <1>1, <1>2, SettledMore
<1> QED
  BY <1>1, <1>2, <1>3 DEF Sound
-----------------------------------------------------------------------------
(* The calls, up to their first step.                                       *)

TreeNow == TreeIn(View, fat[1], data, pc, f, cwd)

LEMMA TreeIsNow ==
  ASSUME NEW own, NEW rank, NEW lev,
         CallIs(View', fat'[1], data', pc', f', cwd', own, rank, lev)
  PROVE  TreeNow'
  BY DEF TreeNow, TreeIn

LEMMA MoveTree ==
  ASSUME CacheInv, TreeNow, LoadSector \/ FlushCopy
  PROVE  TreeNow'
<1>1. PICK own, rank, lev :
        CallIs(View, fat[1], data, pc, f, cwd, own, rank, lev)
  BY DEF TreeNow, TreeIn
<1>2. /\ View' = View /\ data' = data /\ cwd' = cwd /\ pc' = pc /\ f' = f
      /\ \A c \in Clusters : fat'[1][c] = fat[1][c] \/ fat'[1][c] = View[c]
  BY LoadView, FlushView
<1>3. Sound(View, fat'[1], data, Pending(pc, f), Uncleared(pc, f), Fresh(pc, f),
            Loose(pc, f), cwd, own, rank, lev)
  <2>1. Sound(View, fat[1], data, Pending(pc, f), Uncleared(pc, f), Fresh(pc, f),
              Loose(pc, f), cwd, own, rank, lev)
    BY <1>1 DEF CallIs
  <2>2. Settled(View, fat'[1], data, Fresh(pc, f), Loose(pc, f), own)
    BY <2>1, <1>2, SettledMore DEF Sound
  <2> QED
    BY <2>1, <2>2 DEF Sound
<1>4. CallIs(View, fat'[1], data, pc, f, cwd, own, rank, lev)
  BY <1>1, <1>3 DEF CallIs
<1> QED
  BY <1>2, <1>4, TreeIsNow

\* What a step leaves alone.
Rest == UNCHANGED <<fat, data>> /\ View' = View

LEMMA QuietTree ==
  ASSUME NEW own, NEW rank, NEW lev,
         Sound(View, fat[1], data, {}, {}, {}, {}, cwd, own, rank, lev),
         Rest, cwd' \in DirHeads(data), pc' \in {"idle", "read", "flush2"}
  PROVE  TreeNow'
<1>1. Sound(View', fat'[1], data', {}, {}, {}, {}, cwd', own, rank, lev)
  BY DEF Sound, Rest
<1> QED
  BY <1>1, QuietCall, TreeIsNow

LEMMA WalkQuiet == ASSUME TypeInv, Quiet, Walked PROVE fat' = fat
  BY NoFaults DEF Walked, Quiet

LEMMA LookupQuiet ==
  ASSUME TypeInv, Quiet, NEW d, NEW n, NEW hits, Lookup(d, n, hits)
  PROVE  hits = Matches(View, d, n) /\ suspect' = {} /\ ~crashed'
<1>1. \A hops : ~WalkFails(hops)
  BY NoFailures DEF Quiet
<1>2. ~Touches(d, n)
  BY DEF Touches, Quiet
<1> QED
  BY <1>1, <1>2 DEF Lookup, Quiet

\* The fields that say where a call stores its entry.
Alike(g, h) ==
  /\ g.kind = h.kind /\ g.dir = h.dir /\ g.name = h.name /\ g.loc = h.loc
  /\ g.mark = h.mark /\ g.old = h.old /\ g.last = h.last /\ g.cnt = h.cnt
  /\ g.payload = h.payload

LEMMA AlikeSame ==
  ASSUME NEW v, NEW D, NEW own, NEW lev, NEW g, NEW h, Alike(g, h)
  PROVE  /\ Aim(D, g, own, lev) => Aim(D, h, own, lev)
         /\ Unplaced(g) => Unplaced(h)
         /\ Placed(v, D, g, own) => Placed(v, D, h, own)
         /\ Extending(v, D, g, own) => Extending(v, D, h, own)
         /\ Choosing(v, D, g, own, lev) => Choosing(v, D, h, own, lev)
         /\ Wanted(g) = Wanted(h)
<1>1. Aim(D, g, own, lev) => Aim(D, h, own, lev)
  BY DEF Alike, Aim
<1>2. Unplaced(g) => Unplaced(h)
  BY DEF Alike, Unplaced
<1>3. Placed(v, D, g, own) => Placed(v, D, h, own)
  BY DEF Alike, Placed
<1>4. Extending(v, D, g, own) => Extending(v, D, h, own)
  BY <1>2 DEF Alike, Extending
<1>5. Wanted(g) = Wanted(h)
  BY DEF Alike, Wanted
<1> QED
  BY <1>1, <1>2, <1>3, <1>4, <1>5 DEF Choosing

LEMMA AllocIs ==
  ASSUME NEW fr \in Frame, NEW n, Alloc(fr, n)
  PROVE  /\ Alike(fr, f') /\ pc' = "find" /\ f'.left = n /\ f'.first = 0
         /\ f'.prev = 0
  BY DEF Alloc, Frame, Alike, Goto

LEMMA StoreTree ==
  ASSUME NEW own, NEW rank, NEW lev,
         Sound(View, fat[1], data, {}, {}, {}, {}, cwd, own, rank, lev),
         Rest, cwd' = cwd,
         NEW fr \in Frame, Store(fr), fr.kind = "write" \/ fr.cnt # 0,
         Aim(data, fr, own, lev), Placed(View, data, fr, own), fr.first = 0
  PROVE  TreeNow'
<1>1. Sound(View', fat'[1], data', {}, {}, {}, {}, cwd', own, rank, lev)
  BY DEF Rest
<1>2. {0} \ {0} = {}
  OBVIOUS
<1>3. CASE fr.cnt = 0
  <2>1. f' = fr /\ pc' = "entry" /\ fr.kind = "write"
    BY <1>3 DEF Store, Goto
  <2>2. AtEntry(View', data', f', own, rank, lev)
    BY <2>1, <1>3 DEF AtEntry, Rest
  <2> QED
    BY <2>1, <2>2, <1>1, <1>2, BuildCall, TreeIsNow DEF Building
<1>4. CASE fr.cnt # 0
  <2>1. Alloc(fr, fr.cnt) /\ fr.cnt \in Nat
    BY <1>4, Bounds DEF Store, Frame
  <2>2. /\ Alike(fr, f') /\ pc' = "find" /\ f'.left = fr.cnt /\ f'.first = 0
        /\ f'.prev = 0
    BY <2>1, AllocIs
  <2>3. Aim(data, f', own, lev) /\ Placed(View, data, f', own)
    BY <2>2, AlikeSame
  <2>4. Wanted(f') = fr.cnt
    BY <2>2 DEF Wanted, Alike, Placed
  <2>5. f'.left \in 1..Wanted(f') /\ Wanted(f') - f'.left = 0
    BY <2>1, <2>2, <2>4, <1>4
  <2>6. Built(View, f', own, rank, 0)
    BY <2>2 DEF Built
  <2>7. AtFind(View', data', f', own, rank, lev)
    BY <2>3, <2>5, <2>6 DEF AtFind, Choosing, Rest
  <2> QED
    BY <2>2, <2>7, <1>1, <1>2, BuildCall, TreeIsNow DEF Building
<1> QED
  BY <1>3, <1>4
\* A call that is beginning.
LEMMA BeginIs ==
  ASSUME TypeInv, Quiet, TreeNow, Begin, fat' = fat
  PROVE  /\ Rest
         /\ \E own, rank, lev :
              Sound(View, fat[1], data, {}, {}, {}, {}, cwd, own, rank, lev)
<1>1. Rest /\ pc = "idle"
  BY SameView DEF Begin, Rest, diskVars, cacheVars
<1> QED
  BY <1>1, QuietCall DEF TreeNow, TreeIn

LEMMA Frame0Is ==
  ASSUME NEW kind \in Kinds, NEW d \in Clusters, NEW n \in Names
  PROVE  LET g == Frame0(kind, d, n) IN
         /\ g \in Frame /\ g.kind = kind /\ g.dir = d /\ g.name = n
         /\ g.loc[1] = 0 /\ g.old = 0 /\ g.last = 0 /\ g.first = 0
         /\ g.mark = FALSE /\ g.c = 0
<1>1. d \in Cl0
  BY DEF Cl0
<1> QED
  BY <1>1, Frame0Type DEF Frame0, NoFrame

LEMMA SlotTree ==
  ASSUME NEW own, NEW rank, NEW lev,
         Sound(View, fat[1], data, {}, {}, {}, {}, cwd, own, rank, lev),
         Rest, cwd' = cwd, pc' = "slot",
         NEW d \in DirHeads(data), lev[d] < MaxDepth, NEW n,
         \A l \in Live(data) : own[l[1]] = d => At(data, l).name # n,
         f'.dir = d, f'.name = n, f'.old = 0, f'.loc[1] = 0, f'.last = 0,
         f'.first = 0
  PROVE  TreeNow'
<1>1. AtSlot(data, f', own, lev)
  BY DEF AtSlot, Aim, Unplaced
<1>2. Sound(View', fat'[1], data', {}, {}, {}, {}, cwd', own, rank, lev)
  BY DEF Rest
<1> QED
  BY <1>1, <1>2, SearchCall, TreeIsNow DEF Rest

LEMMA WriteTree ==
  ASSUME TypeInv, Quiet, TreeNow, NEW x \in DirPaths(View),
         Len(x[1]) < MaxDepth, NEW n \in Names, NEW p \in Payloads,
         NEW k \in 0..MaxCount, NEW d, d = x[2].start, Write(d, n, p, k)
  PROVE  TreeNow' /\ suspect' = {} /\ ~crashed'
<1>1. Begin /\ cwd' = cwd /\ fat' = fat
  <2>1. fat' = fat
    BY CallBegins, WalkQuiet
  <2> QED
    BY <2>1 DEF Write
<1>2. Rest /\ \E own, rank, lev :
        Sound(View, fat[1], data, {}, {}, {}, {}, cwd, own, rank, lev)
  BY <1>1, BeginIs
<1>3. PICK own, rank, lev :
        Sound(View, fat[1], data, {}, {}, {}, {}, cwd, own, rank, lev)
  BY <1>2
<1>4. /\ Shape(View, data, {}, {}, own, rank, lev) /\ cwd \in DirHeads(data)
      /\ View \in [Clusters -> FatVal] /\ DataOK
  BY <1>3, ViewType, TypeInvData DEF Sound
<1>5. d \in DirHeads(data) /\ lev[d] < MaxDepth /\ d \in Clusters
  BY <1>4, TreeIs, Heads
<1> DEFINE g0 == Frame0("write", d, n)
           g == [g0 EXCEPT !.payload = p, !.cnt = k]
<1>6. PICK hits :
        /\ Lookup(d, n, hits)
        /\ CASE hits = {} -> f' = g /\ Goto("slot")
             [] hits # {} /\ EntryOf(hits).dir -> Return("fail")
             [] OTHER -> Store([g EXCEPT !.loc = LocOf(d, hits),
                                         !.old = EntryOf(hits).start])
  BY DEF Write
<1>7. hits = Matches(View, d, n) /\ suspect' = {} /\ ~crashed'
  BY <1>6, LookupQuiet
<1>8. /\ g0 \in Frame /\ g0.kind = "write" /\ g0.dir = d /\ g0.name = n
      /\ g0.loc[1] = 0 /\ g0.old = 0 /\ g0.last = 0 /\ g0.first = 0
      /\ g0.mark = FALSE
  <2>1. "write" \in Kinds
    BY DEF Kinds
  <2>2. d \in Cl0
    BY <1>5 DEF Cl0
  <2> QED
    BY <2>1, <2>2, Frame0Type, ZenonT(40) DEF Frame0, NoFrame
<1>9. /\ g \in Frame /\ g.kind = "write" /\ g.dir = d /\ g.name = n
      /\ g.loc[1] = 0 /\ g.old = 0 /\ g.last = 0 /\ g.first = 0
      /\ g.mark = FALSE /\ g.cnt = k
  BY <1>8 DEF Frame
<1> HIDE DEF g0, g
<1>10. CASE hits = {}
  <2>1. f' = g /\ pc' = "slot"
    BY <1>6, <1>10 DEF Goto
  <2>2. ASSUME NEW l \in Live(data), own[l[1]] = d, At(data, l).name = n
        PROVE  FALSE
    <3>1. <<PosOf(rank, l), At(data, l)>> \in LiveSlots(View, d)
      BY <1>4, <1>5, <2>2, LiveSlotsAre
    <3>2. <<PosOf(rank, l), At(data, l)>> \in Matches(View, d, n)
      BY <3>1, <2>2 DEF Matches
    <3> QED
      BY <3>2, <1>7, <1>10
  <2>3. f'.loc[1] = 0
    BY <2>1, <1>9
  <2> QED
    BY <2>1, <2>2, <2>3, <1>1, <1>2, <1>3, <1>5, <1>7, <1>9, SlotTree
<1>11. CASE hits # {} /\ EntryOf(hits).dir
  <2>1. pc' = "idle"
    BY <1>6, <1>11 DEF Return
  <2> QED
    BY <2>1, <1>1, <1>2, <1>3, <1>4, <1>7, QuietTree
<1>12. CASE hits # {} /\ ~EntryOf(hits).dir
  <2>1. PICK l \in Live(data) :
          /\ own[l[1]] = d /\ At(data, l).name = n
          /\ EntryOf(hits) = At(data, l)
          /\ LocAt(View, d, First(hits)[1]) = l
    BY <1>4, <1>5, <1>7, <1>12, HitsAre
  <2> DEFINE h == [g EXCEPT !.loc = l, !.old = At(data, l).start]
  <2>2. Store(h)
    BY <2>1, <1>6, <1>12 DEF LocOf
  <2>3. /\ l \in Loc /\ At(data, l).start \in Cl0
        /\ l[1] \in Clusters
    BY <1>4, LiveType DEF Loc, Places, Cl0, Live
  <2>4. /\ h \in Frame /\ h.kind = "write" /\ h.dir = d /\ h.name = n
        /\ h.loc = l /\ h.old = At(data, l).start /\ h.last = 0 /\ h.first = 0
        /\ h.mark = FALSE /\ h.cnt = k
    BY <1>9, <2>3 DEF Frame
  <2> HIDE DEF h
  <2>5. Aim(data, h, own, lev)
    <3>1. \A m \in Live(data) : (own[m[1]] = d /\ At(data, m).name = n) => m = l
      BY <2>1, <1>4 DEF Shape, NamesOnce
    <3> QED
      BY <3>1, <2>4, <1>5 DEF Aim
  <2>6. Placed(View, data, h, own)
    <3>1. Held(View, l[1])
      BY <1>4 DEF Shape, DirsAreDirs
    <3>2. ASSUME NEW s \in 1..Slots, s < l[2]
          PROVE  At(data, <<l[1], s>>) # EndMark
      <4>1. l[2] \in 1..Slots /\ l = <<l[1], l[2]>> /\ l[1] \in Clusters
        BY DEF Live, Places
      <4>2. At(data, l) # EndMark
        BY DEF Live, EndMark
      <4>3. s <= l[2]
        BY <3>2, <4>1, Bounds
      <4> QED
        BY <4>1, <4>2, <4>3, <1>4 DEF Shape, MarksLast
    <3> QED
      BY <3>1, <3>2, <2>1, <2>3, <2>4, <1>12 DEF Placed
  <2> QED
    BY <2>2, <2>4, <2>5, <2>6, <1>1, <1>2, <1>3, <1>7, StoreTree
<1> QED
  BY <1>10, <1>11, <1>12

LEMMA CreateTree ==
  ASSUME TypeInv, Quiet, TreeNow, NEW x \in DirPaths(View),
         Len(x[1]) < MaxDepth, NEW n \in Names,
         NEW d, d = x[2].start, CreateDir(d, n)
  PROVE  TreeNow' /\ suspect' = {} /\ ~crashed'
<1>1. Begin /\ cwd' = cwd /\ fat' = fat
  BY CallBegins, WalkQuiet DEF CreateDir
<1>2. Rest /\ \E own, rank, lev :
        Sound(View, fat[1], data, {}, {}, {}, {}, cwd, own, rank, lev)
  BY <1>1, BeginIs
<1>3. PICK own, rank, lev :
        Sound(View, fat[1], data, {}, {}, {}, {}, cwd, own, rank, lev)
  BY <1>2
<1>4. /\ Shape(View, data, {}, {}, own, rank, lev) /\ cwd \in DirHeads(data)
      /\ View \in [Clusters -> FatVal] /\ DataOK
  BY <1>3, ViewType, TypeInvData DEF Sound
<1>5. d \in DirHeads(data) /\ lev[d] < MaxDepth /\ d \in Clusters
  BY <1>4, TreeIs, Heads
<1> DEFINE g0 == Frame0("mkdir", d, n)
           g == [g0 EXCEPT !.cnt = 1]
<1>6. PICK hits :
        /\ Lookup(d, n, hits)
        /\ IF hits # {} THEN Return("fail") ELSE f' = g /\ Goto("slot")
  BY DEF CreateDir
<1>7. hits = Matches(View, d, n) /\ suspect' = {} /\ ~crashed'
  BY <1>6, LookupQuiet
<1>8. /\ g0 \in Frame /\ g0.kind = "mkdir" /\ g0.dir = d /\ g0.name = n
      /\ g0.loc[1] = 0 /\ g0.old = 0 /\ g0.last = 0 /\ g0.first = 0
  <2>1. "mkdir" \in Kinds
    BY DEF Kinds
  <2>2. d \in Cl0
    BY <1>5 DEF Cl0
  <2> QED
    BY <2>1, <2>2, Frame0Type, ZenonT(40) DEF Frame0, NoFrame
<1>9. /\ g.dir = d /\ g.name = n
      /\ g.loc[1] = 0 /\ g.old = 0 /\ g.last = 0 /\ g.first = 0
  BY <1>8 DEF Frame
<1> HIDE DEF g0, g
<1>10. CASE hits = {}
  <2>1. f' = g /\ pc' = "slot"
    BY <1>6, <1>10 DEF Goto
  <2>2. ASSUME NEW l \in Live(data), own[l[1]] = d, At(data, l).name = n
        PROVE  FALSE
    <3>1. <<PosOf(rank, l), At(data, l)>> \in LiveSlots(View, d)
      BY <1>4, <1>5, <2>2, LiveSlotsAre
    <3>2. <<PosOf(rank, l), At(data, l)>> \in Matches(View, d, n)
      BY <3>1, <2>2 DEF Matches
    <3> QED
      BY <3>2, <1>7, <1>10
  <2>3. f'.loc[1] = 0
    BY <2>1, <1>9
  <2> QED
    BY <2>1, <2>2, <2>3, <1>1, <1>2, <1>3, <1>5, <1>7, <1>9, SlotTree
<1>11. CASE hits # {}
  <2>1. pc' = "idle"
    BY <1>6, <1>11 DEF Return
  <2> QED
    BY <2>1, <1>1, <1>2, <1>3, <1>4, <1>7, QuietTree
<1> QED
  BY <1>10, <1>11

\* The entry at loc is to be deleted.
LEMMA TombTree ==
  ASSUME NEW own, NEW rank, NEW lev,
         Sound(View, fat[1], data, {}, {}, {}, {}, cwd, own, rank, lev),
         Rest, cwd' = cwd, pc' = "tombstone",
         NEW l \in Live(data), f'.first = 0, f'.loc = l, f'.old = At(data, l).start,
         At(data, l).dir => /\ At(data, l).start # cwd
                            /\ \A m \in Live(data) :
                                 own[m[1]] # At(data, l).start
  PROVE  TreeNow'
<1>1. AtTombstone(data, f', cwd, own)
  BY DEF AtTombstone
<1>2. Sound(View', fat'[1], data', {}, {}, {}, {}, cwd', own, rank, lev)
  BY DEF Rest
<1> QED
  BY <1>1, <1>2, SearchCall, TreeIsNow DEF Rest

LEMMA DeleteTree ==
  ASSUME TypeInv, Quiet, TreeNow, NEW x \in DirPaths(View), NEW n \in Names,
         NEW d, d = x[2].start, Delete(d, n) \/ DeleteDir(d, n)
  PROVE  TreeNow' /\ suspect' = {} /\ ~crashed'
<1>1. Begin /\ cwd' = cwd /\ fat' = fat
  <2>1. fat' = fat
    BY CallBegins, WalkQuiet
  <2> QED
    BY <2>1 DEF Delete, DeleteDir
<1>2. Rest /\ \E own, rank, lev :
        Sound(View, fat[1], data, {}, {}, {}, {}, cwd, own, rank, lev)
  BY <1>1, BeginIs
<1>3. PICK own, rank, lev :
        Sound(View, fat[1], data, {}, {}, {}, {}, cwd, own, rank, lev)
  BY <1>2
<1>4. /\ Shape(View, data, {}, {}, own, rank, lev) /\ cwd \in DirHeads(data)
      /\ View \in [Clusters -> FatVal] /\ DataOK
  BY <1>3, ViewType, TypeInvData DEF Sound
<1>5. d \in DirHeads(data) /\ d \in Clusters
  BY <1>4, TreeIs, Heads
<1>6. ASSUME NEW hits, Lookup(d, n, hits), NEW l \in Live(data),
             EntryOf(hits) = At(data, l), LocOf(d, hits) = l,
             NEW kind \in Kinds,
             f' = [Frame0(kind, d, n) EXCEPT !.loc = LocOf(d, hits),
                                             !.old = EntryOf(hits).start]
      PROVE  f'.loc = l /\ f'.old = At(data, l).start /\ f'.first = 0
  <2> DEFINE g == Frame0(kind, d, n)
  <2>1. g \in Frame /\ g.first = 0
    BY <1>5, Frame0Is
  <2> HIDE DEF g
  <2>2. f' = [g EXCEPT !.loc = l, !.old = At(data, l).start]
    BY <1>6 DEF g
  <2> QED
    BY <2>1, <2>2 DEF Frame
<1>7. ASSUME NEW hits, Lookup(d, n, hits), hits # {}
      PROVE  \E l \in Live(data) :
               /\ EntryOf(hits) = At(data, l) /\ LocOf(d, hits) = l
  <2>1. hits = Matches(View, d, n)
    BY <1>7, LookupQuiet
  <2> QED
    BY <2>1, <1>4, <1>5, <1>7, HitsAre DEF LocOf
<1>8. ASSUME NEW r, Return(r)
      PROVE  TreeNow'
  <2>1. pc' = "idle"
    BY <1>8 DEF Return
  <2> QED
    BY <2>1, <1>1, <1>2, <1>3, <1>4, QuietTree
<1>9. CASE Delete(d, n)
  <2>1. PICK hits :
          /\ Lookup(d, n, hits)
          /\ IF hits = {} \/ (hits # {} /\ EntryOf(hits).dir) THEN Return("fail")
             ELSE /\ f' = [Frame0("delete", d, n) EXCEPT
                             !.loc = LocOf(d, hits),
                             !.old = EntryOf(hits).start]
                  /\ Goto("tombstone")
    BY <1>9 DEF Delete
  <2>2. suspect' = {} /\ ~crashed'
    BY <2>1, LookupQuiet
  <2>3. CASE hits = {} \/ EntryOf(hits).dir
    BY <2>1, <2>2, <2>3, <1>8
  <2>4. CASE hits # {} /\ ~EntryOf(hits).dir
    <3>1. PICK l \in Live(data) :
            EntryOf(hits) = At(data, l) /\ LocOf(d, hits) = l
      BY <2>1, <2>4, <1>7
    <3>2. /\ f' = [Frame0("delete", d, n) EXCEPT !.loc = LocOf(d, hits),
                                                 !.old = EntryOf(hits).start]
          /\ pc' = "tombstone"
      BY <2>1, <2>4 DEF Goto
    <3>3. f'.loc = l /\ f'.old = At(data, l).start /\ f'.first = 0
      BY <2>1, <3>1, <3>2, <1>6 DEF Kinds
    <3> QED
      BY <3>1, <3>2, <3>3, <2>2, <2>4, <1>1, <1>2, <1>3, TombTree
  <2> QED
    BY <2>3, <2>4
<1>10. CASE DeleteDir(d, n)
  <2>1. PICK hits \in {Matches(View, d, n), {}} :
          /\ Lookup(d, n, hits)
          /\ Decided(d, n, hits)
    <3>1. \A hops : ~WalkFails(hops)
      BY NoFailures DEF Quiet
    <3> QED
      BY <1>10, <3>1, DeleteDirIs
  <2>2. suspect' = {} /\ ~crashed'
    BY <2>1, LookupQuiet
  <2>3. CASE hits = {}
    BY <2>1, <2>2, <2>3, <1>8 DEF Decided
  <2>4. CASE hits # {}
    <3> DEFINE target == EntryOf(hits).start
    <3>1. PICK l \in Live(data) :
            EntryOf(hits) = At(data, l) /\ LocOf(d, hits) = l
      BY <2>1, <2>4, <1>7
    <3>2. CASE ~EntryOf(hits).dir \/ Protected(target)
      BY <2>1, <2>2, <2>4, <3>2, <1>8 DEF Decided
    <3>3. CASE EntryOf(hits).dir /\ ~Protected(target)
      <4>1. \/ Return("notempty")
            \/ /\ f' = [Frame0("rmdir", d, n) EXCEPT !.loc = LocOf(d, hits),
                                                     !.old = EntryOf(hits).start]
               /\ pc' = "tombstone" /\ IsDirEmpty(View, target)
        BY <2>1, <2>4, <3>3 DEF Goto, Decided
      <4>2. CASE Return("notempty")
        BY <4>2, <2>2, <1>8
      <4>3. CASE /\ f' = [Frame0("rmdir", d, n) EXCEPT !.loc = LocOf(d, hits),
                                                     !.old = EntryOf(hits).start]
                 /\ pc' = "tombstone" /\ IsDirEmpty(View, target)
        <5>1. f'.loc = l /\ f'.old = At(data, l).start /\ f'.first = 0
          BY <2>1, <3>1, <4>3, <1>6 DEF Kinds
        <5>2. target = At(data, l).start /\ At(data, l).dir /\ target # cwd
          BY <3>1, <3>3 DEF Protected
        <5>3. target \in DirHeads(data)
          BY <5>2, <1>4, StartNamed DEF Shape, OneName
        <5>4. \A m \in Live(data) : own[m[1]] # target
          BY <5>3, <4>3, <1>4, EmptyIs
        <5> QED
          BY <5>1, <5>2, <5>4, <4>3, <2>2, <1>1, <1>2, <1>3, TombTree
      <4> QED
        BY <4>1, <4>2, <4>3
    <3> QED
      BY <3>2, <3>3
  <2> QED
    BY <2>3, <2>4
<1> QED
  BY <1>9, <1>10

LEMMA CallTree ==
  ASSUME TypeInv, Quiet, TreeNow, Call
  PROVE  TreeNow' /\ suspect' = {} /\ ~crashed'
<1>1. ASSUME NEW x \in DirPaths(View), NEW n \in Names,
             \/ /\ Len(x[1]) < MaxDepth
                /\ \/ \E p \in Payloads, size \in 0..MaxCount :
                        Write(x[2].start, n, p, size)
                   \/ CreateDir(x[2].start, n)
             \/ Delete(x[2].start, n)
             \/ DeleteDir(x[2].start, n)
      PROVE  TreeNow' /\ suspect' = {} /\ ~crashed'
  BY <1>1, WriteTree, CreateTree, DeleteTree
<1>2. ASSUME Begin, fat' = fat, NoFault, cwd' \in {cwd} \cup LiveDirs(View),
             pc' \in {"idle", "read", "flush2"}
      PROVE  TreeNow' /\ suspect' = {} /\ ~crashed'
  <2>1. Rest /\ \E own, rank, lev :
          Sound(View, fat[1], data, {}, {}, {}, {}, cwd, own, rank, lev)
    BY <1>2, BeginIs
  <2>2. PICK own, rank, lev :
          Sound(View, fat[1], data, {}, {}, {}, {}, cwd, own, rank, lev)
    BY <2>1
  <2>3. /\ Shape(View, data, {}, {}, own, rank, lev) /\ cwd \in DirHeads(data)
        /\ View \in [Clusters -> FatVal] /\ DataOK
    BY <2>2, ViewType, TypeInvData DEF Sound
  <2>4. cwd' \in DirHeads(data)
    BY <2>3, <1>2, TreeIs
  <2> QED
    BY <2>1, <2>2, <2>4, <1>2, QuietTree, QuietStays
<1>3. ASSUME NEW d \in LiveDirs(View), ChangeDir(d)
      PROVE  TreeNow' /\ suspect' = {} /\ ~crashed'
  BY <1>2, <1>3 DEF ChangeDir, Return
<1>4. ASSUME NEW c \in SectorHeads, Read(c)
      PROVE  TreeNow' /\ suspect' = {} /\ ~crashed'
  BY <1>2, <1>4 DEF Read, Goto
<1>5. ASSUME Sync
      PROVE  TreeNow' /\ suspect' = {} /\ ~crashed'
  BY <1>2, <1>5 DEF Sync, Goto
<1> QED
  BY <1>1, <1>3, <1>4, <1>5 DEF Call
-----------------------------------------------------------------------------
(* The search for a place, and the search for clusters.                     *)

LEMMA KeepIsRest == ASSUME Keep, data' = data PROVE Rest /\ cwd' = cwd
  BY SameView DEF Keep, Rest

LEMMA FindSlotTree ==
  ASSUME TypeInv, Quiet, TreeNow, FindSlot
  PROVE  TreeNow' /\ suspect' = {} /\ ~crashed'
<1>1. Rest /\ cwd' = cwd /\ pc = "slot"
  BY KeepIsRest DEF FindSlot
<1>2. PICK own, rank, lev :
        CallIs(View, fat[1], data, pc, f, cwd, own, rank, lev)
  BY DEF TreeNow, TreeIn
<1>3. /\ Sound(View, fat[1], data, {}, {}, {}, {}, cwd, own, rank, lev)
      /\ AtSlot(data, f, own, lev)
  BY <1>1, <1>2, SearchCall
<1>4. /\ Shape(View, data, {}, {}, own, rank, lev)
      /\ View \in [Clusters -> FatVal] /\ DataOK
  BY <1>3, ViewType, TypeInvData DEF Sound
<1>5. /\ f.dir \in DirHeads(data) /\ f.old = 0 /\ f.loc[1] = 0 /\ f.last = 0
      /\ f.first = 0
      /\ f \in Frame /\ (f.kind = "write" \/ f.cnt # 0)
  BY <1>1, <1>3 DEF AtSlot, Aim, Unplaced, TypeInv, TypeOK, FrameOK, Storing
<1> DEFINE free == FreeSlots(View, f.dir)
           g == [f EXCEPT !.loc = LocOf(f.dir, free),
                          !.mark = (EntryOf(free) = EndMark)]
<1>6. /\ NoFault
      /\ \/ free # {} /\ Store(g)
         \/ free = {} /\ Same("extend")
  BY NoFaults DEF FindSlot, TakeSlot, Quiet
<1>7. suspect' = {} /\ ~crashed'
  BY <1>6, QuietStays
<1>8. CASE free # {} /\ Store(g)
  <2>1. PICK l \in Mine(View, own, f.dir) :
          /\ LocAt(View, f.dir, First(free)[1]) = l
          /\ EntryOf(free) = At(data, l)
          /\ At(data, l) \in {EndMark, Deleted}
          /\ \A s \in 1..Slots : s < l[2] => At(data, <<l[1], s>>) # EndMark
    BY <1>4, <1>5, <1>8, FreeSlotsAre
  <2>2. /\ l \in Places /\ Held(View, l[1]) /\ own[l[1]] = f.dir
        /\ l[1] \in Clusters /\ l \in Loc
    BY DEF Mine, Places, Loc, Cl0
  <2>3. g = [f EXCEPT !.loc = l, !.mark = (At(data, l) = EndMark)]
    BY <2>1 DEF LocOf
  <2>4. /\ g \in Frame /\ g.kind = f.kind /\ g.dir = f.dir /\ g.name = f.name
        /\ g.cnt = f.cnt /\ g.last = 0 /\ g.loc = l /\ g.old = 0 /\ g.first = 0
        /\ g.mark = (At(data, l) = EndMark)
    BY <2>2, <2>3, <1>5 DEF Frame
  <2> HIDE DEF g
  <2>5. l \notin Live(data)
    BY <2>1 DEF Live, EndMark, Deleted
  <2>6. Placed(View, data, g, own)
    BY <2>1, <2>2, <2>4, <2>5 DEF Placed
  <2>7. \A m \in Live(data) : m # f.loc
    BY <1>5, Values DEF Live, Places
  <2>8. Aim(data, g, own, lev)
    BY <1>3, <2>4, <2>7 DEF AtSlot, Aim
  <2> QED
    BY <1>1, <1>3, <1>5, <1>7, <1>8, <2>4, <2>6, <2>8, StoreTree
<1>9. CASE free = {} /\ Same("extend")
  <2>1. f' = f /\ pc' = "extend"
    BY <1>9 DEF Same, Goto
  <2>2. \A m \in Mine(View, own, f.dir) : At(data, m) # EndMark
    BY <1>4, <1>5, <1>9, FreeSlotsAre
  <2>3. ASSUME NEW c \in Clusters, NEW s \in 1..Slots, Held(View, c),
               own[c] = f.dir
        PROVE  At(data, <<c, s>>) # EndMark
    <3>1. <<c, s>> \in Mine(View, own, f.dir)
      BY <2>3 DEF Mine, Places
    <3> QED
      BY <3>1, <2>2
  <2>4. AtExtend(View, data, f, own, lev)
    BY <1>3, <2>3 DEF AtExtend
  <2>5. CallIs(View, fat[1], data, "extend", f, cwd, own, rank, lev)
    BY <2>4, <1>3, SearchCall
  <2>6. CallIs(View', fat'[1], data', pc', f', cwd', own, rank, lev)
    BY <2>1, <2>5, <1>1 DEF Rest
  <2> QED
    BY <2>6, <1>7, TreeIsNow
<1> QED
  BY <1>6, <1>8, <1>9

LEMMA ExtendTree ==
  ASSUME TypeInv, Quiet, TreeNow, Extend
  PROVE  TreeNow' /\ suspect' = {} /\ ~crashed'
<1>1. Rest /\ cwd' = cwd /\ pc = "extend"
  BY KeepIsRest DEF Extend
<1>2. PICK own, rank, lev :
        CallIs(View, fat[1], data, pc, f, cwd, own, rank, lev)
  BY DEF TreeNow, TreeIn
<1>3. /\ Sound(View, fat[1], data, {}, {}, {}, {}, cwd, own, rank, lev)
      /\ AtExtend(View, data, f, own, lev)
  BY <1>1, <1>2, SearchCall
<1>4. /\ Shape(View, data, {}, {}, own, rank, lev) /\ cwd \in DirHeads(data)
      /\ View \in [Clusters -> FatVal]
  BY <1>3, ViewType DEF Sound
<1>5. /\ f.dir \in DirHeads(data) /\ f.dir \in Named(data)
      /\ f.old = 0 /\ f.loc[1] = 0 /\ f \in Frame
      /\ Aim(data, f, own, lev)
  BY <1>3, Heads DEF AtExtend, AtSlot, Aim, Unplaced, TypeInv, TypeOK
<1>6. NoFault
  BY NoFaults DEF Extend, Quiet
<1>7. suspect' = {} /\ ~crashed'
  BY <1>6, QuietStays
<1>8. ASSUME NEW last \in ChainSet(View, f.dir), NextOf(View, last) = 0,
             Alloc([f EXCEPT !.last = last], 1)
      PROVE  TreeNow'
  <2> DEFINE g == [f EXCEPT !.last = last]
  <2>1. last \in Clusters /\ Held(View, last) /\ own[last] = f.dir
    BY <1>4, <1>5, ChainSetIs
  <2>2. View[last] = Eoc
    <3>1. View[last] \in Clusters \cup {Free, Eoc}
      BY <2>1, <1>4 DEF FatVal
    <3>2. View[last] \notin Clusters
      BY <2>1, <1>8, NextOfIs, Values
    <3> QED
      BY <2>1, <3>1, <3>2 DEF Held
  <2>3. /\ g \in Frame /\ g.dir = f.dir /\ g.name = f.name /\ g.old = 0
        /\ g.loc = f.loc /\ g.last = last
    BY <1>5, <2>1 DEF Frame, Cl0
  <2>4. Alloc(g, 1)
    BY <1>8
  <2> HIDE DEF g
  <2>5. /\ Alike(g, f') /\ pc' = "find" /\ f'.left = 1 /\ f'.first = 0
        /\ f'.prev = 0
    BY <2>3, <2>4, AllocIs
  <2>6. Aim(data, g, own, lev)
    BY <1>5, <2>3 DEF Aim
  <2>7. Extending(View, data, g, own)
    <3>1. last # 0
      BY <2>1, Values
    <3>2. \A s \in 1..Slots : At(data, <<last, s>>) # EndMark
      BY <2>1, <1>3 DEF AtExtend
    <3> QED
      BY <3>1, <3>2, <2>1, <2>2, <2>3, <1>5 DEF Extending, Unplaced
  <2>8. Choosing(View, data, f', own, lev) /\ f'.last # 0
    BY <2>5, <2>6, <2>7, AlikeSame DEF Choosing, Extending, Alike
  <2>9. Wanted(f') = 1
    BY <2>8 DEF Wanted
  <2>10. AtFind(View', data', f', own, rank, lev)
    BY <2>5, <2>8, <2>9, <1>1 DEF AtFind, Built, Rest
  <2>11. Sound(View', fat'[1], data', {f'.first} \ {0}, {}, {}, {}, cwd', own, rank, lev)
    BY <1>1, <1>3, <2>5 DEF Rest
  <2> QED
    BY <2>5, <2>10, <2>11, BuildCall, TreeIsNow DEF Building
<1>9. ASSUME Return("fail")
      PROVE  TreeNow'
  <2>1. pc' = "idle"
    BY <1>9 DEF Return
  <2> QED
    BY <2>1, <1>1, <1>3, <1>4, QuietTree
<1>10. \/ \E last \in ChainSet(View, f.dir) :
            /\ NextOf(View, last) = 0 /\ Alloc([f EXCEPT !.last = last], 1)
       \/ Return("fail")
  BY NoFaults DEF Extend, Quiet
<1> QED
  BY <1>7, <1>8, <1>9, <1>10

\* What FindFree and the rest may rely on while a chain is built.
LEMMA FindSame ==
  ASSUME NEW v, NEW D, NEW own, NEW rank, NEW lev, NEW g, NEW h, Alike(g, h),
         h.first = g.first, h.prev = g.prev, h.left = g.left,
         AtFind(v, D, g, own, rank, lev)
  PROVE  AtFind(v, D, h, own, rank, lev)
<1>1. Choosing(v, D, h, own, lev) /\ Wanted(h) = Wanted(g)
  BY AlikeSame DEF AtFind
<1>2. \A n : Built(v, g, own, rank, n) => Built(v, h, own, rank, n)
  BY DEF Built, ChainIs
<1> QED
  BY <1>1, <1>2 DEF AtFind

LEMMA FindFreeTree ==
  ASSUME TypeInv, Quiet, TreeNow, FindFree
  PROVE  TreeNow' /\ suspect' = {} /\ ~crashed'
<1>1. Rest /\ cwd' = cwd /\ pc = "find" /\ NoFault
  BY SameView DEF FindFree, Rest, diskVars
<1>2. PICK own, rank, lev :
        CallIs(View, fat[1], data, pc, f, cwd, own, rank, lev)
  BY DEF TreeNow, TreeIn
<1>3. /\ Sound(View, fat[1], data, {f.first} \ {0}, {}, {}, {}, cwd, own, rank, lev)
      /\ f.first # 0 => own[f.first] # 0
      /\ AtFind(View, data, f, own, rank, lev) /\ f \in Frame
  BY <1>1, <1>2, BuildCall DEF Building, TypeInv, TypeOK
<1>4. suspect' = {} /\ ~crashed'
  BY <1>1, QuietStays
<1>5. /\ Alike(f, f') /\ f'.first = f.first /\ f'.prev = f.prev
      /\ f'.left = f.left
  BY <1>3 DEF FindFree, Alike, Frame
<1>6. AtFind(View', data', f', own, rank, lev)
  BY <1>1, <1>3, <1>5, FindSame DEF Rest
<1>7. /\ Sound(View', fat'[1], data', {f'.first} \ {0}, {}, {}, {}, cwd', own, rank, lev)
      /\ f'.first # 0 => own[f'.first] # 0
  BY <1>1, <1>3, <1>5 DEF Rest
<1>8. CASE ~IsFree(View, f.scan)
  <2>1. pc' = "find"
    BY <1>8 DEF FindFree, Goto
  <2> QED
    BY <2>1, <1>4, <1>6, <1>7, BuildCall, TreeIsNow DEF Building
<1>9. CASE IsFree(View, f.scan)
  <2>1. pc' = "eoc" /\ f' = [f EXCEPT !.cl = f.scan]
    BY <1>9 DEF FindFree, Goto
  <2>2. View'[f'.cl] = Free
    BY <2>1, <1>1, <1>3, <1>9 DEF Rest, IsFree, Frame
  <2>3. AtEoc(View', data', f', own, rank, lev)
    BY <2>2, <1>6 DEF AtEoc
  <2>4. CallIs(View', fat'[1], data', pc', f', cwd', own, rank, lev)
    <3>1. pc' = "eoc" /\ pc' \in Building
      BY <2>1 DEF Building
    <3> QED
      BY <3>1, <2>3, <1>7, BuildCall
  <2> QED
    BY <2>4, <1>4, TreeIsNow
<1> QED
  BY <1>8, <1>9

\* A chain is given up, or there is none.
LEMMA ReleaseTree ==
  ASSUME TypeInv, NEW own, NEW rank, NEW lev, NEW c \in Cl0,
         Sound(View, fat[1], data, {c} \ {0}, {}, {}, {}, cwd, own, rank, lev),
         c # 0 => own[c] # 0,
         Rest, cwd' = cwd, NEW then \in {"done", "fail"}, FreeChain(c, then)
  PROVE  TreeNow'
<1>1. CASE c = 0
  <2>1. pc' = "idle"
    BY <1>1 DEF FreeChain, Return
  <2>2. {c} \ {0} = {}
    BY <1>1
  <2>3. Sound(View, fat[1], data, {}, {}, {}, {}, cwd, own, rank, lev)
    BY <2>2
  <2>4. cwd' \in DirHeads(data)
    BY <2>3 DEF Sound
  <2> QED
    BY <2>1, <2>3, <2>4, QuietTree
<1>2. CASE c # 0
  <2>1. {c} \ {0} = {c}
    BY <1>2
  <2>2. Sound(View, fat[1], data, {c}, {}, {}, {}, cwd, own, rank, lev)
    BY <2>1
  <2> DEFINE own2 == [x \in Clusters |-> IF own[x] = c THEN 0 ELSE own[x]]
  <2>3. /\ Sound(View, fat[1], data, {c}, {}, {}, {}, cwd, own2, rank, lev)
        /\ own2[c] = 0 /\ c \in Clusters
    <3>1. c \in {c} /\ own[c] # 0
      BY <1>2
    <3> HIDE DEF own2
    <3>2. own2 = [x \in Clusters |-> IF own[x] = c THEN 0 ELSE own[x]]
      BY DEF own2
    <3> QED
      BY <2>2, <3>1, <3>2, SoundGiveUp
  <2> HIDE DEF own2
  <2>4. f' = [f EXCEPT !.c = c, !.then = then] /\ pc' = "free"
    BY <1>2 DEF FreeChain, Goto
  <2>5. f'.c = c /\ f'.then = then
    BY <2>4 DEF TypeInv, TypeOK, Frame
  <2>6. AtFree(f', own2)
    BY <2>3, <2>5 DEF AtFree
  <2>7. Sound(View', fat'[1], data', {f'.c}, {}, {}, {}, cwd', own2, rank, lev)
    BY <2>3, <2>5 DEF Rest
  <2>8. CallIs(View', fat'[1], data', pc', f', cwd', own2, rank, lev)
    BY <2>4, <2>6, <2>7, FreeCall
  <2> QED
    BY <2>8, TreeIsNow
<1> QED
  BY <1>1, <1>2

LEMMA DiskFullTree ==
  ASSUME TypeInv, Quiet, TreeNow, DiskFull
  PROVE  TreeNow' /\ suspect' = {} /\ ~crashed'
<1>1. Rest /\ cwd' = cwd /\ pc = "find" /\ NoFault
  BY KeepIsRest DEF DiskFull
<1>2. PICK own, rank, lev :
        CallIs(View, fat[1], data, pc, f, cwd, own, rank, lev)
  BY DEF TreeNow, TreeIn
<1>3. /\ Sound(View, fat[1], data, {f.first} \ {0}, {}, {}, {}, cwd, own, rank, lev)
      /\ f.first # 0 => own[f.first] # 0
  BY <1>1, <1>2, BuildCall DEF Building
<1>4. f.first \in Cl0 /\ FreeChain(f.first, "fail")
  BY FrameFields DEF DiskFull
<1> QED
  BY <1>1, <1>3, <1>4, ReleaseTree, QuietStays
-----------------------------------------------------------------------------
(* A cluster is taken and linked, and the chain is sealed.                  *)

\* The directories stay as they are.
KeptOn(v, D, own, v2, own2) ==
  \A x \in Clusters : (Held(v, x) /\ own[x] \in DirHeads(D)) =>
    own2[x] = own[x] /\ v2[x] = v[x]

LEMMA ChoosingKept ==
  ASSUME NEW v, NEW D, NEW U, NEW own, NEW lev, NEW v2, NEW own2, NEW g,
         DirsAreDirs(v, D, U, own), KeptOn(v, D, own, v2, own2),
         Choosing(v, D, g, own, lev), g.last \in Cl0
  PROVE  Choosing(v2, D, g, own2, lev)
<1>1. g.dir \in DirHeads(D)
  BY DEF Choosing, Aim
<1>2. ASSUME NEW l \in Live(D) PROVE own2[l[1]] = own[l[1]]
  <2>1. l[1] \in Clusters /\ Held(v, l[1]) /\ own[l[1]] \in DirHeads(D)
    BY DEF DirsAreDirs, Live, Places
  <2> QED
    BY <2>1 DEF KeptOn
<1>3. Aim(D, g, own2, lev)
  BY <1>2 DEF Aim, Choosing
<1>4. Placed(v, D, g, own) => Placed(v2, D, g, own2)
  BY <1>1 DEF Placed, KeptOn, Held
<1>5. ASSUME Extending(v, D, g, own)
      PROVE  Extending(v2, D, g, own2)
  <2>1. g.last \in Clusters /\ Held(v, g.last)
    BY <1>5, Values DEF Extending, Held, Cl0
  <2> QED
    BY <1>1, <1>5, <2>1 DEF Extending, KeptOn
<1> QED
  BY <1>3, <1>4, <1>5 DEF Choosing

LEMMA LinkedIs ==
  ASSUME f \in Frame, Linked
  PROVE  /\ Alike(f, f')
         /\ f'.first = (IF f.first = 0 THEN f.cl ELSE f.first)
         /\ f'.prev = f.cl
         /\ f.left > 1 => f'.left = f.left - 1 /\ pc' = "find"
         /\ ~(f.left > 1) => pc' = "seal"
  BY ZenonT(40) DEF Linked, Frame, Alike, Goto

LEMMA LinkedTree ==
  ASSUME TypeInv, Linked, NEW own, NEW rank, NEW lev,
         Sound(View', fat'[1], data', {f'.first} \ {0}, {}, {}, {}, cwd',
               own, rank, lev),
         f'.first # 0 => own[f'.first] # 0,
         Choosing(View', data', f, own, lev), f.left \in 1..Wanted(f),
         Built(View', f', own, rank, Wanted(f) - f.left + 1)
  PROVE  TreeNow'
<1>1. /\ Alike(f, f') /\ f \in Frame
      /\ f.left > 1 => f'.left = f.left - 1 /\ pc' = "find"
      /\ ~(f.left > 1) => pc' = "seal"
  BY LinkedIs DEF TypeInv, TypeOK
<1>2. Wanted(f) \in Nat
  BY Bounds DEF Wanted, TypeInv, TypeOK, Frame
<1>3. Choosing(View', data', f', own, lev) /\ Wanted(f') = Wanted(f)
  BY <1>1, AlikeSame
<1>4. CASE f.left > 1
  <2>1. f'.left = f.left - 1 /\ pc' = "find"
    BY <1>1, <1>4
  <2>2. f'.left \in 1..Wanted(f') /\ Wanted(f') - f'.left = Wanted(f) - f.left + 1
    BY <2>1, <1>2, <1>3, <1>4
  <2>3. AtFind(View', data', f', own, rank, lev)
    BY <1>3, <2>2 DEF AtFind
  <2>4. pc' = "find" /\ pc' \in Building
    BY <2>1 DEF Building
  <2>5. CallIs(View', fat'[1], data', pc', f', cwd', own, rank, lev)
    BY <2>3, <2>4, BuildCall
  <2> QED
    BY <2>5, TreeIsNow
<1>5. CASE ~(f.left > 1)
  <2>1. f.left = 1
    BY <1>2, <1>5
  <2>2. Wanted(f) - f.left + 1 = Wanted(f')
    BY <2>1, <1>2, <1>3
  <2>3. AtSeal(View', data', f', own, rank, lev)
    BY <1>3, <2>2 DEF AtSeal
  <2>4. pc' = "seal" /\ pc' \in Building
    BY <1>1, <1>5 DEF Building
  <2>5. CallIs(View', fat'[1], data', pc', f', cwd', own, rank, lev)
    BY <2>3, <2>4, BuildCall
  <2> QED
    BY <2>5, TreeIsNow
<1> QED
  BY <1>4, <1>5

LEMMA MarkEocTree ==
  ASSUME TypeInv, Quiet, TreeNow, MarkEoc
  PROVE  TreeNow' /\ suspect' = {} /\ ~crashed'
<1>1. SetEntry(Eoc) /\ pc = "eoc" /\ Need = f.cl /\ f \in Frame
  BY DEF MarkEoc, Need, TypeInv, TypeOK
<1> DEFINE cl == f.cl
           v2 == [View EXCEPT ![cl] = Eoc]
<1>2. /\ cl \in Clusters /\ View' = v2 /\ fat' = fat /\ data' = data
      /\ cwd' = cwd /\ NoFault
  BY <1>1, SetView
<1>3. suspect' = {} /\ ~crashed'
  BY <1>2, QuietStays
<1>4. PICK own, rank, lev :
        CallIs(View, fat[1], data, pc, f, cwd, own, rank, lev)
  BY DEF TreeNow, TreeIn
<1>5. pc = "eoc" /\ pc \in Building
  BY <1>1 DEF Building
<1>6. /\ Sound(View, fat[1], data, {f.first} \ {0}, {}, {}, {}, cwd, own, rank, lev)
      /\ f.first # 0 => own[f.first] # 0
      /\ AtEoc(View, data, f, own, rank, lev)
  BY <1>4, <1>5, BuildCall
<1>7. /\ Shape(View, data, {f.first} \ {0}, {}, own, rank, lev)
      /\ View \in [Clusters -> FatVal]
  BY <1>6, ViewType DEF Sound
<1>8. View[cl] = Free /\ AtFind(View, data, f, own, rank, lev)
  BY <1>6 DEF AtEoc
<1> DEFINE own2 == [own EXCEPT ![cl] = cl]
           rank2 == [rank EXCEPT ![cl] = 0]
<1>9. Sound(v2, fat[1], data, ({f.first} \ {0}) \cup {cl}, {}, {}, {}, cwd,
            own2, rank2, lev)
  BY <1>2, <1>6, <1>7, <1>8, SoundGrow
<1>10. /\ own \in [Clusters -> Cl0] /\ rank \in [Clusters -> Nat]
       /\ own2[cl] = cl /\ rank2[cl] = 0 /\ v2[cl] = Eoc
       /\ \A x \in Clusters : x # cl =>
            v2[x] = View[x] /\ own2[x] = own[x] /\ rank2[x] = rank[x]
  BY <1>2, <1>7 DEF Shape, Witness
<1> HIDE DEF v2, own2, rank2
<1>11. /\ \A x \in Clusters : Held(View, x) => x # cl
       /\ \A x \in Clusters : Held(v2, x) => x = cl \/ Held(View, x)
       /\ \A x \in Clusters : Held(View, x) => Held(v2, x)
       /\ Held(v2, cl)
  BY <1>8, <1>10, Values DEF Held
<1>12. Choosing(v2, data, f, own2, lev)
  <2>1. KeptOn(View, data, own, v2, own2)
    BY <1>10, <1>11 DEF KeptOn
  <2>2. DirsAreDirs(View, data, {}, own) /\ Choosing(View, data, f, own, lev)
    BY <1>7, <1>8 DEF Shape, AtFind
  <2> QED
    BY <2>1, <2>2, FrameFields, ChoosingKept
<1>13. ASSUME NEW x \in Clusters, Held(v2, x), own2[x] = cl
       PROVE  x = cl
  <2> SUFFICES ASSUME x # cl PROVE FALSE
    OBVIOUS
  <2>1. Held(View, x) /\ own[x] = cl /\ cl # 0
    BY <1>2, <1>10, <1>11, <1>13, Values
  <2>2. Held(View, cl)
    BY <2>1, <1>7 DEF Shape, OwnersHeld
  <2> QED
    BY <2>2, <1>2, <1>11
<1>14. f.left \in 1..Wanted(f) /\ Wanted(f) \in Nat
  BY <1>1, <1>8, Bounds DEF AtFind, Wanted, Frame
<1>15. f.first # 0 => f.first \in Clusters /\ Held(View, f.first) /\ f.first # cl
  <2>1. \A h \in {f.first} \ {0} : h \in Clusters /\ Held(View, h)
    BY <1>7 DEF Shape, HeadsFirst
  <2> QED
    BY <2>1, <1>11
<1>16. CASE f.prev # 0
  <2>1. f' = f /\ pc' = "link"
    BY <1>16 DEF MarkEoc, Same, Goto
  <2>2. Wanted(f) - f.left # 0
    BY <1>8, <1>16 DEF AtFind, Built
  <2>3. Built(View, f, own, rank, Wanted(f) - f.left)
    BY <1>8 DEF AtFind
  <2>4. /\ ChainIs(View, f, own, rank, Wanted(f) - f.left)
        /\ f.prev \in Clusters /\ Held(View, f.prev)
        /\ own[f.prev] = f.first /\ rank[f.prev] = (Wanted(f) - f.left) - 1
    BY <2>2, <2>3 DEF Built
  <2>5. f.first \in Clusters /\ f.first # 0 /\ f.first # cl
    BY <2>4, <1>15, Values DEF ChainIs
  <2>6. ChainIs(v2, f, own2, rank2, Wanted(f) - f.left)
    BY <2>4, <2>5, <1>10, <1>11 DEF ChainIs
  <2>7. Built(v2, f, own2, rank2, Wanted(f) - f.left)
    BY <2>2, <2>4, <2>6, <1>10, <1>11 DEF Built
  <2>8. AtFind(v2, data, f, own2, rank2, lev)
    BY <2>7, <1>12, <1>14 DEF AtFind
  <2>9. AtLink(v2, data, f, own2, rank2, lev)
    BY <2>5, <2>8, <1>10, <1>13 DEF AtLink
  <2>10. own2[f.first] # 0 /\ own2[cl] # 0
    BY <2>5, <1>2, <1>6, <1>10, Values
  <2>11. CallIs(v2, fat[1], data, "link", f, cwd, own2, rank2, lev)
    BY <1>9, <2>9, <2>10, LinkCall
  <2>12. CallIs(View', fat'[1], data', pc', f', cwd', own2, rank2, lev)
    BY <2>1, <2>11, <1>2
  <2> QED
    BY <2>12, <1>3, TreeIsNow
<1>17. CASE f.prev = 0
  <2>1. Linked
    BY <1>17 DEF MarkEoc
  <2>2. Wanted(f) - f.left = 0 /\ f.first = 0
    <3>1. Built(View, f, own, rank, Wanted(f) - f.left)
      BY <1>8 DEF AtFind
    <3> QED
      BY <3>1, <1>17, Values DEF Built
  <2>3. f'.first = cl /\ f'.prev = cl
    BY <2>1, <2>2, <1>1, LinkedIs
  <2>4. ChainIs(v2, f', own2, rank2, 1)
    BY <2>3, <1>2, <1>10, <1>13 DEF ChainIs
  <2>5. Wanted(f) - f.left + 1 = 1
    BY <2>2, <1>14
  <2>6. Built(v2, f', own2, rank2, 1)
    BY <2>3, <2>4, <1>2, <1>10, <1>11 DEF Built
  <2>7. ({f.first} \ {0}) \cup {cl} = {f'.first} \ {0}
    BY <2>2, <2>3, <1>2, Values
  <2>8. Sound(v2, fat[1], data, {f'.first} \ {0}, {}, {}, {}, cwd, own2, rank2, lev)
    BY <1>9, <2>7
  <2>9. own2[f'.first] # 0
    BY <2>3, <1>2, <1>10, Values
  <2>10. TreeNow'
    BY <2>1, <2>5, <2>6, <2>8, <2>9, <1>2, <1>12, <1>14, LinkedTree
  <2> QED
    BY <2>10, <1>3
<1> QED
  BY <1>16, <1>17

LEMMA LinkPrevTree ==
  ASSUME TypeInv, Quiet, TreeNow, LinkPrev
  PROVE  TreeNow' /\ suspect' = {} /\ ~crashed'
<1>1. SetEntry(f.cl) /\ pc = "link" /\ Need = f.prev /\ f \in Frame /\ Linked
  BY DEF LinkPrev, Need, TypeInv, TypeOK
<1> DEFINE a == f.prev
           b == f.cl
           v2 == [View EXCEPT ![a] = b]
<1>2. /\ a \in Clusters /\ View' = v2 /\ fat' = fat /\ data' = data
      /\ cwd' = cwd /\ NoFault
  BY <1>1, SetView
<1>3. suspect' = {} /\ ~crashed'
  BY <1>2, QuietStays
<1>4. PICK own, rank, lev :
        CallIs(View, fat[1], data, pc, f, cwd, own, rank, lev)
  BY DEF TreeNow, TreeIn
<1> DEFINE P == ({f.first} \ {0}) \cup {b}
<1>5. /\ Sound(View, fat[1], data, P, {}, {}, {}, cwd, own, rank, lev)
      /\ f.first # 0 => own[f.first] # 0
      /\ own[b] # 0
      /\ AtLink(View, data, f, own, rank, lev)
  BY <1>1, <1>4, LinkCall
<1>6. /\ Shape(View, data, P, {}, own, rank, lev) /\ View \in [Clusters -> FatVal]
  BY <1>5, ViewType DEF Sound
<1>7. /\ AtFind(View, data, f, own, rank, lev)
      /\ f.first # 0 /\ b # f.first /\ View[b] = Eoc
      /\ \A c \in Clusters : (Held(View, c) /\ own[c] = b) => c = b
  BY <1>5 DEF AtLink
<1> DEFINE n == Wanted(f) - f.left
<1>8. /\ f.left \in 1..Wanted(f) /\ Wanted(f) \in Nat
      /\ Built(View, f, own, rank, n) /\ Choosing(View, data, f, own, lev)
  BY <1>1, <1>7, Bounds DEF AtFind, Wanted, Frame
<1>9. n # 0 /\ n \in Nat
  BY <1>7, <1>8 DEF Built
<1>10. /\ ChainIs(View, f, own, rank, n)
       /\ Held(View, a) /\ own[a] = f.first /\ rank[a] = n - 1
  BY <1>8, <1>9 DEF Built
<1>11. View[a] = Eoc
  BY <1>2, <1>10 DEF ChainIs
<1>12. /\ f.first \in P /\ b \in P
       /\ \A h \in P : h \in Clusters /\ Held(View, h)
       /\ own[f.first] = f.first /\ f.first \notin Named(data)
       /\ own[b] = b /\ b \notin Named(data)
  <2>1. f.first \in P /\ b \in P
    BY <1>7
  <2> HIDE DEF P
  <2> QED
    BY <2>1, <1>5, <1>6, <1>7 DEF Shape, HeadsFirst
<1> HIDE DEF P
<1>13. LinkOK(View, data, {}, {}, own, a, b)
  <2>1. f.first \notin DirHeads(data)
    BY <1>12, Heads
  <2>2. \A l \in Live(data) : At(data, l).start # f.first
    BY <1>6, <1>7, <1>12, StartNamed DEF Shape
  <2> QED
    BY <2>1, <2>2, <1>7, <1>10, <1>11, <1>12 DEF LinkOK
<1> DEFINE own2 == [own EXCEPT ![b] = own[a]]
           rank2 == [rank EXCEPT ![b] = rank[a] + 1]
<1>14. Joined(View, own, rank, a, b, v2, own2, rank2)
  BY DEF Joined
<1>15. /\ own \in [Clusters -> Cl0] /\ rank \in [Clusters -> Nat]
       /\ own2[b] = f.first /\ rank2[b] = rank[a] + 1 /\ v2[a] = b
       /\ \A x \in Clusters : x # b => own2[x] = own[x] /\ rank2[x] = rank[x]
       /\ \A x \in Clusters : x # a => v2[x] = View[x]
       /\ a # b
  BY <1>2, <1>6, <1>7, <1>10, <1>12 DEF Shape, Witness
<1> HIDE DEF v2, own2, rank2
<1>16. {f.first} = P \ {b}
  BY <1>7 DEF P
<1>17. Sound(v2, fat[1], data, {f.first}, {}, {}, {}, cwd, own2, rank2, lev)
  <2>1. own[a] \notin Named(data)
    BY <1>10, <1>12
  <2> QED
    BY <2>1, <1>2, <1>5, <1>6, <1>12, <1>13, <1>14, <1>16, SoundLink
<1>18. /\ \A x \in Clusters : Held(v2, x) <=> Held(View, x)
       /\ Held(View, b)
  BY <1>2, <1>11, <1>12, <1>15, Values DEF Held
<1>19. Choosing(v2, data, f, own2, lev)
  <2>1. f.first \notin DirHeads(data) /\ b \notin DirHeads(data)
    BY <1>12, Heads
  <2>2. KeptOn(View, data, own, v2, own2)
    BY <2>1, <1>10, <1>12, <1>15 DEF KeptOn
  <2>3. DirsAreDirs(View, data, {}, own)
    BY <1>6 DEF Shape
  <2> QED
    BY <2>2, <2>3, <1>8, FrameFields, ChoosingKept
<1>20. f'.first = f.first /\ f'.prev = b
  BY <1>1, <1>7, LinkedIs
<1>21. ASSUME NEW c \in Clusters, Held(v2, c), own2[c] = f.first
       PROVE  rank2[c] < n + 1 /\ (v2[c] = Eoc <=> rank2[c] = n)
  <2>1. CASE c = b
    BY <2>1, <1>7, <1>9, <1>10, <1>15
  <2>2. CASE c # b
    <3>1. /\ Held(View, c) /\ own[c] = f.first /\ rank2[c] = rank[c]
          /\ rank[c] \in Nat
      BY <2>2, <1>15, <1>18, <1>21
    <3>2. rank[c] < n /\ (View[c] = Eoc <=> rank[c] = n - 1)
      BY <3>1, <1>10 DEF ChainIs
    <3>3. v2[c] # Eoc
      <4>1. CASE c = a
        BY <4>1, <1>12, <1>15, Values
      <4>2. CASE c # a
        <5>1. rank[c] # rank[a]
          BY <4>2, <3>1, <1>2, <1>6, <1>7, <1>10 DEF Shape, OnePlace
        <5> QED
          BY <5>1, <4>2, <3>2, <1>10, <1>15
      <4> QED
        BY <4>1, <4>2
    <3> QED
      BY <3>1, <3>2, <3>3, <1>9
  <2> QED
    BY <2>1, <2>2
<1>22. Built(View', f', own2, rank2, n + 1)
  <2>1. n + 1 # 0 /\ (n + 1) - 1 = n
    BY <1>9
  <2>2. f.first \in Clusters /\ b \in Clusters
    BY <1>12
  <2>3. ChainIs(v2, f', own2, rank2, n + 1)
    BY <2>1, <2>2, <1>20, <1>21 DEF ChainIs
  <2>4. rank2[b] = n
    BY <1>9, <1>10, <1>15
  <2> QED
    BY <2>1, <2>2, <2>3, <2>4, <1>2, <1>15, <1>18, <1>20 DEF Built
<1>23. Sound(View', fat'[1], data', {f'.first} \ {0}, {}, {}, {}, cwd', own2, rank2, lev)
  <2>1. {f'.first} \ {0} = {f.first}
    BY <1>7, <1>20
  <2> QED
    BY <2>1, <1>2, <1>17
<1>24. own2[f'.first] # 0
  BY <1>7, <1>12, <1>15, <1>20
<1>25. Choosing(View', data', f, own2, lev)
  BY <1>2, <1>19
<1>26. Built(View', f', own2, rank2, Wanted(f) - f.left + 1)
  BY <1>22
<1> HIDE DEF n
<1>27. TreeNow'
  BY <1>1, <1>8, <1>23, <1>24, <1>25, <1>26, LinkedTree
<1> QED
  BY <1>3, <1>27

LEMMA SealTree ==
  ASSUME TypeInv, Quiet, TreeNow, Seal
  PROVE  TreeNow' /\ suspect' = {} /\ ~crashed'
<1>1. SetEntry(Eoc) /\ pc = "seal" /\ Need = f.prev /\ f \in Frame
  BY DEF Seal, Need, TypeInv, TypeOK
<1>2. /\ f.prev \in Clusters /\ View' = [View EXCEPT ![f.prev] = Eoc]
      /\ fat' = fat /\ data' = data /\ cwd' = cwd /\ NoFault
  BY <1>1, SetView
<1>3. suspect' = {} /\ ~crashed'
  BY <1>2, QuietStays
<1>4. PICK own, rank, lev :
        CallIs(View, fat[1], data, pc, f, cwd, own, rank, lev)
  BY DEF TreeNow, TreeIn
<1>5. pc = "seal" /\ pc \in Building
  BY <1>1 DEF Building
<1>6. /\ Sound(View, fat[1], data, {f.first} \ {0}, {}, {}, {}, cwd, own, rank, lev)
      /\ f.first # 0 => own[f.first] # 0
      /\ AtSeal(View, data, f, own, rank, lev)
  BY <1>4, <1>5, BuildCall
<1>7. /\ Shape(View, data, {f.first} \ {0}, {}, own, rank, lev)
      /\ View \in [Clusters -> FatVal]
  BY <1>6, ViewType DEF Sound
<1>8. /\ Choosing(View, data, f, own, lev) /\ Built(View, f, own, rank, Wanted(f))
      /\ Wanted(f) # 0 /\ Wanted(f) \in Nat
  <2>1. f.last = 0 => f.cnt # 0
    BY <1>1 DEF TypeInv, FrameOK, Allocating
  <2> QED
    BY <2>1, <1>1, <1>6, Bounds DEF AtSeal, Wanted, Frame
<1>9. /\ ChainIs(View, f, own, rank, Wanted(f))
      /\ Held(View, f.prev) /\ own[f.prev] = f.first
      /\ rank[f.prev] = Wanted(f) - 1
      /\ f.first \in Clusters /\ f.first # 0
  BY <1>8, Values DEF Built, ChainIs
<1>10. View[f.prev] = Eoc
  BY <1>2, <1>9 DEF ChainIs
<1>11. View' = View
  BY <1>2, <1>7, <1>10
<1>12. CASE f.last # 0
  <2>1. f' = f /\ pc' = "xlink" /\ pc' \in Building
    BY <1>12 DEF Seal, Same, Goto, Building
  <2>2. Extending(View, data, f, own) /\ Aim(data, f, own, lev)
    BY <1>8, <1>12 DEF Choosing, Placed
  <2>3. Wanted(f) = 1
    BY <1>12 DEF Wanted
  <2>4. AtXlink(View, data, f, own, rank, lev)
    BY <2>2, <2>3, <1>9 DEF AtXlink
  <2>5. CallIs(View, fat[1], data, "xlink", f, cwd, own, rank, lev)
    BY <2>1, <2>4, <1>6, BuildCall
  <2>6. CallIs(View', fat'[1], data', pc', f', cwd', own, rank, lev)
    BY <2>1, <2>5, <1>2, <1>11
  <2> QED
    BY <2>6, <1>3, TreeIsNow
<1>13. f.last = 0 => /\ Placed(View, data, f, own) /\ Aim(data, f, own, lev)
                     /\ Wanted(f) = f.cnt
  BY <1>8 DEF Choosing, Extending, Wanted
<1>14. CASE f.last = 0 /\ f.kind = "mkdir"
  <2>1. f' = f /\ pc' = "dirinit" /\ pc' \in Building
    BY <1>14 DEF Seal, Same, Goto, Building
  <2>2. f.cnt = 1
    BY <1>14 DEF TypeInv, FrameOK
  <2>3. AtDirinit(View, data, f, own, rank, lev)
    BY <2>2, <1>9, <1>13, <1>14 DEF AtDirinit
  <2>4. CallIs(View, fat[1], data, "dirinit", f, cwd, own, rank, lev)
    BY <2>1, <2>3, <1>6, BuildCall
  <2>5. CallIs(View', fat'[1], data', pc', f', cwd', own, rank, lev)
    BY <2>1, <2>4, <1>2, <1>11
  <2> QED
    BY <2>5, <1>3, TreeIsNow
<1>15. CASE f.last = 0 /\ f.kind # "mkdir"
  <2>1. f' = [f EXCEPT !.c = f.first, !.index = 1]
    BY <1>15 DEF Seal, Goto
  <2>2. pc' = "data" /\ pc' \in Building
    BY <1>15 DEF Seal, Goto, Building
  <2>3. /\ Alike(f, f') /\ f'.first = f.first /\ f'.c = f.first /\ f'.index = 1
        /\ f'.cnt = f.cnt /\ f'.payload = f.payload
    BY <2>1, <1>1 DEF Frame, Alike
  <2>4. Held(View, f.first) /\ own[f.first] = f.first /\ rank[f.first] = 0
    <3>1. f.first \in {f.first} \ {0} /\ own[f.first] # 0
      BY <1>6, <1>9
    <3> QED
      BY <3>1, <1>7 DEF Shape, HeadsFirst
  <2>5. Aim(data, f', own, lev) /\ Placed(View, data, f', own)
    BY <2>3, <1>13, <1>15, AlikeSame
  <2>6. ChainIs(View, f', own, rank, f'.cnt)
    BY <2>3, <1>9, <1>13, <1>15 DEF ChainIs
  <2>7. \A c \in Clusters : rank[c] \in Nat
    BY <1>7 DEF Shape, Witness
  <2>8. Filled(View, data, f', own, rank, 0)
    BY <2>7 DEF Filled
  <2>9. AtData(View, data, f', own, rank, lev, 0)
    BY <2>3, <2>4, <2>5, <2>6, <2>8, <1>9 DEF AtData
  <2>10. f'.index - 1 = 0
    BY <2>3
  <2>11. AtData(View', data', f', own, rank, lev, f'.index - 1)
    BY <2>9, <2>10, <1>2, <1>11
  <2>12. /\ Sound(View', fat'[1], data', {f'.first} \ {0}, {}, {}, {}, cwd', own, rank, lev)
         /\ own[f'.first] # 0
    BY <2>3, <1>2, <1>6, <1>9, <1>11
  <2> HIDE DEF AtData
  <2>13. CallIs(View', fat'[1], data', pc', f', cwd', own, rank, lev)
    BY <2>2, <2>11, <2>12, BuildCall
  <2> QED
    BY <2>13, <1>3, TreeIsNow
<1> QED
  BY <1>12, <1>14, <1>15
-----------------------------------------------------------------------------
(* A directory is extended.                                                 *)

LEMMA AimKept ==
  ASSUME NEW v, NEW D, NEW U, NEW own, NEW lev, NEW own2, NEW g,
         DirsAreDirs(v, D, U, own), Aim(D, g, own, lev),
         \A x \in Clusters : (Held(v, x) /\ own[x] \in DirHeads(D)) =>
           own2[x] = own[x]
  PROVE  Aim(D, g, own2, lev)
<1>1. ASSUME NEW l \in Live(D) PROVE own2[l[1]] = own[l[1]]
  <2>1. l[1] \in Clusters /\ Held(v, l[1]) /\ own[l[1]] \in DirHeads(D)
    BY DEF DirsAreDirs, Live, Places
  <2> QED
    BY <2>1
<1> QED
  BY <1>1 DEF Aim

\* No file's chain starts with a directory.
LEMMA FilesAreNotDirs ==
  ASSUME NEW D, OneName(D), NEW l \in Live(D), ~At(D, l).dir
  PROVE  At(D, l).start \notin DirHeads(D)
<1> SUFFICES ASSUME At(D, l).start \in DirHeads(D) PROVE FALSE
  OBVIOUS
<1>1. At(D, l).start # Root
  BY DEF OneName
<1>2. PICK m \in Live(D) : At(D, m).dir /\ At(D, m).start = At(D, l).start
  BY <1>1 DEF DirHeads
<1>3. At(D, m).start # 0 /\ m # l
  BY <1>2 DEF OneName
<1> QED
  BY <1>2, <1>3 DEF OneName

LEMMA LinkDirTree ==
  ASSUME TypeInv, Quiet, TreeNow, LinkDir
  PROVE  TreeNow' /\ suspect' = {} /\ ~crashed'
<1>1. /\ SetEntry(f.first) /\ pc = "xlink" /\ Need = f.last
      /\ f' = f /\ pc' = "xeoc"
  BY DEF LinkDir, Need, Same, Goto
<1> DEFINE a == f.last
           b == f.first
           v2 == [View EXCEPT ![a] = b]
<1>2. /\ a \in Clusters /\ View' = v2 /\ fat' = fat /\ data' = data
      /\ cwd' = cwd /\ NoFault
  BY <1>1, SetView
<1>3. suspect' = {} /\ ~crashed'
  BY <1>2, QuietStays
<1>4. PICK own, rank, lev :
        CallIs(View, fat[1], data, pc, f, cwd, own, rank, lev)
  BY DEF TreeNow, TreeIn
<1>5. pc = "xlink" /\ pc \in Building
  BY <1>1 DEF Building
<1>6. /\ Sound(View, fat[1], data, {b} \ {0}, {}, {}, {}, cwd, own, rank, lev)
      /\ b # 0 => own[b] # 0
      /\ AtXlink(View, data, f, own, rank, lev)
  BY <1>4, <1>5, BuildCall
<1>7. /\ Aim(data, f, own, lev) /\ f.dir \in DirHeads(data)
      /\ f.dir \in Named(data) /\ f.dir # 0
      /\ Unplaced(f) /\ View[a] = Eoc /\ own[a] = f.dir
      /\ \A s \in 1..Slots : At(data, <<a, s>>) # EndMark
      /\ b \in Clusters /\ b # 0
      /\ \A c \in Clusters : (Held(View, c) /\ own[c] = b) =>
           rank[c] < 1 /\ (View[c] = Eoc <=> rank[c] = 1 - 1)
  BY <1>6, Heads, Values DEF AtXlink, Aim, Extending, ChainIs
<1>8. {b} \ {0} = {b}
  BY <1>7
<1>9. Sound(View, fat[1], data, {b}, {}, {}, {}, cwd, own, rank, lev)
  BY <1>6, <1>8
<1>10. /\ Shape(View, data, {b}, {}, own, rank, lev)
       /\ View \in [Clusters -> FatVal]
  BY <1>9, ViewType DEF Sound
<1>11. Held(View, b) /\ own[b] = b /\ rank[b] = 0 /\ b \notin Named(data)
  <2>1. b \in {b} /\ own[b] # 0
    BY <1>6, <1>7
  <2> QED
    BY <2>1, <1>10 DEF Shape, HeadsFirst
<1>12. /\ own \in [Clusters -> Cl0] /\ rank \in [Clusters -> Nat]
       /\ OneName(data) /\ DirsAreDirs(View, data, {}, own)
       /\ OnePlace(View, own, rank)
  BY <1>10 DEF Shape, Witness
<1>13. \A c \in Clusters : (Held(View, c) /\ own[c] = b) => c = b
  BY <1>7, <1>11, <1>12 DEF OnePlace
<1>14. b \notin DirHeads(data) /\ own[a] # b /\ a # b
  BY <1>7, <1>11, Heads
<1>15. LinkOK(View, data, {}, {b}, own, a, b)
  <2>1. View[b] = Eoc
    BY <1>7, <1>11
  <2>2. \A l \in Live(data) : ~At(data, l).dir => At(data, l).start # own[a]
    BY <1>7, <1>12, FilesAreNotDirs
  <2> QED
    BY <2>1, <2>2, <1>7, <1>11, <1>13, <1>14 DEF LinkOK
<1> DEFINE own2 == [own EXCEPT ![b] = own[a]]
           rank2 == [rank EXCEPT ![b] = rank[a] + 1]
<1>16. Joined(View, own, rank, a, b, v2, own2, rank2)
  BY DEF Joined
<1>17. /\ own2[b] = f.dir
       /\ \A x \in Clusters : x # b => own2[x] = own[x]
       /\ v2[b] = Eoc
  BY <1>2, <1>7, <1>10, <1>11, <1>12, <1>14
<1> HIDE DEF v2, own2, rank2
<1>18. {} = {b} \ {b}
  OBVIOUS
<1>19. Sound(v2, fat[1], data, {}, {b}, {}, {a, b}, cwd, own2, rank2, lev)
  <2>1. {} \subseteq {a, b} /\ a \in {a, b} /\ b \in {a, b} /\ b \in {b}
    OBVIOUS
  <2> QED
    BY <2>1, <1>2, <1>9, <1>10, <1>15, <1>16, <1>18, SoundLink
<1>20. AtXzero(v2, data, f, own2, lev)
  <2>1. Aim(data, f, own2, lev)
    BY <1>7, <1>11, <1>12, <1>14, <1>17, AimKept
  <2>2. \A l \in Live(data) : l[1] # b
    BY <1>12, <1>14, <1>11 DEF DirsAreDirs
  <2>3. own2[a] = f.dir
    <3>1. a \in Clusters /\ a # b
      BY <1>2, <1>7, <1>11
    <3> QED
      BY <3>1, <1>7, <1>17
  <2> QED
    BY <2>1, <2>2, <2>3, <1>7, <1>17 DEF AtXzero
<1>21. CallIs(v2, fat[1], data, "xeoc", f, cwd, own2, rank2, lev)
  BY <1>19, <1>20, ClearCall
<1>22. CallIs(View', fat'[1], data', pc', f', cwd', own2, rank2, lev)
  BY <1>1, <1>2, <1>21
<1> QED
  BY <1>3, <1>22, TreeIsNow

LEMMA SealDirTree ==
  ASSUME TypeInv, Quiet, TreeNow, SealDir
  PROVE  TreeNow' /\ suspect' = {} /\ ~crashed'
<1>1. /\ SetEntry(Eoc) /\ pc = "xeoc" /\ Need = f.first
      /\ f' = f /\ pc' = "xzero"
  BY DEF SealDir, Need, Same, Goto
<1>2. /\ f.first \in Clusters /\ View' = [View EXCEPT ![f.first] = Eoc]
      /\ fat' = fat /\ data' = data /\ cwd' = cwd /\ NoFault
  BY <1>1, SetView
<1>3. PICK own, rank, lev :
        CallIs(View, fat[1], data, pc, f, cwd, own, rank, lev)
  BY DEF TreeNow, TreeIn
<1>4. /\ Sound(View, fat[1], data, {}, {f.first}, {}, {f.last, f.first}, cwd,
               own, rank, lev)
      /\ AtXzero(View, data, f, own, lev)
  BY <1>1, <1>3, ClearCall
<1>5. View[f.first] = Eoc /\ View \in [Clusters -> FatVal]
  BY <1>4, ViewType DEF AtXzero
<1>6. View' = View
  BY <1>2, <1>5
<1>7. CallIs(View, fat[1], data, "xzero", f, cwd, own, rank, lev)
  BY <1>4, ClearCall
<1>8. CallIs(View', fat'[1], data', pc', f', cwd', own, rank, lev)
  BY <1>1, <1>2, <1>6, <1>7
<1> QED
  BY <1>2, <1>8, TreeIsNow, QuietStays

LEMMA ClearedSame ==
  ASSUME NEW D, NEW D2, NEW c, Cleared(D, D2, c)
  PROVE  /\ Live(D2) = Live(D)
         /\ \A l \in Places : l[1] # c => At(D2, l) = At(D, l)
         /\ \A l \in Live(D) : At(D2, l) = At(D, l)
         /\ Named(D2) = Named(D) /\ DirHeads(D2) = DirHeads(D)
<1>1. ASSUME NEW l \in Places, l[1] # c PROVE At(D2, l) = At(D, l)
  <2>1. l[1] \in Clusters
    BY DEF Places
  <2> QED
    BY <2>1, <1>1 DEF At, Cleared
<1>2. ASSUME NEW l \in Places, l[1] = c PROVE At(D2, l).tag # "live"
  <2>1. l = <<c, l[2]>> /\ l[2] \in 1..Slots
    BY <1>2 DEF Places
  <2> QED
    BY <2>1 DEF Cleared, EndMark
<1>3. \A l \in Places : l \in Live(D2) <=> l \in Live(D)
  BY <1>1, <1>2 DEF Live, Cleared
<1>4. Live(D2) = Live(D)
  <2>1. Live(D) \subseteq Places /\ Live(D2) \subseteq Places
    BY DEF Live
  <2> QED
    BY <2>1, <1>3
<1>5. \A l \in Live(D) : At(D2, l) = At(D, l)
  BY <1>1 DEF Live, Cleared
<1> QED
  BY <1>1, <1>4, <1>5, SameHeads

LEMMA SoundWrite ==
  ASSUME NEW v, NEW disk, NEW D, NEW P, NEW U, NEW F,
         NEW L, NEW cw, NEW own, NEW rank, NEW lev,
         Sound(v, disk, D, P, U, F, L, cw, own, rank, lev),
         NEW c \in Clusters, NEW V, NEW D2, WriteOK(v, D, D2, U, V, own, c)
  PROVE  Sound(v, disk, D2, P, V, F, L, cw, own, rank, lev)
<1>1. Shape(v, D, P, U, own, rank, lev) /\ Settled(v, disk, D, F, L, own)
      /\ cw \in DirHeads(D)
  BY DEF Sound
<1>2. Shape(v, D2, P, V, own, rank, lev)
  BY <1>1, ShapeWrite
<1>3. Named(D2) = Named(D) /\ DirHeads(D2) = DirHeads(D)
  BY ClearedSame DEF WriteOK
<1>4. Settled(v, disk, D2, F, L, own)
  BY <1>1, <1>3, SettledMore
<1> QED
  BY <1>1, <1>2, <1>3, <1>4 DEF Sound

LEMMA AimCleared ==
  ASSUME NEW D, NEW D2, NEW c, Cleared(D, D2, c), NEW g, NEW own, NEW lev,
         Aim(D, g, own, lev)
  PROVE  Aim(D2, g, own, lev)
  BY ClearedSame DEF Aim

LEMMA EmptyIsCleared ==
  ASSUME DataOK, NEW c \in Clusters, NEW p, \A l \in Live(data) : l[1] # c,
         NEW D2, D2 = [data EXCEPT ![c] = DirData(p, EmptySlots)]
  PROVE  Cleared(data, D2, c) /\ EmptyDir(D2, c)
<1>1. D2[c] = DirData(p, EmptySlots) /\ \A x \in Clusters : x # c => D2[x] = data[x]
  BY DEF DataOK
<1>2. EmptyDir(D2, c)
  BY <1>1 DEF EmptyDir, DirData
<1>3. \A s \in 1..Slots : At(D2, <<c, s>>) = EndMark
  BY <1>2 DEF EmptyDir, At, EmptySlots
<1> QED
  BY <1>1, <1>2, <1>3 DEF Cleared

LEMMA ClearDirTree ==
  ASSUME TypeInv, Quiet, TreeNow, ClearDir
  PROVE  TreeNow' /\ suspect' = {} /\ ~crashed'
<1>1. pc = "xzero" /\ Keep
  BY DEF ClearDir
<1>2. PICK w \in BOOLEAN :
        /\ WriteData([data EXCEPT ![f.first] = DirData(0, EmptySlots)], w)
        /\ Same(IF w THEN "xflush" ELSE "xundo")
  BY DEF ClearDir
<1>3. w /\ NoFault /\ data' = [data EXCEPT ![f.first] = DirData(0, EmptySlots)]
  BY <1>2, NoFailures DEF Quiet
<1>4. f' = f /\ pc' = "xflush"
  BY <1>2, <1>3 DEF Same, Goto
<1>5. View' = View /\ fat' = fat /\ cwd' = cwd
  BY <1>1, SameView DEF Keep
<1>6. PICK own, rank, lev :
        CallIs(View, fat[1], data, pc, f, cwd, own, rank, lev)
  BY DEF TreeNow, TreeIn
<1>7. /\ Sound(View, fat[1], data, {}, {f.first}, {}, {f.last, f.first}, cwd,
               own, rank, lev)
      /\ AtXzero(View, data, f, own, lev)
  BY <1>1, <1>6, ClearCall
<1>8. /\ f.first \in Clusters /\ own[f.first] = f.dir /\ View[f.first] = Eoc
      /\ \A l \in Live(data) : l[1] # f.first
      /\ Aim(data, f, own, lev) /\ f.dir \in DirHeads(data)
  BY <1>7 DEF AtXzero, Aim
<1>9. Cleared(data, data', f.first) /\ EmptyDir(data', f.first)
  BY <1>3, <1>8, TypeInvData, EmptyIsCleared
<1>10. Sound(View, fat[1], data', {}, {}, {}, {f.last, f.first}, cwd, own, rank, lev)
  <2>1. \A l \in Live(data) : ~At(data, l).dir => At(data, l).start # own[f.first]
    BY <1>7, <1>8, FilesAreNotDirs DEF Sound, Shape
  <2>2. data'[f.first].kind = "dir" /\ View[f.first] \notin Clusters
    BY <1>8, <1>9, Values DEF EmptyDir
  <2>3. WriteOK(View, data, data', {f.first}, {}, own, f.first)
    BY <2>1, <2>2, <1>9 DEF WriteOK
  <2> QED
    BY <2>3, <1>7, <1>8, SoundWrite
<1>11. AtXflush(View, data', f, own, lev)
  <2>1. \A l \in Live(data') : l[1] # f.first
    BY <1>8, <1>9, ClearedSame
  <2>2. Aim(data', f, own, lev)
    BY <1>8, <1>9, AimCleared
  <2> QED
    BY <2>1, <2>2, <1>7, <1>9 DEF AtXflush, AtXzero
<1>12. CallIs(View, fat[1], data', "xflush", f, cwd, own, rank, lev)
  BY <1>10, <1>11, ExtendCall
<1>13. CallIs(View', fat'[1], data', pc', f', cwd', own, rank, lev)
  BY <1>4, <1>5, <1>12
<1> QED
  BY <1>3, <1>13, TreeIsNow, QuietStays

\* A clean cache: the disk shows what the kernel sees.
LEMMA CleanSettles ==
  ASSUME CacheInv, Clean, NEW D, NEW P, NEW U, NEW F, NEW L, NEW cw,
         NEW own, NEW rank, NEW lev,
         Sound(View, fat[1], D, P, U, F, L, cw, own, rank, lev)
  PROVE  Sound(View, fat[1], D, P, U, {}, {}, cw, own, rank, lev)
<1>1. \A c \in Clusters : fat[1][c] = View[c]
  BY CleanIsDurable, FirstCopy DEF Clean
<1> QED
  BY <1>1 DEF Sound, Settled

LEMMA ExtendDoneTree ==
  ASSUME TypeInv, CacheInv, Quiet, TreeNow, ExtendDone
  PROVE  TreeNow' /\ suspect' = {} /\ ~crashed'
<1>1. pc = "xflush" /\ Clean /\ NoFault /\ Rest /\ cwd' = cwd
  BY KeepIsRest DEF ExtendDone
<1>2. PICK own, rank, lev :
        CallIs(View, fat[1], data, pc, f, cwd, own, rank, lev)
  BY DEF TreeNow, TreeIn
<1>3. /\ Sound(View, fat[1], data, {}, {}, {}, {f.last, f.first}, cwd,
               own, rank, lev)
      /\ AtXflush(View, data, f, own, lev)
  BY <1>1, <1>2, ExtendCall
<1>4. Sound(View, fat[1], data, {}, {}, {}, {}, cwd, own, rank, lev)
  BY <1>1, <1>3, CleanSettles
<1>5. /\ f.first \in Clusters /\ own[f.first] = f.dir /\ View[f.first] = Eoc
      /\ \A l \in Live(data) : l[1] # f.first
      /\ Aim(data, f, own, lev)
      /\ f.old = 0 /\ f.loc[1] = 0 /\ f \in Frame
      /\ (f.kind = "write" \/ f.cnt # 0)
      /\ EmptyDir(data, f.first)
  BY <1>1, <1>3
     DEF AtXflush, AtXzero, Unplaced, TypeInv, TypeOK, FrameOK, Storing
<1> DEFINE g == [f EXCEPT !.loc = <<f.first, 1>>, !.mark = TRUE, !.last = 0,
                          !.first = 0, !.prev = 0, !.cl = 0]
<1>6. Store(g)
  BY DEF ExtendDone
<1>7. 1 \in 1..Slots /\ 0 \in Cl0
  BY Bounds DEF Cl0
<1>8. /\ g \in Frame /\ g.kind = f.kind /\ g.dir = f.dir /\ g.name = f.name
      /\ g.cnt = f.cnt /\ g.last = 0 /\ g.loc = <<f.first, 1>> /\ g.old = 0
      /\ g.first = 0 /\ g.mark = TRUE
  <2> DEFINE p == <<f.first, 1>>
  <2>1. p \in Loc
    BY <1>5, <1>7 DEF Loc, Cl0
  <2>2. g = [f EXCEPT !.loc = p, !.mark = TRUE, !.last = 0,
                      !.first = 0, !.prev = 0, !.cl = 0]
    OBVIOUS
  <2> HIDE DEF p, g
  <2>3. /\ g \in Frame /\ g.kind = f.kind /\ g.dir = f.dir /\ g.name = f.name
        /\ g.cnt = f.cnt /\ g.last = 0 /\ g.loc = p /\ g.old = f.old
        /\ g.first = 0 /\ g.mark = TRUE
    <3>1. f \in Frame
      BY <1>5
    <3>2. g \in Frame
      BY <2>1, <2>2, <3>1, <1>7 DEF Frame
    <3> QED
      BY <2>2, <3>1, <3>2 DEF Frame
  <2> QED
    BY <2>3, <1>5 DEF p
<1> HIDE DEF g
<1>9. Aim(data, g, own, lev)
  <2>1. \A m \in Live(data) : m # f.loc
    BY <1>5, Values DEF Live, Places
  <2> QED
    BY <2>1, <1>5, <1>8 DEF Aim
<1>10. Placed(View, data, g, own)
  <2>1. g.loc \notin Live(data) /\ g.loc[1] = f.first /\ g.loc[2] = 1
    BY <1>5, <1>8
  <2>2. At(data, g.loc) = EndMark
    BY <1>5, <1>7, <2>1, ZenonT(40) DEF EmptyDir, At, EmptySlots
  <2>3. \A s \in 1..Slots : ~(s < 1)
    BY Bounds
  <2>4. Held(View, f.first)
    BY <1>5, Values DEF Held
  <2> QED
    BY <2>1, <2>2, <2>3, <2>4, <1>5, <1>8 DEF Placed
<1> QED
  BY <1>1, <1>4, <1>5, <1>6, <1>8, <1>9, <1>10, StoreTree, QuietStays
-----------------------------------------------------------------------------
(* The clusters of a new file or directory are written.                     *)

LEMMA PlacedCleared ==
  ASSUME NEW v, NEW D, NEW D2, NEW c, Cleared(D, D2, c), NEW g, NEW own,
         g.loc \in Loc, g.loc[1] # c, Placed(v, D, g, own)
  PROVE  Placed(v, D2, g, own)
<1>1. g.loc \in Places /\ g.loc[1] \in Clusters
  BY DEF Placed, Loc, Places
<1>2. Live(D2) = Live(D) /\ At(D2, g.loc) = At(D, g.loc)
  BY <1>1, ClearedSame
<1>3. \A s \in 1..Slots : At(D2, <<g.loc[1], s>>) = At(D, <<g.loc[1], s>>)
  <2> SUFFICES ASSUME NEW s \in 1..Slots
               PROVE  At(D2, <<g.loc[1], s>>) = At(D, <<g.loc[1], s>>)
    OBVIOUS
  <2>1. <<g.loc[1], s>> \in Places /\ <<g.loc[1], s>>[1] # c
    BY <1>1 DEF Places
  <2> QED
    BY <2>1, ClearedSame
<1> QED
  BY <1>2, <1>3 DEF Placed

\* A cluster of the chain that is being built.
OwnWriteOK(disk, D, D2, own, rank, lev, cw, h, c) ==
  /\ Sound(View, disk, D, {h}, {}, {}, {}, cw, own, rank, lev)
  /\ own[h] # 0 /\ c \in Clusters /\ Held(View, c) /\ own[c] = h
  /\ \A y \in Clusters : y # c => D2[y] = D[y]
  /\ \A s \in 1..Slots : At(D2, <<c, s>>) = EndMark
LEMMA OwnWrite ==
  ASSUME NEW disk, NEW own, NEW rank, NEW lev, NEW cw, NEW h, NEW c, NEW D2,
         OwnWriteOK(disk, data, D2, own, rank, lev, cw, h, c)
  PROVE  /\ Cleared(data, D2, c)
         /\ Sound(View, disk, D2, {h}, {}, {}, {}, cw, own, rank, lev)
         /\ h \notin Named(data) /\ own[h] = h /\ rank[h] = 0
         /\ h \in Clusters /\ Held(View, h)
<1> USE DEF OwnWriteOK
<1>1. Shape(View, data, {h}, {}, own, rank, lev)
  BY DEF Sound
<1>2. h \in Clusters /\ Held(View, h) /\ own[h] = h /\ rank[h] = 0 /\ h \notin Named(data)
  BY <1>1 DEF Shape, HeadsFirst
<1>3. h # 0 /\ h \notin DirHeads(data)
  BY <1>2, Heads, Values
<1>4. \A l \in Live(data) : l[1] # c
  BY <1>1, <1>3 DEF Shape, DirsAreDirs
<1>5. \A l \in Live(data) : At(data, l).start # h
  BY <1>1, <1>2, <1>3, StartNamed DEF Shape
<1>6. \A y \in Clusters : y # c => D2[y] = data[y]
  OBVIOUS
<1>7. Cleared(data, D2, c)
  BY <1>4, <1>6 DEF Cleared
<1>8. WriteOK(View, data, D2, {}, {}, own, c)
  BY <1>3, <1>5, <1>7 DEF WriteOK
<1> QED
  BY <1>2, <1>6, <1>7, <1>8, SoundWrite

LEMMA WriteClusterTree ==
  ASSUME TypeInv, Quiet, TreeNow, WriteCluster
  PROVE  TreeNow' /\ suspect' = {} /\ ~crashed'
<1> DEFINE x == FileData(f.payload, f.index)
           D2 == [data EXCEPT ![f.c] = x]
<1>1. pc = "data" /\ Keep /\ pc \in Building
  BY DEF WriteCluster, Building
<1>2. /\ NoFault /\ data' = D2
      /\ IF f.index < f.cnt THEN Same("next") ELSE Same("entry")
  BY NoFailures DEF WriteCluster, Quiet
<1>3. View' = View /\ fat' = fat /\ cwd' = cwd
  BY <1>1, SameView DEF Keep
<1>4. PICK own, rank, lev :
        CallIs(View, fat[1], data, pc, f, cwd, own, rank, lev)
  BY DEF TreeNow, TreeIn
<1>5. /\ Sound(View, fat[1], data, {f.first} \ {0}, {}, {}, {}, cwd, own, rank, lev)
      /\ f.first # 0 => own[f.first] # 0
      /\ AtData(View, data, f, own, rank, lev, f.index - 1)
  BY <1>1, <1>4, BuildCall
<1>6. /\ Aim(data, f, own, lev) /\ Placed(View, data, f, own)
      /\ f.c \in Clusters /\ Held(View, f.c)
      /\ own[f.c] = f.first /\ rank[f.c] = f.index - 1
      /\ ChainIs(View, f, own, rank, f.cnt)
      /\ Filled(View, data, f, own, rank, f.index - 1)
      /\ f.first \in Clusters /\ f.first # 0 /\ f.dir \in Named(data)
  BY <1>5, Heads, Values DEF AtData, ChainIs, Aim
<1>7. /\ f.kind = "write" /\ f.index \in 1..f.cnt /\ f.cnt \in Nat
      /\ f.loc \in Loc
  BY <1>1, Bounds, FrameFields DEF TypeInv, FrameOK
<1>8. {f.first} \ {0} = {f.first}
  BY <1>6
<1>9. Sound(View, fat[1], data, {f.first}, {}, {}, {}, cwd, own, rank, lev)
  BY <1>5, <1>8
<1>10. ASSUME NEW s \in 1..Slots PROVE At(D2, <<f.c, s>>) = EndMark
  <2>1. D2[f.c] = x
    BY <1>6, TypeInvData DEF DataOK
  <2>2. D2[f.c].kind # "dir"
    BY <2>1 DEF FileData
  <2> QED
    BY <2>2 DEF At, EmptySlots
<1>11. /\ Cleared(data, D2, f.c) /\ D2[f.c] = x
       /\ Sound(View, fat[1], D2, {f.first}, {}, {}, {}, cwd, own, rank, lev)
       /\ f.first \notin Named(data)
  <2>1. D2[f.c] = x /\ \A y \in Clusters : y # f.c => D2[y] = data[y]
    BY <1>6, TypeInvData DEF DataOK
  <2> HIDE DEF D2, x
  <2>2. OwnWriteOK(fat[1], data, D2, own, rank, lev, cwd, f.first, f.c)
    BY <2>1, <1>5, <1>6, <1>9, <1>10 DEF OwnWriteOK
  <2> QED
    BY <2>1, <2>2, OwnWrite
<1>12. Filled(View, D2, f, own, rank, f.index)
  <2> SUFFICES ASSUME NEW c \in Clusters, Held(View, c), own[c] = f.first,
                      rank[c] < f.index
               PROVE  D2[c] = FileData(f.payload, rank[c] + 1)
    BY DEF Filled
  <2>1. rank[c] \in Nat /\ f.index \in Nat
    BY <1>7, <1>9 DEF Sound, Shape, Witness
  <2>2. CASE c = f.c
    <3>1. rank[c] + 1 = f.index
      BY <2>1, <2>2, <1>6
    <3> QED
      BY <3>1, <2>2, <1>11
  <2>3. CASE c # f.c
    <3>1. rank[c] # f.index - 1
      BY <2>3, <1>6, <1>9 DEF Sound, Shape, OnePlace
    <3>2. rank[c] < f.index - 1
      BY <3>1, <2>1
    <3>3. D2[c] = data[c]
      BY <2>3, <1>11 DEF Cleared
    <3> QED
      BY <3>2, <3>3, <1>6 DEF Filled
  <2> QED
    BY <2>2, <2>3
<1>13. Aim(D2, f, own, lev) /\ Placed(View, D2, f, own)
  <2>1. f.loc[1] # f.c
    BY <1>6, <1>11 DEF Placed
  <2> HIDE DEF D2
  <2> QED
    BY <2>1, <1>6, <1>7, <1>11, AimCleared, PlacedCleared
<1> HIDE DEF D2
<1>14. CASE f.index < f.cnt
  <2>1. f' = f /\ pc' = "next" /\ pc' \in Building
    BY <1>2, <1>14 DEF Same, Goto, Building
  <2>2. AtData(View, D2, f, own, rank, lev, f.index)
    BY <1>6, <1>12, <1>13 DEF AtData
  <2>3. CallIs(View, fat[1], D2, "next", f, cwd, own, rank, lev)
    BY <2>1, <2>2, <1>5, <1>8, <1>11, BuildCall
  <2>4. CallIs(View', fat'[1], data', pc', f', cwd', own, rank, lev)
    BY <2>1, <2>3, <1>2, <1>3
  <2> QED
    BY <2>4, <1>2, TreeIsNow, QuietStays
<1>15. CASE ~(f.index < f.cnt)
  <2>1. f' = f /\ pc' = "entry" /\ pc' \in Building
    BY <1>2, <1>15 DEF Same, Goto, Building
  <2>2. f.index = f.cnt /\ f.cnt # 0
    BY <1>7, <1>15
  <2>3. AtEntry(View, D2, f, own, rank, lev)
    BY <2>2, <1>6, <1>7, <1>12, <1>13 DEF AtEntry
  <2>4. CallIs(View, fat[1], D2, "entry", f, cwd, own, rank, lev)
    BY <2>1, <2>3, <1>5, <1>8, <1>11, BuildCall
  <2>5. CallIs(View', fat'[1], data', pc', f', cwd', own, rank, lev)
    BY <2>1, <2>4, <1>2, <1>3
  <2> QED
    BY <2>5, <1>2, TreeIsNow, QuietStays
<1> QED
  BY <1>14, <1>15

LEMMA NextClusterTree ==
  ASSUME TypeInv, Quiet, TreeNow, NextCluster
  PROVE  TreeNow' /\ suspect' = {} /\ ~crashed'
<1>1. pc = "next" /\ Rest /\ cwd' = cwd /\ NoFault /\ pc \in Building
  BY KeepIsRest DEF NextCluster, Building
<1>2. PICK own, rank, lev :
        CallIs(View, fat[1], data, pc, f, cwd, own, rank, lev)
  BY DEF TreeNow, TreeIn
<1>3. /\ Sound(View, fat[1], data, {f.first} \ {0}, {}, {}, {}, cwd, own, rank, lev)
      /\ f.first # 0 => own[f.first] # 0
      /\ AtData(View, data, f, own, rank, lev, f.index)
  BY <1>1, <1>2, BuildCall
<1>4. /\ Shape(View, data, {f.first} \ {0}, {}, own, rank, lev)
      /\ View \in [Clusters -> FatVal]
  BY <1>3, ViewType DEF Sound
<1>5. /\ Aim(data, f, own, lev) /\ Placed(View, data, f, own)
      /\ f.c \in Clusters /\ Held(View, f.c)
      /\ own[f.c] = f.first /\ rank[f.c] = f.index - 1
      /\ ChainIs(View, f, own, rank, f.cnt)
      /\ Filled(View, data, f, own, rank, f.index)
  BY <1>3 DEF AtData
<1>6. /\ f.index \in 1..f.cnt /\ f.cnt \in Nat /\ f.index < f.cnt
      /\ f \in Frame
  BY <1>1, Bounds, FrameFields DEF TypeInv, TypeOK, FrameOK
<1>7. View[f.c] \in Clusters
  <2>1. View[f.c] # Eoc
    BY <1>5, <1>6 DEF ChainIs
  <2>2. View[f.c] \in Clusters \cup {Free, Eoc}
    BY <1>4, <1>5 DEF FatVal
  <2> QED
    BY <2>1, <2>2, <1>5 DEF Held
<1> DEFINE d == View[f.c]
<1>8. Held(View, d) /\ own[d] = f.first /\ rank[d] = f.index
  <2>1. Held(View, d) /\ own[d] = own[f.c] /\ rank[d] = rank[f.c] + 1
    BY <1>4, <1>5, <1>7 DEF Shape, Chained
  <2> QED
    BY <2>1, <1>5, <1>6
<1>9. f' = [f EXCEPT !.c = d, !.index = @ + 1] /\ pc' = "data"
  <2>1. NextOf(View, f.c) = d /\ d # 0
    BY <1>5, <1>7, NextOfIs, Values
  <2> QED
    BY <2>1 DEF NextCluster, Goto
<1>10. /\ Alike(f, f') /\ f'.first = f.first /\ f'.c = d
       /\ f'.index = f.index + 1 /\ f'.cnt = f.cnt /\ f'.payload = f.payload
  BY <1>6, <1>9 DEF Frame, Alike
<1>11. f'.index - 1 = f.index
  BY <1>6, <1>10
<1>12. AtData(View, data, f', own, rank, lev, f.index)
  <2>1. Aim(data, f', own, lev) /\ Placed(View, data, f', own)
    BY <1>5, <1>10, AlikeSame
  <2>2. ChainIs(View, f', own, rank, f'.cnt)
    BY <1>5, <1>10 DEF ChainIs
  <2>3. Filled(View, data, f', own, rank, f.index)
    BY <1>5, <1>10 DEF Filled
  <2> QED
    BY <2>1, <2>2, <2>3, <1>7, <1>8, <1>10, <1>11 DEF AtData
<1>13. AtData(View', data', f', own, rank, lev, f'.index - 1)
  BY <1>1, <1>11, <1>12 DEF Rest
<1>14. /\ Sound(View', fat'[1], data', {f'.first} \ {0}, {}, {}, {}, cwd', own, rank, lev)
       /\ f'.first # 0 => own[f'.first] # 0
  BY <1>1, <1>3, <1>10 DEF Rest
<1>15. pc' = "data" /\ pc' \in Building
  BY <1>9 DEF Building
<1>16. CallIs(View', fat'[1], data', pc', f', cwd', own, rank, lev)
  BY <1>13, <1>14, <1>15, BuildCall
<1> QED
  BY <1>1, <1>16, TreeIsNow, QuietStays

LEMMA InitDirTree ==
  ASSUME TypeInv, Quiet, TreeNow, InitDir
  PROVE  TreeNow' /\ suspect' = {} /\ ~crashed'
<1> DEFINE x == DirData(IF f.dir = Root THEN 0 ELSE f.dir, EmptySlots)
           D2 == [data EXCEPT ![f.first] = x]
<1>1. pc = "dirinit" /\ Keep /\ pc \in Building
  BY DEF InitDir, Building
<1>2. NoFault /\ data' = D2 /\ Same("entry")
  BY NoFailures DEF InitDir, Quiet
<1>3. View' = View /\ fat' = fat /\ cwd' = cwd
  BY <1>1, SameView DEF Keep
<1>4. PICK own, rank, lev :
        CallIs(View, fat[1], data, pc, f, cwd, own, rank, lev)
  BY DEF TreeNow, TreeIn
<1>5. /\ Sound(View, fat[1], data, {f.first} \ {0}, {}, {}, {}, cwd, own, rank, lev)
      /\ f.first # 0 => own[f.first] # 0
      /\ AtDirinit(View, data, f, own, rank, lev)
  BY <1>1, <1>4, BuildCall
<1>6. /\ Aim(data, f, own, lev) /\ Placed(View, data, f, own)
      /\ ChainIs(View, f, own, rank, 1) /\ f.kind = "mkdir"
      /\ f.first \in Clusters /\ f.first # 0 /\ f.dir \in Named(data)
      /\ f.loc \in Loc
  BY <1>5, Heads, Values, FrameFields DEF AtDirinit, ChainIs, Aim
<1>7. {f.first} \ {0} = {f.first}
  BY <1>6
<1>8. Sound(View, fat[1], data, {f.first}, {}, {}, {}, cwd, own, rank, lev)
  BY <1>5, <1>7
<1>9. D2[f.first] = x
  BY <1>6, TypeInvData DEF DataOK
<1>10. EmptyDir(D2, f.first)
  BY <1>9 DEF EmptyDir, DirData
<1>11. \A s \in 1..Slots : At(D2, <<f.first, s>>) = EndMark
  BY <1>10 DEF EmptyDir, At, EmptySlots
<1>12. /\ Cleared(data, D2, f.first)
       /\ Sound(View, fat[1], D2, {f.first}, {}, {}, {}, cwd, own, rank, lev)
       /\ f.first \notin Named(data) /\ own[f.first] = f.first
  <2>1. own[f.first] # 0 /\ DataOK
    BY <1>5, <1>6, TypeInvData
  <2>2. own[f.first] = f.first /\ Held(View, f.first)
    <3>1. f.first \in {f.first}
      OBVIOUS
    <3> QED
      BY <3>1, <2>1, <1>8 DEF Sound, Shape, HeadsFirst
  <2>3. \A y \in Clusters : y # f.first => D2[y] = data[y]
    BY <2>1 DEF DataOK
  <2> HIDE DEF D2, x
  <2>4. OwnWriteOK(fat[1], data, D2, own, rank, lev, cwd, f.first, f.first)
    BY <2>1, <2>2, <2>3, <1>6, <1>8, <1>11 DEF OwnWriteOK
  <2> QED
    BY <2>2, <2>4, OwnWrite
<1>13. Aim(D2, f, own, lev) /\ Placed(View, D2, f, own)
  <2>1. f.loc[1] # f.first
    BY <1>6, <1>12 DEF Placed
  <2> HIDE DEF D2
  <2> QED
    BY <2>1, <1>6, <1>12, AimCleared, PlacedCleared
<1> HIDE DEF D2
<1>14. f' = f /\ pc' = "entry" /\ pc' \in Building
  BY <1>2 DEF Same, Goto, Building
<1>15. AtEntry(View, D2, f, own, rank, lev)
  BY <1>6, <1>10, <1>13 DEF AtEntry
<1>16. CallIs(View, fat[1], D2, "entry", f, cwd, own, rank, lev)
  BY <1>5, <1>7, <1>12, <1>14, <1>15, BuildCall
<1>17. CallIs(View', fat'[1], data', pc', f', cwd', own, rank, lev)
  BY <1>2, <1>3, <1>14, <1>16
<1> QED
  BY <1>2, <1>17, TreeIsNow, QuietStays
-----------------------------------------------------------------------------
(* The entry is written, and the mark behind it.                            *)

EntryMade == IF f.kind = "mkdir" THEN Entry(f.name, TRUE, f.first, 0)
             ELSE Entry(f.name, FALSE, f.first, f.cnt)

\* The slot is free and the chain is whole.
EntryReady(D, own, rank, lev) ==
  /\ f.loc \in Places \ Live(D)
  /\ Held(View, f.loc[1]) /\ own[f.loc[1]] = f.dir
  /\ f.dir \in DirHeads(D) /\ lev[f.dir] < MaxDepth
  /\ \A s \in 1..Slots : s < f.loc[2] => At(D, <<f.loc[1], s>>) # EndMark
  /\ \A l \in Live(D) : own[l[1]] = f.dir => At(D, l).name # f.name
  /\ IF f.kind = "write"
     THEN IF f.cnt = 0 THEN f.first = 0
          ELSE /\ ChainIs(View, f, own, rank, f.cnt)
               /\ Filled(View, D, f, own, rank, f.cnt)
     ELSE ChainIs(View, f, own, rank, 1) /\ EmptyDir(D, f.first)

StoredFrom(D, P, own, rank, lev) ==
  /\ Sound(View, fat[1], D, P, {}, {}, {}, cwd, own, rank, lev)
  /\ f.first = 0 \/ (f.first \in P /\ own[f.first] # 0)
  /\ EntryReady(D, own, rank, lev)

LEMMA FileReady ==
  ASSUME TypeInv, NEW D, NEW own, NEW rank, NEW lev,
         EntryReady(D, own, rank, lev), f.kind = "write"
  PROVE  \E p \in Payloads :
           IF f.cnt = 0 THEN f.first = 0
           ELSE f.first # 0 /\ FileIs(View, D, own, rank, f.first, p, f.cnt)
<1>1. f.payload \in Payloads
  BY DEF TypeInv, FrameOK
<1>2. CASE f.cnt = 0
  BY <1>1, <1>2 DEF EntryReady
<1>3. CASE f.cnt # 0
  <2>1. /\ ChainIs(View, f, own, rank, f.cnt)
        /\ Filled(View, D, f, own, rank, f.cnt)
    BY <1>3 DEF EntryReady
  <2>2. FileIs(View, D, own, rank, f.first, f.payload, f.cnt)
    BY <2>1 DEF ChainIs, Filled, FileIs
  <2> QED
    BY <1>1, <1>3, <2>1, <2>2, Values DEF ChainIs
<1> QED
  BY <1>2, <1>3

LEMMA DirReady ==
  ASSUME NEW D, NEW P, NEW own, NEW rank, NEW lev,
         StoredFrom(D, P, own, rank, lev), f.kind # "write"
  PROVE  /\ f.first # 0 /\ D[f.first].kind = "dir" /\ View[f.first] \notin Clusters
         /\ \A c \in Clusters : (Held(View, c) /\ own[c] = f.first) => c = f.first
<1>1. /\ ChainIs(View, f, own, rank, 1) /\ EmptyDir(D, f.first)
      /\ Shape(View, D, P, {}, own, rank, lev)
  BY DEF EntryReady, StoredFrom, Sound
<1>2. f.first \in Clusters /\ f.first # 0
  BY <1>1, Values DEF ChainIs
<1>3. f.first \in P /\ own[f.first] # 0
  BY <1>2 DEF StoredFrom
<1>4. own[f.first] = f.first /\ rank[f.first] = 0 /\ Held(View, f.first)
  BY <1>1, <1>3 DEF Shape, HeadsFirst
<1>5. \A c \in Clusters : (Held(View, c) /\ own[c] = f.first) =>
        rank[c] = 0 /\ View[c] = Eoc
  <2>1. \A c \in Clusters : rank[c] \in Nat
    BY <1>1 DEF Shape, Witness
  <2> QED
    BY <2>1, <1>1 DEF ChainIs
<1>6. View[f.first] = Eoc
  BY <1>2, <1>4, <1>5
<1>7. \A c \in Clusters : (Held(View, c) /\ own[c] = f.first) => c = f.first
  BY <1>1, <1>2, <1>4, <1>5 DEF Shape, OnePlace
<1> QED
  BY <1>1, <1>2, <1>6, <1>7, Values DEF EmptyDir

LEMMA SoundMade ==
  ASSUME NEW D, NEW P, NEW own, NEW rank, NEW lev,
         StoredFrom(D, P, own, rank, lev),
         NEW e, NEW D2, Replaced(D, D2, f.loc, e), NEW lev2,
         StoreOK(View, D, P, own, rank, lev, f.loc, e, f.first, lev2),
         NEW Q, Q = P \ {f.first}
  PROVE  /\ Sound(View, fat[1], D2, Q, {}, {f.first}, {}, cwd, own, rank, lev2)
         /\ DirHeads(D) \subseteq DirHeads(D2)
<1>1. /\ Sound(View, fat[1], D, P, {}, {}, {}, cwd, own, rank, lev)
      /\ f.loc \in Places \ Live(D)
  BY DEF StoredFrom, EntryReady
<1>2. {f.first} = {} \cup {f.first}
  OBVIOUS
<1> QED
  BY <1>1, <1>2, SoundStore

LEMMA EntryStored ==
  ASSUME TypeInv, pc = "entry", NEW D, NEW P, NEW own, NEW rank, NEW lev,
         StoredFrom(D, P, own, rank, lev),
         NEW D2, Replaced(D, D2, f.loc, EntryMade), NEW Q, Q = P \ {f.first}
  PROVE  /\ \E lev2 : Sound(View, fat[1], D2, Q, {}, {f.first}, {}, cwd,
                            own, rank, lev2)
         /\ DirHeads(D) \subseteq DirHeads(D2)
<1> DEFINE e == EntryMade
           lev2 == IF f.kind = "mkdir"
                   THEN [lev EXCEPT ![f.first] = lev[own[f.loc[1]]] + 1] ELSE lev
<1>1. f.kind \in {"write", "mkdir"}
  <2>1. pc \in Storing
    BY DEF Storing
  <2> QED
    BY <2>1 DEF TypeInv, FrameOK
<1>2. /\ e.tag = "live" /\ e.start = f.first /\ e.name = f.name
      /\ e.dir <=> f.kind = "mkdir"
      /\ f.kind # "mkdir" => e.len = f.cnt
  BY DEF EntryMade, Entry
<1>3. Sound(View, fat[1], D, P, {}, {}, {}, cwd, own, rank, lev)
  BY DEF StoredFrom
<1>4. EntryReady(D, own, rank, lev) /\ (f.first = 0 \/ (f.first \in P /\ own[f.first] # 0))
  BY DEF StoredFrom
<1> HIDE DEF e
<1>5. CASE f.kind = "mkdir"
  <2>1. /\ f.first # 0 /\ D[f.first].kind = "dir" /\ View[f.first] \notin Clusters
        /\ \A c \in Clusters : (Held(View, c) /\ own[c] = f.first) => c = f.first
    BY <1>5, DirReady
  <2>2. lev2 = [lev EXCEPT ![f.first] = lev[own[f.loc[1]]] + 1]
    BY <1>5
  <2> HIDE DEF lev2
  <2>3. StoreOK(View, D, P, own, rank, lev, f.loc, e, f.first, lev2)
    BY <1>2, <1>4, <1>5, <2>1, <2>2 DEF EntryReady, StoreOK
  <2>4. Replaced(D, D2, f.loc, e)
    BY DEF e
  <2> QED
    BY <2>3, <2>4, SoundMade
<1>6. CASE f.kind = "write"
  <2>1. lev2 = lev
    BY <1>6
  <2>2. \E p \in Payloads :
          IF f.cnt = 0 THEN f.first = 0
          ELSE f.first # 0 /\ FileIs(View, D, own, rank, f.first, p, f.cnt)
    BY <1>4, <1>6, FileReady
  <2> HIDE DEF lev2
  <2>3. StoreOK(View, D, P, own, rank, lev, f.loc, e, f.first, lev2)
    BY <1>2, <1>4, <1>6, <2>1, <2>2 DEF EntryReady, StoreOK
  <2>4. Replaced(D, D2, f.loc, e)
    BY DEF e
  <2> QED
    BY <2>3, <2>4, SoundMade
<1> QED
  BY <1>1, <1>5, <1>6

\* What the entry replaces is to be released.
LEMMA StoredTree ==
  ASSUME TypeInv, pc = "entry", NEW D, NEW P, NEW own, NEW rank, NEW lev,
         StoredFrom(D, P, own, rank, lev), Replaced(D, data', f.loc, EntryMade),
         {f.old} \ {0} = P \ {f.first}, f.old # 0 => own[f.old] # 0,
         f.mark => /\ View[f.loc[1]] = Eoc
                   /\ \A t \in 1..Slots :
                        t > f.loc[2] => At(data', <<f.loc[1], t>>) = EndMark,
         View' = View, fat' = fat, cwd' = cwd, f' = f,
         pc' = IF f.mark THEN "mark" ELSE "flush"
  PROVE  TreeNow'
<1>1. /\ \E lev2 : Sound(View, fat[1], data', {f.old} \ {0}, {}, {f.first}, {},
                         cwd, own, rank, lev2)
      /\ DirHeads(D) \subseteq DirHeads(data')
  BY EntryStored
<1>2. PICK lev2 : Sound(View, fat[1], data', {f.old} \ {0}, {}, {f.first}, {},
                        cwd, own, rank, lev2)
  BY <1>1
<1>3. /\ f.loc[1] \in Clusters /\ own[f.loc[1]] = f.dir /\ f.dir \in DirHeads(D)
  BY DEF StoredFrom, EntryReady, Places
<1>4. f.mark => AtMark(View, data', f, own)
  BY <1>1, <1>3 DEF AtMark
<1>5. pc' \in {"mark", "flush"} /\ (pc' = "mark" => f.mark)
  OBVIOUS
<1>6. AtStored(data', f, own)
  <2>1. f.loc \in Places /\ At(data', f.loc) = EntryMade
    BY DEF StoredFrom, EntryReady, Replaced
  <2>2. /\ EntryMade.tag = "live" /\ EntryMade.start = f.first
        /\ EntryMade.name = f.name
    BY DEF EntryMade, Entry
  <2>3. pc \in Storing
    BY DEF Storing
  <2>4. f.kind \in {"write", "mkdir"}
    BY <2>3 DEF TypeInv, FrameOK
  <2> QED
    BY <2>1, <2>2, <2>4, <1>3 DEF AtStored, Live
<1>7. CallIs(View, fat[1], data', pc', f, cwd, own, rank, lev2)
  BY <1>2, <1>4, <1>5, <1>6, FlushCall
<1>8. CallIs(View', fat'[1], data', pc', f', cwd', own, rank, lev2)
  BY <1>7
<1> QED
  BY <1>8, TreeIsNow

LEMMA WriteEntryTree ==
  ASSUME TypeInv, Quiet, TreeNow, WriteEntry
  PROVE  TreeNow' /\ suspect' = {} /\ ~crashed'
<1>1. pc = "entry" /\ Keep /\ pc \in Building
  BY DEF WriteEntry, Building
<1>2. /\ NoFault /\ data' = PutSlot(f.loc, EntryMade) /\ f' = f
      /\ pc' = IF f.mark THEN "mark" ELSE "flush"
  BY NoFailures DEF WriteEntry, EntryMade, Quiet, Same, Goto
<1>3. View' = View /\ fat' = fat /\ cwd' = cwd
  BY <1>1, SameView DEF Keep
<1>4. PICK own, rank, lev :
        CallIs(View, fat[1], data, pc, f, cwd, own, rank, lev)
  BY DEF TreeNow, TreeIn
<1>5. /\ Sound(View, fat[1], data, {f.first} \ {0}, {}, {}, {}, cwd, own, rank, lev)
      /\ f.first # 0 => own[f.first] # 0
      /\ AtEntry(View, data, f, own, rank, lev)
  BY <1>1, <1>4, BuildCall
<1>6. /\ Shape(View, data, {f.first} \ {0}, {}, own, rank, lev)
      /\ cwd \in DirHeads(data) /\ OneName(data)
      /\ MarksLast(View, data, own)
      /\ HeadsFirst(View, data, {f.first} \ {0}, own, rank)
      /\ View \in [Clusters -> FatVal]
  BY <1>5, ViewType DEF Sound, Shape
<1>7. /\ Aim(data, f, own, lev) /\ Placed(View, data, f, own)
      /\ f.loc[1] \in Clusters /\ Held(View, f.loc[1]) /\ own[f.loc[1]] = f.dir
      /\ f.dir \in DirHeads(data)
  BY <1>5 DEF AtEntry, Aim, Placed
<1>8. f.loc \in Places /\ f.loc = <<f.loc[1], f.loc[2]>> /\ f.loc[2] \in 1..Slots
  BY <1>7, FrameFields DEF Loc, Places
<1>9. Replaced(data, data', f.loc, EntryMade)
  BY <1>2, <1>8, TypeInvData, PutIsReplaced
<1>10. f.first = 0 \/ (f.first \in {f.first} \ {0} /\ own[f.first] # 0)
  BY <1>5
<1>11. CASE f.loc \notin Live(data)
  <2>1. f.old = 0 /\ (f.mark <=> At(data, f.loc) = EndMark)
    BY <1>7, <1>11 DEF Placed
  <2>2. EntryReady(data, own, rank, lev)
    <3>1. \A l \in Live(data) : own[l[1]] = f.dir => At(data, l).name # f.name
      BY <1>7, <1>11 DEF Aim
    <3>2. f.loc \in Places \ Live(data) /\ lev[f.dir] < MaxDepth
      BY <1>7, <1>8, <1>11 DEF Aim
    <3>3. \A s \in 1..Slots : s < f.loc[2] => At(data, <<f.loc[1], s>>) # EndMark
      BY <1>7 DEF Placed
    <3> QED
      BY <3>1, <3>2, <3>3, <1>5, <1>7 DEF AtEntry, EntryReady
  <2>3. StoredFrom(data, {f.first} \ {0}, own, rank, lev)
    BY <2>2, <1>5, <1>10 DEF StoredFrom
  <2>4. ASSUME f.mark
        PROVE  /\ View[f.loc[1]] = Eoc
               /\ \A t \in 1..Slots :
                    t > f.loc[2] => At(data', <<f.loc[1], t>>) = EndMark
    <3>1. At(data, <<f.loc[1], f.loc[2]>>) = EndMark
      BY <2>1, <2>4, <1>8
    <3>2. View[f.loc[1]] \notin Clusters
      BY <3>1, <1>6, <1>7, <1>8 DEF MarksLast
    <3>3. View[f.loc[1]] \in Clusters \cup {Free, Eoc}
      BY <1>6, <1>7 DEF FatVal
    <3>4. ASSUME NEW t \in 1..Slots, t > f.loc[2]
          PROVE  At(data', <<f.loc[1], t>>) = EndMark
      <4>1. At(data, <<f.loc[1], t>>) = EndMark
        BY <3>1, <3>4, <1>6, <1>7, <1>8 DEF MarksLast
      <4>2. <<f.loc[1], t>> \in Places /\ <<f.loc[1], t>> # f.loc
        BY <3>4, <1>7, <1>8 DEF Places
      <4> QED
        BY <4>1, <4>2, <1>9 DEF Replaced
    <3> QED
      BY <3>2, <3>3, <3>4, <1>7 DEF Held
  <2>5. {f.old} \ {0} = ({f.first} \ {0}) \ {f.first}
    BY <2>1
  <2>6. f.old # 0 => own[f.old] # 0
    BY <2>1
  <2> QED
    BY <2>3, <2>4, <2>5, <2>6, <1>1, <1>2, <1>3, <1>9, StoredTree, QuietStays
<1>12. CASE f.loc \in Live(data)
  <2>1. /\ f.kind = "write" /\ ~At(data, f.loc).dir
        /\ At(data, f.loc).start = f.old /\ At(data, f.loc).name = f.name
        /\ ~f.mark
    BY <1>7, <1>12 DEF Placed
  <2> DEFINE D1 == PutSlot(f.loc, Deleted)
             P1 == ({f.first} \ {0}) \cup ({f.old} \ {0})
  <2>2. Replaced(data, D1, f.loc, Deleted)
    BY <1>8, TypeInvData, PutIsReplaced
  <2> HIDE DEF D1
  <2>3. /\ Sound(View, fat[1], D1, P1, {}, {}, {}, cwd, own, rank, lev)
        /\ Live(D1) = Live(data) \ {f.loc}
        /\ DirHeads(D1) = DirHeads(data) \ {f.old}
    BY <1>5, <1>12, <2>1, <2>2, SoundErase
  <2>4. /\ \A l \in Places : At(D1, l) = IF l = f.loc THEN Deleted ELSE At(data, l)
        /\ \A x \in Clusters : x # f.loc[1] => D1[x] = data[x]
        /\ D1[f.loc[1]].kind = "dir"
    BY <2>2 DEF Replaced
  <2>5. Replaced(D1, data', f.loc, EntryMade)
    BY <2>4, <1>9 DEF Replaced
  <2>6. f.old = 0 \/ (f.old \in Named(data) /\ f.old \notin DirHeads(data))
    BY <1>6, <1>12, <2>1, FilesAreNotDirs, LiveType, TypeInvData DEF Cl0, Named
  <2>7. /\ f.old # 0 => own[f.old] = f.old
        /\ f.first # 0 => (f.first \notin Named(data) /\ own[f.first] = f.first)
    BY <2>6, <1>5, <1>6 DEF HeadsFirst
  <2>8. EntryReady(D1, own, rank, lev)
    <3>1. f.loc \in Places \ Live(D1)
      BY <2>3, <1>8
    <3>2. f.dir \in DirHeads(D1) /\ lev[f.dir] < MaxDepth
      <4>1. f.dir # 0
        BY <1>7, Heads, Values
      <4> QED
        BY <4>1, <2>3, <2>6, <1>7 DEF Aim
    <3>3. ASSUME NEW s \in 1..Slots, s < f.loc[2]
          PROVE  At(D1, <<f.loc[1], s>>) # EndMark
      <4>1. <<f.loc[1], s>> \in Places /\ <<f.loc[1], s>> # f.loc
        BY <3>3, <1>7, <1>8 DEF Places
      <4>2. At(data, <<f.loc[1], s>>) # EndMark
        BY <3>3, <1>7 DEF Placed
      <4> QED
        BY <4>1, <4>2, <2>4
    <3>4. ASSUME NEW l \in Live(D1), own[l[1]] = f.dir
          PROVE  At(D1, l).name # f.name
      <4>1. l \in Live(data) /\ l # f.loc /\ l \in Places
        BY <2>3 DEF Live
      <4>2. At(data, l).name # f.name
        BY <4>1, <3>4, <1>7 DEF Aim
      <4> QED
        BY <4>1, <4>2, <2>4
    <3>5. /\ f.cnt = 0 => f.first = 0
          /\ f.cnt # 0 => /\ ChainIs(View, f, own, rank, f.cnt)
                          /\ Filled(View, data, f, own, rank, f.cnt)
      BY <1>5, <2>1 DEF AtEntry
    <3>6. f.cnt # 0 => Filled(View, D1, f, own, rank, f.cnt)
      <4> SUFFICES ASSUME f.cnt # 0, NEW c \in Clusters, Held(View, c),
                          own[c] = f.first, rank[c] < f.cnt
                   PROVE  D1[c] = FileData(f.payload, rank[c] + 1)
        BY DEF Filled
      <4>1. f.first # 0
        BY <3>5, Values DEF ChainIs
      <4>2. own[c] \notin DirHeads(data)
        BY <4>1, <2>7, Heads
      <4>3. c # f.loc[1]
        BY <4>2, <1>7
      <4> QED
        BY <4>3, <3>5, <2>4 DEF Filled
    <3> QED
      BY <3>1, <3>2, <3>3, <3>4, <3>5, <3>6, <2>1, <1>7 DEF EntryReady
  <2>9. StoredFrom(D1, P1, own, rank, lev)
    BY <2>3, <2>8, <1>10 DEF StoredFrom
  <2>10. {f.old} \ {0} = P1 \ {f.first}
    BY <2>6, <2>7
  <2>11. f.old # 0 => own[f.old] # 0
    BY <2>7
  <2> HIDE DEF P1
  <2> QED
    BY <2>1, <2>5, <2>9, <2>10, <2>11, <1>1, <1>2, <1>3, StoredTree, QuietStays
<1> QED
  BY <1>11, <1>12

LEMMA TombstoneTree ==
  ASSUME TypeInv, Quiet, TreeNow, Tombstone
  PROVE  TreeNow' /\ suspect' = {} /\ ~crashed'
<1>1. pc = "tombstone" /\ Keep
  BY DEF Tombstone
<1>2. NoFault /\ data' = PutSlot(f.loc, Deleted) /\ f' = f /\ pc' = "flush"
  BY NoFailures DEF Tombstone, Quiet, Same, Goto
<1>3. View' = View /\ fat' = fat /\ cwd' = cwd
  BY <1>1, SameView DEF Keep
<1>4. PICK own, rank, lev :
        CallIs(View, fat[1], data, pc, f, cwd, own, rank, lev)
  BY DEF TreeNow, TreeIn
<1>5. /\ Sound(View, fat[1], data, {}, {}, {}, {}, cwd, own, rank, lev)
      /\ AtTombstone(data, f, cwd, own)
  BY <1>1, <1>4, SearchCall
<1>6. /\ f.loc \in Live(data) /\ At(data, f.loc).start = f.old
      /\ At(data, f.loc).dir =>
           f.old # cwd /\ \A l \in Live(data) : own[l[1]] # f.old
      /\ f.loc \in Places /\ f.first = 0
  BY <1>5 DEF AtTombstone, Live
<1>7. Replaced(data, data', f.loc, Deleted)
  BY <1>2, <1>6, TypeInvData, PutIsReplaced
<1>8. /\ Sound(View, fat[1], data', {} \cup ({f.old} \ {0}), {}, {}, {}, cwd,
               own, rank, lev)
      /\ Named(data') = Named(data) \ {f.old}
  BY <1>5, <1>6, <1>7, SoundErase
<1>9. {} \cup ({f.old} \ {0}) = {f.old} \ {0}
  OBVIOUS
<1>10. Sound(View, fat[1], data', {f.old} \ {0}, {}, {}, {}, cwd, own, rank, lev)
  BY <1>8, <1>9
<1>11. Sound(View, fat[1], data', {f.old} \ {0}, {}, {f.first}, {}, cwd,
             own, rank, lev)
  BY <1>10 DEF Sound, Settled
<1>12. f.old # 0 => own[f.old] # 0
  <2>1. f.old # 0 => f.old \in Named(data)
    BY <1>6, LiveType, TypeInvData DEF Cl0, Named
  <2> QED
    BY <2>1, <1>5 DEF Sound, Shape, HeadsFirst
<1>13. CallIs(View, fat[1], data', "flush", f, cwd, own, rank, lev)
  BY <1>6, <1>11, <1>12, FlushCall DEF AtStored
<1>14. CallIs(View', fat'[1], data', pc', f', cwd', own, rank, lev)
  BY <1>2, <1>3, <1>13
<1> QED
  BY <1>2, <1>14, TreeIsNow, QuietStays
-----------------------------------------------------------------------------
(* The mark, the flushes, the release of a chain.                           *)

LEMMA PutSame ==
  ASSUME DataOK, NEW loc \in Places, data[loc[1]].kind = "dir"
  PROVE  PutSlot(loc, At(data, loc)) = data
<1> DEFINE c == loc[1]
           e == At(data, loc)
<1>1. c \in Clusters /\ loc[2] \in 1..Slots
  BY DEF Places
<1>2. data \in [Clusters -> Content]
  BY DEF DataOK
<1>3. /\ Raw.kind = "raw"
      /\ data[c] \in Content
  BY <1>1, <1>2 DEF Raw
<1>4. data[c] \in [kind: {"dir"}, parent: Cl0, slot: [1..Slots -> Slot]]
  BY <1>3 DEF Content
<1>5. SlotsOf(c) = data[c].slot /\ ParentOf(c) = data[c].parent
  BY DEF SlotsOf, ParentOf
<1>6. [SlotsOf(c) EXCEPT ![loc[2]] = e] = data[c].slot
  <2>1. e = data[c].slot[loc[2]]
    BY DEF At
  <2> QED
    BY <2>1, <1>1, <1>4, <1>5
<1>7. DirData(ParentOf(c), [SlotsOf(c) EXCEPT ![loc[2]] = e]) = data[c]
  <2>1. data[c] = [kind |-> "dir", parent |-> data[c].parent, slot |-> data[c].slot]
    BY <1>4
  <2> QED
    BY <2>1, <1>5, <1>6 DEF DirData
<1>8. PutSlot(loc, e) = [data EXCEPT ![c] = data[c]]
  BY <1>7 DEF PutSlot
<1> QED
  BY <1>1, <1>2, <1>8

LEMMA MarkEndTree ==
  ASSUME TypeInv, Quiet, TreeNow, MarkEnd
  PROVE  TreeNow' /\ suspect' = {} /\ ~crashed'
<1>1. pc = "mark" /\ Keep
  BY DEF MarkEnd
<1>2. View' = View /\ fat' = fat /\ cwd' = cwd
  BY <1>1, SameView DEF Keep
<1>3. PICK own, rank, lev :
        CallIs(View, fat[1], data, pc, f, cwd, own, rank, lev)
  BY DEF TreeNow, TreeIn
<1>4. /\ Sound(View, fat[1], data, {f.old} \ {0}, {}, {f.first}, {}, cwd,
               own, rank, lev)
      /\ f.old # 0 => own[f.old] # 0
      /\ AtMark(View, data, f, own) /\ AtStored(data, f, own)
  BY <1>1, <1>3, FlushCall
<1>5. /\ f.loc[1] \in Clusters /\ own[f.loc[1]] \in DirHeads(data)
      /\ View[f.loc[1]] = Eoc /\ f.loc[2] \in 1..Slots
      /\ \A t \in 1..Slots : t > f.loc[2] => At(data, <<f.loc[1], t>>) = EndMark
  BY <1>4, FrameFields DEF AtMark, Loc
<1>6. data' = data /\ NoFault /\ f' = f /\ pc' = "flush"
  <2>1. CASE f.loc[2] < Slots
    <3> DEFINE nxt == <<f.loc[1], f.loc[2] + 1>>
    <3>1. f.loc[2] + 1 \in 1..Slots /\ f.loc[2] + 1 > f.loc[2]
      BY <2>1, <1>5, Bounds
    <3>2. nxt \in Places /\ nxt[1] = f.loc[1] /\ At(data, nxt) = EndMark
      BY <3>1, <1>5 DEF Places
    <3>3. data[nxt[1]].kind = "dir"
      BY <3>2, <1>4, <1>5, Values DEF Sound, Shape, DirsAreDirs, Held
    <3>4. PutSlot(nxt, EndMark) = data
      BY <3>2, <3>3, PutSame, TypeInvData
    <3>5. nxt[1] # 0
      BY <3>2, <1>5, Values
    <3>6. \E w \in BOOLEAN : /\ WriteSlot(nxt, EndMark, w)
                             /\ IF w THEN Same("flush") ELSE Return("fail")
      BY <2>1, <3>5 DEF MarkEnd
    <3> HIDE DEF nxt
    <3> QED
      BY <3>4, <3>6, NoFailures DEF Quiet, Same, Goto
  <2>2. CASE ~(f.loc[2] < Slots)
    <3>1. NextOf(View, f.loc[1]) = 0
      BY <1>5, Values DEF NextOf
    <3>2. <<NextOf(View, f.loc[1]), 1>>[1] = 0
      BY <3>1
    <3> QED
      BY <2>2, <3>2 DEF MarkEnd, Same, Goto
  <2> QED
    BY <2>1, <2>2
<1>7. CallIs(View, fat[1], data, "flush", f, cwd, own, rank, lev)
  BY <1>4, FlushCall
<1>8. CallIs(View', fat'[1], data', pc', f', cwd', own, rank, lev)
  BY <1>2, <1>6, <1>7
<1> QED
  BY <1>6, <1>8, TreeIsNow, QuietStays

LEMMA Flushed1Tree ==
  ASSUME TypeInv, CacheInv, Quiet, TreeNow, Flushed1
  PROVE  TreeNow' /\ suspect' = {} /\ ~crashed'
<1>1. pc = "flush" /\ Clean /\ NoFault /\ Rest /\ cwd' = cwd
  BY KeepIsRest DEF Flushed1
<1>2. PICK own, rank, lev :
        CallIs(View, fat[1], data, pc, f, cwd, own, rank, lev)
  BY DEF TreeNow, TreeIn
<1>3. /\ Sound(View, fat[1], data, {f.old} \ {0}, {}, {f.first}, {}, cwd,
               own, rank, lev)
      /\ f.old # 0 => own[f.old] # 0
  BY <1>1, <1>2, FlushCall
<1>4. Sound(View, fat[1], data, {f.old} \ {0}, {}, {}, {}, cwd, own, rank, lev)
  BY <1>1, <1>3, CleanSettles
<1>5. CASE f.old = 0
  <2>1. pc' = "idle"
    BY <1>5 DEF Flushed1, Return
  <2>2. {f.old} \ {0} = {}
    BY <1>5
  <2>3. Sound(View, fat[1], data, {}, {}, {}, {}, cwd, own, rank, lev)
    BY <2>2, <1>4
  <2>4. cwd' \in DirHeads(data)
    BY <2>3, <1>1 DEF Sound
  <2> QED
    BY <2>1, <2>3, <2>4, <1>1, QuietTree, QuietStays
<1>6. CASE f.old # 0
  <2>1. FreeChain(f.old, "done") /\ f.old \in Cl0
    BY <1>6, FrameFields DEF Flushed1
  <2> QED
    BY <2>1, <1>1, <1>3, <1>4, ReleaseTree, QuietStays
<1> QED
  BY <1>5, <1>6

LEMMA QuietReturnTree ==
  ASSUME TypeInv, Quiet, TreeNow, Flushed2 \/ ReadDone
  PROVE  TreeNow' /\ suspect' = {} /\ ~crashed'
<1>1. /\ pc \in {"read", "flush2"} /\ NoFault /\ Rest /\ cwd' = cwd
      /\ pc' = "idle"
  BY KeepIsRest DEF Flushed2, ReadDone, Return
<1>2. PICK own, rank, lev :
        CallIs(View, fat[1], data, pc, f, cwd, own, rank, lev)
  BY DEF TreeNow, TreeIn
<1>3. Sound(View, fat[1], data, {}, {}, {}, {}, cwd, own, rank, lev)
  BY <1>1, <1>2, QuietCall
<1>4. cwd' \in DirHeads(data)
  BY <1>1, <1>3 DEF Sound
<1> QED
  BY <1>1, <1>3, <1>4, QuietTree, QuietStays

LEMMA FreeClusterTree ==
  ASSUME TypeInv, Quiet, TreeNow, FreeCluster
  PROVE  TreeNow' /\ suspect' = {} /\ ~crashed'
<1>1. pc = "free" /\ SetEntry(Free) /\ Need = f.c
  BY DEF FreeCluster, Need
<1>2. /\ f.c \in Clusters /\ View' = [View EXCEPT ![f.c] = Free]
      /\ fat' = fat /\ data' = data /\ cwd' = cwd /\ NoFault
  BY <1>1, SetView
<1>3. PICK own, rank, lev :
        CallIs(View, fat[1], data, pc, f, cwd, own, rank, lev)
  BY DEF TreeNow, TreeIn
<1>4. /\ Sound(View, fat[1], data, {f.c}, {}, {}, {}, cwd, own, rank, lev)
      /\ AtFree(f, own)
  BY <1>1, <1>3, FreeCall
<1>5. View \in [Clusters -> FatVal] /\ own[f.c] = 0 /\ f.then \in {"done", "fail"}
  BY <1>4, ViewType DEF AtFree
<1> DEFINE d == View[f.c]
           Q == ({f.c} \ {f.c}) \cup ({d} \cap Clusters)
           v2 == View'
<1>6. Sound(v2, fat[1], data, Q, {}, {}, {}, cwd, own, rank, lev)
  <2>1. f.c \in {f.c} /\ v2 = [View EXCEPT ![f.c] = Free]
    BY <1>2
  <2>2. Q = ({f.c} \ {f.c}) \cup ({View[f.c]} \cap Clusters)
    OBVIOUS
  <2> HIDE DEF Q, v2, d
  <2> QED
    BY <2>1, <2>2, <1>4, <1>5, SoundFree
<1>7. CASE d \in Clusters
  <2>1. NextOf(View, f.c) = d /\ d # 0
    BY <1>2, <1>7, Values DEF NextOf
  <2>2. f' = [f EXCEPT !.c = d] /\ pc' = "free"
    BY <2>1 DEF FreeCluster, Goto
  <2>3. f'.c = d /\ f'.then = f.then
    BY <2>2 DEF TypeInv, TypeOK, Frame
  <2>4. own[d] = 0
    BY <1>2, <1>4, <1>5, <1>7 DEF Sound, Shape, Chained
  <2>5. AtFree(f', own)
    BY <2>3, <2>4, <1>5, <1>7 DEF AtFree
  <2>6. Q = {d}
    BY <1>7
  <2>7. Sound(View', fat'[1], data', {f'.c}, {}, {}, {}, cwd', own, rank, lev)
    BY <2>3, <2>6, <1>2, <1>6
  <2>8. CallIs(View', fat'[1], data', pc', f', cwd', own, rank, lev)
    BY <2>2, <2>5, <2>7, FreeCall
  <2> QED
    BY <2>8, <1>2, TreeIsNow, QuietStays
<1>8. CASE d \notin Clusters
  <2>1. NextOf(View, f.c) = 0
    BY <1>8 DEF NextOf
  <2>2. FreeReturns
    BY <2>1 DEF FreeCluster
  <2>3. pc' \in {"idle", "flush2"}
    BY <2>2, <1>5 DEF FreeReturns, Same, Goto, Return
  <2>4. Q = {}
    BY <1>8
  <2>5. Sound(View', fat'[1], data', {}, {}, {}, {}, cwd', own, rank, lev)
    BY <2>4, <1>2, <1>6
  <2>6. CallIs(View', fat'[1], data', pc', f', cwd', own, rank, lev)
    BY <2>3, <2>5, QuietCall
  <2> QED
    BY <2>6, <1>2, TreeIsNow, QuietStays
<1> QED
  BY <1>7, <1>8
-----------------------------------------------------------------------------
(* Every step keeps the tree.                                               *)

\* Faults are counted, never forgotten.
Counting == faults' = faults \/ (faults' = faults + 1 /\ FaultKinds # {})

LEMMA FaultsCount ==
  ASSUME [Next]_vars
  PROVE  Counting
<1>1. NoFault => Counting
  BY DEF NoFault, faultVars, Counting
<1>2. \A k, who : Fault(k, who) => Counting
  BY DEF Fault, MayFault, Counting
<1>3. \A new, w : WriteData(new, w) => Counting
  BY <1>1, <1>2 DEF WriteData
<1>4. \A loc, e, w : WriteSlot(loc, e, w) => Counting
  BY <1>2, <1>3 DEF WriteSlot
<1>5. LoadFails \/ FlushFails => Counting
  BY <1>2 DEF LoadFails, FlushFails, ReadFails
<1>6. \A x : SetEntry(x) => Counting
  BY <1>1 DEF SetEntry
<1>7. /\ \A hops : WalkFails(hops) => Counting
      /\ \A d, n, hits : Lookup(d, n, hits) => Counting
  <2>1. \A hops : WalkFails(hops) => Counting
    BY <1>2 DEF WalkFails
  <2>2. \A d, n, hits : Lookup(d, n, hits) => faults' = faults \/ Counting
    BY <2>1 DEF Lookup
  <2> QED
    BY <2>1, <2>2 DEF Counting
<1>8. CASE Call
  <2>1. \A d, n, p, k : Write(d, n, p, k) => Counting
    BY <1>7 DEF Write
  <2>2. \A d, n : CreateDir(d, n) \/ Delete(d, n) => Counting
    BY <1>7 DEF CreateDir, Delete
  <2>4. \A d, n : DeleteDir(d, n) => Counting
    BY <1>7, DeleteDirIs
  <2>3. \A d : ChangeDir(d) \/ Read(d) \/ Sync => Counting
    BY <1>1 DEF ChangeDir, Read, Sync
  <2> QED
    BY <1>8, <2>1, <2>2, <2>3, <2>4 DEF Call
<1>9. CASE AllocStep
  BY <1>9, <1>1, <1>5, <1>6 DEF AllocStep, FindFree, FindSkips, DiskFull,
     MarkEoc,
                                LinkPrev, LinkFails, Unlink, Seal, SealFails
<1>10. CASE ExtendStep
  BY <1>10, <1>1, <1>2, <1>3, <1>5, <1>6, ZenonT(30)
     DEF ExtendStep, FindSlot, SlotFails, Extend, ExtendFails, LinkDir,
         LinkDirFails, SealDir, SealDirFails, ClearDir, UnlinkDir, ExtendDone
<1>11. CASE StoreStep
  BY <1>11, <1>1, <1>3, <1>4, <1>5
     DEF StoreStep, WriteCluster, NextCluster, NextFails, InitDir, WriteEntry,
         Tombstone, MarkEnd, MarkSkips
<1>12. CASE FlushStep
  BY <1>12, <1>1, <1>5 DEF FlushStep, FlushCopy, LoadSector, Flushed1,
     Flushed2,
                           Aborted, FlushError
<1>13. CASE FreeStep
  BY <1>13, <1>1, <1>5, <1>6 DEF FreeStep, FreeCluster, FreeLosesTail,
     FreeLast,
                                 FreeError
<1>14. CASE ReadDone \/ ReadError
  BY <1>14, <1>1, <1>5 DEF ReadDone, ReadError
<1>15. CASE Crash
  BY <1>15 DEF Crash, MayFault, Counting
<1>16. CASE UNCHANGED vars
  BY <1>16 DEF vars, Counting
<1> QED
  BY <1>8, <1>9, <1>10, <1>11, <1>12, <1>13, <1>14, <1>15, <1>16 DEF Next, Step

\* The labels and the steps of a call that a transfer has failed.
LEMMA NoneFailed ==
  ASSUME TypeInv, Quiet, TreeNow
  PROVE  /\ ~FindSkips /\ ~LinkFails /\ ~Unlink /\ ~SealFails
         /\ ~SlotFails /\ ~ExtendFails /\ ~LinkDirFails /\ ~SealDirFails
         /\ ~UnlinkDir /\ ~NextFails /\ ~MarkSkips /\ ~Aborted /\ ~FlushError
         /\ ~FreeLosesTail /\ ~FreeLast /\ ~FreeError /\ ~ReadError /\ ~Crash
<1>1. ~FlushFails /\ ~LoadFails /\ ~Crash
  BY NoFailures DEF Quiet
<1>2. pc \notin {"unlink", "xundo", "freelast", "abort"}
  BY DEF TreeNow, TreeIn, CallIs
<1> QED
  BY <1>1, <1>2
     DEF FindSkips, LinkFails, Unlink, SealFails, SlotFails, ExtendFails,
         LinkDirFails, SealDirFails, UnlinkDir, NextFails, MarkSkips, Aborted, FlushError, FreeLosesTail,
         FreeLast, FreeError, ReadError

LEMMA NextTree ==
  ASSUME TypeInv, CacheInv, TreeInv, [Next]_vars
  PROVE  TreeInv'
<1> SUFFICES ASSUME faults' = 0
             PROVE  suspect' = {} /\ ~crashed' /\ TreeNow'
  BY DEF TreeInv, TreeNow
<1>1. Quiet /\ TreeNow
  <2>1. faults \in Nat
    BY Bounds DEF TypeInv, TypeOK
  <2>2. faults = 0
    BY <2>1, FaultsCount DEF Counting
  <2> QED
    BY <2>2 DEF Quiet, TreeInv, TreeNow
<1>2. CASE Call
  BY <1>1, <1>2, CallTree
<1>3. CASE AllocStep
  BY <1>1, <1>3, NoneFailed, FindFreeTree, DiskFullTree, MarkEocTree,
     LinkPrevTree, SealTree DEF AllocStep
<1>4. CASE ExtendStep
  BY <1>1, <1>4, NoneFailed, FindSlotTree, ExtendTree, LinkDirTree,
     SealDirTree,
     ClearDirTree, ExtendDoneTree DEF ExtendStep
<1>5. CASE StoreStep
  BY <1>1, <1>5, NoneFailed, WriteClusterTree, NextClusterTree, InitDirTree,
     WriteEntryTree, TombstoneTree, MarkEndTree DEF StoreStep
<1>6. CASE FlushStep
  <2>1. CASE FlushCopy \/ LoadSector
    <3>1. NoFault
      BY <2>1 DEF FlushCopy, LoadSector
    <3> QED
      BY <2>1, <3>1, <1>1, MoveTree, QuietStays
  <2> QED
    BY <2>1, <1>1, <1>6, NoneFailed, Flushed1Tree, QuietReturnTree
       DEF FlushStep
<1>7. CASE FreeStep
  BY <1>1, <1>7, NoneFailed, FreeClusterTree DEF FreeStep
<1>8. CASE ReadDone \/ ReadError
  BY <1>1, <1>8, NoneFailed, QuietReturnTree
<1>9. CASE UNCHANGED vars
  <2>1. View' = View
    BY <1>9 DEF vars, View, Cached
  <2>2. /\ fat' = fat /\ data' = data /\ pc' = pc /\ f' = f /\ cwd' = cwd
        /\ suspect' = suspect /\ crashed' = crashed
    BY <1>9 DEF vars
  <2> QED
    BY <2>1, <2>2, <1>1 DEF Quiet, TreeNow
<1> QED
  BY <1>1, <1>2, <1>3, <1>4, <1>5, <1>6, <1>7, <1>8, <1>9, NoneFailed
     DEF Next, Step

\* The formatted disk holds no entry.
LEMMA InitEmpty ==
  ASSUME Init
  PROVE  /\ Live(data) = {}
         /\ \A l \in Places : At(data, l) = EndMark
<1>1. data = [c \in Clusters |->
                IF c = Root THEN DirData(0, EmptySlots) ELSE Raw]
  BY DEF Init
<1>2. \A l \in Places : At(data, l) = EndMark
  <2> SUFFICES ASSUME NEW l \in Places PROVE At(data, l) = EndMark
    OBVIOUS
  <2>1. l[1] \in Clusters /\ l[2] \in 1..Slots
    BY DEF Places
  <2>2. data[l[1]] = DirData(0, EmptySlots) \/ data[l[1]] = Raw
    BY <2>1, <1>1
  <2>3. /\ DirData(0, EmptySlots).slot = EmptySlots
        /\ DirData(0, EmptySlots).kind = "dir" /\ Raw.kind = "raw"
    BY DEF DirData, Raw
  <2>4. EmptySlots[l[2]] = EndMark
    BY <2>1 DEF EmptySlots
  <2> QED
    BY <2>2, <2>3, <2>4 DEF At
<1> QED
  BY <1>2 DEF Live, EndMark

LEMMA InitTree == Init => TreeInv
<1> SUFFICES ASSUME Init PROVE TreeInv
  OBVIOUS
<1> DEFINE v == [c \in Clusters |-> IF c = Root THEN Eoc ELSE Free]
           own == [c \in Clusters |-> Root]
           nil == [c \in Clusters |-> 0]
<1>1. /\ pc = "idle" /\ suspect = {} /\ ~crashed /\ cwd = Root
      /\ data = [c \in Clusters |->
                   IF c = Root THEN DirData(0, EmptySlots) ELSE Raw]
      /\ fat[1] = v
  BY FirstCopy DEF Init
<1>2. View = v
  <2>1. \A c \in Clusters : ~Cached(c)
    BY SectorsFromOne DEF Init, Cached
  <2> QED
    BY <2>1, <1>1 DEF View
<1>3. Root \in Clusters /\ 0 \notin Clusters /\ Free = 0 /\ MaxDepth \in Nat
      /\ Eoc \notin Clusters /\ Eoc # Free
  BY Bounds, Values DEF Free
<1>4. \A l \in Places : At(data, l) = EndMark
  BY InitEmpty
<1>5. Live(data) = {}
  BY InitEmpty
<1>6. Named(data) = {Root} /\ DirHeads(data) = {Root}
  BY <1>3, <1>5 DEF Named, DirHeads
<1>7. \A c \in Clusters : v[c] = (IF c = Root THEN Eoc ELSE Free)
  OBVIOUS
<1>8. \A c \in Clusters : (Held(v, c) <=> c = Root) /\ v[c] \notin Clusters
  BY <1>3, <1>7 DEF Held
<1>9. \A c \in Clusters : own[c] = Root /\ nil[c] = 0
  OBVIOUS
<1>10. Witness(own, nil, nil)
  BY <1>3 DEF Witness, Cl0
<1>11. data[Root].kind = "dir"
  BY <1>1, <1>3 DEF DirData
<1> HIDE DEF v, own, nil
<1>12. Chained(v, own, nil) /\ OneBefore(v) /\ OnePlace(v, own, nil)
       /\ OwnersHeld(v, own) /\ HeadsFirst(v, data, {}, own, nil)
       /\ Reached(v, data, {})
  BY <1>3, <1>6, <1>8, <1>9 DEF Chained, OneBefore, OnePlace, OwnersHeld,
                                HeadsFirst, Reached
<1>13. OneName(data) /\ FilesWhole(v, data, own, nil)
       /\ DirsAreDirs(v, data, {}, own) /\ Levelled(data, own, nil)
       /\ NamesOnce(data, own)
  BY <1>3, <1>5, <1>6, <1>8, <1>9, <1>11
     DEF OneName, FilesWhole, DirsAreDirs, Levelled, NamesOnce
<1>14. MarksLast(v, data, own)
  <2>1. \A c \in Clusters, s \in 1..Slots : At(data, <<c, s>>) = EndMark
    BY <1>4 DEF Places
  <2> QED
    BY <2>1, <1>8 DEF MarksLast
<1>15. Shape(v, data, {}, {}, own, nil, nil)
  BY <1>10, <1>12, <1>13, <1>14 DEF Shape
<1>16. Sound(View, fat[1], data, {}, {}, {}, {}, cwd, own, nil, nil)
  BY <1>1, <1>2, <1>6, <1>15 DEF Sound, Settled
<1>17. CallIs(View, fat[1], data, pc, f, cwd, own, nil, nil)
  BY <1>1, <1>16, QuietCall
<1> QED
  BY <1>1, <1>17 DEF TreeInv, TreeIn

-----------------------------------------------------------------------------
(* What the shape means for the properties of FatFs.                        *)

\* No place on a chain is missing before its end.
LEMMA RanksFilled ==
  ASSUME NEW v \in [Clusters -> FatVal], NEW D, NEW P, NEW U,
         NEW own, NEW rank, NEW lev, Shape(v, D, P, U, own, rank, lev),
         NEW h \in Named(D), NEW n \in Nat \ {0},
         \A c \in Clusters : (Held(v, c) /\ own[c] = h /\ rank[c] < n - 1) =>
           v[c] # Eoc
  PROVE  \A k \in 0..n - 1 : \E c \in Clusters :
           Held(v, c) /\ own[c] = h /\ rank[c] = k
<1> DEFINE Met(k) == \E c \in Clusters : Held(v, c) /\ own[c] = h /\ rank[c] = k
           S == {k \in Nat : k <= n - 1 => Met(k)}
<1>1. h \in Clusters /\ Held(v, h) /\ own[h] = h /\ rank[h] = 0
  BY DEF Shape, HeadsFirst
<1>2. 0 \in S
  BY <1>1
<1>3. ASSUME NEW k \in Nat, k \in S PROVE k + 1 \in S
  <2> SUFFICES ASSUME k + 1 <= n - 1 PROVE Met(k + 1)
    OBVIOUS
  <2>1. k <= n - 1 /\ k < n - 1
    OBVIOUS
  <2>2. PICK c \in Clusters : Held(v, c) /\ own[c] = h /\ rank[c] = k
    BY <1>3, <2>1
  <2>3. v[c] \in Clusters \cup {Free, Eoc}
    BY DEF FatVal
  <2>4. v[c] \in Clusters
    BY <2>1, <2>2, <2>3 DEF Held
  <2> QED
    BY <2>2, <2>4 DEF Shape, Chained
<1> HIDE DEF S
<1>4. \A k \in Nat : k \in S
  BY <1>2, <1>3, NatSetInduction
<1> QED
  BY <1>4 DEF S

\* A chain has an end.
LEMMA HasEnd ==
  ASSUME NEW v \in [Clusters -> FatVal], NEW D, NEW P, NEW U,
         NEW own, NEW rank, NEW lev, Shape(v, D, P, U, own, rank, lev),
         NEW h \in Named(D)
  PROVE  \E c \in Clusters : Held(v, c) /\ own[c] = h /\ v[c] = Eoc
<1> SUFFICES ASSUME \A c \in Clusters : (Held(v, c) /\ own[c] = h) => v[c] # Eoc
             PROVE  FALSE
  OBVIOUS
<1>1. MaxCluster \in Nat
  BY FatAssumption
<1> DEFINE n == MaxCluster + 2
<1>2. n \in Nat \ {0} /\ n - 1 = MaxCluster + 1 /\ n - 1 \in 0..n - 1
  BY <1>1
<1> HIDE DEF n
<1>3. \E c \in Clusters : Held(v, c) /\ own[c] = h /\ rank[c] = n - 1
  BY <1>2, RanksFilled
<1>4. PICK c \in Clusters : Held(v, c) /\ own[c] = h /\ rank[c] = MaxCluster + 1
  BY <1>2, <1>3
<1>5. rank[c] \in 0..MaxCluster
  BY <1>4, OwnedWalk
<1> QED
  BY <1>1, <1>4, <1>5

\* A view that agrees on a chain walks it alike.
LEMMA ChainSame ==
  ASSUME NEW v \in [Clusters -> FatVal], NEW D, NEW P, NEW U,
         NEW own, NEW rank, NEW lev, Shape(v, D, P, U, own, rank, lev),
         NEW h \in Named(D), NEW w,
         \A c \in Clusters : (Held(v, c) /\ own[c] = h) => w[c] = v[c]
  PROVE  \A i \in 0..MaxCluster : Chain(w, h)[i] = Chain(v, h)[i]
<1> DEFINE S == {n \in Nat : n <= MaxCluster => Chain(w, h)[n] = Chain(v, h)[n]}
<1>0. MaxCluster \in Nat
  BY FatAssumption
<1>1. 0 \in S
  BY ChainHops
<1>2. ASSUME NEW n \in Nat, n \in S PROVE n + 1 \in S
  <2> SUFFICES ASSUME n + 1 <= MaxCluster
               PROVE  Chain(w, h)[n + 1] = Chain(v, h)[n + 1]
    OBVIOUS
  <2>1. n + 1 \in 1..MaxCluster /\ (n + 1) - 1 = n /\ n \in 0..MaxCluster
    BY <1>0
  <2> DEFINE x == Chain(v, h)[n]
  <2>2. /\ Chain(v, h)[n + 1] = NextOf(v, x)
        /\ Chain(w, h)[n + 1] = NextOf(w, Chain(w, h)[n])
    BY <2>1, ChainHops
  <2>3. Chain(w, h)[n] = x
    BY <1>2, <2>1
  <2>4. NextOf(w, x) = NextOf(v, x)
    <3>1. CASE x = 0
      BY <3>1, Values DEF NextOf
    <3>2. CASE x # 0
      <4>1. x \in Clusters /\ Held(v, x) /\ own[x] = h
        BY <3>2, <2>1, HeadWalk
      <4> QED
        BY <4>1 DEF NextOf
    <3> QED
      BY <3>1, <3>2
  <2> QED
    BY <2>2, <2>3, <2>4
<1> HIDE DEF S
<1>3. \A n \in Nat : n \in S
  BY <1>1, <1>2, NatSetInduction
<1> QED
  BY <1>0, <1>3 DEF S

\* No chain starts at 0.
LEMMA NoChain ==
  ASSUME NEW v
  PROVE  ChainSet(v, 0) = {}
<1> DEFINE S == {n \in Nat : n <= MaxCluster => Chain(v, 0)[n] = 0}
<1>0. MaxCluster \in Nat
  BY FatAssumption
<1>1. 0 \in S
  BY ChainHops
<1>2. ASSUME NEW n \in Nat, n \in S PROVE n + 1 \in S
  <2> SUFFICES ASSUME n + 1 <= MaxCluster PROVE Chain(v, 0)[n + 1] = 0
    OBVIOUS
  <2>1. n + 1 \in 1..MaxCluster /\ (n + 1) - 1 = n /\ n <= MaxCluster
    BY <1>0
  <2>2. Chain(v, 0)[n + 1] = NextOf(v, Chain(v, 0)[n])
    BY <2>1, ChainHops
  <2> QED
    BY <2>1, <2>2, <1>2, Values DEF NextOf
<1> HIDE DEF S
<1>3. \A n \in Nat : n \in S
  BY <1>1, <1>2, NatSetInduction
<1>4. \A n \in 0..MaxCluster : Chain(v, 0)[n] = 0
  BY <1>0, <1>3 DEF S
<1> QED
  BY <1>4 DEF ChainSet

\* A file, seen through a view that agrees on its chain.
LEMMA FileWalk ==
  ASSUME NEW v \in [Clusters -> FatVal], NEW P, NEW U,
         NEW own, NEW rank, NEW lev, Shape(v, data, P, U, own, rank, lev),
         DataOK, NEW l \in Live(data), ~At(data, l).dir, NEW w,
         \A c \in Clusters :
           (Held(v, c) /\ own[c] = At(data, l).start) => w[c] = v[c]
  PROVE  Intact(w, At(data, l))
<1> DEFINE e == At(data, l)
           h == e.start
           n == e.len
<1>1. ~e.dir /\ n \in Nat
  BY LiveType, Bounds
<1>2. CASE n = 0
  <2>1. h = 0 /\ \E p \in Payloads : TRUE
    BY <1>1, <1>2 DEF Shape, FilesWhole
  <2>2. \A p \in Payloads : FileIntact(w, e, p)
    BY <1>2, <2>1 DEF FileIntact
  <2> QED
    BY <1>1, <2>1, <2>2 DEF Intact
<1>3. CASE n # 0
  <2>1. /\ h # 0 /\ h \in Named(data)
        /\ \E p \in Payloads : FileIs(v, data, own, rank, h, p, n)
    BY <1>1, <1>3, StartNamed DEF Shape, FilesWhole
  <2>2. PICK p \in Payloads : FileIs(v, data, own, rank, h, p, n)
    BY <2>1
  <2>3. n \in Nat \ {0}
    BY <1>1, <1>3
  <2>4. ASSUME NEW c \in Clusters, Held(v, c), own[c] = h
        PROVE  /\ data[c] = FileData(p, rank[c] + 1)
               /\ v[c] = Eoc <=> rank[c] = n - 1
               /\ rank[c] \in 0..MaxCluster /\ Chain(v, h)[rank[c]] = c
    BY <2>1, <2>2, <2>4, OwnedWalk DEF FileIs
  <2> HIDE DEF e, h, n
  <2>5. \A k \in 0..n - 1 : \E c \in Clusters :
          Held(v, c) /\ own[c] = h /\ rank[c] = k
    <3>1. \A c \in Clusters : (Held(v, c) /\ own[c] = h /\ rank[c] < n - 1) =>
            v[c] # Eoc
      <4> SUFFICES ASSUME NEW c \in Clusters, Held(v, c), own[c] = h,
                          rank[c] < n - 1, v[c] = Eoc
                   PROVE  FALSE
        OBVIOUS
      <4>1. rank[c] = n - 1
        BY <2>4
      <4> QED
        BY <4>1, <2>3
    <3> QED
      BY <2>1, <2>3, <3>1, RanksFilled
  <2>6. \A i \in 0..MaxCluster : Chain(w, h)[i] = Chain(v, h)[i]
    BY <2>1, ChainSame DEF e, h
  <2>7. ASSUME NEW k \in 0..n - 1
        PROVE  /\ Chain(w, h)[k] \in Clusters
               /\ Chain(w, h)[k] # 0
               /\ data[Chain(w, h)[k]] = FileData(p, k + 1)
               /\ k = n - 1 => w[Chain(w, h)[k]] = Eoc
    <3>1. PICK c \in Clusters : Held(v, c) /\ own[c] = h /\ rank[c] = k
      BY <2>5
    <3>2. Chain(w, h)[k] = c
      BY <3>1, <2>4, <2>6
    <3>3. w[c] = v[c]
      BY <3>1 DEF e, h
    <3> QED
      BY <3>1, <3>2, <3>3, <2>4, Values
  <2>8. \A i \in 1..n : /\ Chain(w, h)[i - 1] # 0
                        /\ data[Chain(w, h)[i - 1]] = FileData(p, i)
    <3> SUFFICES ASSUME NEW i \in 1..n
                 PROVE  /\ Chain(w, h)[i - 1] # 0
                        /\ data[Chain(w, h)[i - 1]] = FileData(p, i)
      OBVIOUS
    <3>1. i - 1 \in 0..n - 1 /\ (i - 1) + 1 = i
      BY <2>3
    <3> QED
      BY <3>1, <2>7
  <2>9. n - 1 \in 0..n - 1
    BY <2>3
  <2>10. FileIntact(w, e, p)
    BY <2>3, <2>7, <2>8, <2>9 DEF FileIntact, h, n
  <2> QED
    BY <1>1, <2>10 DEF Intact, e
<1> QED
  BY <1>2, <1>3

LEMMA DirWalk ==
  ASSUME NEW v \in [Clusters -> FatVal], NEW P,
         NEW own, NEW rank, NEW lev, Shape(v, data, P, {}, own, rank, lev),
         NEW d \in DirHeads(data)
  PROVE  DirIntact(v, d)
<1>1. d \in Named(data)
  BY Heads
<1>2. ChainSet(v, d) = {c \in Clusters : Held(v, c) /\ own[c] = d}
  BY <1>1, ChainSetIs
<1>3. \E c \in Clusters : Held(v, c) /\ own[c] = d /\ v[c] = Eoc
  BY <1>1, HasEnd
<1>4. \A c \in Clusters : (Held(v, c) /\ own[c] = d) => data[c].kind = "dir"
  BY DEF Shape, DirsAreDirs
<1> QED
  BY <1>2, <1>3, <1>4 DEF DirIntact, Held
-----------------------------------------------------------------------------
(* The properties of FatFs, as long as no transfer fails and power stays.   *)

LEMMA IdleSound ==
  ASSUME TreeInv, pc = "idle", faults = 0
  PROVE  \E own, rank, lev :
           Sound(View, fat[1], data, {}, {}, {}, {}, cwd, own, rank, lev)
  BY QuietCall DEF TreeInv, TreeIn

LEMMA SoundAreLocated == SoundIn(View) \subseteq Located(View)
  BY DEF SoundIn

LEMMA IntactInTree ==
  ASSUME TypeInv, TreeInv, faults = 0
  PROVE  EntriesIntact
<1> SUFFICES ASSUME pc = "idle"
             PROVE  /\ \A x \in Located(View) : Intact(View, x[3])
                    /\ DirIntact(View, Root)
  BY SoundAreLocated DEF EntriesIntact
<1>1. PICK own, rank, lev :
        Sound(View, fat[1], data, {}, {}, {}, {}, cwd, own, rank, lev)
  BY IdleSound
<1>2. /\ Shape(View, data, {}, {}, own, rank, lev)
      /\ View \in [Clusters -> FatVal] /\ DataOK
  BY <1>1, ViewType, TypeInvData DEF Sound
<1>3. \A d \in DirHeads(data) : DirIntact(View, d)
  BY <1>2, DirWalk
<1>4. ASSUME NEW l \in Live(data) PROVE Intact(View, At(data, l))
  <2>1. CASE At(data, l).dir
    <3>1. At(data, l).start \in DirHeads(data)
      BY <1>2, <2>1, StartNamed DEF Shape, OneName
    <3> QED
      BY <2>1, <3>1, <1>3 DEF Intact
  <2>2. CASE ~At(data, l).dir
    BY <2>2, <1>2, FileWalk
  <2> QED
    BY <2>1, <2>2
<1>5. \A x \in Located(View) : \E l \in Live(data) :
        x = <<own[l[1]], PosOf(rank, l), At(data, l)>>
  BY <1>2, TreeIs
<1>6. \A x \in Located(View) : \E l \in Live(data) : x[3] = At(data, l)
  BY <1>5
<1> QED
  BY <1>3, <1>4, <1>6, Heads

LEMMA NoCrossLinkInTree ==
  ASSUME TypeInv, TreeInv, faults = 0
  PROVE  NoCrossLink
<1> SUFFICES ASSUME pc = "idle"
             PROVE  \A x, y \in Located(View) :
                      LET cx == ChainSet(View, x[3].start)
                          cy == ChainSet(View, y[3].start)
                      IN  /\ x # y => cx \cap cy = {}
                          /\ cx \cap ChainSet(View, Root) = {}
  BY SoundAreLocated DEF NoCrossLink
<1>1. PICK own, rank, lev :
        Sound(View, fat[1], data, {}, {}, {}, {}, cwd, own, rank, lev)
  BY IdleSound
<1>2. /\ Shape(View, data, {}, {}, own, rank, lev) /\ OneName(data)
      /\ View \in [Clusters -> FatVal] /\ DataOK
  BY <1>1, ViewType, TypeInvData DEF Sound, Shape
<1>3. \A h \in Named(data) :
        ChainSet(View, h) = {c \in Clusters : Held(View, c) /\ own[c] = h}
  BY <1>2, ChainSetIs
<1>4. \A g, h \in Named(data) : g # h => ChainSet(View, g) \cap ChainSet(View, h) = {}
  BY <1>3
<1>5. ASSUME NEW l \in Live(data)
      PROVE  \/ ChainSet(View, At(data, l).start) = {}
             \/ At(data, l).start # 0 /\ At(data, l).start \in Named(data) \ {Root}
  BY <1>2, StartNamed, NoChain
<1> SUFFICES ASSUME NEW x \in Located(View), NEW y \in Located(View)
             PROVE  /\ x # y => ChainSet(View, x[3].start)
                                  \cap ChainSet(View, y[3].start) = {}
                    /\ ChainSet(View, x[3].start) \cap ChainSet(View, Root) = {}
  OBVIOUS
<1>6. PICK l \in Live(data) : x = <<own[l[1]], PosOf(rank, l), At(data, l)>>
  BY <1>2, TreeIs
<1>7. PICK m \in Live(data) : y = <<own[m[1]], PosOf(rank, m), At(data, m)>>
  BY <1>2, TreeIs
<1>8. x[3] = At(data, l) /\ y[3] = At(data, m) /\ (x # y => l # m)
  BY <1>6, <1>7
<1>9. Root \in Named(data)
  BY Heads
<1>10. ASSUME x # y
       PROVE  ChainSet(View, At(data, l).start) \cap ChainSet(View, At(data, m).start) = {}
  <2>1. At(data, l).start = 0 \/ At(data, l).start # At(data, m).start
    BY <1>2, <1>8, <1>10 DEF OneName
  <2> QED
    BY <2>1, <1>4, <1>5, NoChain
<1>11. ChainSet(View, At(data, l).start) \cap ChainSet(View, Root) = {}
  BY <1>4, <1>5, <1>9
<1> QED
  BY <1>8, <1>10, <1>11

\* Every allocated cluster is on a chain that an entry names.
LEMMA OwnedByName ==
  ASSUME NEW v \in [Clusters -> FatVal], NEW D, NEW U,
         NEW own, NEW rank, NEW lev, Shape(v, D, {}, U, own, rank, lev)
  PROVE  \A c \in Clusters : Held(v, c) => own[c] \in Named(D)
<1> DEFINE S == {n \in Nat : \A c \in Clusters :
                   (Held(v, c) /\ rank[c] = n) => own[c] \in Named(D)}
<1>1. rank \in [Clusters -> Nat]
  BY DEF Shape, Witness
<1>2. ASSUME NEW c \in Clusters, Held(v, c), c \notin Named(D)
      PROVE  \E p \in Clusters : /\ Held(v, p) /\ own[p] = own[c]
                                 /\ rank[c] = rank[p] + 1
  <2>1. PICK p \in Clusters : v[p] = c
    BY <1>2 DEF Shape, Reached
  <2> QED
    BY <2>1, Values DEF Shape, Chained, Held
<1>3. \A c \in Named(D) : own[c] = c
  BY DEF Shape, HeadsFirst
<1>4. 0 \in S
  <2> SUFFICES ASSUME NEW c \in Clusters, Held(v, c), rank[c] = 0
               PROVE  own[c] \in Named(D)
    OBVIOUS
  <2>1. c \in Named(D)
    <3> SUFFICES ASSUME c \notin Named(D) PROVE FALSE
      OBVIOUS
    <3>1. PICK p \in Clusters : rank[c] = rank[p] + 1
      BY <1>2
    <3> QED
      BY <3>1, <1>1
  <2> QED
    BY <2>1, <1>3
<1>5. ASSUME NEW n \in Nat, n \in S PROVE n + 1 \in S
  <2> SUFFICES ASSUME NEW c \in Clusters, Held(v, c), rank[c] = n + 1
               PROVE  own[c] \in Named(D)
    OBVIOUS
  <2>1. CASE c \in Named(D)
    BY <2>1, <1>3
  <2>2. CASE c \notin Named(D)
    <3>1. PICK p \in Clusters : /\ Held(v, p) /\ own[p] = own[c]
                                /\ rank[c] = rank[p] + 1
      BY <2>2, <1>2
    <3>2. rank[p] = n
      BY <3>1, <1>1
    <3> QED
      BY <3>1, <3>2, <1>5
  <2> QED
    BY <2>1, <2>2
<1> HIDE DEF S
<1>6. \A n \in Nat : n \in S
  BY <1>4, <1>5, NatSetInduction
<1> QED
  BY <1>1, <1>6 DEF S

LEMMA NoLeakInTree ==
  ASSUME TypeInv, TreeInv
  PROVE  NoLeak
<1> SUFFICES ASSUME pc = "idle", faults = 0
             PROVE  {c \in Clusters : View[c] # Free}
                      = ChainSet(View, Root)
                          \cup UNION {ChainSet(View, x[3].start) :
                                        x \in Located(View)}
  BY DEF NoLeak
<1>1. PICK own, rank, lev :
        Sound(View, fat[1], data, {}, {}, {}, {}, cwd, own, rank, lev)
  BY IdleSound
<1>2. /\ Shape(View, data, {}, {}, own, rank, lev) /\ OneName(data)
      /\ View \in [Clusters -> FatVal] /\ DataOK
  BY <1>1, ViewType, TypeInvData DEF Sound, Shape
<1>3. \A h \in Named(data) :
        ChainSet(View, h) = {c \in Clusters : Held(View, c) /\ own[c] = h}
  BY <1>2, ChainSetIs
<1>4. /\ \A x \in Located(View) : \E l \in Live(data) : x[3] = At(data, l)
      /\ \A l \in Live(data) : \E x \in Located(View) : x[3] = At(data, l)
  <2>1. \A x \in Located(View) : \E l \in Live(data) :
          x = <<own[l[1]], PosOf(rank, l), At(data, l)>>
    BY <1>2, TreeIs
  <2>2. \A l \in Live(data) :
          <<own[l[1]], PosOf(rank, l), At(data, l)>> \in Located(View)
    BY <1>2, TreeIs
  <2>3. \A x \in Located(View) : \E l \in Live(data) : x[3] = At(data, l)
    BY <2>1
  <2>4. ASSUME NEW l \in Live(data)
        PROVE  \E x \in Located(View) : x[3] = At(data, l)
    <3> DEFINE y == <<own[l[1]], PosOf(rank, l), At(data, l)>>
    <3>1. y \in Located(View) /\ y[3] = At(data, l)
      BY <2>2
    <3> QED
      BY <3>1
  <2> QED
    BY <2>3, <2>4
<1>5. ASSUME NEW c \in Clusters, View[c] # Free
      PROVE  c \in ChainSet(View, Root) \/ \E x \in Located(View) :
                                             c \in ChainSet(View, x[3].start)
  <2>1. own[c] \in Named(data) /\ Held(View, c)
    BY <1>2, <1>5, OwnedByName DEF Held
  <2>2. c \in ChainSet(View, own[c])
    BY <2>1, <1>3
  <2>3. own[c] = Root \/ \E l \in Live(data) : At(data, l).start = own[c]
    BY <2>1 DEF Named
  <2> QED
    BY <2>2, <2>3, <1>4
<1>6. ASSUME NEW c, c \in ChainSet(View, Root)
      PROVE  c \in Clusters /\ View[c] # Free
  BY <1>3, <1>6, Heads DEF Held
<1>7. ASSUME NEW x \in Located(View), NEW c, c \in ChainSet(View, x[3].start)
      PROVE  c \in Clusters /\ View[c] # Free
  <2>1. PICK l \in Live(data) : x[3] = At(data, l)
    BY <1>4
  <2>2. x[3].start \in Named(data)
    BY <2>1, <1>2, <1>7, StartNamed, NoChain
  <2> QED
    BY <2>2, <1>3, <1>7 DEF Held
<1> QED
  BY <1>5, <1>6, <1>7

LEMMA DirectoriesInTree ==
  ASSUME TypeInv, TreeInv
  PROVE  DirectoriesSound /\ CwdLive
<1> SUFFICES ASSUME faults = 0
             PROVE  /\ \A d \in LiveDirs(View) :
                         \A x \in Listing(View, d) \ Scan(View, d) :
                           x[2].tag # "live"
                    /\ \A x, y \in Located(View) :
                         (x[1] = y[1] /\ x[3].name = y[3].name) => x = y
                    /\ cwd \in LiveDirs(View)
  BY DEF DirectoriesSound, CwdLive
<1>1. PICK own, rank, lev :
        CallIs(View, fat[1], data, pc, f, cwd, own, rank, lev)
  BY DEF TreeInv, TreeIn
<1> DEFINE P == Pending(pc, f)
           U == Uncleared(pc, f)
<1>2. Shape(View, data, P, U, own, rank, lev) /\ cwd \in DirHeads(data)
  BY <1>1 DEF CallIs, Sound
<1> HIDE DEF P, U
<1>3. View \in [Clusters -> FatVal] /\ DataOK /\ NamesOnce(data, own)
  BY <1>2, ViewType, TypeInvData DEF Shape
<1>4. LiveDirs(View) = DirHeads(data)
  BY <1>2, <1>3, TreeIs
<1>5. \A d \in DirHeads(data) :
        \A x \in Listing(View, d) \ Scan(View, d) : x[2].tag # "live"
  BY <1>2, <1>3, LiveSlotsAre
<1>6. ASSUME NEW x \in Located(View), NEW y \in Located(View),
             x[1] = y[1], x[3].name = y[3].name
      PROVE  x = y
  <2>1. PICK l \in Live(data) : x = <<own[l[1]], PosOf(rank, l), At(data, l)>>
    BY <1>2, <1>3, TreeIs
  <2>2. PICK m \in Live(data) : y = <<own[m[1]], PosOf(rank, m), At(data, m)>>
    BY <1>2, <1>3, TreeIs
  <2>3. own[l[1]] = own[m[1]] /\ At(data, l).name = At(data, m).name
    BY <2>1, <2>2, <1>6
  <2> QED
    BY <2>1, <2>2, <2>3, <1>3 DEF NamesOnce
<1> QED
  BY <1>2, <1>4, <1>5, <1>6
-----------------------------------------------------------------------------
(* The disk shows the tree that the kernel shows.                           *)

\* w agrees with v on every chain that an entry names.
Agrees(w, v, own) ==
  \A c \in Clusters : (Held(v, c) /\ own[c] \in Named(data)) => w[c] = v[c]

LEMMA ListingSame ==
  ASSUME NEW w, NEW v, NEW d,
         \A i \in 0..MaxCluster : Chain(w, d)[i] = Chain(v, d)[i]
  PROVE  Listing(w, d) = Listing(v, d) /\ Entries(w, d) = Entries(v, d)
<1>1. Listing(w, d) = Listing(v, d)
  BY DEF Listing
<1>2. Scan(w, d) = Scan(v, d)
  BY <1>1 DEF Scan
<1> QED
  BY <1>1, <1>2 DEF Entries, LiveSlots

\* The entry at the end of a path.
LEMMA PathEntryIs ==
  ASSUME DataOK, NEW v \in [Clusters -> FatVal], NEW P, NEW U,
         NEW own, NEW rank, NEW lev, Shape(v, data, P, U, own, rank, lev),
         NEW x \in PathEntries(v)
  PROVE  x[2].dir \/ \E l \in Live(data) : x[2] = At(data, l)
<1>0. MaxDepth \in Nat
  BY FatAssumption
<1>1. PICK k \in 0..MaxDepth : x \in Levels(v)[k]
  BY PathEntriesAre
<1>2. CASE k = 0
  BY <1>1, <1>2, LevelsAre DEF RootEntry, Entry
<1>3. CASE k # 0
  <2>1. k \in 1..MaxDepth /\ k - 1 \in 0..MaxDepth
    BY <1>0, <1>3
  <2>2. PICK z \in Levels(v)[k - 1] :
          /\ z[2].dir
          /\ \E e \in Entries(v, z[2].start) : x = <<Append(z[1], e.name), e>>
    BY <1>1, <2>1, LevelsAre
  <2>3. z[2].start \in DirHeads(data)
    BY <2>1, <2>2, PathsLead
  <2>4. PICK y \in LiveSlots(v, z[2].start) : x[2] = y[2]
    BY <2>2 DEF Entries
  <2>5. PICK l \in Live(data) : y = <<PosOf(rank, l), At(data, l)>>
    BY <2>3, LiveSlotsAre
  <2> QED
    BY <2>4, <2>5
<1> QED
  BY <1>2, <1>3

LEMMA LevelsSame ==
  ASSUME DataOK, NEW v \in [Clusters -> FatVal], NEW P, NEW U,
         NEW own, NEW rank, NEW lev, Shape(v, data, P, U, own, rank, lev),
         NEW w, Agrees(w, v, own)
  PROVE  PathEntries(w) = PathEntries(v)
<1> DEFINE S == {k \in Nat : k <= MaxDepth => Levels(w)[k] = Levels(v)[k]}
<1>0. MaxDepth \in Nat
  BY FatAssumption
<1>1. ASSUME NEW d \in DirHeads(data)
      PROVE  Entries(w, d) = Entries(v, d)
  <2>1. d \in Named(data)
    BY Heads
  <2>2. \A c \in Clusters : (Held(v, c) /\ own[c] = d) => w[c] = v[c]
    BY <2>1 DEF Agrees
  <2>3. \A i \in 0..MaxCluster : Chain(w, d)[i] = Chain(v, d)[i]
    BY <2>1, <2>2, ChainSame
  <2> QED
    BY <2>3, ListingSame
<1>2. 0 \in S
  BY LevelsAre
<1>3. ASSUME NEW k \in Nat, k \in S PROVE k + 1 \in S
  <2> SUFFICES ASSUME k + 1 <= MaxDepth
               PROVE  Levels(w)[k + 1] = Levels(v)[k + 1]
    OBVIOUS
  <2>1. k + 1 \in 1..MaxDepth /\ (k + 1) - 1 = k /\ k \in 0..MaxDepth
    BY <1>0
  <2> DEFINE T == Levels(v)[k]
             Below(u, x) == {<<Append(x[1], e.name), e>> : e \in Entries(u, x[2].start)}
  <2>2. Levels(w)[k] = T
    BY <1>3, <2>1
  <2>3. /\ Levels(w)[k + 1] = UNION {Below(w, x) : x \in {y \in T : y[2].dir}}
        /\ Levels(v)[k + 1] = UNION {Below(v, x) : x \in {y \in T : y[2].dir}}
    BY <2>1, <2>2, LevelsAre
  <2>4. \A x \in {y \in T : y[2].dir} : Entries(w, x[2].start) = Entries(v, x[2].start)
    BY <1>1, <2>1, PathsLead
  <2>5. \A x \in {y \in T : y[2].dir} : Below(w, x) = Below(v, x)
    BY <2>4
  <2> HIDE DEF T, Below
  <2> QED
    BY <2>3, <2>5
<1> HIDE DEF S
<1>4. \A k \in Nat : k \in S
  BY <1>2, <1>3, NatSetInduction
<1>5. \A k \in 0..MaxDepth : Levels(w)[k] = Levels(v)[k]
  BY <1>0, <1>4 DEF S
<1>6. \A x : x \in PathEntries(w) <=> x \in PathEntries(v)
  BY <1>5, PathEntriesAre
<1>7. /\ PathEntries(w) \subseteq PathEntries(v)
      /\ PathEntries(v) \subseteq PathEntries(w)
  BY <1>6
<1> QED
  BY <1>7

\* The last cluster of a file.
LEMMA FileEnds ==
  ASSUME NEW v \in [Clusters -> FatVal], NEW P, NEW U,
         NEW own, NEW rank, NEW lev, Shape(v, data, P, U, own, rank, lev),
         DataOK, NEW l \in Live(data), ~At(data, l).dir, At(data, l).len # 0
  PROVE  /\ At(data, l).start \in Named(data)
         /\ At(data, l).len - 1 \in 0..MaxCluster
         /\ At(data, l).len \in Nat
         /\ Chain(v, At(data, l).start)[At(data, l).len - 1] \in Clusters
<1> DEFINE h == At(data, l).start
           n == At(data, l).len
<1>1. n \in Nat \ {0}
  BY LiveType, Bounds
<1>2. /\ h # 0 /\ h \in Named(data)
      /\ \E p \in Payloads : FileIs(v, data, own, rank, h, p, n)
  BY StartNamed DEF Shape, FilesWhole
<1>3. PICK p \in Payloads : FileIs(v, data, own, rank, h, p, n)
  BY <1>2
<1> HIDE DEF h, n
<1>4. rank \in [Clusters -> Nat]
  BY DEF Shape, Witness
<1>5. ASSUME NEW c \in Clusters, Held(v, c), own[c] = h, rank[c] < n - 1
      PROVE  v[c] # Eoc
  <2>1. v[c] = Eoc <=> rank[c] = n - 1
    BY <1>3, <1>5 DEF FileIs
  <2> QED
    BY <2>1, <1>1, <1>4, <1>5
<1>6. \A k \in 0..n - 1 : \E c \in Clusters :
        Held(v, c) /\ own[c] = h /\ rank[c] = k
  BY <1>1, <1>2, <1>5, RanksFilled
<1>7. n - 1 \in 0..n - 1
  BY <1>1
<1>8. PICK c \in Clusters : Held(v, c) /\ own[c] = h /\ rank[c] = n - 1
  BY <1>6, <1>7
<1>9. rank[c] \in 0..MaxCluster /\ Chain(v, h)[rank[c]] = c
  BY <1>2, <1>8, OwnedWalk
<1> QED
  BY <1>1, <1>2, <1>8, <1>9 DEF h, n

LEMMA NodeSame ==
  ASSUME DataOK, NEW v \in [Clusters -> FatVal], NEW P, NEW U,
         NEW own, NEW rank, NEW lev, Shape(v, data, P, U, own, rank, lev),
         NEW w, Agrees(w, v, own), NEW l \in Live(data)
  PROVE  Node(w, At(data, l)) = Node(v, At(data, l))
<1> DEFINE e == At(data, l)
<1>1. CASE e.dir
  BY <1>1 DEF Node
<1>2. CASE ~e.dir /\ e.len = 0
  <2>1. \A p : FileIntact(w, e, p) <=> FileIntact(v, e, p)
    BY <1>2 DEF FileIntact
  <2>2. Intact(w, e) <=> Intact(v, e)
    BY <2>1, <1>2 DEF Intact
  <2> QED
    BY <1>2, <2>2 DEF Node
<1>3. CASE ~e.dir /\ e.len # 0
  <2> DEFINE h == e.start
             n == e.len
  <2>1. /\ h \in Named(data) /\ n - 1 \in 0..MaxCluster /\ n \in Nat
        /\ Chain(v, h)[n - 1] \in Clusters
    BY <1>3, FileEnds
  <2>2. \A i \in 0..MaxCluster : Chain(w, h)[i] = Chain(v, h)[i]
    <3>1. \A c \in Clusters : (Held(v, c) /\ own[c] = h) => w[c] = v[c]
      BY <2>1 DEF Agrees
    <3> QED
      BY <2>1, <3>1, ChainSame
  <2>3. \A i \in 1..n : Chain(w, h)[i - 1] = Chain(v, h)[i - 1]
    <3> HIDE DEF h, n
    <3> SUFFICES ASSUME NEW i \in 1..n
                 PROVE  Chain(w, h)[i - 1] = Chain(v, h)[i - 1]
      OBVIOUS
    <3>1. i - 1 \in 0..MaxCluster
      BY <2>1, Bounds, FatAssumption
    <3> QED
      BY <3>1, <2>2
  <2>4. w[Chain(w, h)[n - 1]] = v[Chain(v, h)[n - 1]]
    <3>1. LET c == Chain(v, h)[n - 1] IN Held(v, c) /\ own[c] = h /\ c \in Clusters
      BY <2>1, Values, HeadWalk
    <3> QED
      BY <2>1, <2>2, <3>1 DEF Agrees
  <2>5. \A p : FileIntact(w, e, p) <=> FileIntact(v, e, p)
    BY <2>3, <2>4 DEF FileIntact
  <2>6. Intact(w, e) <=> Intact(v, e)
    BY <2>5, <1>3 DEF Intact
  <2>7. (CHOOSE p \in Payloads : FileIntact(w, e, p))
          = (CHOOSE p \in Payloads : FileIntact(v, e, p))
    BY <2>5
  <2> HIDE DEF e
  <2> DEFINE Body(u) == CHOOSE p \in Payloads : FileIntact(u, e, p)
  <2>8. ASSUME NEW u
        PROVE  Node(u, e) = IF Intact(u, e) THEN FileNode(Body(u), e.len)
                            ELSE Broken
    <3>1. CASE Intact(u, e)
      BY <3>1, <1>3 DEF Node
    <3>2. CASE ~Intact(u, e)
      BY <3>2, <1>3 DEF Node
    <3> HIDE DEF Body
    <3> QED
      BY <3>1, <3>2
  <2>9. Body(w) = Body(v)
    BY <2>7
  <2> HIDE DEF Body
  <2>10. Node(w, e) = Node(v, e)
    BY <2>6, <2>8, <2>9
  <2> QED
    BY <2>10 DEF e
<1> QED
  BY <1>1, <1>2, <1>3

LEMMA DiskTreeInTree ==
  ASSUME TypeInv, TreeInv
  PROVE  DiskTreeCurrent
<1> SUFFICES ASSUME pc = "idle", faults = 0
             PROVE  Tree(fat[1]) = Tree(View)
  BY DEF DiskTreeCurrent
<1> DEFINE w == fat[1]
<1>1. PICK own, rank, lev :
        Sound(View, w, data, {}, {}, {}, {}, cwd, own, rank, lev)
  BY IdleSound
<1>2. /\ Shape(View, data, {}, {}, own, rank, lev)
      /\ View \in [Clusters -> FatVal] /\ DataOK
  BY <1>1, ViewType, TypeInvData DEF Sound
<1>3. Agrees(w, View, own)
  BY <1>1 DEF Sound, Settled, Agrees
<1> HIDE DEF w
<1>4. PathEntries(w) = PathEntries(View)
  BY <1>2, <1>3, LevelsSame
<1>5. ASSUME NEW x \in PathEntries(View)
      PROVE  Node(w, x[2]) = Node(View, x[2])
  <2>1. CASE x[2].dir
    BY <2>1 DEF Node
  <2>2. CASE \E l \in Live(data) : x[2] = At(data, l)
    BY <2>2, <1>2, <1>3, NodeSame
  <2> QED
    BY <2>1, <2>2, <1>2, PathEntryIs
<1>6. Tree(w) = Tree(View)
  BY <1>4, <1>5 DEF Tree
<1> QED
  BY <1>6 DEF w
-----------------------------------------------------------------------------
(* The image on the disk, were the power lost now.                          *)

\* An entry a walk over the disk finds is an entry of the tree.
LEMMA DiskSlot ==
  ASSUME DataOK, NEW w \in [Clusters -> FatVal], NEW d \in Clusters,
         NEW y \in LiveSlots(w, d)
  PROVE  \E l \in Live(data) : /\ y[2] = At(data, l)
                               /\ \E i \in 0..MaxCluster : l[1] = Chain(w, d)[i]
<1>1. y \in Listing(w, d) /\ y[2].tag = "live" /\ d \in Cl0
  BY DEF LiveSlots, Scan, Cl0
<1>2. PICK i \in 0..MaxCluster, s \in 1..Slots :
        /\ Chain(w, d)[i] \in Clusters
        /\ y = <<i * Slots + s - 1, SlotsOf(Chain(w, d)[i])[s]>>
  BY <1>1, ListingType
<1> DEFINE l == <<Chain(w, d)[i], s>>
<1>3. l \in Places /\ l[1] = Chain(w, d)[i]
  BY <1>2 DEF Places
<1>4. y[2] = At(data, l)
  BY <1>2, SlotIs
<1>5. l \in Live(data)
  BY <1>1, <1>3, <1>4 DEF Live
<1> QED
  BY <1>3, <1>4, <1>5

\* The directories that paths on the disk lead to are those of the tree.
LEMMA DiskDirs ==
  ASSUME TypeInv, NEW w \in [Clusters -> FatVal], OneName(data),
         NEW x \in DirPaths(w)
  PROVE  x[2].start \in DirHeads(data)
<1>0. MaxDepth \in Nat /\ DataOK /\ Clusters \subseteq Cl0
  BY FatAssumption, TypeInvData DEF Cl0
<1>1. PICK k \in 0..MaxDepth : x \in Levels(w)[k] /\ x[2].dir
  BY PathEntriesAre DEF DirPaths
<1>2. CASE k = 0
  <2>1. x[2].start = Root
    BY <1>1, <1>2, LevelsAre DEF RootEntry, Entry
  <2> QED
    BY <2>1, Heads
<1>3. CASE k # 0
  <2>1. k \in 1..MaxDepth /\ k - 1 \in 0..MaxDepth
    BY <1>0, <1>3
  <2>2. PICK z \in Levels(w)[k - 1] :
          /\ z[2].dir
          /\ \E e \in Entries(w, z[2].start) : x = <<Append(z[1], e.name), e>>
    BY <1>1, <2>1, LevelsAre
  <2>3. z \in DirPaths(w)
    BY <2>1, <2>2, PathEntriesAre DEF DirPaths
  <2>4. z[2].start \in Clusters
    BY <2>3, DirPathsType
  <2>5. PICK y \in LiveSlots(w, z[2].start) : x[2] = y[2]
    BY <2>2 DEF Entries
  <2>6. PICK l \in Live(data) : x[2] = At(data, l)
    BY <1>0, <2>4, <2>5, DiskSlot
  <2>7. At(data, l).dir /\ At(data, l).start # 0
    BY <1>1, <2>6 DEF OneName
  <2> QED
    BY <2>6, <2>7, StartNamed
<1> QED
  BY <1>2, <1>3

\* What the chain of a file may differ in between the disk and the memory.
LEMMA FileSettled ==
  ASSUME NEW v, NEW w, NEW D, NEW lab, NEW g, NEW cw, NEW own, NEW rank, NEW lev,
         CallIs(v, w, D, lab, g, cw, own, rank, lev), OneName(D),
         NEW l \in Live(D), ~At(D, l).dir,
         At(D, l).start \in Named(D), At(D, l).start \notin Fresh(lab, g)
  PROVE  \A c \in Clusters : (Held(v, c) /\ own[c] = At(D, l).start) => w[c] = v[c]
<1> DEFINE h == At(D, l).start
<1>1. h \notin DirHeads(D) /\ 0 \notin Clusters
  BY FilesAreNotDirs, Values
<1>2. Settled(v, w, D, Fresh(lab, g), Loose(lab, g), own)
  BY DEF CallIs, Sound
<1>3. ASSUME NEW c \in Clusters, own[c] = h PROVE c \notin Loose(lab, g)
  <2> SUFFICES ASSUME c \in Loose(lab, g) PROVE FALSE
    OBVIOUS
  <2>1. lab \in {"xeoc", "xzero", "xflush"} /\ c \in {g.last, g.first}
    BY DEF Loose
  <2>2. AtXzero(v, D, g, own, lev)
    BY <2>1 DEF CallIs, AtXflush
  <2>3. own[c] = g.dir /\ g.dir \in DirHeads(D)
    BY <2>1, <2>2 DEF AtXzero, Aim
  <2> QED
    BY <2>3, <1>1, <1>3
<1> QED
  BY <1>2, <1>3 DEF Settled

\* A new entry is on the disk before its chain is only if it is the target of
\* the running call.
LEMMA FreshIsTarget ==
  ASSUME NEW v \in [Clusters -> FatVal], NEW w, NEW lab, NEW g, NEW cw,
         NEW own, NEW rank, NEW lev, DataOK,
         CallIs(v, w, data, lab, g, cw, own, rank, lev),
         NEW l \in Live(data), ~At(data, l).dir,
         At(data, l).start # 0, At(data, l).start \in Fresh(lab, g),
         NEW d \in DirHeads(data), NEW i \in 0..MaxCluster,
         l[1] = Chain(w, d)[i]
  PROVE  /\ g.kind \in {"write", "mkdir"}
         /\ d = g.dir /\ At(data, l).name = g.name
<1> DEFINE P == Pending(lab, g)
           U == Uncleared(lab, g)
<1>1. Shape(v, data, P, U, own, rank, lev)
  BY DEF CallIs, Sound
<1> HIDE DEF P, U
<1>2. OneName(data) /\ d \in Named(data)
  BY <1>1, Heads DEF Shape
<1>3. lab \in {"mark", "flush"} /\ At(data, l).start = g.first /\ g.first # 0
  BY DEF Fresh
<1>4. AtStored(data, g, own)
  BY <1>3 DEF CallIs
<1>5. /\ g.kind \in {"write", "mkdir"} /\ g.loc \in Live(data)
      /\ own[g.loc[1]] = g.dir /\ At(data, g.loc).start = g.first
      /\ At(data, g.loc).name = g.name
  BY <1>3, <1>4 DEF AtStored
<1>6. l = g.loc
  BY <1>2, <1>3, <1>5 DEF OneName
<1>7. d # g.first
  BY <1>2, <1>3, FilesAreNotDirs
<1>8. Settled(v, w, data, {g.first}, {}, own)
  <2>1. Fresh(lab, g) = {g.first} /\ Loose(lab, g) = {}
    BY <1>3 DEF Fresh, Loose
  <2> QED
    BY <2>1 DEF CallIs, Sound
<1>9. \A c \in Clusters : (Held(v, c) /\ own[c] = d) => w[c] = v[c]
  BY <1>2, <1>7, <1>8 DEF Settled
<1>10. Chain(v, d)[i] = l[1]
  BY <1>1, <1>2, <1>9, ChainSame
<1>11. l[1] \in Clusters
  BY LiveType
<1>12. own[l[1]] = d
  BY <1>1, <1>2, <1>10, <1>11, Values, HeadWalk
<1> QED
  BY <1>5, <1>6, <1>12

LEMMA ImageInTree ==
  ASSUME TypeInv, TreeInv, faults = 0
  PROVE  \A x \in Located(fat[1]) :
           (<<x[1], x[3].name>> \notin Target /\ ~x[3].dir) => Intact(fat[1], x[3])
<1> DEFINE w == fat[1]
<1>1. PICK own, rank, lev :
        CallIs(View, w, data, pc, f, cwd, own, rank, lev)
  BY DEF TreeInv, TreeIn
<1> DEFINE P == Pending(pc, f)
           U == Uncleared(pc, f)
<1>2. Shape(View, data, P, U, own, rank, lev)
  BY <1>1 DEF CallIs, Sound
<1>3. /\ View \in [Clusters -> FatVal] /\ DataOK /\ OneName(data)
      /\ w \in [Clusters -> FatVal]
  <2>1. w \in [Clusters -> FatVal]
    BY FirstCopy DEF TypeInv, TypeOK
  <2> QED
    BY <2>1, <1>2, ViewType, TypeInvData DEF Shape
<1> HIDE DEF w, P, U
<1> SUFFICES ASSUME NEW x \in Located(w), <<x[1], x[3].name>> \notin Target,
                    ~x[3].dir
             PROVE  Intact(w, x[3])
  BY DEF w
<1>4. PICK d \in LiveDirs(w) : \E y \in LiveSlots(w, d) : x = <<d, y[1], y[2]>>
  BY DEF Located
<1>5. PICK y \in LiveSlots(w, d) : x = <<d, y[1], y[2]>>
  BY <1>4
<1>6. d \in DirHeads(data) /\ d \in Clusters
  <2>1. PICK z \in DirPaths(w) : z[2].start = d
    BY DEF LiveDirs
  <2> QED
    BY <2>1, <1>3, DiskDirs, Heads
<1>7. PICK l \in Live(data) : /\ y[2] = At(data, l)
                              /\ \E i \in 0..MaxCluster : l[1] = Chain(w, d)[i]
  BY <1>3, <1>6, DiskSlot
<1>8. x[1] = d /\ x[3] = At(data, l) /\ ~At(data, l).dir
  BY <1>5, <1>7
<1>9. CASE At(data, l).start = 0
  <2>1. At(data, l).len = 0 /\ \E p \in Payloads : TRUE
    BY <1>2, <1>8, <1>9 DEF Shape, FilesWhole
  <2>2. \A p : FileIntact(w, At(data, l), p)
    BY <2>1, <1>9 DEF FileIntact
  <2> QED
    BY <1>8, <2>1, <2>2 DEF Intact
<1>10. CASE At(data, l).start # 0 /\ At(data, l).start \notin Fresh(pc, f)
  <2>1. At(data, l).start \in Named(data)
    BY <1>3, <1>10, StartNamed
  <2>2. \A c \in Clusters :
          (Held(View, c) /\ own[c] = At(data, l).start) => w[c] = View[c]
    BY <2>1, <1>1, <1>3, <1>8, <1>10, FileSettled
  <2> QED
    BY <2>2, <1>2, <1>3, <1>8, FileWalk
<1>11. CASE At(data, l).start # 0 /\ At(data, l).start \in Fresh(pc, f)
  <2>1. PICK i \in 0..MaxCluster : l[1] = Chain(w, d)[i]
    BY <1>7
  <2>2. /\ f.kind \in {"write", "mkdir"}
        /\ d = f.dir /\ At(data, l).name = f.name
    BY <2>1, <1>1, <1>3, <1>6, <1>8, <1>11, FreshIsTarget
  <2>3. <<x[1], x[3].name>> = <<f.dir, f.name>>
    BY <2>2, <1>8
  <2>4. <<f.dir, f.name>> \in Target
    BY <2>2 DEF Target
  <2> QED
    BY <2>3, <2>4
<1> QED
  BY <1>9, <1>10, <1>11

LEMMA SoundParts ==
  \A x \in SoundIn(fat[1]) :
    x \in Located(fat[1]) /\ <<x[1], x[3].name>> \notin suspect
<1> DEFINE Safe(all) ==
             {x \in all : /\ <<x[1], x[3].name>> \notin suspect
                         /\ \A y \in all : <<y[1], y[3].name>> \in suspect
                                              => y[3].start # x[1]}
<1>1. SoundIn(fat[1]) = UNION {Safe(all) : all \in {Located(fat[1])}}
  BY DEF SoundIn
<1>2. \A all : \A x \in Safe(all) :
        x \in all /\ <<x[1], x[3].name>> \notin suspect
  OBVIOUS
<1> HIDE DEF Safe
<1> QED
  BY <1>1, <1>2, ZenonT(40)

\* The power goes for the first time: the entry that was being written becomes
\* suspect, and every other file on the disk is still whole.
LEMMA CrashImageKept ==
  ASSUME TypeInv, TreeInv, faults = 0, Crash
  PROVE  CrashImage'
<1>1. /\ suspect' = suspect \cup Target /\ suspect = {}
      /\ fat' = fat /\ data' = data
  BY DEF Crash, TreeInv, diskVars
<1>2. Located(fat[1])' = Located(fat[1])
  BY <1>1 DEF Located, LiveDirs, DirPaths, PathEntries, Levels, Entries,
     LiveSlots, Scan, Listing, SlotsOf
<1>3. \A v, e : Intact(v, e) => Intact(v, e)'
  BY <1>1 DEF Intact, FileIntact, DirIntact
<1>4. (\A x \in SoundIn(fat[1]) :
         x \in Located(fat[1]) /\ <<x[1], x[3].name>> \notin suspect)'
  BY SoundParts, PTL
<1> SUFFICES ASSUME NEW x \in SoundIn(fat[1])', ~x[3].dir
             PROVE  Intact(fat[1], x[3])'
  BY DEF CrashImage
<1>5. x \in Located(fat[1]) /\ <<x[1], x[3].name>> \notin Target
  BY <1>1, <1>2, <1>4
<1>6. Intact(fat[1], x[3])
  BY <1>5, ImageInTree
<1> QED
  BY <1>1, <1>3, <1>6
-----------------------------------------------------------------------------
LEMMA TreeInit == Init => TypeInv /\ CacheInv /\ TreeInv
  BY InitType, InitCache, InitTree

LEMMA TreeStep ==
  TypeInv /\ CacheInv /\ TreeInv /\ [Next]_vars
    => TypeInv' /\ CacheInv' /\ TreeInv'
  BY NextType, NextKeeps, NextTree

\* Without faults every moment of every behaviour has a tree of the right
\* shape: the chains are disjoint, each is named by one entry or belongs to the
\* running call, and each holds what its entry says.
THEOREM TreeInvHolds == Spec => [](TypeInv /\ TreeInv)
  BY TreeInit, TreeStep, PTL DEF Spec

\* As long as no transfer has failed, no two files or directories share a
\* cluster between calls: fat_alloc_chain never hands out a cluster in use, and
\* fat_free_chain never releases one that is still named.
THEOREM NeverCrossLinked == Spec => [](faults = 0 => NoCrossLink)
<1>1. TypeInv /\ TreeInv => (faults = 0 => NoCrossLink)
  BY NoCrossLinkInTree
<1> QED
  BY <1>1, TreeInvHolds, PTL

\* As long as no transfer has failed, every file between calls has the chain
\* its entry promises, holding one write's payload, and every directory one of
\* directory clusters.
THEOREM EntriesStayIntact == Spec => [](faults = 0 => EntriesIntact)
<1>1. TypeInv /\ TreeInv => (faults = 0 => EntriesIntact)
  BY IntactInTree
<1> QED
  BY <1>1, TreeInvHolds, PTL

\* Between calls every allocated cluster belongs to a file or a directory: what
\* a call that ends for want of space had taken has been given back.
THEOREM NothingLeaks == Spec => []NoLeak
<1>1. TypeInv /\ TreeInv => NoLeak
  BY NoLeakInTree
<1> QED
  BY <1>1, TreeInvHolds, PTL

\* At every moment no entry hides behind an end marker and no directory has a
\* name twice: the code that moves the marker, extends a directory and looks a
\* name up before it takes a slot agrees on where a directory ends.
THEOREM DirectoriesStaySound == Spec => []DirectoriesSound
<1>1. TypeInv /\ TreeInv => DirectoriesSound
  BY DirectoriesInTree
<1> QED
  BY <1>1, TreeInvHolds, PTL

\* The current directory can always be reached from the root: fs_delete_dir
\* deletes neither it nor a directory that has entries.
THEOREM CwdStaysLive == Spec => []CwdLive
<1>1. TypeInv /\ TreeInv => CwdLive
  BY DirectoriesInTree
<1> QED
  BY <1>1, TreeInvHolds, PTL

\* Between calls the disk shows the tree that the kernel shows, although some
\* calls return with a dirty FAT sector in the cache.
THEOREM DiskStaysCurrent == Spec => []DiskTreeCurrent
<1>1. TypeInv /\ TreeInv => DiskTreeCurrent
  BY DiskTreeInTree
<1> QED
  BY <1>1, TreeInvHolds, PTL

\* At every moment of a behaviour in which no transfer has failed, were the
\* power lost now, every file on the disk but the one being written would be
\* whole: the order in which entries, FAT sectors and released chains reach the
\* disk never takes a cluster from another file.
THEOREM ImageStaysWhole == Spec => [](faults = 0 => CrashImage)
<1>1. ASSUME TypeInv, TreeInv, faults = 0 PROVE CrashImage
  <2> SUFFICES ASSUME NEW x \in SoundIn(fat[1]),
                      <<x[1], x[3].name>> \notin Target, ~x[3].dir
               PROVE  Intact(fat[1], x[3])
    BY DEF CrashImage
  <2>1. x \in Located(fat[1])
    BY DEF SoundIn
  <2> QED
    BY <1>1, <2>1, ImageInTree
<1>2. TypeInv /\ TreeInv => (faults = 0 => CrashImage)
  BY <1>1
<1> QED
  BY <1>2, TreeInvHolds, PTL

\* And when the power does go, at any step of any call, the disk that fs_init
\* then mounts has every file whole but the one that was being written.
THEOREM FirstCrashSpares ==
  Spec => [][(faults = 0 /\ Crash) => CrashImage']_vars
<1>1. TypeInv /\ TreeInv /\ [Next]_vars
        => [(faults = 0 /\ Crash) => CrashImage']_vars
  BY CrashImageKept
<1> QED
  BY <1>1, TreeInvHolds, PTL DEF Spec
-----------------------------------------------------------------------------
(* The tree of FileTree, drawn from the entries.  pth gives each directory   *)
(* its path; h is the path of the current directory.                         *)

PathOf(D, own, pth, l) == Append(pth[own[l[1]]], At(D, l).name)
\* The entries that a path of MaxDepth names reaches.
Shown(D, own, lev) == {l \in Live(D) : lev[own[l[1]]] < MaxDepth}
NodeAt(D, e) ==
  IF e.dir THEN DirNode
  ELSE IF e.len = 0 THEN FileNode(".", 0)
  ELSE FileNode(D[e.start].payload, e.len)
Picture(D, own, lev, pth) ==
  {<<PathOf(D, own, pth, l), NodeAt(D, At(D, l))>> : l \in Shown(D, own, lev)}

Leads(D, own, pth) ==
  /\ pth[Root] = <<>>
  /\ \A l \in Live(D) :
       At(D, l).dir => pth[At(D, l).start] = PathOf(D, own, pth, l)
PathsAre(D, own, lev, pth) ==
  /\ Leads(D, own, pth)
  /\ \A d \in DirHeads(D) : pth[d] \in Seq(Names) /\ Len(pth[d]) = lev[d]
TypedEntries(D) ==
  \A l \in Live(D) :
    /\ l \in Places
    /\ At(D, l).name \in Names /\ At(D, l).dir \in BOOLEAN
    /\ At(D, l).start \in Cl0 /\ At(D, l).len \in 0..MaxCount
Drawn(v, D, cw, t, h, own, rank, lev, pth) ==
  /\ v \in [Clusters -> FatVal] /\ TypedEntries(D)
  /\ \E P, U : Shape(v, D, P, U, own, rank, lev)
  /\ cw \in DirHeads(D)
  /\ PathsAre(D, own, lev, pth)
  /\ t = Picture(D, own, lev, pth) /\ h = pth[cw]

\* A path goes down one level with an entry of the directory it leads to.
Under(v, own, k, x) ==
  \E z \in Levels(v)[k], l \in Live(data) :
    /\ z[2].dir /\ own[l[1]] = z[2].start
    /\ x = <<Append(z[1], At(data, l).name), At(data, l)>>
LEMMA LevelDown ==
  ASSUME NEW v \in [Clusters -> FatVal], NEW P, NEW U, DataOK,
         NEW own, NEW rank, NEW lev, Shape(v, data, P, U, own, rank, lev),
         NEW k \in Nat, k + 1 <= MaxDepth, NEW x \in Levels(v)[k + 1]
  PROVE  Under(v, own, k, x)
<1>0. k + 1 \in 1..MaxDepth /\ (k + 1) - 1 = k /\ k \in 0..MaxDepth
  BY FatAssumption
<1>1. PICK z \in Levels(v)[k] :
        /\ z[2].dir
        /\ \E e \in Entries(v, z[2].start) : x = <<Append(z[1], e.name), e>>
  BY <1>0, LevelsAre
<1>2. z[2].start \in DirHeads(data)
  BY <1>0, <1>1, PathsLead
<1>3. PICK y \in LiveSlots(v, z[2].start) :
        x = <<Append(z[1], y[2].name), y[2]>>
  BY <1>1 DEF Entries
<1>4. PICK l \in Live(data) : own[l[1]] = z[2].start /\ y[2] = At(data, l)
  BY <1>2, LiveSlotsAre
<1> QED
  BY <1>1, <1>3, <1>4 DEF Under

LEMMA LevelUp ==
  ASSUME NEW v \in [Clusters -> FatVal], NEW P, NEW U, DataOK,
         NEW own, NEW rank, NEW lev, Shape(v, data, P, U, own, rank, lev),
         NEW k \in Nat, k + 1 <= MaxDepth, NEW z \in Levels(v)[k],
         NEW l \in Live(data), z[2].dir, own[l[1]] = z[2].start
  PROVE  <<Append(z[1], At(data, l).name), At(data, l)>> \in Levels(v)[k + 1]
<1>0. k + 1 \in 1..MaxDepth /\ (k + 1) - 1 = k /\ k \in 0..MaxDepth
  BY FatAssumption
<1>1. z[2].start \in DirHeads(data)
  BY <1>0, PathsLead
<1>2. <<PosOf(rank, l), At(data, l)>> \in LiveSlots(v, z[2].start)
  BY <1>1, LiveSlotsAre
<1>3. At(data, l) \in Entries(v, z[2].start)
  BY <1>2 DEF Entries
<1> QED
  BY <1>0, <1>3, LevelsAre

\* A directory has one path.
LEMMA OnePath ==
  ASSUME NEW v \in [Clusters -> FatVal], NEW P, NEW U, DataOK,
         NEW own, NEW rank, NEW lev, Shape(v, data, P, U, own, rank, lev)
  PROVE  \A x, y \in DirPaths(v) : x[2].start = y[2].start => x[1] = y[1]
<1> DEFINE S == {k \in Nat : k <= MaxDepth => \A x, y \in Levels(v)[k] :
                   (x[2].dir /\ y[2].dir /\ x[2].start = y[2].start)
                     => x[1] = y[1]}
<1>0. MaxDepth \in Nat
  BY FatAssumption
<1>1. 0 \in S
  BY LevelsAre
<1>2. ASSUME NEW k \in Nat, k \in S PROVE k + 1 \in S
  <2> SUFFICES ASSUME k + 1 <= MaxDepth,
                      NEW x \in Levels(v)[k + 1], NEW y \in Levels(v)[k + 1],
                      x[2].dir, y[2].dir, x[2].start = y[2].start
               PROVE  x[1] = y[1]
    OBVIOUS
  <2>0. Under(v, own, k, x) /\ Under(v, own, k, y)
    BY LevelDown
  <2>1. PICK z \in Levels(v)[k], l \in Live(data) :
          /\ z[2].dir /\ own[l[1]] = z[2].start
          /\ x = <<Append(z[1], At(data, l).name), At(data, l)>>
    BY <2>0 DEF Under
  <2>2. PICK u \in Levels(v)[k], m \in Live(data) :
          /\ u[2].dir /\ own[m[1]] = u[2].start
          /\ y = <<Append(u[1], At(data, m).name), At(data, m)>>
    BY <2>0 DEF Under
  <2>3. l = m
    BY <2>1, <2>2 DEF Shape, OneName
  <2>4. k <= MaxDepth
    BY <1>0
  <2>5. z[1] = u[1]
    BY <1>2, <2>1, <2>2, <2>3, <2>4
  <2> QED
    BY <2>1, <2>2, <2>3, <2>5
<1> HIDE DEF S
<1>3. \A k \in Nat : k \in S
  BY <1>1, <1>2, NatSetInduction
<1> SUFFICES ASSUME NEW x \in DirPaths(v), NEW y \in DirPaths(v),
                    x[2].start = y[2].start
             PROVE  x[1] = y[1]
  OBVIOUS
<1>4. PICK i \in 0..MaxDepth : x \in Levels(v)[i]
  BY PathEntriesAre DEF DirPaths
<1>5. PICK j \in 0..MaxDepth : y \in Levels(v)[j]
  BY PathEntriesAre DEF DirPaths
<1>6. x[2].dir /\ y[2].dir
  BY DEF DirPaths
<1>7. i = j
  <2>1. lev[x[2].start] = i /\ lev[y[2].start] = j
    BY <1>4, <1>5, <1>6, PathsLead
  <2> QED
    BY <2>1
<1> QED
  BY <1>0, <1>3, <1>4, <1>5, <1>6, <1>7 DEF S

\* The paths that lead to the directories.
PathTable(v) ==
  [d \in DirHeads(data) |-> (CHOOSE x \in DirPaths(v) : x[2].start = d)[1]]
LEMMA PathsDrawn ==
  ASSUME NEW v \in [Clusters -> FatVal], NEW P, NEW U, DataOK,
         NEW own, NEW rank, NEW lev, Shape(v, data, P, U, own, rank, lev),
         NEW pth, pth = PathTable(v)
  PROVE  /\ PathsAre(data, own, lev, pth)
         /\ \A x \in DirPaths(v) : pth[x[2].start] = x[1]
<1>0. MaxDepth \in Nat
  BY FatAssumption
<1>1. ASSUME NEW x \in DirPaths(v)
      PROVE  /\ x[2].start \in DirHeads(data) /\ lev[x[2].start] = Len(x[1])
             /\ pth[x[2].start] = x[1]
  <2>1. x[2].start \in DirHeads(data) /\ lev[x[2].start] = Len(x[1])
    BY TreeIs
  <2> DEFINE y == CHOOSE y \in DirPaths(v) : y[2].start = x[2].start
  <2>2. y \in DirPaths(v) /\ y[2].start = x[2].start
    OBVIOUS
  <2>3. y[1] = x[1]
    BY <2>2, OnePath
  <2> QED
    BY <2>1, <2>3 DEF PathTable
<1>2. ASSUME NEW d \in DirHeads(data)
      PROVE  /\ lev[d] \in 0..MaxDepth
             /\ \E x \in Levels(v)[lev[d]] : /\ x \in DirPaths(v)
                                             /\ x[2].dir /\ x[2].start = d
                                             /\ pth[d] = x[1]
  <2>1. PICK x \in Levels(v)[lev[d]] : x[2].dir /\ x[2].start = d
    BY PathsReach
  <2>2. lev[d] \in 0..MaxDepth
    BY PathsReach
  <2>3. x \in DirPaths(v)
    BY <2>1, <2>2, PathEntriesAre DEF DirPaths
  <2>4. pth[d] = x[1]
    BY <2>1, <2>3, <1>1
  <2> QED
    BY <2>1, <2>2, <2>3, <2>4
<1>3. ASSUME NEW d \in DirHeads(data)
      PROVE  pth[d] \in Seq(Names) /\ Len(pth[d]) = lev[d]
  <2>1. PICK x \in Levels(v)[lev[d]] : pth[d] = x[1]
    BY <1>2
  <2>2. x[1] \in Seq(Names) /\ Len(x[1]) = lev[d]
    BY <1>2, PathsLead
  <2> QED
    BY <2>1, <2>2
<1>4. pth[Root] = <<>>
  <2>1. lev[Root] = 0 /\ Root \in DirHeads(data)
    BY Heads DEF Shape, Levelled
  <2>2. pth[Root] \in Seq(Names) /\ Len(pth[Root]) = 0
    BY <2>1, <1>3
  <2> QED
    BY <2>2
<1>5. ASSUME NEW l \in Live(data), At(data, l).dir
      PROVE  pth[At(data, l).start] = PathOf(data, own, pth, l)
  <2> DEFINE d == own[l[1]]
             e == At(data, l).start
  <2>1. /\ d \in DirHeads(data) /\ e \in DirHeads(data) /\ lev[e] = lev[d] + 1
    BY <1>5, StartNamed DEF Shape, DirsAreDirs, Levelled, OneName
  <2>2. lev[d] \in 0..MaxDepth /\ lev[e] \in 0..MaxDepth
    BY <2>1, <1>2
  <2>3. PICK z \in Levels(v)[lev[d]] : z[2].dir /\ z[2].start = d /\ pth[d] = z[1]
    BY <2>1, <1>2
  <2>4. lev[d] \in Nat /\ lev[d] + 1 <= MaxDepth
    BY <1>0, <2>1, <2>2
  <2> DEFINE x == <<Append(z[1], At(data, l).name), At(data, l)>>
  <2>5. x \in Levels(v)[lev[d] + 1]
    BY <2>3, <2>4, LevelUp
  <2>6. x \in DirPaths(v)
    <3>1. x[2].dir
      BY <1>5
    <3>2. x \in PathEntries(v)
      BY <2>1, <2>2, <2>5, PathEntriesAre
    <3> QED
      BY <3>1, <3>2 DEF DirPaths
  <2>7. pth[x[2].start] = x[1]
    BY <2>6, <1>1
  <2> QED
    BY <2>3, <2>7 DEF PathOf
<1> QED
  BY <1>1, <1>3, <1>4, <1>5 DEF PathsAre, Leads

\* The entries that paths reach.
LEMMA EntriesDrawn ==
  ASSUME NEW v \in [Clusters -> FatVal], NEW P, NEW U, DataOK,
         NEW own, NEW rank, NEW lev, Shape(v, data, P, U, own, rank, lev),
         NEW pth, PathsAre(data, own, lev, pth),
         \A x \in DirPaths(v) : pth[x[2].start] = x[1]
  PROVE  /\ \A x \in PathEntries(v) \ {<<<<>>, RootEntry>>} :
              \E l \in Shown(data, own, lev) :
                x = <<PathOf(data, own, pth, l), At(data, l)>>
         /\ \A l \in Shown(data, own, lev) :
              <<PathOf(data, own, pth, l), At(data, l)>>
                \in PathEntries(v) \ {<<<<>>, RootEntry>>}
<1>0. MaxDepth \in Nat
  BY FatAssumption
<1>1. ASSUME NEW x \in PathEntries(v), x # <<<<>>, RootEntry>>
      PROVE  \E l \in Shown(data, own, lev) :
               x = <<PathOf(data, own, pth, l), At(data, l)>>
  <2>1. PICK i \in 0..MaxDepth : x \in Levels(v)[i]
    BY PathEntriesAre
  <2>2. i # 0
    BY <2>1, <1>1, LevelsAre
  <2>3. PICK k \in Nat : i = k + 1
    <3>1. i - 1 \in Nat /\ i = (i - 1) + 1
      BY <1>0, <2>2
    <3> QED
      BY <3>1
  <2>4. k \in Nat /\ k + 1 <= MaxDepth /\ k \in 0..MaxDepth /\ k < MaxDepth
    BY <1>0, <2>3
  <2>5. Under(v, own, k, x)
    BY <2>1, <2>3, <2>4, LevelDown
  <2>6. PICK z \in Levels(v)[k], l \in Live(data) :
          /\ z[2].dir /\ own[l[1]] = z[2].start
          /\ x = <<Append(z[1], At(data, l).name), At(data, l)>>
    BY <2>5 DEF Under
  <2>7. z \in DirPaths(v)
    BY <2>4, <2>6, PathEntriesAre DEF DirPaths
  <2>8. pth[own[l[1]]] = z[1]
    BY <2>6, <2>7
  <2>9. lev[own[l[1]]] = k
    BY <2>4, <2>6, PathsLead
  <2> QED
    BY <2>4, <2>6, <2>8, <2>9 DEF Shown, PathOf
<1>2. ASSUME NEW l \in Shown(data, own, lev)
      PROVE  <<PathOf(data, own, pth, l), At(data, l)>>
               \in PathEntries(v) \ {<<<<>>, RootEntry>>}
  <2> DEFINE d == own[l[1]]
             x == <<PathOf(data, own, pth, l), At(data, l)>>
  <2>1. l \in Live(data) /\ lev[d] < MaxDepth /\ d \in DirHeads(data)
    BY DEF Shown, Shape, DirsAreDirs
  <2>2. lev[d] \in 0..MaxDepth
    BY <2>1, PathsReach
  <2>3. lev[d] \in Nat /\ lev[d] + 1 <= MaxDepth /\ lev[d] + 1 \in 0..MaxDepth
    BY <1>0, <2>1, <2>2
  <2>4. PICK z \in Levels(v)[lev[d]] : z[2].dir /\ z[2].start = d
    BY <2>1, PathsReach
  <2>5. z \in DirPaths(v)
    BY <2>2, <2>4, PathEntriesAre DEF DirPaths
  <2>6. pth[d] = z[1]
    BY <2>4, <2>5
  <2>7. x = <<Append(z[1], At(data, l).name), At(data, l)>>
    BY <2>6 DEF PathOf
  <2>8. x \in Levels(v)[lev[d] + 1]
    BY <2>1, <2>3, <2>4, <2>7, LevelUp
  <2>9. x \in PathEntries(v)
    BY <2>3, <2>8, PathEntriesAre
  <2>10. x[1] # <<>>
    <3>1. z[1] \in Seq(Names)
      BY <2>2, PathsLead
    <3>2. At(data, l).name \in Names
      BY <2>1, LiveType
    <3>3. Append(z[1], At(data, l).name) # <<>>
      BY <3>1, <3>2
    <3> QED
      BY <2>7, <3>3
  <2> QED
    BY <2>9, <2>10
<1> QED
  BY <1>1, <1>2

\* What the tree shows of an entry.
LEMMA NodeDrawn ==
  ASSUME NEW v \in [Clusters -> FatVal], NEW P, NEW U, DataOK,
         NEW own, NEW rank, NEW lev, Shape(v, data, P, U, own, rank, lev),
         NEW l \in Live(data)
  PROVE  Node(v, At(data, l)) = NodeAt(data, At(data, l))
<1> DEFINE e == At(data, l)
<1>1. CASE e.dir
  BY <1>1 DEF Node, NodeAt
<1>2. CASE ~e.dir
  <2>1. Intact(v, e)
    BY <1>2, FileWalk
  <2>2. CASE e.len = 0
    BY <1>2, <2>1, <2>2 DEF Node, NodeAt
  <2>3. CASE e.len # 0
    <3>1. \E p \in Payloads : FileIntact(v, e, p)
      BY <1>2, <2>1 DEF Intact
    <3>2. e.len \in Nat
      BY LiveType, Bounds
    <3>3. ASSUME NEW p \in Payloads, FileIntact(v, e, p)
          PROVE  p = data[e.start].payload
      <4>1. 1 \in 1..e.len /\ 1 - 1 = 0
        BY <2>3, <3>2
      <4>2. data[Chain(v, e.start)[0]] = FileData(p, 1)
        BY <2>3, <3>3, <4>1 DEF FileIntact
      <4>3. Chain(v, e.start)[0] = e.start
        BY ChainHops
      <4> QED
        BY <4>2, <4>3 DEF FileData
    <3> DEFINE q == CHOOSE p \in Payloads : FileIntact(v, e, p)
    <3>4. q = data[e.start].payload
      BY <3>1, <3>3
    <3>5. Node(v, e) = FileNode(q, e.len)
      BY <1>2, <2>1, <2>3 DEF Node
    <3> HIDE DEF q
    <3> QED
      BY <1>2, <2>3, <3>4, <3>5 DEF NodeAt
  <2> QED
    BY <2>2, <2>3
<1> QED
  BY <1>1, <1>2

LEMMA TreeDrawn ==
  ASSUME NEW v \in [Clusters -> FatVal], NEW P, NEW U, DataOK,
         NEW own, NEW rank, NEW lev, Shape(v, data, P, U, own, rank, lev),
         NEW pth, PathsAre(data, own, lev, pth),
         \A x \in DirPaths(v) : pth[x[2].start] = x[1]
  PROVE  Tree(v) = Picture(data, own, lev, pth)
<1>1. \A l \in Shown(data, own, lev) :
        Node(v, At(data, l)) = NodeAt(data, At(data, l))
  BY NodeDrawn DEF Shown
<1>2. ASSUME NEW x \in PathEntries(v) \ {<<<<>>, RootEntry>>}
      PROVE  <<x[1], Node(v, x[2])>> \in Picture(data, own, lev, pth)
  <2>1. PICK l \in Shown(data, own, lev) :
          x = <<PathOf(data, own, pth, l), At(data, l)>>
    BY EntriesDrawn
  <2>2. <<x[1], Node(v, x[2])>>
          = <<PathOf(data, own, pth, l), NodeAt(data, At(data, l))>>
    BY <2>1, <1>1
  <2> QED
    BY <2>2 DEF Picture
<1>3. ASSUME NEW l \in Shown(data, own, lev)
      PROVE  <<PathOf(data, own, pth, l), NodeAt(data, At(data, l))>> \in Tree(v)
  <2> DEFINE x == <<PathOf(data, own, pth, l), At(data, l)>>
  <2>1. x \in PathEntries(v) \ {<<<<>>, RootEntry>>}
    BY EntriesDrawn
  <2>2. <<x[1], Node(v, x[2])>> \in Tree(v)
    BY <2>1 DEF Tree
  <2>3. <<x[1], Node(v, x[2])>>
          = <<PathOf(data, own, pth, l), NodeAt(data, At(data, l))>>
    BY <1>1
  <2> QED
    BY <2>2, <2>3
<1>4. Tree(v) \subseteq Picture(data, own, lev, pth)
  BY <1>2 DEF Tree
<1>5. Picture(data, own, lev, pth) \subseteq Tree(v)
  BY <1>3 DEF Picture
<1> QED
  BY <1>4, <1>5

LEMMA NowDrawn ==
  ASSUME TypeInv, NEW P, NEW U,
         NEW own, NEW rank, NEW lev, Shape(View, data, P, U, own, rank, lev),
         cwd \in DirHeads(data)
  PROVE  \E pth : Drawn(View, data, cwd, Tree(View), Here, own, rank, lev, pth)
<1> DEFINE pth == PathTable(View)
<1>1. View \in [Clusters -> FatVal] /\ DataOK
  BY ViewType, TypeInvData
<1>2. Here = pth[cwd]
  BY DEF Here, PathTable
<1>3. pth = PathTable(View)
  OBVIOUS
<1> HIDE DEF pth
<1>4. /\ PathsAre(data, own, lev, pth)
      /\ \A x \in DirPaths(View) : pth[x[2].start] = x[1]
  BY <1>1, <1>3, PathsDrawn
<1>5. Tree(View) = Picture(data, own, lev, pth)
  BY <1>1, <1>4, TreeDrawn
<1>6. TypedEntries(data)
  BY <1>1, LiveType DEF TypedEntries
<1> QED
  BY <1>1, <1>2, <1>4, <1>5, <1>6 DEF Drawn

TreeShows ==
  \E own, rank, lev, pth :
    Drawn(View, data, cwd, Tree(View), Here, own, rank, lev, pth)
LEMMA NowShown == TypeInv /\ TreeNow => TreeShows
<1> SUFFICES ASSUME TypeInv, TreeNow PROVE TreeShows
  OBVIOUS
<1>1. PICK own, rank, lev :
        CallIs(View, fat[1], data, pc, f, cwd, own, rank, lev)
  BY DEF TreeNow, TreeIn
<1> DEFINE P == Pending(pc, f)
           U == Uncleared(pc, f)
<1>2. Shape(View, data, P, U, own, rank, lev) /\ cwd \in DirHeads(data)
  BY <1>1 DEF CallIs, Sound
<1> HIDE DEF P, U
<1> QED
  BY <1>2, NowDrawn DEF TreeShows

LEMMA NextShown ==
  ASSUME TypeInv', TreeNow'
  PROVE  \E own, rank, lev, pth :
           Drawn(View', data', cwd', Tree(View)', Here', own, rank, lev, pth)
<1>1. TreeShows'
  BY NowShown, PTL
<1> QED
  BY <1>1 DEF TreeShows

LEMMA AppendApart ==
  ASSUME NEW s \in Seq(Names), NEW t \in Seq(Names),
         NEW a \in Names, NEW b \in Names,
         Append(s, a) = Append(t, b)
  PROVE  s = t /\ a = b
<1>1. Len(Append(s, a)) = Len(s) + 1 /\ Len(Append(t, b)) = Len(t) + 1
  OBVIOUS
<1>2. Len(s) = Len(t)
  BY <1>1
<1>3. Append(s, a)[Len(s) + 1] = a /\ Append(t, b)[Len(t) + 1] = b
  OBVIOUS
<1>4. ASSUME NEW i \in 1..Len(s) PROVE s[i] = t[i]
  <2>1. Append(s, a)[i] = s[i] /\ Append(t, b)[i] = t[i]
    BY <1>2
  <2> QED
    BY <2>1
<1> QED
  BY <1>2, <1>3, <1>4

LEMMA ParentIs ==
  ASSUME NEW v, NEW D, NEW P, NEW U, NEW own, NEW rank, NEW lev,
         Shape(v, D, P, U, own, rank, lev), NEW d \in DirHeads(D), d # Root
  PROVE  \E l \in Live(D) :
           /\ At(D, l).dir /\ At(D, l).start = d
           /\ own[l[1]] \in DirHeads(D) /\ lev[d] = lev[own[l[1]]] + 1
<1>1. /\ OneName(D) /\ Levelled(D, own, lev) /\ DirsAreDirs(v, D, U, own)
  BY DEF Shape
<1> QED
  BY <1>1 DEF DirHeads, Levelled, DirsAreDirs

\* The depths of the directories are numbers, and only the root has depth 0.
LEMMA Depths ==
  ASSUME NEW v, NEW D, NEW P, NEW U, NEW own, NEW rank, NEW lev,
         Shape(v, D, P, U, own, rank, lev)
  PROVE  \A d \in DirHeads(D) : lev[d] \in Nat /\ (lev[d] = 0 => d = Root)
<1>1. \A d \in DirHeads(D) : lev[d] \in Nat
  <2>1. lev \in [Clusters -> 0..MaxDepth] /\ DirHeads(D) \subseteq Clusters
    BY Heads DEF Shape, Witness
  <2> QED
    BY <2>1, FatAssumption
<1>2. ASSUME NEW d \in DirHeads(D), d # Root PROVE lev[d] # 0
  <2>1. PICK l \in Live(D) : own[l[1]] \in DirHeads(D)
                             /\ lev[d] = lev[own[l[1]]] + 1
    BY <1>2, ParentIs
  <2> QED
    BY <2>1, <1>1
<1> QED
  BY <1>1, <1>2

\* The entries fix the paths.
LEMMA PathsKept ==
  ASSUME NEW v, NEW D, NEW P, NEW U, NEW own, NEW rank, NEW lev,
         Shape(v, D, P, U, own, rank, lev),
         NEW pth, NEW q, Leads(D, own, pth), Leads(D, own, q)
  PROVE  \A d \in DirHeads(D) : q[d] = pth[d]
<1> DEFINE S == {k \in Nat : \A d \in DirHeads(D) : lev[d] = k => q[d] = pth[d]}
<1>1. \A d \in DirHeads(D) : lev[d] \in Nat /\ (lev[d] = 0 => d = Root)
  BY Depths
<1>2. 0 \in S
  BY <1>1 DEF Leads
<1>3. ASSUME NEW k \in Nat, k \in S PROVE k + 1 \in S
  <2> SUFFICES ASSUME NEW d \in DirHeads(D), lev[d] = k + 1
               PROVE  q[d] = pth[d]
    OBVIOUS
  <2>1. d # Root
    BY DEF Shape, Levelled
  <2>2. PICK l \in Live(D) :
          /\ At(D, l).dir /\ At(D, l).start = d
          /\ own[l[1]] \in DirHeads(D) /\ lev[d] = lev[own[l[1]]] + 1
    BY <2>1, ParentIs
  <2>3. lev[own[l[1]]] = k
    BY <2>2, <1>1
  <2>4. q[own[l[1]]] = pth[own[l[1]]]
    BY <2>2, <2>3, <1>3
  <2> QED
    BY <2>2, <2>4 DEF Leads, PathOf
<1> HIDE DEF S
<1>4. \A k \in Nat : k \in S
  BY <1>2, <1>3, NatSetInduction
<1> QED
  BY <1>1, <1>4 DEF S

\* No two directories have the same path, and no two entries.
LEMMA PathsApart ==
  ASSUME NEW v, NEW D, NEW P, NEW U, NEW own, NEW rank, NEW lev,
         Shape(v, D, P, U, own, rank, lev), TypedEntries(D),
         NEW pth, PathsAre(D, own, lev, pth)
  PROVE  \A d, e \in DirHeads(D) : pth[d] = pth[e] => d = e
<1> DEFINE S == {k \in Nat : \A d, e \in DirHeads(D) :
                               (lev[d] = k /\ pth[d] = pth[e]) => d = e}
<1>1. \A d \in DirHeads(D) : lev[d] \in Nat /\ (lev[d] = 0 => d = Root)
  BY Depths
<1>2. \A d, e \in DirHeads(D) : pth[d] = pth[e] => lev[d] = lev[e]
  BY DEF PathsAre
<1>3. 0 \in S
  BY <1>1, <1>2
<1>4. ASSUME NEW k \in Nat, k \in S PROVE k + 1 \in S
  <2> SUFFICES ASSUME NEW d \in DirHeads(D), NEW e \in DirHeads(D),
                      lev[d] = k + 1, pth[d] = pth[e]
               PROVE  d = e
    OBVIOUS
  <2>1. lev[e] = k + 1
    BY <1>2
  <2>2. d # Root /\ e # Root
    BY <2>1 DEF Shape, Levelled
  <2>3. PICK l \in Live(D) :
          /\ At(D, l).dir /\ At(D, l).start = d
          /\ own[l[1]] \in DirHeads(D) /\ lev[d] = lev[own[l[1]]] + 1
    BY <2>2, ParentIs
  <2>4. PICK m \in Live(D) :
          /\ At(D, m).dir /\ At(D, m).start = e
          /\ own[m[1]] \in DirHeads(D) /\ lev[e] = lev[own[m[1]]] + 1
    BY <2>2, ParentIs
  <2>5. /\ pth[d] = Append(pth[own[l[1]]], At(D, l).name)
        /\ pth[e] = Append(pth[own[m[1]]], At(D, m).name)
    BY <2>3, <2>4 DEF PathsAre, Leads, PathOf
  <2>6. /\ pth[own[l[1]]] \in Seq(Names) /\ pth[own[m[1]]] \in Seq(Names)
        /\ At(D, l).name \in Names /\ At(D, m).name \in Names
    BY <2>3, <2>4 DEF PathsAre, TypedEntries
  <2>7. pth[own[l[1]]] = pth[own[m[1]]] /\ At(D, l).name = At(D, m).name
    <3> DEFINE s == pth[own[l[1]]]
               t == pth[own[m[1]]]
               a == At(D, l).name
               b == At(D, m).name
    <3>1. /\ s \in Seq(Names) /\ t \in Seq(Names) /\ a \in Names /\ b \in Names
          /\ Append(s, a) = Append(t, b)
      BY <2>5, <2>6
    <3> HIDE DEF s, t, a, b
    <3>2. s = t /\ a = b
      BY <3>1, AppendApart
    <3> QED
      BY <3>2 DEF s, t, a, b
  <2>8. lev[own[l[1]]] = k
    BY <2>3, <1>1
  <2>9. own[l[1]] = own[m[1]]
    BY <2>3, <2>4, <2>7, <2>8, <1>4
  <2>10. l = m
    BY <2>7, <2>9 DEF Shape, NamesOnce
  <2> QED
    BY <2>3, <2>4, <2>10
<1> HIDE DEF S
<1>5. \A k \in Nat : k \in S
  BY <1>3, <1>4, NatSetInduction
<1> QED
  BY <1>1, <1>5 DEF S

LEMMA EntriesApart ==
  ASSUME NEW v, NEW D, NEW P, NEW U, NEW own, NEW rank, NEW lev,
         Shape(v, D, P, U, own, rank, lev), TypedEntries(D),
         NEW pth, PathsAre(D, own, lev, pth),
         NEW l \in Live(D), NEW m \in Live(D)
  PROVE  /\ own[l[1]] \in DirHeads(D) /\ At(D, l).name \in Names
         /\ pth[own[l[1]]] \in Seq(Names)
         /\ PathOf(D, own, pth, l) = PathOf(D, own, pth, m) => l = m
<1>1. own[l[1]] \in DirHeads(D) /\ own[m[1]] \in DirHeads(D)
  BY DEF Shape, DirsAreDirs
<1>2. /\ pth[own[l[1]]] \in Seq(Names) /\ pth[own[m[1]]] \in Seq(Names)
      /\ At(D, l).name \in Names /\ At(D, m).name \in Names
  BY <1>1 DEF PathsAre, TypedEntries
<1>3. ASSUME PathOf(D, own, pth, l) = PathOf(D, own, pth, m) PROVE l = m
  <2>1. pth[own[l[1]]] = pth[own[m[1]]] /\ At(D, l).name = At(D, m).name
    <3> DEFINE s == pth[own[l[1]]]
               t == pth[own[m[1]]]
               a == At(D, l).name
               b == At(D, m).name
    <3>1. /\ s \in Seq(Names) /\ t \in Seq(Names) /\ a \in Names /\ b \in Names
          /\ Append(s, a) = Append(t, b)
      BY <1>2, <1>3 DEF PathOf
    <3> HIDE DEF s, t, a, b
    <3>2. s = t /\ a = b
      BY <3>1, AppendApart
    <3> QED
      BY <3>2 DEF s, t, a, b
  <2>2. own[l[1]] = own[m[1]]
    BY <1>1, <2>1, PathsApart
  <2> QED
    BY <2>1, <2>2 DEF Shape, NamesOnce
<1> QED
  BY <1>1, <1>2, <1>3

\* The links of the directories fix the clusters they own.
LinksKept(v, D, own, v2) ==
  \A c \in Clusters :
    (own[c] \in DirHeads(D) /\ v[c] \in Clusters) => v2[c] = v[c]

LEMMA OwnersKept ==
  ASSUME NEW v \in [Clusters -> FatVal], NEW D, NEW P, NEW U, NEW own,
         NEW rank, NEW lev, Shape(v, D, P, U, own, rank, lev),
         NEW v2, NEW D2, NEW P2, NEW U2, NEW own2,
         NEW rank2, NEW lev2, Shape(v2, D2, P2, U2, own2, rank2, lev2),
         LinksKept(v, D, own, v2), DirHeads(D) \subseteq DirHeads(D2)
  PROVE  \A c \in Clusters :
           (Held(v, c) /\ own[c] \in DirHeads(D)) => own2[c] = own[c]
<1> DEFINE S == {k \in Nat : \A c \in Clusters :
                   (Held(v, c) /\ own[c] \in DirHeads(D) /\ rank[c] = k)
                     => own2[c] = own[c]}
<1>1. \A c \in Clusters : rank[c] \in Nat
  BY DEF Shape, Witness
<1>2. \A d \in DirHeads(D) : /\ d \in Clusters /\ d # 0 /\ Held(v, d)
                             /\ own[d] = d /\ rank[d] = 0 /\ own2[d] = d
  BY Heads, Values DEF Shape, HeadsFirst
<1>3. 0 \in S
  <2> SUFFICES ASSUME NEW c \in Clusters, Held(v, c), own[c] \in DirHeads(D),
                      rank[c] = 0
               PROVE  own2[c] = own[c]
    OBVIOUS
  <2>1. c = own[c]
    BY <1>2 DEF Shape, OnePlace
  <2> QED
    BY <2>1, <1>2
<1>4. ASSUME NEW k \in Nat, k \in S PROVE k + 1 \in S
  <2> SUFFICES ASSUME NEW c \in Clusters, Held(v, c), own[c] \in DirHeads(D),
                      rank[c] = k + 1
               PROVE  own2[c] = own[c]
    OBVIOUS
  <2>1. own[c] # 0 /\ rank[c] # 0
    BY <1>2
  <2>2. PICK p \in Clusters : /\ v[p] = c /\ Held(v, p)
                              /\ own[p] = own[c] /\ rank[c] = rank[p] + 1
    BY <2>1, Predecessor
  <2>3. rank[p] = k
    BY <2>2, <1>1
  <2>4. own2[p] = own[p]
    BY <2>2, <2>3, <1>4
  <2>5. v2[p] = c
    BY <2>2 DEF LinksKept
  <2>6. own2[c] = own2[p]
    BY <2>5 DEF Shape, Chained
  <2> QED
    BY <2>2, <2>4, <2>6
<1> HIDE DEF S
<1>5. \A k \in Nat : k \in S
  BY <1>3, <1>4, NatSetInduction
<1> QED
  BY <1>1, <1>5 DEF S

\* Two moments: the directories of the first are still there in the second.
LEMMA SamePaths ==
  ASSUME NEW v, NEW D, NEW cw, NEW t, NEW h, NEW own, NEW rank, NEW lev, NEW pth,
         Drawn(v, D, cw, t, h, own, rank, lev, pth),
         NEW v2, NEW D2, NEW cw2, NEW t2, NEW h2, NEW own2, NEW rank2, NEW lev2,
         NEW pth2, Drawn(v2, D2, cw2, t2, h2, own2, rank2, lev2, pth2),
         LinksKept(v, D, own, v2),
         \A l \in Live(D) : At(D, l).dir => l \in Live(D2) /\ At(D2, l) = At(D, l)
  PROVE  /\ \A c \in Clusters :
              (Held(v, c) /\ own[c] \in DirHeads(D)) => own2[c] = own[c]
         /\ \A l \in Live(D) : own2[l[1]] = own[l[1]]
         /\ \A d \in DirHeads(D) : pth2[d] = pth[d] /\ lev2[d] = lev[d]
         /\ DirHeads(D) \subseteq DirHeads(D2)
<1>1. PICK P, U : Shape(v, D, P, U, own, rank, lev)
  BY DEF Drawn
<1>2. PICK P2, U2 : Shape(v2, D2, P2, U2, own2, rank2, lev2)
  BY DEF Drawn
<1>3. DirHeads(D) \subseteq DirHeads(D2)
  BY DEF DirHeads
<1>4. \A c \in Clusters :
        (Held(v, c) /\ own[c] \in DirHeads(D)) => own2[c] = own[c]
  BY <1>1, <1>2, <1>3, OwnersKept DEF Drawn
<1>5. \A l \in Live(D) : own2[l[1]] = own[l[1]]
  <2> SUFFICES ASSUME NEW l \in Live(D) PROVE own2[l[1]] = own[l[1]]
    OBVIOUS
  <2>1. l[1] \in Clusters /\ Held(v, l[1]) /\ own[l[1]] \in DirHeads(D)
    BY <1>1 DEF Shape, DirsAreDirs, Live, Places
  <2> QED
    BY <2>1, <1>4
<1>6. Leads(D, own, pth) /\ Leads(D2, own2, pth2)
  BY DEF Drawn, PathsAre
<1>7. Leads(D, own, pth2)
  <2>1. ASSUME NEW l \in Live(D), At(D, l).dir
        PROVE  pth2[At(D, l).start] = PathOf(D, own, pth2, l)
    BY <2>1, <1>5, <1>6 DEF Leads, PathOf
  <2> QED
    BY <2>1, <1>6 DEF Leads
<1>8. \A d \in DirHeads(D) : pth2[d] = pth[d]
  BY <1>1, <1>6, <1>7, PathsKept
<1>9. \A d \in DirHeads(D) : lev2[d] = lev[d]
  BY <1>3, <1>8 DEF Drawn, PathsAre
<1> QED
  BY <1>3, <1>4, <1>5, <1>8, <1>9

\* An entry of both moments is the same in both pictures.
EntryKept(D, D2, l) ==
  /\ l \in Live(D) /\ l \in Live(D2) /\ At(D2, l) = At(D, l)
  /\ (~At(D, l).dir /\ At(D, l).start # 0) =>
       D2[At(D, l).start] = D[At(D, l).start]
PairKept(D, own, lev, pth, D2, own2, lev2, pth2, l) ==
  /\ PathOf(D2, own2, pth2, l) = PathOf(D, own, pth, l)
  /\ NodeAt(D2, At(D2, l)) = NodeAt(D, At(D, l))
  /\ l \in Shown(D2, own2, lev2) <=> l \in Shown(D, own, lev)

LEMMA SamePair ==
  ASSUME NEW v, NEW D, NEW cw, NEW t, NEW h, NEW own, NEW rank, NEW lev, NEW pth,
         Drawn(v, D, cw, t, h, own, rank, lev, pth),
         NEW v2, NEW D2, NEW cw2, NEW t2, NEW h2, NEW own2, NEW rank2, NEW lev2,
         NEW pth2, Drawn(v2, D2, cw2, t2, h2, own2, rank2, lev2, pth2),
         LinksKept(v, D, own, v2),
         \A l \in Live(D) : At(D, l).dir => l \in Live(D2) /\ At(D2, l) = At(D, l),
         NEW l, EntryKept(D, D2, l)
  PROVE  PairKept(D, own, lev, pth, D2, own2, lev2, pth2, l)
<1>1. PICK P, U : Shape(v, D, P, U, own, rank, lev)
  BY DEF Drawn
<1>2. l \in Live(D) /\ l \in Live(D2) /\ At(D2, l) = At(D, l)
  BY DEF EntryKept
<1>3. own[l[1]] \in DirHeads(D)
  BY <1>1, <1>2 DEF Shape, DirsAreDirs
<1>4. /\ own2[l[1]] = own[l[1]]
      /\ pth2[own[l[1]]] = pth[own[l[1]]] /\ lev2[own[l[1]]] = lev[own[l[1]]]
  BY <1>2, <1>3, SamePaths
<1>5. (~At(D, l).dir /\ At(D, l).len # 0) => At(D, l).start # 0
  BY <1>1, <1>2 DEF Shape, FilesWhole
<1>6. NodeAt(D2, At(D2, l)) = NodeAt(D, At(D, l))
  <2>1. CASE At(D, l).dir \/ At(D, l).len = 0
    BY <2>1, <1>2 DEF NodeAt
  <2>2. CASE ~At(D, l).dir /\ At(D, l).len # 0
    <3>1. D2[At(D, l).start] = D[At(D, l).start]
      BY <2>2, <1>5 DEF EntryKept
    <3> QED
      BY <2>2, <3>1, <1>2 DEF NodeAt
  <2> QED
    BY <2>1, <2>2
<1> QED
  BY <1>2, <1>4, <1>6 DEF PairKept, PathOf, Shown

\* Nothing changes in the picture.
LEMMA StutterDrawn ==
  ASSUME NEW v, NEW D, NEW cw, NEW t, NEW h, NEW own, NEW rank, NEW lev, NEW pth,
         Drawn(v, D, cw, t, h, own, rank, lev, pth),
         NEW v2, NEW D2, NEW cw2, NEW t2, NEW h2, NEW own2, NEW rank2, NEW lev2,
         NEW pth2, Drawn(v2, D2, cw2, t2, h2, own2, rank2, lev2, pth2),
         LinksKept(v, D, own, v2), Live(D2) = Live(D),
         \A l \in Live(D) : EntryKept(D, D2, l)
  PROVE  t2 = t /\ (cw2 = cw => h2 = h)
<1>1. \A l \in Live(D) : At(D, l).dir => l \in Live(D2) /\ At(D2, l) = At(D, l)
  BY DEF EntryKept
<1>2. \A l \in Live(D) : PairKept(D, own, lev, pth, D2, own2, lev2, pth2, l)
  BY <1>1, SamePair
<1>3. cw2 = cw => h2 = h
  <2>1. h = pth[cw] /\ h2 = pth2[cw2] /\ cw \in DirHeads(D)
    BY DEF Drawn
  <2>2. pth2[cw] = pth[cw]
    BY <2>1, <1>1, SamePaths
  <2> QED
    BY <2>1, <2>2
<1>4. t = Picture(D, own, lev, pth) /\ t2 = Picture(D2, own2, lev2, pth2)
  BY DEF Drawn
<1>5. ASSUME NEW l \in Shown(D, own, lev)
      PROVE  /\ l \in Shown(D2, own2, lev2)
             /\ <<PathOf(D2, own2, pth2, l), NodeAt(D2, At(D2, l))>>
                  = <<PathOf(D, own, pth, l), NodeAt(D, At(D, l))>>
  BY <1>2 DEF PairKept, Shown
<1>6. ASSUME NEW l \in Shown(D2, own2, lev2)
      PROVE  l \in Shown(D, own, lev)
  BY <1>2 DEF PairKept, Shown
<1>7. t \subseteq t2
  BY <1>4, <1>5 DEF Picture
<1>8. t2 \subseteq t
  BY <1>4, <1>5, <1>6 DEF Picture
<1> QED
  BY <1>3, <1>7, <1>8
-----------------------------------------------------------------------------
(* The picture in the terms of FileTree.                                     *)

PairOf(D, own, pth, l) == <<PathOf(D, own, pth, l), NodeAt(D, At(D, l))>>

LEMMA SeqTable == \A s \in Seq(Names) : s \in [1..Len(s) -> Names]
  OBVIOUS

LEMMA PicturePaths ==
  ASSUME NEW v, NEW D, NEW cw, NEW t, NEW h, NEW own, NEW rank, NEW lev, NEW pth,
         Drawn(v, D, cw, t, h, own, rank, lev, pth)
  PROVE  /\ \A x \in t : \E l \in Shown(D, own, lev) : x = PairOf(D, own, pth, l)
         /\ \A l \in Shown(D, own, lev) : PairOf(D, own, pth, l) \in t
         /\ \A l \in Shown(D, own, lev) : PathOf(D, own, pth, l) \in Files!Paths
         /\ \A d \in DirHeads(D) : Files!IsDir(t, pth[d])
         /\ \A l, m \in Live(D) :
              PathOf(D, own, pth, l) = PathOf(D, own, pth, m) => l = m
         /\ \A l \in Shown(D, own, lev) :
              /\ Files!Exists(t, PathOf(D, own, pth, l))
              /\ Files!IsDir(t, PathOf(D, own, pth, l)) <=> At(D, l).dir
<1>1. PICK P, U : Shape(v, D, P, U, own, rank, lev)
  BY DEF Drawn
<1>2. TypedEntries(D) /\ PathsAre(D, own, lev, pth) /\ t = Picture(D, own, lev, pth)
  BY DEF Drawn
<1>3. \A x \in t : \E l \in Shown(D, own, lev) : x = PairOf(D, own, pth, l)
  BY <1>2 DEF Picture, PairOf
<1>4. \A l \in Shown(D, own, lev) : PairOf(D, own, pth, l) \in t
  BY <1>2 DEF Picture, PairOf
<1>5. \A l, m \in Live(D) :
        PathOf(D, own, pth, l) = PathOf(D, own, pth, m) => l = m
  BY <1>1, <1>2, EntriesApart
<1>6. ASSUME NEW l \in Shown(D, own, lev)
      PROVE  PathOf(D, own, pth, l) \in Files!Paths
  <2> DEFINE d == own[l[1]]
             s == pth[d]
             a == At(D, l).name
  <2>1. l \in Live(D) /\ lev[d] < MaxDepth
    BY DEF Shown
  <2>2. d \in DirHeads(D) /\ a \in Names /\ s \in Seq(Names)
    BY <2>1, <1>1, <1>2, EntriesApart
  <2>3. Len(s) = lev[d]
    BY <2>2, <1>2 DEF PathsAre
  <2> HIDE DEF d, s, a
  <2>4. Append(s, a) \in Files!Paths
    <3>1. Len(s) + 1 \in 1..MaxDepth
      BY <2>1, <2>2, <2>3, FatAssumption
    <3>2. Append(s, a) \in Seq(Names) /\ Len(Append(s, a)) = Len(s) + 1
      <4>1. s \in Seq(Names) /\ a \in Names
        BY <2>2
      <4> QED
        BY <4>1
    <3>3. Append(s, a) \in [1..Len(Append(s, a)) -> Names]
      BY <3>2, SeqTable
    <3>4. Append(s, a) \in [1..Len(s) + 1 -> Names]
      BY <3>2, <3>3
    <3> QED
      BY <3>1, <3>4 DEF Files!Paths
  <2> QED
    BY <2>4 DEF PathOf, d, s, a
<1>7. ASSUME NEW l \in Shown(D, own, lev)
      PROVE  /\ Files!Exists(t, PathOf(D, own, pth, l))
             /\ Files!IsDir(t, PathOf(D, own, pth, l)) <=> At(D, l).dir
  <2>1. l \in Live(D) /\ PairOf(D, own, pth, l) \in t
    BY <1>4 DEF Shown
  <2>2. Files!Exists(t, PathOf(D, own, pth, l))
    BY <2>1 DEF Files!Exists, PairOf
  <2>3. PathOf(D, own, pth, l) # <<>>
    <3>1. pth[own[l[1]]] \in Seq(Names) /\ At(D, l).name \in Names
      BY <2>1, <1>1, <1>2, EntriesApart
    <3> QED
      BY <3>1 DEF PathOf
  <2>4. ASSUME At(D, l).dir PROVE Files!IsDir(t, PathOf(D, own, pth, l))
    <3>1. NodeAt(D, At(D, l)) = Files!DirNode
      BY <2>4 DEF NodeAt, DirNode, Files!DirNode
    <3> QED
      BY <2>1, <3>1 DEF Files!IsDir, PairOf
  <2>5. ASSUME Files!IsDir(t, PathOf(D, own, pth, l)) PROVE At(D, l).dir
    <3>1. <<PathOf(D, own, pth, l), Files!DirNode>> \in t
      BY <2>3, <2>5 DEF Files!IsDir
    <3>2. PICK m \in Shown(D, own, lev) :
            <<PathOf(D, own, pth, l), Files!DirNode>> = PairOf(D, own, pth, m)
      BY <3>1, <1>3
    <3>3. m \in Live(D) /\ PathOf(D, own, pth, m) = PathOf(D, own, pth, l)
          /\ NodeAt(D, At(D, m)) = Files!DirNode
      BY <3>2 DEF PairOf, Shown
    <3>4. m = l
      BY <2>1, <3>3, <1>5
    <3> QED
      BY <3>3, <3>4 DEF NodeAt, FileNode, Files!DirNode
  <2> QED
    BY <2>2, <2>4, <2>5
<1>8. ASSUME NEW d \in DirHeads(D) PROVE Files!IsDir(t, pth[d])
  <2>1. CASE d = Root
    BY <2>1, <1>2 DEF PathsAre, Leads, Files!IsDir
  <2>2. CASE d # Root
    <3>1. PICK l \in Live(D) :
            /\ At(D, l).dir /\ At(D, l).start = d
            /\ own[l[1]] \in DirHeads(D) /\ lev[d] = lev[own[l[1]]] + 1
      BY <2>2, <1>1, ParentIs
    <3>2. lev[own[l[1]]] < MaxDepth
      <4>1. lev[d] \in 0..MaxDepth /\ lev[own[l[1]]] \in 0..MaxDepth
        BY <3>1, <1>1, Heads DEF Shape, Witness
      <4> QED
        BY <4>1, <3>1, FatAssumption
    <3>3. l \in Shown(D, own, lev)
      BY <3>1, <3>2 DEF Shown
    <3>4. pth[d] = PathOf(D, own, pth, l)
      BY <3>1, <1>2 DEF PathsAre, Leads
    <3> QED
      BY <3>1, <3>3, <3>4, <1>7
  <2> QED
    BY <2>1, <2>2
<1> QED
  BY <1>3, <1>4, <1>5, <1>6, <1>7, <1>8

LEMMA PathParent ==
  ASSUME NEW s \in Seq(Names), NEW a \in Names, NEW q, q = Append(s, a)
  PROVE  SubSeq(q, 1, Len(q) - 1) = s
<1>1. q \in Seq(Names) /\ Len(q) = Len(s) + 1 /\ Len(s) \in Nat
  OBVIOUS
<1>2. \A i \in 1..Len(s) : q[i] = s[i]
  OBVIOUS
<1> DEFINE r == SubSeq(q, 1, Len(s))
<1>3. r \in Seq(Names) /\ Len(r) = Len(s)
  BY <1>1
<1>4. \A i \in 1..Len(s) : r[i] = q[i]
  BY <1>1
<1> HIDE DEF r
<1>5. r = s
  BY <1>2, <1>3, <1>4
<1>6. Len(q) - 1 = Len(s)
  BY <1>1
<1>7. SubSeq(q, 1, Len(q) - 1) = SubSeq(q, 1, Len(s))
  BY <1>6
<1> QED
  BY <1>5, <1>7 DEF r

LEMMA InsideAppend ==
  ASSUME NEW s \in Seq(Names), NEW a \in Names, NEW p \in Seq(Names),
         Files!IsInside(Append(s, a), p)
  PROVE  s = p \/ Files!IsInside(s, p)
<1> DEFINE q == Append(s, a)
<1>1. q \in Seq(Names) /\ Len(q) = Len(s) + 1
      /\ Len(s) \in Nat /\ Len(p) \in Nat
  OBVIOUS
<1>2. \A i \in 1..Len(s) : q[i] = s[i]
  OBVIOUS
<1>3. Len(q) > Len(p) /\ SubSeq(q, 1, Len(p)) = p
  BY DEF Files!IsInside
<1> HIDE DEF q
<1>4. Len(p) <= Len(s)
  BY <1>1, <1>3
<1>5. \A i \in 1..Len(p) : SubSeq(q, 1, Len(p))[i] = q[i]
  BY <1>1, <1>4
<1>6. \A i \in 1..Len(p) : p[i] = s[i]
  BY <1>1, <1>2, <1>3, <1>4, <1>5
<1>7. CASE Len(p) = Len(s)
  BY <1>6, <1>7
<1>8. CASE Len(p) < Len(s)
  <2> DEFINE r == SubSeq(s, 1, Len(p))
  <2>1. r \in Seq(Names) /\ Len(r) = Len(p)
    BY <1>1, <1>4
  <2>2. \A i \in 1..Len(p) : r[i] = s[i]
    BY <1>1, <1>4
  <2> HIDE DEF r
  <2>3. r = p
    BY <1>6, <2>1, <2>2
  <2> QED
    BY <1>8, <2>3 DEF r, Files!IsInside
<1> QED
  BY <1>1, <1>4, <1>7, <1>8

\* A directory with something below it has an entry.
HasEntry(D, own, d) == \E l \in Live(D) : own[l[1]] = d
LEMMA InsideEntry ==
  ASSUME NEW v, NEW D, NEW P, NEW U, NEW own, NEW rank, NEW lev,
         Shape(v, D, P, U, own, rank, lev), TypedEntries(D),
         NEW pth, PathsAre(D, own, lev, pth), NEW d \in DirHeads(D),
         NEW m \in Live(D),
         Files!IsInside(PathOf(D, own, pth, m), pth[d])
  PROVE  HasEntry(D, own, d) \/ Files!IsInside(pth[own[m[1]]], pth[d])
<1>1. /\ own[m[1]] \in DirHeads(D) /\ At(D, m).name \in Names
      /\ pth[own[m[1]]] \in Seq(Names)
  BY EntriesApart
<1>2. pth[d] \in Seq(Names)
  BY DEF PathsAre
<1> DEFINE s == pth[own[m[1]]]
           a == At(D, m).name
           p == pth[d]
<1>3. s \in Seq(Names) /\ a \in Names /\ p \in Seq(Names)
      /\ Files!IsInside(Append(s, a), p)
  BY <1>1, <1>2 DEF PathOf
<1> HIDE DEF s, a, p
<1>4. s = p \/ Files!IsInside(s, p)
  BY <1>3, InsideAppend
<1>5. CASE s = p
  <2>1. own[m[1]] = d
    BY <1>1, <1>5, PathsApart DEF s, p
  <2> QED
    BY <2>1 DEF HasEntry
<1>6. CASE Files!IsInside(s, p)
  BY <1>6 DEF s, p
<1> QED
  BY <1>4, <1>5, <1>6

LEMMA InsideDir ==
  ASSUME NEW v, NEW D, NEW P, NEW U, NEW own, NEW rank, NEW lev,
         Shape(v, D, P, U, own, rank, lev), TypedEntries(D),
         NEW pth, PathsAre(D, own, lev, pth), NEW d \in DirHeads(D)
  PROVE  \A e \in DirHeads(D) :
           Files!IsInside(pth[e], pth[d]) => HasEntry(D, own, d)
<1> DEFINE S == {k \in Nat : \A e \in DirHeads(D) :
                   (lev[e] = k /\ Files!IsInside(pth[e], pth[d]))
                     => HasEntry(D, own, d)}
<1>1. \A e \in DirHeads(D) : lev[e] \in Nat /\ (lev[e] = 0 => e = Root)
  BY Depths
<1>2. 0 \in S
  <2> SUFFICES ASSUME NEW e \in DirHeads(D), lev[e] = 0,
                      Files!IsInside(pth[e], pth[d])
               PROVE  FALSE
    OBVIOUS
  <2>1. Len(pth[e]) = 0 /\ Len(pth[d]) = lev[d] /\ lev[d] \in Nat
    BY <1>1 DEF PathsAre
  <2>2. Len(pth[e]) > Len(pth[d])
    BY DEF Files!IsInside
  <2> QED
    BY <2>1, <2>2
<1>3. ASSUME NEW k \in Nat, k \in S PROVE k + 1 \in S
  <2> SUFFICES ASSUME NEW e \in DirHeads(D), lev[e] = k + 1,
                      Files!IsInside(pth[e], pth[d])
               PROVE  HasEntry(D, own, d)
    OBVIOUS
  <2>1. e # Root
    BY DEF Shape, Levelled
  <2>2. PICK l \in Live(D) :
          /\ At(D, l).dir /\ At(D, l).start = e
          /\ own[l[1]] \in DirHeads(D) /\ lev[e] = lev[own[l[1]]] + 1
    BY <2>1, ParentIs
  <2>3. lev[own[l[1]]] = k
    BY <2>2, <1>1
  <2>4. Files!IsInside(PathOf(D, own, pth, l), pth[d])
    BY <2>2 DEF PathsAre, Leads
  <2>5. HasEntry(D, own, d) \/ Files!IsInside(pth[own[l[1]]], pth[d])
    BY <2>4, InsideEntry
  <2> QED
    BY <2>2, <2>3, <2>5, <1>3
<1> HIDE DEF S
<1>4. \A k \in Nat : k \in S
  BY <1>2, <1>3, NatSetInduction
<1> QED
  BY <1>1, <1>4 DEF S

\* An entry that no other path goes through is erased.
ErasedOne(D, own, cw, D2, loc) ==
  /\ loc \in Live(D) /\ loc \notin Live(D2)
  /\ \A l \in Live(D) : l # loc => l \in Live(D2)
  /\ \A l \in Live(D2) : EntryKept(D2, D, l)
  /\ At(D, loc).dir => /\ At(D, loc).start # cw
                       /\ ~HasEntry(D, own, At(D, loc).start)
Removes(t, h, t2) == t2 \in Files!WithoutFile(t) \/ t2 \in Files!WithoutDir(t, h)

LEMMA EraseDrawn ==
  ASSUME NEW v, NEW D, NEW cw, NEW t, NEW h, NEW own, NEW rank, NEW lev, NEW pth,
         Drawn(v, D, cw, t, h, own, rank, lev, pth),
         NEW D2, NEW t2, NEW h2, NEW own2, NEW rank2, NEW lev2,
         NEW pth2, Drawn(v, D2, cw, t2, h2, own2, rank2, lev2, pth2),
         NEW loc, ErasedOne(D, own, cw, D2, loc)
  PROVE  h2 = h /\ (t2 = t \/ Removes(t, h, t2))
<1>1. PICK P, U : Shape(v, D, P, U, own, rank, lev)
  BY DEF Drawn
<1>2. TypedEntries(D) /\ PathsAre(D, own, lev, pth) /\ h = pth[cw]
      /\ cw \in DirHeads(D) /\ h2 = pth2[cw] /\ cw \in DirHeads(D2)
  BY DEF Drawn
<1>3. \A l \in Live(D2) : At(D2, l).dir => l \in Live(D) /\ At(D, l) = At(D2, l)
  BY DEF ErasedOne, EntryKept
<1>4. LinksKept(v, D2, own2, v)
  BY DEF LinksKept
<1>5. h2 = h
  <2>1. pth[cw] = pth2[cw]
    BY <1>2, <1>3, <1>4, SamePaths
  <2> QED
    BY <2>1, <1>2
<1>6. ASSUME NEW l \in Live(D2)
      PROVE  /\ l \in Live(D) /\ l # loc
             /\ PairOf(D, own, pth, l) = PairOf(D2, own2, pth2, l)
             /\ l \in Shown(D, own, lev) <=> l \in Shown(D2, own2, lev2)
  <2>1. EntryKept(D2, D, l)
    BY DEF ErasedOne
  <2>2. PairKept(D2, own2, lev2, pth2, D, own, lev, pth, l)
    BY <2>1, <1>3, <1>4, SamePair
  <2> QED
    BY <2>1, <2>2 DEF PairKept, PairOf, EntryKept, ErasedOne
<1>7. /\ \A x \in t : \E l \in Shown(D, own, lev) : x = PairOf(D, own, pth, l)
      /\ \A l \in Shown(D, own, lev) : PairOf(D, own, pth, l) \in t
      /\ \A x \in t2 : \E l \in Shown(D2, own2, lev2) : x = PairOf(D2, own2, pth2, l)
      /\ \A l \in Shown(D2, own2, lev2) : PairOf(D2, own2, pth2, l) \in t2
  BY PicturePaths
<1>8. \A l \in Shown(D, own, lev) : l # loc => l \in Live(D2)
  BY DEF Shown, ErasedOne
<1>9. \A l \in Shown(D2, own2, lev2) : l \in Live(D2)
  BY DEF Shown
<1>10. CASE loc \notin Shown(D, own, lev)
  <2>1. t2 \subseteq t
    BY <1>6, <1>7, <1>9
  <2>2. t \subseteq t2
    <3> SUFFICES ASSUME NEW x \in t PROVE x \in t2
      OBVIOUS
    <3>1. PICK l \in Shown(D, own, lev) : x = PairOf(D, own, pth, l)
      BY <1>7
    <3>2. l \in Live(D2)
      BY <1>8, <1>10
    <3> QED
      BY <3>1, <3>2, <1>6, <1>7
  <2> QED
    BY <1>5, <2>1, <2>2
<1>11. CASE loc \in Shown(D, own, lev)
  <2> DEFINE path == PathOf(D, own, pth, loc)
  <2>1. loc \in Live(D)
    BY DEF ErasedOne
  <2>2. /\ path \in Files!Paths /\ Files!Exists(t, path)
        /\ Files!IsDir(t, path) <=> At(D, loc).dir
    BY <1>11, PicturePaths
  <2>3. \A l \in Live(D) : PathOf(D, own, pth, l) = path => l = loc
    BY <2>1, PicturePaths
  <2>4. t2 \subseteq Files!Without(t, path)
    <3> SUFFICES ASSUME NEW x \in t2 PROVE x \in t /\ x[1] # path
      BY DEF Files!Without
    <3>1. PICK l \in Shown(D2, own2, lev2) : x = PairOf(D2, own2, pth2, l)
      BY <1>7
    <3>2. l \in Live(D2)
      BY <1>9
    <3>3. x = PairOf(D, own, pth, l) /\ l \in Shown(D, own, lev) /\ l # loc
          /\ l \in Live(D)
      BY <3>1, <3>2, <1>6
    <3>4. x[1] = PathOf(D, own, pth, l)
      BY <3>3 DEF PairOf
    <3> QED
      BY <3>3, <3>4, <2>3, <1>7
  <2>5. Files!Without(t, path) \subseteq t2
    <3> SUFFICES ASSUME NEW x \in t, x[1] # path PROVE x \in t2
      BY DEF Files!Without
    <3>1. PICK l \in Shown(D, own, lev) : x = PairOf(D, own, pth, l)
      BY <1>7
    <3>2. l # loc
      BY <3>1 DEF PairOf
    <3>3. l \in Live(D2)
      BY <3>2, <1>8
    <3> QED
      BY <3>1, <3>3, <1>6, <1>7
  <2>6. t2 = Files!Without(t, path)
    BY <2>4, <2>5
  <2>7. CASE ~At(D, loc).dir
    BY <2>2, <2>6, <2>7, <1>5 DEF Removes, Files!WithoutFile
  <2>8. CASE At(D, loc).dir
    <3> DEFINE d == At(D, loc).start
    <3>1. d # cw /\ ~HasEntry(D, own, d)
      BY <2>8 DEF ErasedOne
    <3>2. d \in DirHeads(D)
      <4>1. OneName(D)
        BY <1>1 DEF Shape
      <4>2. At(D, loc).start # 0
        BY <4>1, <2>1, <2>8 DEF OneName
      <4> QED
        BY <4>1, <4>2, <2>1, <2>8, StartNamed
    <3>3. path = pth[d]
      BY <2>1, <2>8, <1>2 DEF PathsAre, Leads
    <3> HIDE DEF d, path
    <3>4. path # h
      BY <1>1, <1>2, <3>1, <3>2, <3>3, PathsApart
    <3>5. ASSUME NEW x \in t, Files!IsInside(x[1], path) PROVE FALSE
      <4>1. PICK l \in Shown(D, own, lev) : x = PairOf(D, own, pth, l)
        BY <1>7
      <4>2. l \in Live(D) /\ x[1] = PathOf(D, own, pth, l)
        BY <4>1 DEF Shown, PairOf
      <4>3. Files!IsInside(PathOf(D, own, pth, l), pth[d])
        BY <4>2, <3>3, <3>5
      <4>4. Files!IsInside(pth[own[l[1]]], pth[d])
        BY <4>2, <4>3, <3>1, <3>2, <1>1, <1>2, InsideEntry
      <4>5. own[l[1]] \in DirHeads(D)
        BY <4>2, <1>1 DEF Shape, DirsAreDirs
      <4> QED
        BY <4>4, <4>5, <3>1, <3>2, <1>1, <1>2, InsideDir
    <3>6. Files!IsDir(t, path)
      BY <2>2, <2>8 DEF path
    <3>7. path \in Files!Paths
      BY <2>2 DEF path
    <3>8. t2 = Files!Without(t, path)
      BY <2>6 DEF path
    <3>9. t2 \in Files!WithoutDir(t, h)
      BY <3>4, <3>5, <3>6, <3>7, <3>8 DEF Files!WithoutDir
    <3> QED
      BY <3>9, <1>5 DEF Removes
  <2> QED
    BY <2>7, <2>8
<1> QED
  BY <1>10, <1>11

\* What an entry shows is a node of the tree.
LEMMA NodeShown ==
  ASSUME NEW v, NEW D, NEW P, NEW U, NEW own, NEW rank, NEW lev,
         Shape(v, D, P, U, own, rank, lev), TypedEntries(D),
         NEW l \in Live(D), ~At(D, l).dir
  PROVE  NodeAt(D, At(D, l)) \in Files!FileNodes
<1> DEFINE e == At(D, l)
<1>1. PICK p \in Payloads :
        IF e.len = 0 THEN e.start = 0
        ELSE e.start # 0 /\ FileIs(v, D, own, rank, e.start, p, e.len)
  BY DEF Shape, FilesWhole
<1>2. CASE e.len = 0
  BY <1>2 DEF NodeAt, FileNode, Files!FileNodes, Files!FileNode
<1>3. CASE e.len # 0
  <2>1. e.len \in 1..MaxCount
    <3>1. e.len \in 0..MaxCount
      BY DEF TypedEntries
    <3> QED
      BY <3>1, <1>3, FatAssumption
  <2>2. OneName(D) /\ HeadsFirst(v, D, P, own, rank)
    BY DEF Shape
  <2>3. e.start \in Named(D)
    BY <1>1, <1>3, <2>2, StartNamed
  <2>4. e.start \in Clusters /\ Held(v, e.start) /\ own[e.start] = e.start
    BY <2>2, <2>3 DEF HeadsFirst
  <2>5. D[e.start] = FileData(p, rank[e.start] + 1)
    BY <1>1, <1>3, <2>4 DEF FileIs
  <2>6. D[e.start].payload = p
    BY <2>5 DEF FileData
  <2>7. NodeAt(D, e) = FileNode(p, e.len)
    BY <1>3, <2>6 DEF NodeAt
  <2> HIDE DEF e
  <2>8. FileNode(p, e.len) \in Files!FileNodes
    BY <2>1 DEF FileNode, Files!FileNodes, Files!FileNode
  <2> QED
    BY <2>7, <2>8 DEF e
<1> QED
  BY <1>2, <1>3

\* An entry is stored, a new one or in the place of a file's.
StoredOne(v, D, own, lev, D2, loc) ==
  /\ loc \in Live(D2)
  /\ \A l \in Live(D2) : l # loc => l \in Live(D)
  /\ \A l \in Live(D) : l # loc => EntryKept(D, D2, l)
  /\ loc \in Live(D) => /\ ~At(D, loc).dir /\ ~At(D2, loc).dir
                        /\ At(D, loc).name = At(D2, loc).name
  /\ loc[1] \in Clusters /\ Held(v, loc[1]) /\ own[loc[1]] \in DirHeads(D)
  /\ lev[own[loc[1]]] < MaxDepth
  /\ \A l \in Live(D) :
       (own[l[1]] = own[loc[1]] /\ At(D, l).name = At(D2, loc).name) => l = loc
Adds(t, t2) == t2 \in Files!Written(t) \/ t2 \in Files!WithDir(t)

LEMMA StoreDrawn ==
  ASSUME NEW v, NEW D, NEW cw, NEW t, NEW h, NEW own, NEW rank, NEW lev, NEW pth,
         Drawn(v, D, cw, t, h, own, rank, lev, pth),
         NEW D2, NEW t2, NEW h2, NEW own2, NEW rank2, NEW lev2,
         NEW pth2, Drawn(v, D2, cw, t2, h2, own2, rank2, lev2, pth2),
         NEW loc, StoredOne(v, D, own, lev, D2, loc)
  PROVE  h2 = h /\ Adds(t, t2)
<1>1. PICK P, U : Shape(v, D, P, U, own, rank, lev)
  BY DEF Drawn
<1>2. PICK P2, U2 : Shape(v, D2, P2, U2, own2, rank2, lev2)
  BY DEF Drawn
<1>3. TypedEntries(D) /\ PathsAre(D, own, lev, pth) /\ h = pth[cw]
      /\ cw \in DirHeads(D) /\ h2 = pth2[cw] /\ TypedEntries(D2)
  BY DEF Drawn
<1>4. \A l \in Live(D) : At(D, l).dir => l \in Live(D2) /\ At(D2, l) = At(D, l)
  BY DEF StoredOne, EntryKept
<1>5. LinksKept(v, D, own, v)
  BY DEF LinksKept
<1>6. h2 = h
  <2>1. pth2[cw] = pth[cw]
    BY <1>3, <1>4, <1>5, SamePaths
  <2> QED
    BY <2>1, <1>3
<1>7. ASSUME NEW l \in Live(D), l # loc
      PROVE  /\ l \in Live(D2)
             /\ PairOf(D2, own2, pth2, l) = PairOf(D, own, pth, l)
             /\ l \in Shown(D2, own2, lev2) <=> l \in Shown(D, own, lev)
  <2>1. EntryKept(D, D2, l)
    BY <1>7 DEF StoredOne
  <2>2. PairKept(D, own, lev, pth, D2, own2, lev2, pth2, l)
    BY <2>1, <1>4, <1>5, SamePair
  <2> QED
    BY <2>1, <2>2 DEF PairKept, PairOf, EntryKept
<1>8. /\ \A x \in t : \E l \in Shown(D, own, lev) : x = PairOf(D, own, pth, l)
      /\ \A l \in Shown(D, own, lev) : PairOf(D, own, pth, l) \in t
      /\ \A x \in t2 : \E l \in Shown(D2, own2, lev2) : x = PairOf(D2, own2, pth2, l)
      /\ \A l \in Shown(D2, own2, lev2) : PairOf(D2, own2, pth2, l) \in t2
  BY PicturePaths
<1> DEFINE d == own[loc[1]]
           a == At(D2, loc).name
           path == PathOf(D2, own2, pth2, loc)
           node == NodeAt(D2, At(D2, loc))
<1>9. /\ loc \in Live(D2) /\ loc[1] \in Clusters /\ Held(v, loc[1])
      /\ d \in DirHeads(D) /\ lev[d] < MaxDepth
      /\ \A l \in Live(D) : (own[l[1]] = d /\ At(D, l).name = a) => l = loc
      /\ \A l \in Live(D2) : l # loc => l \in Live(D)
      /\ loc \in Live(D) => ~At(D, loc).dir /\ ~At(D2, loc).dir /\ At(D, loc).name = a
  BY DEF StoredOne
<1>10. own2[loc[1]] = d /\ pth2[d] = pth[d] /\ lev2[d] = lev[d]
  BY <1>4, <1>5, <1>9, SamePaths
<1>11. loc \in Shown(D2, own2, lev2)
  BY <1>9, <1>10 DEF Shown
<1>12. path = Append(pth[d], a)
  BY <1>10 DEF PathOf
<1>13. a \in Names /\ pth[d] \in Seq(Names)
  BY <1>3, <1>9 DEF TypedEntries, PathsAre
<1>14. ASSUME NEW l \in Live(D), PathOf(D, own, pth, l) = path
       PROVE  l = loc
  <2>1. own[l[1]] \in DirHeads(D) /\ At(D, l).name \in Names
        /\ pth[own[l[1]]] \in Seq(Names)
    BY <1>1, <1>3, EntriesApart
  <2> DEFINE s == pth[own[l[1]]]
             s2 == pth[d]
             b == At(D, l).name
             b2 == a
  <2>2. /\ s \in Seq(Names) /\ s2 \in Seq(Names) /\ b \in Names /\ b2 \in Names
        /\ Append(s, b) = Append(s2, b2)
    BY <2>1, <1>12, <1>13, <1>14 DEF PathOf
  <2> HIDE DEF s, s2, b, b2
  <2>3. s = s2 /\ b = b2
    BY <2>2, AppendApart
  <2>4. pth[own[l[1]]] = pth[d] /\ At(D, l).name = a
    BY <2>3 DEF s, s2, b, b2
  <2>5. own[l[1]] = d
    BY <2>1, <2>4, <1>1, <1>3, <1>9, PathsApart
  <2> QED
    BY <2>4, <2>5, <1>9
<1>15. loc \in Live(D) => PathOf(D, own, pth, loc) = path
  BY <1>9, <1>12 DEF PathOf
<1>16. /\ path \in Files!Paths /\ <<path, node>> \in t2
       /\ \A l \in Live(D2) : PathOf(D2, own2, pth2, l) = path => l = loc
  <2>1. path \in Files!Paths
    BY <1>11, PicturePaths
  <2>2. <<path, node>> \in t2
    BY <1>8, <1>11 DEF PairOf
  <2>3. \A l \in Live(D2) : PathOf(D2, own2, pth2, l) = path => l = loc
    BY <1>9, PicturePaths
  <2> QED
    BY <2>1, <2>2, <2>3
<1>17. Files!IsDir(t, SubSeq(path, 1, Len(path) - 1))
  <2>1. SubSeq(path, 1, Len(path) - 1) = pth[d]
    BY <1>12, <1>13, PathParent
  <2>2. Files!IsDir(t, pth[d])
    BY <1>9, PicturePaths
  <2> QED
    BY <2>1, <2>2
<1> HIDE DEF d, a, path, node
<1>18. t2 \subseteq Files!Without(t, path) \cup {<<path, node>>}
  <2> SUFFICES ASSUME NEW x \in t2, x # <<path, node>>
               PROVE  x \in t /\ x[1] # path
    BY DEF Files!Without
  <2>1. PICK l \in Shown(D2, own2, lev2) : x = PairOf(D2, own2, pth2, l)
    BY <1>8
  <2>2. l # loc
    BY <2>1 DEF PairOf, path, node
  <2>3. l \in Live(D2) /\ l \in Live(D)
    BY <2>2, <1>9 DEF Shown
  <2>4. x = PairOf(D, own, pth, l) /\ l \in Shown(D, own, lev)
    BY <2>1, <2>2, <2>3, <1>7
  <2>5. x[1] = PathOf(D2, own2, pth2, l)
    BY <2>1 DEF PairOf
  <2> QED
    BY <2>2, <2>3, <2>4, <2>5, <1>8, <1>16
<1>19. Files!Without(t, path) \subseteq t2
  <2> SUFFICES ASSUME NEW x \in t, x[1] # path PROVE x \in t2
    BY DEF Files!Without
  <2>1. PICK l \in Shown(D, own, lev) : x = PairOf(D, own, pth, l)
    BY <1>8
  <2>2. l \in Live(D) /\ x[1] = PathOf(D, own, pth, l)
    BY <2>1 DEF Shown, PairOf
  <2>3. l # loc
    BY <2>2, <1>15
  <2> QED
    BY <2>1, <2>2, <2>3, <1>7, <1>8
<1>20. t2 = Files!Without(t, path) \cup {<<path, node>>}
  BY <1>16, <1>18, <1>19
<1>21. CASE ~At(D2, loc).dir
  <2>1. node \in Files!FileNodes
    BY <1>2, <1>3, <1>9, <1>21, NodeShown DEF node
  <2>2. ~Files!IsDir(t, path)
    <3> SUFFICES ASSUME Files!IsDir(t, path) PROVE FALSE
      OBVIOUS
    <3>1. path # <<>>
      BY <1>12, <1>13
    <3>2. <<path, Files!DirNode>> \in t
      BY <3>1 DEF Files!IsDir
    <3>3. PICK l \in Shown(D, own, lev) :
            <<path, Files!DirNode>> = PairOf(D, own, pth, l)
      BY <3>2, <1>8
    <3>4. l \in Live(D) /\ PathOf(D, own, pth, l) = path
          /\ NodeAt(D, At(D, l)) = Files!DirNode
      BY <3>3 DEF Shown, PairOf
    <3>5. l = loc
      BY <3>4, <1>14
    <3>6. ~At(D, l).dir
      BY <3>4, <3>5, <1>9
    <3> QED
      BY <3>4, <3>6 DEF NodeAt, FileNode, Files!DirNode
  <2>3. t2 \in Files!Written(t)
    BY <2>1, <2>2, <1>16, <1>17, <1>20 DEF Files!Written, Files!Parent
  <2> QED
    BY <2>3, <1>6 DEF Adds
<1>22. CASE At(D2, loc).dir
  <2>1. loc \notin Live(D)
    BY <1>9, <1>22
  <2>2. \A x \in t : x[1] # path
    <3> SUFFICES ASSUME NEW x \in t, x[1] = path PROVE FALSE
      OBVIOUS
    <3>1. PICK l \in Shown(D, own, lev) : x = PairOf(D, own, pth, l)
      BY <1>8
    <3>2. l \in Live(D) /\ PathOf(D, own, pth, l) = path
      BY <3>1 DEF Shown, PairOf
    <3> QED
      BY <3>2, <2>1, <1>14
  <2>3. Files!Without(t, path) = t /\ ~Files!Exists(t, path)
    BY <2>2 DEF Files!Without, Files!Exists
  <2>4. node = Files!DirNode
    BY <1>22 DEF node, NodeAt, DirNode, Files!DirNode
  <2>5. t2 = t \cup {<<path, Files!DirNode>>}
    BY <2>3, <2>4, <1>20
  <2>6. t2 \in Files!WithDir(t)
    BY <2>3, <2>5, <1>16, <1>17 DEF Files!WithDir, Files!Parent
  <2> QED
    BY <2>6, <1>6 DEF Adds
<1> QED
  BY <1>21, <1>22
-----------------------------------------------------------------------------
(* What a step without faults does to the picture.                          *)

\* Nothing that the picture shows changes.
Steady(own) ==
  /\ cwd' = cwd
  /\ Live(data') = Live(data)
  /\ \A l \in Live(data) : EntryKept(data, data', l)
  /\ LinksKept(View, data, own, View')
Erases(own) ==
  /\ cwd' = cwd /\ View' = View
  /\ ErasedOne(data, own, cwd, data', f.loc)
Stores(own, lev) ==
  /\ cwd' = cwd /\ View' = View
  /\ StoredOne(View, data, own, lev, data', f.loc)
Walks == data' = data /\ View' = View /\ cwd' \in LiveDirs(View)
\* The witness of the moment before the step.
WitnessNow(own, rank, lev) ==
  CallIs(View, fat[1], data, pc, f, cwd, own, rank, lev)
Shows(own, lev) == Steady(own) \/ Erases(own) \/ Stores(own, lev) \/ Walks

LEMMA RestSteady ==
  ASSUME View' = View, data' = data, cwd' = cwd, NEW own
  PROVE  Steady(own)
<1>1. \A l \in Live(data) : EntryKept(data, data', l)
  BY DEF EntryKept
<1> QED
  BY <1>1 DEF Steady, LinksKept

\* A link changes that is not inside a directory.
LEMMA SetSteady ==
  ASSUME NEW a, NEW x, View' = [View EXCEPT ![a] = x],
         data' = data, cwd' = cwd, View \in [Clusters -> FatVal], NEW own,
         View[a] \notin Clusters \/ own[a] \notin DirHeads(data)
  PROVE  Steady(own)
<1>1. \A l \in Live(data) : EntryKept(data, data', l)
  BY DEF EntryKept
<1>2. \A c \in Clusters : c # a => View'[c] = View[c]
  OBVIOUS
<1>3. LinksKept(View, data, own, View')
  BY <1>2 DEF LinksKept
<1> QED
  BY <1>1, <1>3 DEF Steady

\* The clusters where files start.
LEMMA FileStarts ==
  ASSUME NEW v, NEW D, NEW P, NEW U, NEW own, NEW rank, NEW lev,
         Shape(v, D, P, U, own, rank, lev),
         NEW l \in Live(D), ~At(D, l).dir, At(D, l).start # 0
  PROVE  /\ At(D, l).start \in Clusters /\ At(D, l).start \in Named(D)
         /\ own[At(D, l).start] = At(D, l).start
         /\ At(D, l).start \notin DirHeads(D)
<1>1. OneName(D) /\ HeadsFirst(v, D, P, own, rank)
  BY DEF Shape
<1>2. At(D, l).start \in Named(D)
  BY <1>1, StartNamed
<1>3. At(D, l).start \notin DirHeads(D)
  BY <1>1, FilesAreNotDirs
<1> QED
  BY <1>1, <1>2, <1>3 DEF HeadsFirst

\* A cluster is written where no file starts.
LEMMA ClearedSteady ==
  ASSUME NEW P, NEW U, NEW own, NEW rank, NEW lev,
         Shape(View, data, P, U, own, rank, lev),
         NEW c \in Clusters, Cleared(data, data', c),
         own[c] \in DirHeads(data) \/ own[c] \notin Named(data),
         View' = View, cwd' = cwd
  PROVE  Steady(own)
<1>1. /\ Live(data') = Live(data)
      /\ \A l \in Live(data) : At(data', l) = At(data, l)
  BY ClearedSame
<1>2. ASSUME NEW l \in Live(data), ~At(data, l).dir, At(data, l).start # 0
      PROVE  data'[At(data, l).start] = data[At(data, l).start]
  <2>1. /\ At(data, l).start \in Clusters /\ At(data, l).start \in Named(data)
        /\ own[At(data, l).start] = At(data, l).start
        /\ At(data, l).start \notin DirHeads(data)
    BY <1>2, FileStarts
  <2>2. At(data, l).start # c
    BY <2>1
  <2> QED
    BY <2>1, <2>2 DEF Cleared
<1>3. \A l \in Live(data) : EntryKept(data, data', l)
  BY <1>1, <1>2 DEF EntryKept
<1> QED
  BY <1>1, <1>3 DEF Steady, LinksKept

LEMMA MarkEocSteady ==
  ASSUME TypeInv, MarkEoc, NEW own, NEW rank, NEW lev, WitnessNow(own, rank, lev)
  PROVE  Steady(own)
<1>1. SetEntry(Eoc) /\ pc = "eoc" /\ Need = f.cl
  BY DEF MarkEoc, Need
<1>2. /\ View' = [View EXCEPT ![f.cl] = Eoc] /\ data' = data /\ cwd' = cwd
  BY <1>1, SetView
<1>3. View[f.cl] = Free
  BY <1>1 DEF WitnessNow, CallIs, AtEoc
<1>4. View[f.cl] \notin Clusters
  BY <1>3, Values DEF Free
<1> QED
  BY <1>2, <1>4, ViewType, SetSteady

LEMMA LinkPrevSteady ==
  ASSUME TypeInv, LinkPrev, NEW own, NEW rank, NEW lev, WitnessNow(own, rank, lev)
  PROVE  Steady(own)
<1>1. SetEntry(f.cl) /\ pc = "link" /\ Need = f.prev /\ f \in Frame
  BY DEF LinkPrev, Need, TypeInv, TypeOK
<1>2. /\ View' = [View EXCEPT ![f.prev] = f.cl] /\ data' = data /\ cwd' = cwd
      /\ f.prev \in Clusters
  BY <1>1, SetView
<1>3. AtFind(View, data, f, own, rank, lev) /\ f.first # 0
  BY <1>1 DEF WitnessNow, CallIs, AtLink
<1> DEFINE n == Wanted(f) - f.left
<1>4. /\ f.left \in 1..Wanted(f) /\ Wanted(f) \in Nat
      /\ Built(View, f, own, rank, n)
  BY <1>1, <1>3, Bounds DEF AtFind, Wanted, Frame
<1>5. n # 0 /\ n \in Nat
  BY <1>3, <1>4 DEF Built
<1>6. /\ ChainIs(View, f, own, rank, n)
      /\ Held(View, f.prev) /\ own[f.prev] = f.first /\ rank[f.prev] = n - 1
  BY <1>4, <1>5 DEF Built
<1>7. View[f.prev] = Eoc
  BY <1>2, <1>6 DEF ChainIs
<1>8. View[f.prev] \notin Clusters
  BY <1>7, Values
<1> QED
  BY <1>2, <1>8, ViewType, SetSteady

LEMMA SealSteady ==
  ASSUME TypeInv, Seal, NEW own, NEW rank, NEW lev, WitnessNow(own, rank, lev)
  PROVE  Steady(own)
<1>1. SetEntry(Eoc) /\ pc = "seal" /\ Need = f.prev /\ f \in Frame
  BY DEF Seal, Need, TypeInv, TypeOK
<1>2. /\ f.prev \in Clusters /\ View' = [View EXCEPT ![f.prev] = Eoc]
      /\ data' = data /\ cwd' = cwd
  BY <1>1, SetView
<1>3. Built(View, f, own, rank, Wanted(f))
  BY <1>1 DEF WitnessNow, CallIs, AtSeal
<1>4. Wanted(f) # 0
  <2>1. f.last = 0 => f.cnt # 0
    BY <1>1 DEF TypeInv, FrameOK, Allocating
  <2> QED
    BY <2>1 DEF Wanted
<1>5. /\ ChainIs(View, f, own, rank, Wanted(f))
      /\ Held(View, f.prev) /\ own[f.prev] = f.first
      /\ rank[f.prev] = Wanted(f) - 1
  BY <1>3, <1>4 DEF Built
<1>6. View[f.prev] = Eoc
  BY <1>2, <1>5 DEF ChainIs
<1>7. View[f.prev] \notin Clusters
  BY <1>6, Values
<1> QED
  BY <1>2, <1>7, ViewType, SetSteady

LEMMA LinkDirSteady ==
  ASSUME TypeInv, LinkDir, NEW own, NEW rank, NEW lev, WitnessNow(own, rank, lev)
  PROVE  Steady(own)
<1>1. SetEntry(f.first) /\ pc = "xlink" /\ Need = f.last
  BY DEF LinkDir, Need
<1>2. View' = [View EXCEPT ![f.last] = f.first] /\ data' = data /\ cwd' = cwd
  BY <1>1, SetView
<1>3. View[f.last] = Eoc
  BY <1>1 DEF WitnessNow, CallIs, AtXlink, Extending
<1>4. View[f.last] \notin Clusters
  BY <1>3, Values
<1> QED
  BY <1>2, <1>4, ViewType, SetSteady

LEMMA SealDirSteady ==
  ASSUME TypeInv, SealDir, NEW own, NEW rank, NEW lev, WitnessNow(own, rank, lev)
  PROVE  Steady(own)
<1>1. SetEntry(Eoc) /\ pc = "xeoc" /\ Need = f.first
  BY DEF SealDir, Need
<1>2. View' = [View EXCEPT ![f.first] = Eoc] /\ data' = data /\ cwd' = cwd
  BY <1>1, SetView
<1>3. View[f.first] = Eoc
  BY <1>1 DEF WitnessNow, CallIs, AtXzero
<1>4. View[f.first] \notin Clusters
  BY <1>3, Values
<1> QED
  BY <1>2, <1>4, ViewType, SetSteady

LEMMA FreeSteady ==
  ASSUME TypeInv, FreeCluster, NEW own, NEW rank, NEW lev,
         WitnessNow(own, rank, lev)
  PROVE  Steady(own)
<1>1. pc = "free" /\ SetEntry(Free) /\ Need = f.c
  BY DEF FreeCluster, Need
<1>2. View' = [View EXCEPT ![f.c] = Free] /\ data' = data /\ cwd' = cwd
  BY <1>1, SetView
<1>3. own[f.c] = 0
  BY <1>1 DEF WitnessNow, CallIs, AtFree
<1>4. own[f.c] \notin DirHeads(data)
  BY <1>3, Heads, Values
<1> QED
  BY <1>2, <1>4, ViewType, SetSteady

LEMMA ClearDirSteady ==
  ASSUME TypeInv, Quiet, ClearDir, NEW own, NEW rank, NEW lev,
         WitnessNow(own, rank, lev)
  PROVE  Steady(own)
<1>1. pc = "xzero" /\ Keep
  BY DEF ClearDir
<1>2. data' = [data EXCEPT ![f.first] = DirData(0, EmptySlots)]
  BY NoFailures DEF ClearDir, Quiet
<1>3. View' = View /\ cwd' = cwd
  BY <1>1, SameView DEF Keep
<1>4. /\ Sound(View, fat[1], data, {}, {f.first}, {}, {f.last, f.first}, cwd,
               own, rank, lev)
      /\ AtXzero(View, data, f, own, lev)
  BY <1>1, ClearCall DEF WitnessNow
<1>5. /\ f.first \in Clusters /\ own[f.first] = f.dir /\ f.dir \in DirHeads(data)
      /\ \A l \in Live(data) : l[1] # f.first
  BY <1>4 DEF AtXzero, Aim
<1>6. Cleared(data, data', f.first)
  BY <1>2, <1>5, TypeInvData, EmptyIsCleared
<1>7. Shape(View, data, {}, {f.first}, own, rank, lev)
  BY <1>4 DEF Sound
<1> QED
  BY <1>3, <1>5, <1>6, <1>7, ClearedSteady

\* A cluster of the chain that is being built.
LEMMA OwnSteady ==
  ASSUME NEW own, NEW rank, NEW lev, NEW c,
         OwnWriteOK(fat[1], data, data', own, rank, lev, cwd, f.first, c),
         View' = View, cwd' = cwd
  PROVE  Steady(own)
<1>1. Cleared(data, data', c) /\ f.first \notin Named(data)
  BY OwnWrite
<1>2. /\ c \in Clusters /\ own[c] = f.first
      /\ Shape(View, data, {f.first}, {}, own, rank, lev)
  BY DEF OwnWriteOK, Sound
<1> QED
  BY <1>1, <1>2, ClearedSteady

LEMMA WriteClusterSteady ==
  ASSUME TypeInv, Quiet, WriteCluster, NEW own, NEW rank, NEW lev,
         WitnessNow(own, rank, lev)
  PROVE  Steady(own)
<1> DEFINE x == FileData(f.payload, f.index)
<1>1. pc = "data" /\ Keep /\ pc \in Building
  BY DEF WriteCluster, Building
<1>2. data' = [data EXCEPT ![f.c] = x]
  BY NoFailures DEF WriteCluster, Quiet
<1>3. View' = View /\ cwd' = cwd
  BY <1>1, SameView DEF Keep
<1>4. /\ Sound(View, fat[1], data, {f.first} \ {0}, {}, {}, {}, cwd, own, rank, lev)
      /\ f.first # 0 => own[f.first] # 0
      /\ AtData(View, data, f, own, rank, lev, f.index - 1)
  BY <1>1, BuildCall DEF WitnessNow
<1>5. /\ f.c \in Clusters /\ Held(View, f.c) /\ own[f.c] = f.first
      /\ f.first # 0
  BY <1>4, Values DEF AtData, ChainIs
<1>6. {f.first} \ {0} = {f.first}
  BY <1>5
<1>7. Sound(View, fat[1], data, {f.first}, {}, {}, {}, cwd, own, rank, lev)
  BY <1>4, <1>6
<1>8. data'[f.c] = x /\ \A y \in Clusters : y # f.c => data'[y] = data[y]
  BY <1>2, <1>5, TypeInvData DEF DataOK
<1>9. \A s \in 1..Slots : At(data', <<f.c, s>>) = EndMark
  <2>1. data'[f.c].kind # "dir"
    BY <1>8 DEF FileData
  <2> QED
    BY <2>1 DEF At, EmptySlots
<1>10. OwnWriteOK(fat[1], data, data', own, rank, lev, cwd, f.first, f.c)
  BY <1>4, <1>5, <1>7, <1>8, <1>9 DEF OwnWriteOK
<1> QED
  BY <1>3, <1>10, OwnSteady

LEMMA InitDirSteady ==
  ASSUME TypeInv, Quiet, InitDir, NEW own, NEW rank, NEW lev,
         WitnessNow(own, rank, lev)
  PROVE  Steady(own)
<1> DEFINE x == DirData(IF f.dir = Root THEN 0 ELSE f.dir, EmptySlots)
<1>1. pc = "dirinit" /\ Keep /\ pc \in Building
  BY DEF InitDir, Building
<1>2. data' = [data EXCEPT ![f.first] = x]
  BY NoFailures DEF InitDir, Quiet
<1>3. View' = View /\ cwd' = cwd
  BY <1>1, SameView DEF Keep
<1>4. /\ Sound(View, fat[1], data, {f.first} \ {0}, {}, {}, {}, cwd, own, rank, lev)
      /\ f.first # 0 => own[f.first] # 0
      /\ AtDirinit(View, data, f, own, rank, lev)
  BY <1>1, BuildCall DEF WitnessNow
<1>5. f.first \in Clusters /\ f.first # 0
  BY <1>4, Values DEF AtDirinit, ChainIs
<1>6. {f.first} \ {0} = {f.first}
  BY <1>5
<1>7. Sound(View, fat[1], data, {f.first}, {}, {}, {}, cwd, own, rank, lev)
  BY <1>4, <1>6
<1>8. own[f.first] # 0 /\ own[f.first] = f.first /\ Held(View, f.first)
  <2>1. f.first \in {f.first}
    OBVIOUS
  <2> QED
    BY <2>1, <1>4, <1>5, <1>7 DEF Sound, Shape, HeadsFirst
<1>9. data'[f.first] = x /\ \A y \in Clusters : y # f.first => data'[y] = data[y]
  BY <1>2, <1>5, TypeInvData DEF DataOK
<1>10. \A s \in 1..Slots : At(data', <<f.first, s>>) = EndMark
  <2>1. EmptyDir(data', f.first)
    BY <1>9 DEF EmptyDir, DirData
  <2> QED
    BY <2>1 DEF EmptyDir, At, EmptySlots
<1>11. OwnWriteOK(fat[1], data, data', own, rank, lev, cwd, f.first, f.first)
  BY <1>5, <1>7, <1>8, <1>9, <1>10 DEF OwnWriteOK
<1> QED
  BY <1>3, <1>11, OwnSteady

LEMMA MarkEndSteady ==
  ASSUME TypeInv, Quiet, MarkEnd, NEW own, NEW rank, NEW lev,
         WitnessNow(own, rank, lev)
  PROVE  Steady(own)
<1>1. pc = "mark" /\ Keep
  BY DEF MarkEnd
<1>2. View' = View /\ cwd' = cwd
  BY <1>1, SameView DEF Keep
<1>3. /\ Sound(View, fat[1], data, {f.old} \ {0}, {}, {f.first}, {}, cwd,
               own, rank, lev)
      /\ AtMark(View, data, f, own)
  BY <1>1, FlushCall DEF WitnessNow
<1>4. /\ f.loc[1] \in Clusters /\ own[f.loc[1]] \in DirHeads(data)
      /\ View[f.loc[1]] = Eoc /\ f.loc[2] \in 1..Slots
      /\ \A t \in 1..Slots : t > f.loc[2] => At(data, <<f.loc[1], t>>) = EndMark
  BY <1>3, FrameFields DEF AtMark, Loc
<1>5. data' = data
  <2>1. CASE f.loc[2] < Slots
    <3> DEFINE nxt == <<f.loc[1], f.loc[2] + 1>>
    <3>1. f.loc[2] + 1 \in 1..Slots /\ f.loc[2] + 1 > f.loc[2]
      BY <2>1, <1>4, Bounds
    <3>2. nxt \in Places /\ nxt[1] = f.loc[1] /\ At(data, nxt) = EndMark
      BY <3>1, <1>4 DEF Places
    <3>3. data[nxt[1]].kind = "dir"
      BY <3>2, <1>3, <1>4, Values DEF Sound, Shape, DirsAreDirs, Held
    <3>4. PutSlot(nxt, EndMark) = data
      BY <3>2, <3>3, PutSame, TypeInvData
    <3>5. nxt[1] # 0
      BY <3>2, <1>4, Values
    <3>6. \E w \in BOOLEAN : WriteSlot(nxt, EndMark, w)
      BY <2>1, <3>5 DEF MarkEnd
    <3> HIDE DEF nxt
    <3> QED
      BY <3>4, <3>6, NoFailures DEF Quiet
  <2>2. CASE ~(f.loc[2] < Slots)
    <3>1. NextOf(View, f.loc[1]) = 0
      BY <1>4, Values DEF NextOf
    <3>2. <<NextOf(View, f.loc[1]), 1>>[1] = 0
      BY <3>1
    <3> QED
      BY <2>2, <3>2 DEF MarkEnd
  <2> QED
    BY <2>1, <2>2
<1> QED
  BY <1>2, <1>5, RestSteady

\* A slot of a directory changes: the files stay.
LEMMA ReplacedFiles ==
  ASSUME NEW v, NEW D, NEW P, NEW U, NEW own, NEW rank, NEW lev,
         Shape(v, D, P, U, own, rank, lev),
         NEW D2, NEW loc, NEW e, Replaced(D, D2, loc, e),
         own[loc[1]] \in DirHeads(D),
         NEW l \in Live(D), ~At(D, l).dir, At(D, l).start # 0
  PROVE  D2[At(D, l).start] = D[At(D, l).start]
<1>1. /\ At(D, l).start \in Clusters /\ own[At(D, l).start] = At(D, l).start
      /\ At(D, l).start \notin DirHeads(D)
  BY FileStarts
<1>2. At(D, l).start # loc[1]
  BY <1>1
<1> QED
  BY <1>1, <1>2 DEF Replaced

LEMMA TombstoneErases ==
  ASSUME TypeInv, Quiet, Tombstone, NEW own, NEW rank, NEW lev,
         WitnessNow(own, rank, lev)
  PROVE  Erases(own)
<1>1. pc = "tombstone" /\ Keep
  BY DEF Tombstone
<1>2. data' = PutSlot(f.loc, Deleted)
  BY NoFailures DEF Tombstone, Quiet
<1>3. View' = View /\ cwd' = cwd
  BY <1>1, SameView DEF Keep
<1>4. /\ Sound(View, fat[1], data, {}, {}, {}, {}, cwd, own, rank, lev)
      /\ AtTombstone(data, f, cwd, own)
  BY <1>1, SearchCall DEF WitnessNow
<1>5. /\ f.loc \in Live(data) /\ f.loc \in Places
      /\ At(data, f.loc).start = f.old
      /\ At(data, f.loc).dir =>
           f.old # cwd /\ \A l \in Live(data) : own[l[1]] # f.old
  BY <1>4 DEF AtTombstone, Live
<1>6. Replaced(data, data', f.loc, Deleted)
  BY <1>2, <1>5, TypeInvData, PutIsReplaced
<1>7. Shape(View, data, {}, {}, own, rank, lev)
  BY <1>4 DEF Sound
<1>8. own[f.loc[1]] \in DirHeads(data)
  BY <1>5, <1>7 DEF Shape, DirsAreDirs
<1>9. \A l \in Places : At(data', l) = IF l = f.loc THEN Deleted ELSE At(data, l)
  BY <1>6 DEF Replaced
<1>10. /\ f.loc \notin Live(data')
       /\ \A l \in Live(data) : l # f.loc => l \in Live(data')
       /\ \A l \in Live(data') : /\ l \in Live(data) /\ l # f.loc
                                 /\ At(data, l) = At(data', l)
  BY <1>9 DEF Live, Deleted
<1>11. \A l \in Live(data') : EntryKept(data', data, l)
  <2> SUFFICES ASSUME NEW l \in Live(data') PROVE EntryKept(data', data, l)
    OBVIOUS
  <2>1. l \in Live(data) /\ At(data, l) = At(data', l)
    BY <1>10
  <2>2. (~At(data, l).dir /\ At(data, l).start # 0) =>
          data'[At(data, l).start] = data[At(data, l).start]
    BY <2>1, <1>6, <1>7, <1>8, ReplacedFiles
  <2> QED
    BY <2>1, <2>2 DEF EntryKept
<1>12. At(data, f.loc).dir => /\ At(data, f.loc).start # cwd
                              /\ ~HasEntry(data, own, At(data, f.loc).start)
  BY <1>5 DEF HasEntry
<1>13. ErasedOne(data, own, cwd, data', f.loc)
  BY <1>5, <1>10, <1>11, <1>12 DEF ErasedOne
<1> QED
  BY <1>3, <1>13 DEF Erases

LEMMA WriteEntryStores ==
  ASSUME TypeInv, Quiet, WriteEntry, NEW own, NEW rank, NEW lev,
         WitnessNow(own, rank, lev)
  PROVE  Stores(own, lev)
<1> DEFINE e == EntryMade
<1>1. pc = "entry" /\ Keep /\ pc \in Building
  BY DEF WriteEntry, Building
<1>2. data' = PutSlot(f.loc, e)
  BY NoFailures DEF WriteEntry, EntryMade, Quiet
<1>3. View' = View /\ cwd' = cwd
  BY <1>1, SameView DEF Keep
<1>4. /\ Sound(View, fat[1], data, {f.first} \ {0}, {}, {}, {}, cwd, own, rank, lev)
      /\ AtEntry(View, data, f, own, rank, lev)
  BY <1>1, BuildCall DEF WitnessNow
<1> DEFINE P == {f.first} \ {0}
<1>5. Shape(View, data, P, {}, own, rank, lev)
  BY <1>4 DEF Sound
<1>6. /\ Aim(data, f, own, lev) /\ Placed(View, data, f, own)
      /\ f.loc[1] \in Clusters /\ Held(View, f.loc[1]) /\ own[f.loc[1]] = f.dir
      /\ f.dir \in DirHeads(data) /\ lev[f.dir] < MaxDepth
  BY <1>4 DEF AtEntry, Aim, Placed
<1>7. f.loc \in Places
  BY <1>6, FrameFields DEF Loc, Places
<1>8. e.tag = "live" /\ e.name = f.name /\ (f.kind = "write" => ~e.dir)
  BY DEF EntryMade, Entry
<1> HIDE DEF e, P
<1>9. Replaced(data, data', f.loc, e)
  BY <1>2, <1>7, TypeInvData, PutIsReplaced
<1>10. \A l \in Places : At(data', l) = IF l = f.loc THEN e ELSE At(data, l)
  BY <1>9 DEF Replaced
<1>11. /\ f.loc \in Live(data') /\ At(data', f.loc) = e
       /\ \A l \in Live(data') : l # f.loc => l \in Live(data)
       /\ \A l \in Live(data) : l # f.loc =>
            l \in Live(data') /\ At(data', l) = At(data, l)
  BY <1>7, <1>8, <1>10 DEF Live
<1>12. \A l \in Live(data) : l # f.loc => EntryKept(data, data', l)
  <2> SUFFICES ASSUME NEW l \in Live(data), l # f.loc
               PROVE  EntryKept(data, data', l)
    OBVIOUS
  <2>1. (~At(data, l).dir /\ At(data, l).start # 0) =>
          data'[At(data, l).start] = data[At(data, l).start]
    BY <1>5, <1>6, <1>9, ReplacedFiles
  <2> QED
    BY <2>1, <1>11 DEF EntryKept
<1>13. f.loc \in Live(data) =>
         /\ ~At(data, f.loc).dir /\ ~At(data', f.loc).dir
         /\ At(data, f.loc).name = At(data', f.loc).name
  BY <1>6, <1>8, <1>11 DEF Placed
<1>14. \A l \in Live(data) :
         (own[l[1]] = own[f.loc[1]] /\ At(data, l).name = At(data', f.loc).name)
           => l = f.loc
  BY <1>6, <1>8, <1>11 DEF Aim
<1>15. StoredOne(View, data, own, lev, data', f.loc)
  BY <1>6, <1>11, <1>12, <1>13, <1>14 DEF StoredOne
<1> QED
  BY <1>3, <1>15 DEF Stores

\* Every call but ChangeDir leaves the disk as it is.
LEMMA CallShows ==
  ASSUME TypeInv, Quiet, Call, NEW own, NEW lev
  PROVE  Steady(own) \/ Walks
<1>1. (Begin /\ Walked) => View' = View /\ data' = data
  BY SameView, WalkQuiet DEF Begin, cacheVars
<1>2. (Begin /\ Walked /\ cwd' = cwd) => Steady(own)
  BY <1>1, RestSteady
<1>3. ASSUME NEW d \in LiveDirs(View), ChangeDir(d) PROVE Walks
  BY <1>1, <1>3, CallBegins DEF ChangeDir, Walks
<1>4. ASSUME NEW d, NEW n,
             \/ \E p \in Payloads, size \in 0..MaxCount : Write(d, n, p, size)
             \/ CreateDir(d, n) \/ Delete(d, n) \/ DeleteDir(d, n)
      PROVE  Steady(own)
  BY <1>2, <1>4, CallBegins DEF Write, CreateDir, Delete, DeleteDir
<1>5. ASSUME NEW c, Read(c) PROVE Steady(own)
  BY <1>2, <1>5, CallBegins DEF Read
<1>6. Sync => Steady(own)
  BY <1>2, CallBegins DEF Sync
<1> QED
  BY <1>3, <1>4, <1>5, <1>6 DEF Call

LEMMA KeepSteady ==
  ASSUME Keep, data' = data, NEW own
  PROVE  Steady(own)
  BY KeepIsRest, RestSteady DEF Rest

LEMMA StepShows ==
  ASSUME TypeInv, CacheInv, Quiet, TreeNow, [Next]_vars,
         NEW own, NEW rank, NEW lev, WitnessNow(own, rank, lev)
  PROVE  Shows(own, lev)
<1>1. CASE Call
  BY <1>1, CallShows DEF Shows
<1>2. CASE AllocStep
  <2>1. FindFree => Steady(own)
    BY SameView, RestSteady DEF FindFree, diskVars
  <2>2. DiskFull => Steady(own)
    BY KeepSteady DEF DiskFull
  <2> QED
    BY <1>2, <2>1, <2>2, NoneFailed, MarkEocSteady, LinkPrevSteady, SealSteady
       DEF AllocStep, Shows
<1>3. CASE ExtendStep
  <2>1. FindSlot \/ Extend \/ ExtendDone => Steady(own)
    BY KeepSteady DEF FindSlot, Extend, ExtendDone
  <2> QED
    BY <1>3, <2>1, NoneFailed, LinkDirSteady, SealDirSteady, ClearDirSteady
       DEF ExtendStep, Shows
<1>4. CASE StoreStep
  <2>1. NextCluster => Steady(own)
    BY KeepSteady DEF NextCluster
  <2> QED
    BY <1>4, <2>1, NoneFailed, WriteClusterSteady, InitDirSteady,
       WriteEntryStores, TombstoneErases, MarkEndSteady DEF StoreStep, Shows
<1>5. CASE FlushStep
  <2>1. FlushCopy \/ LoadSector => Steady(own)
    BY FlushView, LoadView, RestSteady
  <2>2. Flushed1 \/ Flushed2 => Steady(own)
    BY KeepSteady DEF Flushed1, Flushed2
  <2> QED
    BY <1>5, <2>1, <2>2, NoneFailed DEF FlushStep, Shows
<1>6. CASE FreeStep
  BY <1>6, NoneFailed, FreeSteady DEF FreeStep, Shows
<1>7. CASE ReadDone \/ ReadError
  <2>1. ReadDone => Steady(own)
    BY KeepSteady DEF ReadDone
  <2> QED
    BY <1>7, <2>1, NoneFailed DEF Shows
<1>8. CASE UNCHANGED vars
  <2>1. View' = View /\ data' = data /\ cwd' = cwd
    BY <1>8 DEF vars, View, Cached
  <2> QED
    BY <2>1, RestSteady DEF Shows
<1> QED
  BY <1>1, <1>2, <1>3, <1>4, <1>5, <1>6, <1>7, <1>8, NoneFailed DEF Next, Step

\* Only the current directory changes.
LEMMA WalkDrawn ==
  ASSUME NEW v, NEW D, NEW cw, NEW t, NEW h, NEW own, NEW rank, NEW lev, NEW pth,
         Drawn(v, D, cw, t, h, own, rank, lev, pth),
         NEW cw2, NEW t2, NEW h2, NEW own2, NEW rank2, NEW lev2,
         NEW pth2, Drawn(v, D, cw2, t2, h2, own2, rank2, lev2, pth2)
  PROVE  t2 = t /\ h2 \in {<<>>} \cup {p \in Files!Paths : Files!IsDir(t, p)}
<1>1. LinksKept(v, D, own, v) /\ \A l \in Live(D) : EntryKept(D, D, l)
  BY DEF LinksKept, EntryKept
<1>2. t2 = t
  BY <1>1, StutterDrawn
<1>3. h2 = pth2[cw2] /\ cw2 \in DirHeads(D) /\ PathsAre(D, own2, lev2, pth2)
  BY DEF Drawn
<1>4. Files!IsDir(t2, h2)
  BY <1>3, PicturePaths
<1>5. h2 \in Seq(Names) /\ Len(h2) = lev2[cw2]
  BY <1>3 DEF PathsAre
<1>6. lev2[cw2] \in 0..MaxDepth
  <2>1. PICK P, U : Shape(v, D, P, U, own2, rank2, lev2)
    BY DEF Drawn
  <2> QED
    BY <2>1, <1>3, Heads DEF Shape, Witness
<1>7. h2 # <<>> => h2 \in Files!Paths
  <2> SUFFICES ASSUME h2 # <<>> PROVE h2 \in Files!Paths
    OBVIOUS
  <2>1. Len(h2) \in 1..MaxDepth
    BY <1>5, <1>6, FatAssumption
  <2>2. h2 \in [1..Len(h2) -> Names]
    BY <1>5, SeqTable
  <2> QED
    BY <2>1, <2>2 DEF Files!Paths
<1> QED
  BY <1>2, <1>4, <1>7

LEMMA InitShown == Init => Files!Init
<1> SUFFICES ASSUME Init PROVE Files!Init
  OBVIOUS
<1>1. TypeInv /\ TreeInv /\ faults = 0
  BY TreeInit DEF Init
<1>2. TreeNow
  BY <1>1 DEF TreeInv, TreeNow
<1>3. PICK own, rank, lev, pth :
        Drawn(View, data, cwd, Tree(View), Here, own, rank, lev, pth)
  BY <1>1, <1>2, NowShown DEF TreeShows
<1>4. Live(data) = {}
  BY InitEmpty
<1>5. Tree(View) = {}
  BY <1>3, <1>4 DEF Drawn, Picture, Shown
<1>6. Here = <<>>
  BY <1>3 DEF Drawn, PathsAre, Leads, Init
<1> QED
  BY <1>5, <1>6 DEF Files!Init

\* What a step may do to the tree that FatFs shows: one call of FileTree, or
\* nothing.
FilesStep == Files!Next \/ UNCHANGED <<Tree(View), Here>>

LEMMA NextFiles ==
  ASSUME TypeInv, CacheInv, TreeInv, [Next]_vars, TypeInv', TreeInv', faults' = 0
  PROVE  FilesStep
<1>1. Quiet /\ TreeNow /\ TreeNow'
  <2>1. faults \in Nat
    BY Bounds DEF TypeInv, TypeOK
  <2>2. faults = 0
    BY <2>1, FaultsCount DEF Counting
  <2> QED
    BY <2>2 DEF Quiet, TreeInv, TreeNow
<1>2. PICK own, rank, lev : WitnessNow(own, rank, lev)
  BY <1>1 DEF TreeNow, TreeIn, WitnessNow
<1>3. \E pth : Drawn(View, data, cwd, Tree(View), Here, own, rank, lev, pth)
  <2> DEFINE P == Pending(pc, f)
             U == Uncleared(pc, f)
  <2>1. Shape(View, data, P, U, own, rank, lev) /\ cwd \in DirHeads(data)
    BY <1>2 DEF WitnessNow, CallIs, Sound
  <2> HIDE DEF P, U
  <2> QED
    BY <2>1, NowDrawn
<1>4. PICK pth : Drawn(View, data, cwd, Tree(View), Here, own, rank, lev, pth)
  BY <1>3
<1>5. PICK own2, rank2, lev2, pth2 :
        Drawn(View', data', cwd', Tree(View)', Here', own2, rank2, lev2, pth2)
  BY <1>1, NextShown
<1>6. Shows(own, lev)
  BY <1>1, <1>2, StepShows
<1>7. CASE Steady(own)
  <2>1. /\ cwd' = cwd /\ LinksKept(View, data, own, View')
        /\ Live(data') = Live(data)
        /\ \A l \in Live(data) : EntryKept(data, data', l)
    BY <1>7 DEF Steady
  <2>2. Tree(View)' = Tree(View) /\ Here' = Here
    BY <2>1, <1>4, <1>5, StutterDrawn
  <2> QED
    BY <2>2 DEF FilesStep
<1>8. CASE Erases(own)
  <2>1. cwd' = cwd /\ View' = View /\ ErasedOne(data, own, cwd, data', f.loc)
    BY <1>8 DEF Erases
  <2>2. Drawn(View, data', cwd, Tree(View)', Here', own2, rank2, lev2, pth2)
    BY <2>1, <1>5
  <2>3. /\ Here' = Here
        /\ Tree(View)' = Tree(View) \/ Removes(Tree(View), Here, Tree(View)')
    BY <2>1, <2>2, <1>4, EraseDrawn
  <2> QED
    BY <2>3 DEF Removes, FilesStep, Files!Next, Files!Delete, Files!DeleteDir
<1>9. CASE Stores(own, lev)
  <2>1. cwd' = cwd /\ View' = View /\ StoredOne(View, data, own, lev, data', f.loc)
    BY <1>9 DEF Stores
  <2>2. Drawn(View, data', cwd, Tree(View)', Here', own2, rank2, lev2, pth2)
    BY <2>1, <1>5
  <2>3. Here' = Here /\ Adds(Tree(View), Tree(View)')
    BY <2>1, <2>2, <1>4, StoreDrawn
  <2> QED
    BY <2>3 DEF Adds, FilesStep, Files!Next, Files!Write, Files!CreateDir
<1>10. CASE Walks
  <2>1. data' = data /\ View' = View
    BY <1>10 DEF Walks
  <2>2. Drawn(View, data, cwd', Tree(View)', Here', own2, rank2, lev2, pth2)
    BY <2>1, <1>5
  <2>3. /\ Tree(View)' = Tree(View)
        /\ Here' \in {<<>>} \cup {p \in Files!Paths : Files!IsDir(Tree(View), p)}
    BY <2>2, <1>4, WalkDrawn
  <2> QED
    BY <2>3 DEF FilesStep, Files!Next, Files!ChangeDir
<1> QED
  BY <1>6, <1>7, <1>8, <1>9, <1>10 DEF Shows

\* Each call changes the tree of files in one of its steps, and the way FileTree
\* allows: fs_save_file puts one file, fs_create_dir one empty directory,
\* fs_delete_file and fs_delete_dir take one entry away, fs_change_dir moves the
\* current directory to a directory of the tree.  Every other step (a cluster
\* claimed, linked, sealed or freed, a sector of the FAT loaded or flushed, a
\* slot searched) leaves the tree as it was.  This is so for every step up to the
\* first fault, whatever the faults that follow.
THEOREM CallsAtOnce == Spec => Files!Init /\ [][faults' = 0 => FilesStep]_vars
<1>1. TypeInv /\ TreeInv /\ CacheInv /\ [Next]_vars /\ TypeInv' /\ TreeInv'
        => [faults' = 0 => FilesStep]_vars
  BY NextFiles
<1> QED
  BY <1>1, TreeInit, TreeStep, InitShown, PTL DEF Spec

\* Every behaviour in which no transfer fails and the power stays implements
\* FileTree: the calls of sima_fs.c are atomic to whoever looks at the tree.
THEOREM QuietImplements == Spec /\ [](faults = 0) => Files!Spec
<1>1. TypeInv /\ TreeInv /\ CacheInv /\ [Next]_vars /\ TypeInv' /\ TreeInv'
      /\ (faults = 0)'
        => [Files!Next]_<<Tree(View), Here>>
  BY NextFiles DEF FilesStep
<1> QED
  BY <1>1, TreeInit, TreeStep, InitShown, PTL DEF Spec, Files!Spec

\* On a disk that never fails the file system implements FileTree: no assumption
\* on the behaviour is left, only on the disk.
THEOREM SoundDiskImplements ==
  ASSUME FaultKinds = {}
  PROVE  Spec => Files!Spec
<1>1. Init => faults = 0
  BY DEF Init
<1>2. faults = 0 /\ [Next]_vars => (faults = 0)'
  BY FaultsCount DEF Counting
<1>3. Spec => [](faults = 0)
  BY <1>1, <1>2, PTL DEF Spec
<1> QED
  BY <1>3, QuietImplements, PTL
=============================================================================
