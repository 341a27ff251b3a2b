------------------------------- MODULE FatFs -------------------------------
(***************************************************************************)
(* The kernel's FAT file system (kernel/sima_fs.c) on a writable volume    *)
(* whose root directory is a cluster chain (FAT32), over the sector        *)
(* primitives of kernel/sima_ide.c.                                        *)
(*                                                                         *)
(* The kernel keeps ONE sector of the FAT in memory (g_fat_sector).  Every *)
(* FAT access first loads the sector it needs, which flushes the dirty     *)
(* one.  A system call is a sequence of steps; each step is one access to  *)
(* the FAT cache or one write to the disk, so power may be lost, or a      *)
(* write may fail, between any two of them.  The kernel is single threaded *)
(* and not reentrant: one call runs at a time (pc, f).                     *)
(***************************************************************************)
EXTENDS Naturals, Sequences

CONSTANTS
  MaxCluster,   \* fat_max_cluster(): the clusters are 2..MaxCluster
  PerSector,    \* FAT entries in one FAT sector
  NumFats,      \* g_bpb.fats: the copies of the FAT kept on disk
  Slots,        \* directory entries in one cluster ("." and ".." apart)
  Root,         \* g_bpb.root_cluster
  Names,        \* 8.3 names
  Payloads,     \* file contents
  MaxCount,     \* bound: clusters of one file
  MaxDepth,     \* bound: length of a path
  MaxCalls,     \* bound: calls
  MaxOps,       \* bound: system calls and faults in one behaviour
  MaxFaults,    \* bound: the faults among them (failed transfers, crashes)
  FaultKinds    \* which faults the disk has: see WriteData, ReadFails, Crash

Clusters == 2..MaxCluster

ASSUME FatAssumption ==
  /\ MaxCluster \in Nat /\ MaxCluster >= 2
  /\ PerSector \in Nat \ {0}
  /\ NumFats \in Nat \ {0}
  /\ Slots \in Nat \ {0}
  /\ Root \in Clusters
  /\ {MaxCount, MaxDepth, MaxCalls, MaxOps, MaxFaults} \subseteq Nat /\ MaxCount # 0
  /\ FaultKinds \subseteq {"lost", "late", "read", "crash"}

VARIABLES
  fat,      \* disk: the copies of the FAT
  data,     \* disk: the contents of the data clusters
  cache,    \* g_fat_sector: its entries (Free outside the cached sector)
  cur,      \* g_cur_fat_sector_lba, NoSector when nothing is loaded
  dirty,    \* g_fat_dirty
  copy,     \* the copy fat_flush_fat_sector writes next
  hint,     \* g_alloc_hint
  cwd,      \* g_cwd_cluster
  pc,       \* where the running system call stands, "idle" between calls
  f,        \* its local variables
  ret,      \* what the last call returned
  ops,      \* calls made so far
  faults,   \* faults so far
  crashed,  \* TRUE once power was lost
  cut,      \* history: TRUE once a fault hit the walk of a directory or the
            \* undoing of its extension, see Implements
  suspect   \* the <<directory, name>> pairs a fault may have damaged

diskVars  == <<fat, data>>
cacheVars == <<cache, cur, dirty, copy>>
faultVars == <<faults, crashed, cut, suspect>>
vars == <<fat, data, cache, cur, dirty, copy, hint, cwd, pc, f, ret, ops,
          faults, crashed, cut, suspect>>
-----------------------------------------------------------------------------
(* The disk. *)

Free == 0
Eoc  == MaxCluster + 1              \* 0x0FFFFFFF: above every cluster number
FatVal == Clusters \cup {Free, Eoc}
Cl0 == Clusters \cup {0}            \* a cluster number, 0 for none

\* The FAT sector that holds an entry, numbered from 1: g_fat_start_lba > 0.
SectorOf(c) == 1 + (c \div PerSector)
NoSector == 0
\* One cluster of each sector.
SectorHeads ==
  {c \in Clusters : \A x \in Clusters : SectorOf(x) = SectorOf(c) => c <= x}
NoCache == [c \in Clusters |-> Free]

EndMark == [tag |-> "end"]                   \* name[0] = 0x00
Deleted_AsEnd == [tag |-> "end"]
Deleted == [tag |-> "del"]                   \* name[0] = 0xE5
Entry(n, isDir, start, len) ==
  [tag |-> "live", name |-> n, dir |-> isDir, start |-> start, len |-> len]
Slot == {EndMark, Deleted}
          \cup [tag: {"live"}, name: Names, dir: BOOLEAN,
                start: Cl0, len: 0..MaxCount]

Raw == [kind |-> "raw"]                      \* never written
FileData(p, i) == [kind |-> "file", payload |-> p, index |-> i]
DirData(parent, slots) == [kind |-> "dir", parent |-> parent, slot |-> slots]
EmptySlots == [s \in 1..Slots |-> EndMark]
Content == {Raw}
             \cup [kind: {"file"}, payload: Payloads, index: 1..MaxCount]
             \cup [kind: {"dir"}, parent: Cl0, slot: [1..Slots -> Slot]]

\* The entries a cluster holds when it is read as a directory.
SlotsOf(c) == IF data[c].kind = "dir" THEN data[c].slot ELSE EmptySlots
ParentOf(c) == IF data[c].kind = "dir" THEN data[c].parent ELSE 0
\* fat_write_entry_at_loc: the sector read, one entry replaced, written back.
PutSlot(loc, e) ==
  [data EXCEPT ![loc[1]] =
     DirData(ParentOf(loc[1]), [SlotsOf(loc[1]) EXCEPT ![loc[2]] = e])]
-----------------------------------------------------------------------------
(* Chains and directories, read through a view of the FAT. *)

Cached(c) == cur = SectorOf(c)

\* fat_get_entry, for every cluster at once: the cached sector hides the disk.
View == [c \in Clusters |-> IF Cached(c) THEN cache[c] ELSE fat[1][c]]

IsFree_OrLast(v, c) == v[c] \in {Free, Eoc}
IsFree(v, c) == v[c] = Free

\* fat_next_cluster: 0 at the end of a chain, and on a free or bad entry.
NextOf(v, c) == IF c \in Clusters /\ v[c] \in Clusters THEN v[c] ELSE 0

\* The i-th cluster of the chain that starts at c, 0 past its end.
Chain(v, c) ==
  LET hop[i \in 0..MaxCluster] == IF i = 0 THEN c ELSE NextOf(v, hop[i - 1])
  IN  hop
ChainSet(v, c) == {Chain(v, c)[i] : i \in 0..MaxCluster} \ {0}
LastOf(v, c) == CHOOSE x \in ChainSet(v, c) : NextOf(v, x) = 0

\* The slots of a directory, each with its position, and those a scan sees: it
\* stops at the first end marker.
LocAt(v, d, q) == <<Chain(v, d)[q \div Slots], 1 + (q % Slots)>>
Listing(v, d) ==
  {<<i * Slots + s - 1, SlotsOf(Chain(v, d)[i])[s]>> :
     i \in {j \in 0..MaxCluster : Chain(v, d)[j] # 0}, s \in 1..Slots}
Scan(v, d) ==
  UNION {{x \in all : \A y \in all : y[2] = EndMark => x[1] <= y[1]} :
           all \in {Listing(v, d)}}
LiveSlots(v, d) == {x \in Scan(v, d) : x[2].tag = "live"}
Entries(v, d) == {x[2] : x \in LiveSlots(v, d)}

\* fat_find_in_dir_loc and fat_find_free_in_dir, as sets of slots of which the
\* code takes the first.
Matches(v, d, n) == {x \in LiveSlots(v, d) : x[2].name = n}
FreeSlots(v, d) == {x \in Scan(v, d) : x[2] \in {EndMark, Deleted}}
First(S) == CHOOSE x \in S : \A y \in S : x[1] <= y[1]

\* fat_is_dir_empty: TRUE only when the end marker is met before any entry.
IsDirEmpty(v, d) ==
  /\ LiveSlots(v, d) = {}
  /\ \E x \in Scan(v, d) : x[2] = EndMark

\* What fat_resolve_path and fat_resolve_dir can reach from the root: each
\* entry with its path.
RootEntry == Entry(".", TRUE, Root, 0)
Levels(v) ==
  LET level[k \in 0..MaxDepth] ==
        IF k = 0 THEN {<<<<>>, RootEntry>>}
        ELSE UNION {{<<Append(x[1], e.name), e>> : e \in Entries(v, x[2].start)}
                      : x \in {y \in level[k - 1] : y[2].dir}}
  IN  level
PathEntries(v) ==
  LET level == Levels(v) IN UNION {level[k] : k \in 0..MaxDepth}
DirPaths(v) == {x \in PathEntries(v) : x[2].dir}
LiveDirs(v) == {x[2].start : x \in DirPaths(v)}
-----------------------------------------------------------------------------
(* The running call: its locals, and how it ends. *)

Kinds == {"none", "write", "mkdir", "delete", "rmdir", "read", "sync"}
Labels == {"idle", "read", "slot", "extend", "find", "eoc", "link", "seal",
           "unlink", "xlink", "xeoc", "xzero", "xundo", "xflush", "data",
           "next", "dirinit", "entry", "tombstone", "mark", "flush", "free",
           "freelast", "flush2", "abort"}
Loc == Cl0 \X (1..Slots)

Frame ==
  [kind: Kinds,
   dir: Cl0, name: Names \cup {"."},  \* the target of the call
   payload: Payloads \cup {"."}, cnt: 0..MaxCount,
   loc: Loc, mark: BOOLEAN,          \* loc, end_marker
   old: Cl0,                         \* chain to release once replaced
   last: Cl0,                        \* # 0 while the directory is extended
   left: 0..MaxCount + 1, first: Cl0, prev: Cl0, cl: Cl0,  \* fat_alloc_chain
   scan: Cl0, tries: 0..MaxCluster,  \* fat_find_free_cluster
   c: Cl0, index: 0..MaxCount + 1,   \* fat_write_cluster_chain, fat_free_chain
   then: {"none", "done", "abort", "fail"}]  \* what follows fat_free_chain

NoFrame ==
  [kind |-> "none", dir |-> 0, name |-> ".", payload |-> ".", cnt |-> 0,
   loc |-> <<0, 1>>, mark |-> FALSE, old |-> 0, last |-> 0, left |-> 0,
   first |-> 0, prev |-> 0, cl |-> 0, scan |-> 0, tries |-> 0, c |-> 0,
   index |-> 0, then |-> "none"]

Goto(label) == pc' = label /\ UNCHANGED ret
Return(r) == pc' = "idle" /\ f' = NoFrame /\ ret' = r
Same(label) == Goto(label) /\ UNCHANGED f

\* fat_alloc_chain(n): start the search at the hint.
Alloc(fr, n) ==
  /\ f' = [fr EXCEPT !.left = n, !.first = 0, !.prev = 0,
                     !.scan = hint, !.tries = 0]
  /\ Goto("find")

FreeChain_Old(c, then) ==
  LET x == IF then = "abort" THEN f.old ELSE c IN
  IF x # 0 THEN f' = [f EXCEPT !.c = x, !.then = then] /\ Goto("free")
           ELSE IF then = "abort" THEN Same("abort") ELSE Return("fail")

\* fat_free_chain(c), then what the caller does with its result.
FreeChain(c, then) ==
  IF c # 0 THEN f' = [f EXCEPT !.c = c, !.then = then] /\ Goto("free")
           ELSE IF then = "abort" THEN Same("abort") ELSE Return("fail")
FreeReturns ==
  CASE f.then = "done"  -> Same("flush2")
    [] f.then = "abort" -> Same("abort")
    [] OTHER -> Return("fail")

\* The cluster fat_find_free_cluster looks at next, and g_alloc_hint: both wrap.
Succ_NoWrap(c) == c + 1
Succ(c) == IF c = MaxCluster THEN 2 ELSE c + 1
-----------------------------------------------------------------------------
(* Faults.  A failed sector write has either left the sector alone ("lost") *)
(* or reached the medium before ide_wait_ready reported the error ("late"). *)

NoFault == UNCHANGED faultVars
MayFault(k) == k \in FaultKinds /\ faults < MaxFaults /\ ops + faults < MaxOps
\* Fault k, which may damage the entries of the set who.
Fault(k, who) ==
  /\ MayFault(k)
  /\ faults' = faults + 1
  /\ cut' = (cut \/ pc \in {"idle", "slot", "extend", "xundo"})
  /\ suspect' = suspect \cup who
  /\ UNCHANGED crashed

\* What is at risk: the entry being written (one being deleted is gone from the
\* disk before its chain is), and the whole directory while it is extended.
Target ==
  (IF f.kind \in {"write", "mkdir"} THEN {<<f.dir, f.name>>} ELSE {})
    \cup (IF f.last = 0 THEN {}
          ELSE {x \in Clusters \X Names :
                  \/ x[1] = f.dir
                  \/ \E e \in Entries(View, x[1]) :
                       e.name = x[2] /\ e.dir /\ e.start = f.dir})

\* The status of the transfer is not waited for.
WriteData_NoStatus(new, w) ==
  \/ w /\ data' = new /\ NoFault
  \/ w /\ data' = data /\ Fault("lost", {})

\* One write of a data cluster: w TRUE when it reports success.
WriteData(new, w) ==
  \/ w /\ data' = new /\ NoFault
  \/ ~w /\ data' = data /\ Fault("lost", {})
  \/ ~w /\ data' = new /\ Fault("late", Target)

\* fat_write_entry_at_loc reads the sector before it writes it.
WriteSlot(loc, e, w) ==
  \/ WriteData(PutSlot(loc, e), w)
  \/ ~w /\ data' = data /\ Fault("read", {})
-----------------------------------------------------------------------------
(* The FAT cache. *)

\* fat_next_cluster, along the chain of directory d up to the first of the
\* slots stop: the hop, if there is one, at which fat_load_fat_sector has to
\* write the dirty sector.  A flush that fails there ends the walk, and so the
\* directory seems to end.
FlushHops(d, stop) ==
  LET chain == Chain(View, d) IN
  {i \in 0..MaxCluster :
     /\ dirty /\ chain[i] # 0 /\ ~Cached(chain[i])
     /\ \A j \in 0..MaxCluster : j < i => Cached(chain[j])
     /\ \A x \in stop : x[1] >= (i + 1) * Slots}
EndMarks(d) == {x \in Scan(View, d) : x[2] = EndMark}
Only(S) == CHOOSE x \in S : TRUE
DirtyHop(d, stop) ==
  IF FlushHops(d, stop) = {} THEN 0
  ELSE Chain(View, d)[Only(FlushHops(d, stop))]

\* The cluster whose FAT entry the next step reads or writes, 0 for none.
Need ==
  CASE pc = "find" -> IF f.tries < MaxCluster - 1 THEN f.scan ELSE 0
    [] pc \in {"eoc", "unlink"} -> f.cl
    [] pc \in {"link", "seal"} -> f.prev
    [] pc \in {"xlink", "xundo"} -> f.last
    [] pc = "xeoc" -> f.first
    [] pc \in {"read", "next", "free", "freelast"} -> f.c
    [] pc = "slot" -> DirtyHop(f.dir, EndMarks(f.dir))
    [] pc = "extend" -> DirtyHop(f.dir, {})
    [] pc = "mark" -> IF f.loc[2] = Slots THEN f.loc[1] ELSE 0
    [] OTHER -> 0
Flushing == pc \in {"flush", "flush2", "xflush", "abort"}
Evicting == Need # 0 /\ ~Cached(Need)

\* The copy of the FAT after the cached sector is written to it.
Flushed == [fat EXCEPT ![copy] =
              [c \in Clusters |-> IF Cached(c) THEN cache[c] ELSE @[c]]]

LastCopy_One == 1
LastCopy == NumFats

\* fat_flush_fat_sector: one copy per step, clean after the last.
FlushCopy ==
  /\ dirty /\ (Flushing \/ Evicting)
  /\ fat' = Flushed
  /\ copy' = IF copy < LastCopy THEN copy + 1 ELSE 1
  /\ dirty' = (copy < LastCopy)
  /\ NoFault
  /\ UNCHANGED <<data, cache, cur, hint, cwd, pc, f, ret, ops>>

MayLoad_Dirty == Evicting
MayLoad == ~dirty /\ Evicting

\* fat_load_fat_sector, its read.
LoadSector ==
  /\ MayLoad
  /\ cur' = SectorOf(Need)
  /\ cache' = [c \in Clusters |->
                 IF SectorOf(c) = SectorOf(Need) THEN fat[1][c] ELSE Free]
  /\ NoFault
  /\ UNCHANGED <<diskVars, dirty, copy, hint, cwd, pc, f, ret, ops>>

\* fat_flush_fat_sector has returned TRUE.
Clean_Skipped == TRUE
Clean == ~dirty

\* A write of fat_flush_fat_sector fails: still dirty, the next flush starts
\* again with the first copy.
FlushFails ==
  /\ dirty
  /\ \/ fat' = fat /\ Fault("lost", {})
     \/ fat' = Flushed /\ Fault("late", {})
  /\ copy' = 1
  /\ UNCHANGED <<data, cache, cur, dirty, hint, cwd, ops>>
ReadFails ==
  /\ ~dirty
  /\ cur' = NoSector /\ cache' = NoCache
  /\ Fault("read", {})
  /\ UNCHANGED <<diskVars, dirty, copy, hint, cwd, ops>>
LoadFails == Evicting /\ (FlushFails \/ ReadFails)

\* A FAT access that finds its sector loaded.
Access == Need # 0 /\ Cached(Need)
\* fat_set_entry, of an access.
SetEntry(v) ==
  /\ Access
  /\ cache' = [cache EXCEPT ![Need] = v]
  /\ dirty' = TRUE
  /\ NoFault
  /\ UNCHANGED <<diskVars, cur, copy, cwd, ops>>
Keep == UNCHANGED <<fat, cacheVars, hint, cwd, ops>>
-----------------------------------------------------------------------------
(* The calls, up to their first step on the FAT or on the disk.  A call may *)
(* name any directory that can be resolved, from the root or from cwd.      *)

Begin ==
  /\ pc = "idle" /\ ops < MaxCalls /\ ops + faults < MaxOps
  /\ ops' = ops + 1
  /\ UNCHANGED <<data, cacheVars, hint>>

\* Once a call works on a damaged entry, or inside a damaged directory, the
\* damage may reach anything.
Touches(d, n) ==
  \E t \in suspect :
    \/ t = <<d, n>>
    \/ \E e \in Entries(View, t[1]) : e.name = t[2] /\ e.dir /\ e.start = d

\* The copies of the FAT after k of them were written.
FlushedTo(k) ==
  [j \in 1..NumFats |->
     [c \in Clusters |-> IF j <= k /\ Cached(c) THEN cache[c] ELSE fat[j][c]]]

\* A read fails in the walk of a directory, or the flush at one of hops does.
WalkFails(hops) ==
  \/ fat' = fat /\ Fault("read", {})
  \/ /\ hops # {}
     /\ \E k \in 1..NumFats :
          \/ fat' = FlushedTo(k - 1) /\ Fault("lost", {})
          \/ fat' = FlushedTo(k) /\ Fault("late", {})

\* fat_find_in_dir_loc: a walk that fails means "not found".  One that gets past
\* a dirty sector has written it: that is the matter of Read.
Sought(d, n) == FlushHops(d, Matches(View, d, n) \cup EndMarks(d))
Lookup(d, n, hits) ==
  \/ /\ Sought(d, n) = {}
     /\ hits = Matches(View, d, n)
     /\ suspect' = IF Touches(d, n) THEN Clusters \X Names ELSE suspect
     /\ UNCHANGED <<fat, faults, crashed, cut>>
  \/ hits = {} /\ WalkFails(Sought(d, n))

Frame0(kind, d, n) == [NoFrame EXCEPT !.kind = kind, !.dir = d, !.name = n]
EntryOf(hits) == First(hits)[2]
LocOf(d, hits) == LocAt(View, d, First(hits)[1])

Store(fr) ==
  IF fr.cnt = 0 THEN f' = fr /\ Goto("entry") ELSE Alloc(fr, fr.cnt)

\* fs_write of k clusters, up to the allocation.
Write(d, n, p, k) ==
  /\ Begin /\ UNCHANGED cwd
  /\ \E hits \in {Matches(View, d, n), {}} :
       /\ Lookup(d, n, hits)
       /\ LET fr == [Frame0("write", d, n) EXCEPT !.payload = p, !.cnt = k] IN
          CASE hits = {} -> f' = fr /\ Goto("slot")
            [] hits # {} /\ EntryOf(hits).dir -> Return("fail")
            [] OTHER -> Store([fr EXCEPT !.loc = LocOf(d, hits),
                                         !.old = EntryOf(hits).start])

\* fs_create_dir, up to the allocation.
CreateDir(d, n) ==
  /\ Begin /\ UNCHANGED cwd
  /\ \E hits \in {Matches(View, d, n), {}} :
       /\ Lookup(d, n, hits)
       /\ IF hits # {} THEN Return("fail")
          ELSE f' = [Frame0("mkdir", d, n) EXCEPT !.cnt = 1] /\ Goto("slot")

\* fs_delete, up to the write of the entry.
Delete(d, n) ==
  /\ Begin /\ UNCHANGED cwd
  /\ \E hits \in {Matches(View, d, n), {}} :
       /\ Lookup(d, n, hits)
       /\ IF hits = {} \/ (hits # {} /\ EntryOf(hits).dir) THEN Return("fail")
          ELSE /\ f' = [Frame0("delete", d, n) EXCEPT
                          !.loc = LocOf(d, hits),
                          !.old = EntryOf(hits).start]
               /\ Goto("tombstone")

Protected_NotCwd(target) == target \in {0, Root}
Protected(target) == target \in {0, Root, cwd}

\* fs_delete_dir, up to the write of the entry.  "notempty" tells the refusal
\* of fat_is_dir_empty from the others; the code returns FALSE for all.
DeleteDir(d, n) ==
  /\ Begin /\ UNCHANGED cwd
  /\ \E hits \in {Matches(View, d, n), {}} :
       LET target == IF hits = {} THEN 0 ELSE EntryOf(hits).start
           sought == FlushHops(target, {x \in Scan(View, target) : x[2] # Deleted})
           refused == \/ hits = {}
                      \/ hits # {} /\ ~EntryOf(hits).dir
                      \/ Protected(target)
       IN  \/ /\ Lookup(d, n, hits)
              /\ CASE refused -> Return("fail")
                   [] OTHER ->
                        /\ sought = {}
                        /\ IF ~IsDirEmpty(View, target) THEN Return("notempty")
                           ELSE /\ f' = [Frame0("rmdir", d, n) EXCEPT
                                           !.loc = LocOf(d, hits),
                                           !.old = target]
                                /\ Goto("tombstone")
           \/ /\ ~refused /\ Sought(d, n) = {}
              /\ WalkFails(sought) /\ Return("notempty")

\* fs_cd.
ChangeDir(d) ==
  /\ Begin /\ NoFault /\ UNCHANGED fat
  /\ cwd' = d
  /\ Return("ok")

\* fs_sync.
Sync ==
  /\ Begin /\ NoFault /\ UNCHANGED <<fat, cwd>>
  /\ f' = [NoFrame EXCEPT !.kind = "sync"] /\ Goto("flush2")

\* One FAT access of a call that only reads (fs_read, fs_stat, fs_dir_read,
\* the lookups of any call): it may move the cache to another sector.
Read(c) ==
  /\ Begin /\ NoFault /\ UNCHANGED <<fat, cwd>>
  /\ f' = [NoFrame EXCEPT !.kind = "read", !.c = c] /\ Goto("read")
ReadDone ==
  /\ pc = "read" /\ Cached(f.c)
  /\ Return("ok") /\ NoFault
  /\ UNCHANGED data /\ Keep
ReadError == pc = "read" /\ LoadFails /\ Return("fail")

\* fat_find_free_in_dir, and the branch to fat_extend_dir_chain, which a failed
\* read of the directory takes too.
TakeSlot(free) ==
  Store([f EXCEPT !.loc = LocOf(f.dir, free),
                  !.mark = (EntryOf(free) = EndMark)])
FindSlot ==
  /\ pc = "slot" /\ ~Evicting
  /\ LET free == FreeSlots(View, f.dir) IN
     \/ free # {} /\ NoFault /\ TakeSlot(free)
     \/ free = {} /\ NoFault /\ Same("extend")
     \/ Fault("read", {}) /\ Same("extend")
  /\ UNCHANGED data /\ Keep
\* A flush fails in its walk: it knows the slots up to there.
SlotFails ==
  /\ pc = "slot" /\ LoadFails
  /\ LET seen == {x \in FreeSlots(View, f.dir) :
                    \A i \in FlushHops(f.dir, EndMarks(f.dir)) :
                      x[1] < (i + 1) * Slots}
     IN  IF seen = {} THEN Same("extend") ELSE TakeSlot(seen)
-----------------------------------------------------------------------------
(* fat_alloc_chain and fat_find_free_cluster. *)

FindFree ==
  /\ pc = "find" /\ Access
  /\ NoFault
  /\ UNCHANGED <<diskVars, cacheVars, cwd, ops>>
  /\ Goto(IF IsFree(View, f.scan) THEN "eoc" ELSE "find")
  /\ IF IsFree(View, f.scan)
     THEN f' = [f EXCEPT !.cl = f.scan] /\ hint' = Succ(f.scan)
     ELSE /\ f' = [f EXCEPT !.scan = Succ(f.scan), !.tries = @ + 1]
          /\ UNCHANGED hint

\* An entry that cannot be read counts as taken.
FindSkips ==
  /\ pc = "find" /\ LoadFails
  /\ f' = [f EXCEPT !.scan = Succ(f.scan), !.tries = @ + 1] /\ Goto("find")

DiskFull_Never == FALSE
DiskFull ==
  /\ pc = "find" /\ f.tries = MaxCluster - 1
  /\ FreeChain(f.first, "fail") /\ NoFault
  /\ UNCHANGED data /\ Keep

Linked ==
  IF f.left > 1
  THEN /\ f' = [f EXCEPT !.first = IF @ = 0 THEN f.cl ELSE @, !.prev = f.cl,
                         !.left = @ - 1, !.scan = hint, !.tries = 0]
       /\ Goto("find")
  ELSE /\ f' = [f EXCEPT !.first = IF @ = 0 THEN f.cl ELSE @, !.prev = f.cl,
                         !.left = 0]
       /\ Goto("seal")

MarkEoc ==
  /\ pc = "eoc" /\ SetEntry(Eoc) /\ UNCHANGED hint
  /\ IF f.prev # 0 THEN Same("link") ELSE Linked

LinkPrev ==
  /\ pc = "link"
  /\ SetEntry(f.cl) /\ UNCHANGED hint
  /\ Linked
LinkFails == pc = "link" /\ LoadFails /\ Same("unlink")
Unlink ==
  /\ pc = "unlink"
  /\ \/ SetEntry(Free) /\ UNCHANGED hint
     \/ LoadFails
  /\ FreeChain(f.first, "fail")

Seal ==
  /\ pc = "seal" /\ SetEntry(Eoc) /\ UNCHANGED hint
  /\ CASE f.last # 0 -> Same("xlink")
       [] f.last = 0 /\ f.kind = "mkdir" -> Same("dirinit")
       [] OTHER -> f' = [f EXCEPT !.c = f.first, !.index = 1] /\ Goto("data")
SealFails == pc = "seal" /\ LoadFails /\ FreeChain(f.first, "fail")
-----------------------------------------------------------------------------
(* fat_extend_dir_chain: link a new cluster to the directory, clear it, and *)
(* flush.  An error in the walk ends it early; on the chain of a damaged      *)
(* directory, which may be a cycle, the walk gives up.                      *)

Extend ==
  /\ pc = "extend" /\ ~Evicting
  /\ \/ \E last \in ChainSet(View, f.dir) :
          /\ \/ NextOf(View, last) = 0 /\ NoFault
             \/ NextOf(View, last) # 0 /\ Fault("read", {})
          /\ Alloc([f EXCEPT !.last = last], 1)
     \/ /\ \A c \in ChainSet(View, f.dir) : NextOf(View, c) # 0
        /\ Return("fail") /\ NoFault
  /\ UNCHANGED data /\ Keep

ExtendFails ==
  pc = "extend" /\ LoadFails /\ Alloc([f EXCEPT !.last = Need], 1)

LinkDir == pc = "xlink" /\ SetEntry(f.first) /\ UNCHANGED hint /\ Same("xeoc")
LinkDirFails == pc = "xlink" /\ LoadFails /\ FreeChain(f.first, "abort")
SealDir == pc = "xeoc" /\ SetEntry(Eoc) /\ UNCHANGED hint /\ Same("xzero")
SealDirFails == pc = "xeoc" /\ LoadFails /\ Same("xundo")

ClearDir ==
  /\ pc = "xzero" /\ Keep
  /\ \E w \in BOOLEAN :
       /\ WriteData([data EXCEPT ![f.first] = DirData(0, EmptySlots)], w)
       /\ Same(IF w THEN "xflush" ELSE "xundo")
UnlinkDir_Skipped ==
  /\ pc = "xundo" /\ FreeChain(f.first, "abort")
  /\ UNCHANGED data /\ Keep /\ NoFault
UnlinkDir ==
  /\ pc = "xundo"
  /\ \/ SetEntry(Eoc) /\ UNCHANGED hint
     \/ LoadFails
  /\ FreeChain(f.first, "abort")

ExtendDone ==
  /\ pc = "xflush" /\ Clean
  /\ LET fr == [f EXCEPT !.loc = <<f.first, 1>>, !.mark = TRUE, !.last = 0,
                         !.first = 0, !.prev = 0, !.cl = 0] IN Store(fr)
  /\ NoFault
  /\ UNCHANGED data /\ Keep
-----------------------------------------------------------------------------
(* fat_write_cluster_chain, fat_init_directory_cluster and the entry. *)

WriteCluster ==
  /\ pc = "data" /\ Keep
  /\ \E w \in BOOLEAN :
       /\ WriteData([data EXCEPT ![f.c] = FileData(f.payload, f.index)], w)
       /\ CASE ~w -> FreeChain(f.first, "abort")
            [] w /\ f.index < f.cnt -> Same("next")
            [] OTHER -> Same("entry")

NextCluster ==
  /\ pc = "next" /\ Access
  /\ IF NextOf(View, f.c) = 0 THEN FreeChain(f.first, "abort")
     ELSE /\ f' = [f EXCEPT !.c = NextOf(View, f.c), !.index = @ + 1]
          /\ Goto("data")
  /\ NoFault
  /\ UNCHANGED data /\ Keep
NextFails == pc = "next" /\ LoadFails /\ FreeChain(f.first, "abort")

InitDir ==
  /\ pc = "dirinit" /\ Keep
  /\ LET parent == IF f.dir = Root THEN 0 ELSE f.dir IN
     \E w \in BOOLEAN :
       /\ WriteData([data EXCEPT ![f.first] = DirData(parent, EmptySlots)], w)
       /\ IF w THEN Same("entry") ELSE FreeChain(f.first, "abort")

\* fat_make_dir_entry, fat_write_entry_at_loc.
WriteEntry ==
  /\ pc = "entry" /\ Keep
  /\ LET e == IF f.kind = "mkdir" THEN Entry(f.name, TRUE, f.first, 0)
              ELSE Entry(f.name, FALSE, f.first, f.cnt) IN
     \E w \in BOOLEAN :
       /\ WriteSlot(f.loc, e, w)
       /\ IF w THEN Same(IF f.mark THEN "mark" ELSE "flush")
               ELSE FreeChain(f.first, "abort")

\* fs_delete and fs_delete_dir: name[0] = 0xE5.
Tombstone ==
  /\ pc = "tombstone" /\ Keep
  /\ \E w \in BOOLEAN :
       /\ WriteSlot(f.loc, Deleted, w)
       /\ IF w THEN Same("flush") ELSE Return("fail")

\* fat_write_end_marker_after_loc: no next slot is not an error.
MarkEnd ==
  /\ pc = "mark" /\ (f.loc[2] < Slots \/ Access) /\ Keep
  /\ LET nxt == IF f.loc[2] < Slots THEN <<f.loc[1], f.loc[2] + 1>>
                ELSE <<NextOf(View, f.loc[1]), 1>> IN
     \/ nxt[1] = 0 /\ Same("flush") /\ NoFault /\ UNCHANGED data
     \/ /\ nxt[1] # 0
        /\ \E w \in BOOLEAN :
             /\ WriteSlot(nxt, EndMark, w)
             /\ IF w THEN Same("flush") ELSE Return("fail")
MarkSkips == pc = "mark" /\ LoadFails /\ Same("flush")
-----------------------------------------------------------------------------
(* The flushes, and fat_free_chain. *)

Flushed1_KeepsOld ==
  /\ pc = "flush" /\ Clean
  /\ Return("ok") /\ NoFault
  /\ UNCHANGED data /\ Keep

\* The new entry is durable: release the chain it replaced, or the chain of
\* the deleted entry.
Flushed1 ==
  /\ pc = "flush" /\ Clean
  /\ IF f.old # 0 THEN FreeChain(f.old, "done") ELSE Return("ok")
  /\ NoFault
  /\ UNCHANGED data /\ Keep
Flushed2 ==
  /\ pc = "flush2" /\ Clean
  /\ Return("ok") /\ NoFault
  /\ UNCHANGED data /\ Keep
Aborted ==
  /\ pc = "abort" /\ Clean
  /\ Return("fail") /\ NoFault
  /\ UNCHANGED data /\ Keep
FlushError == Flushing /\ FlushFails /\ Return("fail")

FreeCluster ==
  /\ pc = "free" /\ SetEntry(Free) /\ UNCHANGED hint
  /\ IF NextOf(View, f.c) # 0
     THEN f' = [f EXCEPT !.c = NextOf(View, f.c)] /\ Goto("free")
     ELSE FreeReturns
\* The successor cannot be read: the code takes it for the end of the chain,
\* and frees the cluster with a second access.
FreeLosesTail == pc = "free" /\ LoadFails /\ Same("freelast")
FreeLast ==
  /\ pc = "freelast" /\ SetEntry(Free) /\ UNCHANGED hint
  /\ FreeReturns
FreeError ==
  /\ pc = "freelast" /\ LoadFails
  /\ IF f.then = "abort" THEN Same("abort") ELSE Return("fail")
-----------------------------------------------------------------------------
(* Power is lost: memory is reset, fs_init mounts what is on the disk. *)
Crash ==
  /\ MayFault("crash")
  /\ faults' = faults + 1 /\ crashed' = TRUE
  /\ suspect' = suspect \cup Target /\ UNCHANGED cut
  /\ cache' = NoCache /\ cur' = NoSector /\ dirty' = FALSE /\ copy' = 1
  /\ hint' = 2 /\ cwd' = Root
  /\ Return("none")
  /\ UNCHANGED <<diskVars, ops>>
-----------------------------------------------------------------------------
Init ==
  /\ fat = [k \in 1..NumFats |-> [c \in Clusters |->
                                    IF c = Root THEN Eoc ELSE Free]]
  /\ data = [c \in Clusters |->
               IF c = Root THEN DirData(0, EmptySlots) ELSE Raw]
  /\ cache = NoCache /\ cur = NoSector /\ dirty = FALSE /\ copy = 1
  /\ hint = 2 /\ cwd = Root
  /\ pc = "idle" /\ f = NoFrame /\ ret = "none"
  /\ ops = 0 /\ faults = 0 /\ crashed = FALSE /\ cut = FALSE
  /\ suspect = {}

\* The shell's next call.
Call ==
  \/ \E x \in DirPaths(View), n \in Names :
       LET d == x[2].start IN
       \/ /\ Len(x[1]) < MaxDepth
          /\ \/ \E p \in Payloads, size \in 0..MaxCount : Write(d, n, p, size)
             \/ CreateDir(d, n)
       \/ Delete(d, n)
       \/ DeleteDir(d, n)
  \/ \E d \in LiveDirs(View) : ChangeDir(d)
  \/ \E c \in SectorHeads : Read(c)
  \/ Sync

AllocStep == FindFree \/ FindSkips \/ DiskFull \/ MarkEoc \/ LinkPrev
               \/ LinkFails \/ Unlink \/ Seal \/ SealFails
ExtendStep == FindSlot \/ SlotFails \/ Extend \/ ExtendFails \/ LinkDir
                \/ LinkDirFails \/ SealDir
                \/ SealDirFails \/ ClearDir \/ UnlinkDir \/ ExtendDone
StoreStep == WriteCluster \/ NextCluster \/ NextFails \/ InitDir
               \/ WriteEntry \/ Tombstone \/ MarkEnd \/ MarkSkips
FlushStep == FlushCopy \/ LoadSector \/ Flushed1 \/ Flushed2 \/ Aborted
               \/ FlushError
FreeStep == FreeCluster \/ FreeLosesTail \/ FreeLast \/ FreeError
Step == AllocStep \/ ExtendStep \/ StoreStep \/ FlushStep \/ FreeStep
          \/ ReadDone \/ ReadError

Next == Call \/ Step \/ Crash

\* The calls run to their end: the kernel is one thread, and every wait in
\* sima_ide.c has a bound.  Nothing obliges the shell to make a call.
Spec == Init /\ [][Next]_vars /\ WF_vars(Step)
-----------------------------------------------------------------------------
(* The tree of files that a view of the FAT shows. *)

DirNode == [kind |-> "dir"]
FileNode(p, k) == [kind |-> "file", payload |-> p, count |-> k]
Broken == [kind |-> "broken"]

\* A chain of the recorded length, ended by Eoc, that holds one payload.
FileIntact(v, e, p) ==
  IF e.len = 0 THEN e.start = 0
  ELSE /\ \A i \in 1..e.len :
            /\ Chain(v, e.start)[i - 1] # 0
            /\ data[Chain(v, e.start)[i - 1]] = FileData(p, i)
       /\ v[Chain(v, e.start)[e.len - 1]] = Eoc
DirIntact(v, d) ==
  /\ \A c \in ChainSet(v, d) : v[c] # Free /\ data[c].kind = "dir"
  /\ \E c \in ChainSet(v, d) : v[c] = Eoc
Intact(v, e) ==
  IF e.dir THEN DirIntact(v, e.start)
           ELSE \E p \in Payloads : FileIntact(v, e, p)

Node(v, e) ==
  IF e.dir THEN DirNode
  ELSE IF ~Intact(v, e) THEN Broken
  ELSE IF e.len = 0 THEN FileNode(".", 0)
  ELSE FileNode(CHOOSE p \in Payloads : FileIntact(v, e, p), e.len)

Tree(v) ==
  {<<x[1], Node(v, x[2])>> : x \in PathEntries(v) \ {<<<<>>, RootEntry>>}}

Here == (CHOOSE x \in DirPaths(View) : x[2].start = cwd)[1]

Files == INSTANCE FileTree WITH tree <- Tree(View), here <- Here
-----------------------------------------------------------------------------
(* Properties. *)

\* Type invariant.
TypeOK ==
  /\ fat \in [1..NumFats -> [Clusters -> FatVal]]
  /\ data \in [Clusters -> Content]
  /\ cache \in [Clusters -> FatVal]
  /\ cur \in {NoSector} \cup {SectorOf(c) : c \in Clusters}
  /\ dirty \in BOOLEAN
  /\ copy \in 1..NumFats
  /\ hint \in Clusters
  /\ cwd \in Clusters
  /\ pc \in Labels
  /\ f \in Frame
  /\ ret \in {"none", "ok", "fail", "notempty"}
  /\ ops \in 0..MaxOps
  /\ faults \in 0..MaxFaults
  /\ crashed \in BOOLEAN /\ cut \in BOOLEAN
  /\ suspect \subseteq Clusters \X Names

\* The FAT copies on disk differ from what the kernel sees only in the cached
\* sector, and only while it is dirty: a clean cache means that every copy is
\* current (fat_flush_fat_sector writes all of them before it clears
\* g_fat_dirty).  Power lost within a flush may leave the copies apart; the
\* first one is current even then.
CacheCoherent ==
  \A k \in 1..NumFats, c \in Clusters :
    ((k = 1 \/ ~crashed) /\ ~(dirty /\ Cached(c))) => fat[k][c] = View[c]

\* The live entries of the whole tree: a directory, a position, the entry.
Located(v) ==
  UNION {{<<d, x[1], x[2]>> : x \in LiveSlots(v, d)} : d \in LiveDirs(v)}
\* Those that no fault may have damaged, nor the entry of their directory.
SoundIn(v) ==
  UNION {{x \in all :
            /\ <<x[1], x[3].name>> \notin suspect
            /\ \A y \in all :
                 <<y[1], y[3].name>> \in suspect => y[3].start # x[1]} :
           all \in {Located(v)}}

\* A call that changes the volume and reports success has put the FAT on the
\* disk, in every copy, even when calls before it failed to.
SuccessIsDurable ==
  [][(pc \notin {"idle", "read"} /\ pc' = "idle" /\ ret' = "ok")
       => \A k \in 1..NumFats, c \in Clusters :
            (k = 1 \/ ~crashed) => fat'[k][c] = View'[c]]_vars

\* Between calls, every file that no fault has touched has the chain its entry
\* describes, every cluster of it allocated and holding its own contents, and
\* every directory a chain of directory clusters.
EntriesIntact ==
  pc = "idle" =>
    /\ \A x \in SoundIn(View) : Intact(View, x[3])
    /\ suspect = {} => DirIntact(View, Root)

\* Between calls no cluster belongs to two files or directories.
NoCrossLink ==
  pc = "idle" =>
    \A x, y \in SoundIn(View) :
      LET cx == ChainSet(View, x[3].start)
          cy == ChainSet(View, y[3].start)
      IN  /\ x # y => cx \cap cy = {}
          /\ cx \cap ChainSet(View, Root) = {}

\* At every moment, were the power lost now, every file on the disk but the
\* one being written or deleted would be whole: the FAT sectors reach the disk
\* in an order that never takes a cluster from another file.
CrashImage ==
  LET v == fat[1] IN
  (faults = 0 \/ crashed) => \A x \in SoundIn(v) :
    (<<x[1], x[3].name>> \notin Target /\ ~x[3].dir) => Intact(v, x[3])

\* Between calls the disk shows the same tree as the kernel, even after a call
\* that failed and left the FAT cache dirty: nothing acknowledged is lost when
\* the power goes.
DiskTreeCurrent ==
  (pc = "idle" /\ faults = 0) => Tree(fat[1]) = Tree(View)

\* A scan of a directory finds every entry in it, none being behind an end
\* marker, and a name occurs once.
DirectoriesSound ==
  faults = 0 =>
    /\ \A d \in LiveDirs(View) :
         \A x \in Listing(View, d) \ Scan(View, d) : x[2].tag # "live"
    /\ \A x, y \in Located(View) :
         (x[1] = y[1] /\ x[3].name = y[3].name) => x = y

\* Every allocated cluster belongs to a file or a directory between calls:
\* calls that fail for want of space give back all they took.
NoLeak ==
  (pc = "idle" /\ faults = 0) =>
    {c \in Clusters : View[c] # Free}
      = ChainSet(View, Root)
          \cup UNION {ChainSet(View, x[3].start) : x \in Located(View)}

\* The current directory is never deleted, and neither is one on its path.
CwdLive == faults = 0 => cwd \in LiveDirs(View)

\* Every call takes effect at once or not at all, whatever writes fail, until a
\* fault cuts a directory: one in its walk (fat_find_in_dir_loc,
\* fat_find_free_in_dir, fat_extend_dir_chain, fat_is_dir_empty) passes for its
\* end, and one in the undoing of its extension leaves it a cluster that is free.
Implements == Files!Init /\ [][cut' \/ Files!Next]_<<Tree(View), Here>>

\* Every call returns: the searches and walks over the FAT end.
CallsReturn == (pc # "idle") ~> (pc = "idle")

\* fs_delete_dir refuses a directory as not empty only if it has an entry.
RefusedDirHasEntries ==
  [][\A d \in LiveDirs(View), n \in Names :
       (DeleteDir(d, n) /\ ret' = "notempty") =>
         Entries(View, EntryOf(Matches(View, d, n)).start) # {}]_vars
=============================================================================
