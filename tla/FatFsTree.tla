----------------------------- MODULE FatFsTree -----------------------------
(***************************************************************************)
(* The invariant of the tree of files, as FatFsProofs proves it: a shape   *)
(* of the volume (chains, entries and directories, with a witness for who  *)
(* owns each cluster), the chain the running call has in its hands, label  *)
(* by label, and where the disk may lag the FAT cache.                     *)
(***************************************************************************)
EXTENDS FatFs
-----------------------------------------------------------------------------
(* The tree on the disk.  v is a view of the FAT and D the data clusters.   *)

Held(v, c) == v[c] # Free
Places == Clusters \X (1..Slots)
At(D, l) ==
  (IF D[l[1]].kind = "dir" THEN D[l[1]].slot ELSE EmptySlots)[l[2]]
\* The slots that hold an entry, wherever they are.
Live(D) == {l \in Places : At(D, l).tag = "live"}
\* The clusters an entry names, and those of directories among them.
Named(D) ==
  {h \in Clusters : h = Root \/ \E l \in Live(D) : At(D, l).start = h}
DirHeads(D) ==
  {h \in Clusters : \/ h = Root
                    \/ \E l \in Live(D) : At(D, l).dir /\ At(D, l).start = h}

\* A witness of the shape of the FAT: own[c] is the first cluster of the chain
\* c lies on, 0 once that chain is given up; rank[c] is its place there; lev[d]
\* is the depth of the directory d.
Witness(own, rank, lev) ==
  /\ own \in [Clusters -> Cl0]
  /\ rank \in [Clusters -> Nat]
  /\ lev \in [Clusters -> 0..MaxDepth]
Chained(v, own, rank) ==
  \A c \in Clusters : v[c] \in Clusters =>
    /\ Held(v, v[c]) /\ own[v[c]] = own[c] /\ rank[v[c]] = rank[c] + 1
OneBefore(v) ==
  \A a, b \in Clusters : (v[a] = v[b] /\ v[a] \in Clusters) => a = b
OnePlace(v, own, rank) ==
  \A a, b \in Clusters :
    (/\ Held(v, a) /\ Held(v, b)
     /\ own[a] = own[b] /\ own[a] # 0 /\ rank[a] = rank[b]) => a = b
OwnersHeld(v, own) ==
  \A c \in Clusters : (Held(v, c) /\ own[c] # 0) =>
    own[c] \in Clusters /\ Held(v, own[c]) /\ own[own[c]] = own[c]
\* P: the chains that no entry names, being built or released.
HeadsFirst(v, D, P, own, rank) ==
  /\ \A h \in Named(D) \cup P :
       h \in Clusters /\ Held(v, h) /\ \A c \in Clusters : v[c] # h
  /\ \A h \in Named(D) : own[h] = h /\ rank[h] = 0
  /\ \A h \in P : own[h] = 0 \/ (own[h] = h /\ rank[h] = 0 /\ h \notin Named(D))
Reached(v, D, P) ==
  \A c \in Clusters :
    Held(v, c) => c \in Named(D) \cup P \/ \E p \in Clusters : v[p] = c
OneName(D) ==
  /\ \A l, m \in Live(D) :
       (At(D, l).start = At(D, m).start /\ At(D, l).start # 0) => l = m
  /\ \A l \in Live(D) : At(D, l).start # Root
  /\ \A l \in Live(D) :
       At(D, l).start \in Cl0 /\ (At(D, l).dir => At(D, l).start # 0)

FileIs(v, D, own, rank, h, p, n) ==
  \A c \in Clusters : (Held(v, c) /\ own[c] = h) =>
    /\ D[c] = FileData(p, rank[c] + 1)
    /\ rank[c] < n /\ (v[c] = Eoc <=> rank[c] = n - 1)
FilesWhole(v, D, own, rank) ==
  \A l \in Live(D) : ~At(D, l).dir =>
    \E p \in Payloads :
      IF At(D, l).len = 0 THEN At(D, l).start = 0
      ELSE /\ At(D, l).start # 0
           /\ FileIs(v, D, own, rank, At(D, l).start, p, At(D, l).len)
\* U: a cluster linked to a directory and not cleared yet.
DirsAreDirs(v, D, U, own) ==
  /\ \A c \in Clusters \ U :
       (Held(v, c) /\ own[c] \in DirHeads(D)) => D[c].kind = "dir"
  /\ \A l \in Live(D) : Held(v, l[1]) /\ own[l[1]] \in DirHeads(D)
Levelled(D, own, lev) ==
  /\ lev[Root] = 0
  /\ \A l \in Live(D) :
       At(D, l).dir => lev[At(D, l).start] = lev[own[l[1]]] + 1
MarksLast(v, D, own) ==
  /\ \A c \in Clusters : \A s, t \in 1..Slots :
       (At(D, <<c, s>>) = EndMark /\ s <= t) => At(D, <<c, t>>) = EndMark
  /\ \A c \in Clusters : (v[c] \in Clusters /\ own[c] \in DirHeads(D)) =>
       \A s \in 1..Slots : At(D, <<c, s>>) # EndMark
NamesOnce(D, own) ==
  \A l, m \in Live(D) :
    (own[l[1]] = own[m[1]] /\ At(D, l).name = At(D, m).name) => l = m

Shape(v, D, P, U, own, rank, lev) ==
  /\ Witness(own, rank, lev)
  /\ Chained(v, own, rank) /\ OneBefore(v) /\ OnePlace(v, own, rank)
  /\ OwnersHeld(v, own) /\ HeadsFirst(v, D, P, own, rank) /\ Reached(v, D, P)
  /\ OneName(D) /\ FilesWhole(v, D, own, rank) /\ DirsAreDirs(v, D, U, own)
  /\ Levelled(D, own, lev) /\ MarksLast(v, D, own) /\ NamesOnce(D, own)
-----------------------------------------------------------------------------
(* The running call, at the label lab with the locals g.                    *)

Pending(lab, g) ==
  (IF lab \in {"find", "eoc", "link", "seal", "xlink", "data", "next",
               "dirinit", "entry"}
     THEN {g.first} \ {0} ELSE {})
    \cup (IF lab = "link" THEN {g.cl} ELSE {})
    \cup (IF lab \in {"mark", "flush"} THEN {g.old} \ {0} ELSE {})
    \cup (IF lab = "free" THEN {g.c} ELSE {})
Uncleared(lab, g) == IF lab \in {"xeoc", "xzero"} THEN {g.first} ELSE {}

\* Where it stores its entry: a slot found, or a chain to extend,
Aim(D, g, own, lev) ==
  /\ g.dir \in DirHeads(D) /\ lev[g.dir] < MaxDepth
  /\ \A l \in Live(D) :
       (own[l[1]] = g.dir /\ At(D, l).name = g.name) => l = g.loc
Unplaced(g) == g.old = 0 /\ g.loc[1] = 0
Placed(v, D, g, own) ==
  /\ g.last = 0
  /\ g.loc[1] \in Clusters /\ Held(v, g.loc[1]) /\ own[g.loc[1]] = g.dir
  /\ IF g.loc \in Live(D)
     THEN /\ g.kind = "write" /\ ~At(D, g.loc).dir /\ At(D, g.loc).start = g.old
          /\ At(D, g.loc).name = g.name /\ ~g.mark
     ELSE g.old = 0 /\ (g.mark <=> At(D, g.loc) = EndMark)
  /\ \A s \in 1..Slots : s < g.loc[2] => At(D, <<g.loc[1], s>>) # EndMark
Extending(v, D, g, own) ==
  /\ g.last # 0 /\ Unplaced(g)
  /\ v[g.last] = Eoc /\ own[g.last] = g.dir
  /\ \A s \in 1..Slots : At(D, <<g.last, s>>) # EndMark
\* and the chain it builds: n clusters, of which the first k are written.
Wanted(g) == IF g.last # 0 THEN 1 ELSE g.cnt
ChainIs(v, g, own, rank, n) ==
  /\ g.first \in Clusters
  /\ \A c \in Clusters : (Held(v, c) /\ own[c] = g.first) =>
       rank[c] < n /\ (v[c] = Eoc <=> rank[c] = n - 1)
Built(v, g, own, rank, n) ==
  IF n = 0 THEN g.first = 0 /\ g.prev = 0
  ELSE /\ ChainIs(v, g, own, rank, n)
       /\ g.prev \in Clusters /\ Held(v, g.prev)
       /\ own[g.prev] = g.first /\ rank[g.prev] = n - 1
Filled(v, D, g, own, rank, k) ==
  \A c \in Clusters : (Held(v, c) /\ own[c] = g.first /\ rank[c] < k) =>
    D[c] = FileData(g.payload, rank[c] + 1)
EmptyDir(D, c) == D[c].kind = "dir" /\ D[c].slot = EmptySlots

AtSlot(D, g, own, lev) ==
  Aim(D, g, own, lev) /\ Unplaced(g) /\ g.last = 0 /\ g.first = 0
AtExtend(v, D, g, own, lev) ==
  /\ AtSlot(D, g, own, lev)
  /\ \A c \in Clusters, s \in 1..Slots :
       (Held(v, c) /\ own[c] = g.dir) => At(D, <<c, s>>) # EndMark
Choosing(v, D, g, own, lev) ==
  /\ Aim(D, g, own, lev)
  /\ Placed(v, D, g, own) \/ Extending(v, D, g, own)
AtFind(v, D, g, own, rank, lev) ==
  /\ Choosing(v, D, g, own, lev)
  /\ g.left \in 1..Wanted(g) /\ Built(v, g, own, rank, Wanted(g) - g.left)
AtEoc(v, D, g, own, rank, lev) ==
  AtFind(v, D, g, own, rank, lev) /\ v[g.cl] = Free
AtLink(v, D, g, own, rank, lev) ==
  /\ AtFind(v, D, g, own, rank, lev)
  /\ g.first # 0 /\ g.cl # g.first /\ v[g.cl] = Eoc
  /\ \A c \in Clusters : (Held(v, c) /\ own[c] = g.cl) => c = g.cl
AtSeal(v, D, g, own, rank, lev) ==
  Choosing(v, D, g, own, lev) /\ Built(v, g, own, rank, Wanted(g))
AtXlink(v, D, g, own, rank, lev) ==
  /\ Aim(D, g, own, lev) /\ Extending(v, D, g, own)
  /\ ChainIs(v, g, own, rank, 1)
AtXzero(v, D, g, own, lev) ==
  /\ Aim(D, g, own, lev) /\ Unplaced(g)
  /\ g.first \in Clusters /\ own[g.first] = g.dir /\ v[g.first] = Eoc
  /\ \A l \in Live(D) : l[1] # g.first
  /\ g.last \in Clusters => own[g.last] = g.dir
AtXflush(v, D, g, own, lev) ==
  AtXzero(v, D, g, own, lev) /\ EmptyDir(D, g.first)
AtData(v, D, g, own, rank, lev, k) ==
  /\ Aim(D, g, own, lev) /\ Placed(v, D, g, own)
  /\ g.c \in Clusters /\ Held(v, g.c)
  /\ own[g.c] = g.first /\ rank[g.c] = g.index - 1
  /\ ChainIs(v, g, own, rank, g.cnt) /\ Filled(v, D, g, own, rank, k)
AtDirinit(v, D, g, own, rank, lev) ==
  /\ g.kind = "mkdir"
  /\ Aim(D, g, own, lev) /\ Placed(v, D, g, own)
  /\ ChainIs(v, g, own, rank, 1)
AtEntry(v, D, g, own, rank, lev) ==
  /\ Aim(D, g, own, lev) /\ Placed(v, D, g, own)
  /\ IF g.kind = "write"
     THEN IF g.cnt = 0 THEN g.first = 0
          ELSE /\ ChainIs(v, g, own, rank, g.cnt)
               /\ Filled(v, D, g, own, rank, g.cnt)
     ELSE ChainIs(v, g, own, rank, 1) /\ EmptyDir(D, g.first)
AtMark(v, D, g, own) ==
  /\ g.loc[1] \in Clusters /\ own[g.loc[1]] \in DirHeads(D)
  /\ v[g.loc[1]] = Eoc
  /\ \A t \in 1..Slots : t > g.loc[2] => At(D, <<g.loc[1], t>>) = EndMark
AtStored(D, g, own) ==
  g.first # 0 =>
    /\ g.kind \in {"write", "mkdir"}
    /\ g.loc \in Live(D) /\ own[g.loc[1]] = g.dir
    /\ At(D, g.loc).start = g.first /\ At(D, g.loc).name = g.name
AtTombstone(D, g, cw, own) ==
  /\ g.first = 0
  /\ g.loc \in Live(D) /\ At(D, g.loc).start = g.old
  /\ At(D, g.loc).dir =>
       g.old # cw /\ \A l \in Live(D) : own[l[1]] # g.old
AtFree(g, own) ==
  g.c \in Clusters /\ own[g.c] = 0 /\ g.then \in {"done", "fail"}

\* What the disk may not show yet: F, the chain of the entry just written; L,
\* the end of the directory being extended.
Fresh(lab, g) == IF lab \in {"mark", "flush"} THEN {g.first} ELSE {}
Loose(lab, g) ==
  IF lab \in {"xeoc", "xzero", "xflush"} THEN {g.last, g.first} ELSE {}
Settled(v, disk, D, F, L, own) ==
  \A c \in Clusters \ L :
    (Held(v, c) /\ own[c] \in Named(D) \ F) => disk[c] = v[c]

Sound(v, disk, D, P, U, F, L, cw, own, rank, lev) ==
  /\ Shape(v, D, P, U, own, rank, lev)
  /\ Settled(v, disk, D, F, L, own)
  /\ cw \in DirHeads(D)

CallIs(v, disk, D, lab, g, cw, own, rank, lev) ==
  /\ Sound(v, disk, D, Pending(lab, g), Uncleared(lab, g), Fresh(lab, g),
           Loose(lab, g), cw, own, rank, lev)
  /\ lab \notin {"unlink", "xundo", "freelast", "abort"}
  /\ lab # "free" => \A h \in Pending(lab, g) : own[h] # 0
  /\ lab = "slot" => AtSlot(D, g, own, lev)
  /\ lab = "extend" => AtExtend(v, D, g, own, lev)
  /\ lab = "find" => AtFind(v, D, g, own, rank, lev)
  /\ lab = "eoc" => AtEoc(v, D, g, own, rank, lev)
  /\ lab = "link" => AtLink(v, D, g, own, rank, lev)
  /\ lab = "seal" => AtSeal(v, D, g, own, rank, lev)
  /\ lab = "xlink" => AtXlink(v, D, g, own, rank, lev)
  /\ lab \in {"xeoc", "xzero"} => AtXzero(v, D, g, own, lev)
  /\ lab = "xflush" => AtXflush(v, D, g, own, lev)
  /\ lab = "data" => AtData(v, D, g, own, rank, lev, g.index - 1)
  /\ lab = "next" => AtData(v, D, g, own, rank, lev, g.index)
  /\ lab = "dirinit" => AtDirinit(v, D, g, own, rank, lev)
  /\ lab = "entry" => AtEntry(v, D, g, own, rank, lev)
  /\ lab = "mark" => AtMark(v, D, g, own)
  /\ lab \in {"mark", "flush"} => AtStored(D, g, own)
  /\ lab = "tombstone" => AtTombstone(D, g, cw, own)
  /\ lab = "free" => AtFree(g, own)

\* At every moment without faults the disk holds a tree of the right shape.
TreeIn(v, disk, D, lab, g, cw) ==
  \E own, rank, lev : CallIs(v, disk, D, lab, g, cw, own, rank, lev)
TreeInv ==
  faults = 0 => /\ suspect = {} /\ ~crashed
                /\ TreeIn(View, fat[1], data, pc, f, cwd)
=============================================================================
