----------------------------- MODULE FileTree -----------------------------
(***************************************************************************)
(* What the file system of kernel/sima_fs.c promises its callers: a tree   *)
(* of named files and directories in which every call takes effect at once *)
(* or not at all.  Paths are the sequences of at most MaxDepth names; the  *)
(* tree is the set of the pairs <<path, node>> that exist.                 *)
(***************************************************************************)
EXTENDS Naturals, Sequences

CONSTANTS Names, Payloads, MaxCount, MaxDepth

VARIABLES
  tree,   \* what exists
  here    \* the path of the current directory

Paths == UNION {[1..k -> Names] : k \in 1..MaxDepth}
DirNode == [kind |-> "dir"]
FileNode(p, k) == [kind |-> "file", payload |-> p, count |-> k]
\* An empty file has no payload.
FileNodes == {FileNode(".", 0)}
               \cup {FileNode(p, k) : p \in Payloads, k \in 1..MaxCount}

IsDir(t, path) == path = <<>> \/ <<path, DirNode>> \in t
Exists(t, path) == \E x \in t : x[1] = path
Without(t, path) == {x \in t : x[1] # path}
Parent(path) == SubSeq(path, 1, Len(path) - 1)
IsInside(q, path) == Len(q) > Len(path) /\ SubSeq(q, 1, Len(path)) = path

Init == tree = {} /\ here = <<>>

\* A file is created or replaced as a whole.
Written(t) ==
  {Without(t, path) \cup {<<path, node>>} :
     path \in {q \in Paths : IsDir(t, Parent(q)) /\ ~IsDir(t, q)},
     node \in FileNodes}
Write == tree' \in Written(tree) /\ UNCHANGED here

\* A name that is taken, even by a file, is refused.
WithDir(t) ==
  {t \cup {<<path, DirNode>>} :
     path \in {q \in Paths : IsDir(t, Parent(q)) /\ ~Exists(t, q)}}
CreateDir == tree' \in WithDir(tree) /\ UNCHANGED here

WithoutFile(t) ==
  {Without(t, path) : path \in {q \in Paths : Exists(t, q) /\ ~IsDir(t, q)}}
Delete == tree' \in WithoutFile(tree) /\ UNCHANGED here

\* Only an empty directory other than the current one.
WithoutDir(t, h) ==
  {Without(t, path) :
     path \in {q \in Paths : /\ IsDir(t, q) /\ q # h
                             /\ \A x \in t : ~IsInside(x[1], q)}}
DeleteDir == tree' \in WithoutDir(tree, here) /\ UNCHANGED here

ChangeDir ==
  /\ here' \in {<<>>} \cup {path \in Paths : IsDir(tree, path)}
  /\ UNCHANGED tree

Next == Write \/ CreateDir \/ Delete \/ DeleteDir \/ ChangeDir

Spec == Init /\ [][Next]_<<tree, here>>
=============================================================================
