----------------------------- MODULE Filesystem -----------------------------
(***************************************************************************)
(* The host file system under the exported directory, as far as gonfs uses *)
(* it: the system calls of package os and syscall made by src/nfs3/        *)
(* allunix.go, each taken as one atomic step on a shared tree.  The module *)
(* is external to gonfs; its error numbers are those gonfs's error tables  *)
(* distinguish.                                                            *)
(*                                                                         *)
(* A path is the sequence of names below exportPath, so <<>> is exportPath *)
(* itself.  Symbolic links dangle: their target is never below exportPath  *)
(* and cannot be created through them.                                     *)
(***************************************************************************)
EXTENDS Naturals, SequencesExt

CONSTANTS
  Names,      \* the legal names a client may use for an object
  Inodes,     \* the inode numbers of the host file system
  RootIno,    \* the inode of exportPath
  MaxDepth,   \* PATH_MAX: the longest path the host accepts, in names
  InitTree,   \* what is exported when the server starts ...
  InitNode    \* ... and the kinds of those objects

VARIABLES
  tree,       \* existing path |-> inode; hard links share an inode
  node        \* inode |-> its kind

Kinds == {"FREE", "DIR", "LNK", "EMPTY", "DATA"}
Regular == {"EMPTY", "DATA"}    \* NF3REG: a file without or with client data

ASSUME RootAssumption == RootIno \in Inodes
ASSUME DepthAssumption == MaxDepth \in Nat
ASSUME ExportAssumption ==
  /\ DOMAIN InitTree \subseteq Seq(Names)
  /\ \A p \in DOMAIN InitTree : InitTree[p] \in Inodes
  /\ InitNode \in [Inodes -> Kinds]

\* The paths the host accepts.
Paths == UNION {[1 .. n -> Names] : n \in 0 .. MaxDepth}

Exists(p) == p \in DOMAIN tree
KindAt(p) == node[tree[p]]
IsDir(p) == Exists(p) /\ KindAt(p) = "DIR"
IsReg(p) == Exists(p) /\ KindAt(p) \in Regular
IsLink(p) == Exists(p) /\ KindAt(p) = "LNK"

\* The proper prefixes of p, which path resolution walks through.
Ancestors(p) == {SubSeq(p, 1, n) : n \in 0 .. (Len(p) - 1)}

\* What is exported first hangs together: above an object there are directories.
ASSUME TreeAssumption ==
  \A p \in DOMAIN InitTree : \A q \in Ancestors(p) :
    q \in DOMAIN InitTree /\ InitNode[InitTree[q]] = "DIR"

WalkErr(p) ==
  IF Len(p) > MaxDepth THEN "ENAMETOOLONG"
  ELSE IF \E q \in Ancestors(p) : IsReg(q) THEN "ENOTDIR"
  ELSE IF \A q \in Ancestors(p) : IsDir(q) THEN "OK"
  ELSE "ENOENT"

LstatErr(p) ==
  IF WalkErr(p) = "OK" /\ ~Exists(p) THEN "ENOENT" ELSE WalkErr(p)

\* A call that follows a final symbolic link: links dangle.
FollowErr(p) ==
  IF LstatErr(p) = "OK" /\ IsLink(p) THEN "ENOENT" ELSE LstatErr(p)

\* Mkdir and Symlink, and OpenFile with O_CREAT|O_EXCL.
NewErr(p, room) ==
  IF WalkErr(p) # "OK" THEN WalkErr(p)
  ELSE IF Exists(p) THEN "EEXIST"
  ELSE IF ~room THEN "ENOSPC"
  ELSE "OK"

\* OpenFile with O_CREAT|O_TRUNC and no O_EXCL.
CreatErr(p, room) ==
  IF WalkErr(p) # "OK" \/ ~Exists(p) THEN NewErr(p, room)
  ELSE IF IsDir(p) THEN "EISDIR"
  ELSE FollowErr(p)

WriteOpenErr(p) == IF IsDir(p) THEN "EISDIR" ELSE FollowErr(p)

UnlinkErr(p) ==
  IF LstatErr(p) = "OK" /\ IsDir(p) THEN "EISDIR" ELSE LstatErr(p)

Children(p) == {q \in DOMAIN tree : Len(q) = Len(p) + 1 /\ IsPrefix(p, q)}

RmdirErr(p) ==
  IF LstatErr(p) # "OK" THEN LstatErr(p)
  ELSE IF ~IsDir(p) THEN "ENOTDIR"
  ELSE IF Children(p) # {} THEN "ENOTEMPTY"
  ELSE "OK"

LinkErr(old, new) ==
  IF LstatErr(old) # "OK" THEN LstatErr(old)
  ELSE IF WalkErr(new) # "OK" THEN WalkErr(new)
  ELSE IF Exists(new) THEN "EEXIST"
  ELSE IF IsDir(old) THEN "EPERM"
  ELSE "OK"

\* os.Rename refuses a directory as the new name before it calls rename(2).
RenameErr(p, q) ==
  IF LstatErr(p) # "OK" THEN LstatErr(p)
  ELSE IF WalkErr(q) # "OK" THEN WalkErr(q)
  ELSE IF IsDir(q) THEN "EEXIST"
  ELSE IF IsDir(p) /\ IsStrictPrefix(p, q) THEN "EINVAL"
  ELSE IF IsDir(p) /\ Exists(q) THEN "ENOTDIR"
  ELSE "OK"

ReadlinkErr(p) ==
  IF LstatErr(p) = "OK" /\ ~IsLink(p) THEN "EINVAL" ELSE LstatErr(p)

ReaddirErr(p) ==
  IF FollowErr(p) = "OK" /\ ~IsDir(p) THEN "ENOTDIR" ELSE FollowErr(p)

-----------------------------------------------------------------------------
(* What the calls that succeed do to the tree. *)

\* An inode number is given back when its last name goes.
Settle(t, kinds) ==
  /\ tree' = t
  /\ node' = [i \in Inodes |->
               IF \E p \in DOMAIN t : t[p] = i THEN kinds[i] ELSE "FREE"]

With(p, i) == [q \in DOMAIN tree \cup {p} |-> IF q = p THEN i ELSE tree[q]]

NewObject(p, i, kind) == Settle(With(p, i), [node EXCEPT ![i] = kind])
NewName(old, new) == Settle(With(new, tree[old]), node)
DropName(p) == Settle(Restrict(tree, DOMAIN tree \ {p}), node)
SetKind(i, kind) == tree' = tree /\ node' = [node EXCEPT ![i] = kind]

\* Where x, a path at or below p, is found after p is renamed to q.
Rebase(x, p, q) == q \o SubSeq(x, Len(p) + 1, Len(x))

\* The tree after p is renamed to q, with all that is below p.
Renamed(p, q) ==
  LET below == {x \in DOMAIN tree : IsPrefix(p, x)}
      stay  == {x \in DOMAIN tree \ below : ~IsPrefix(q, x)}
  IN  [x \in stay \cup {Rebase(y, p, q) : y \in below} |->
         IF x \in stay THEN tree[x] ELSE tree[Rebase(x, q, p)]]

\* Two names of one inode: rename(2) succeeds and does nothing.
SameObject(p, q) == Exists(q) /\ tree[p] = tree[q]

Move(p, q) ==
  IF SameObject(p, q) THEN UNCHANGED <<tree, node>>
  ELSE Settle(Renamed(p, q), node)
=============================================================================
