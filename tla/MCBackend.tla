----------------------------- MODULE MCBackend ------------------------------
(* Small instances of the backend for TLC. *)
EXTENDS Backend

CONSTANTS a, b,     \* the names and the inodes of a populated export
          i, j

\* A hash without collisions: the pair itself.
PairHandle(p, k) == <<p, k>>
PairHandles == Paths \X Inodes

\* A hash that keeps only the length of the path: names collide.
WeakHandle(p, k) == <<Len(p), k>>
WeakHandles == (0 .. MaxDepth) \X Inodes

\* Exports: nothing; a file; a file and a directory; a file of two names.
EmptyTree == <<>> :> RootIno
EmptyNode == [k \in Inodes |-> IF k = RootIno THEN "DIR" ELSE "FREE"]
FileTree == EmptyTree @@ <<a>> :> i
FileNode == [EmptyNode EXCEPT ![i] = "DATA"]
MixedTree == FileTree @@ <<b>> :> j
MixedNode == [FileNode EXCEPT ![j] = "DIR"]
LinkedTree == FileTree @@ <<b>> :> i

\* The procedures that make, find, move or remove a name, and two that read.
TreeOps ==
  {"MNT", "UMNT", "LOOKUP", "MKDIR", "CREATE", "SYMLINK", "LINK", "REMOVE",
   "RMDIR", "RENAME", "GETATTR", "READDIR"}

\* Those a silly rename meets, and those a restart is about.
SillyOps == {"MNT", "GETATTR", "LOOKUP", "RENAME"}
RestartOps == {"MNT", "GETATTR", "LOOKUP"}

\* The bound of the run over two levels: handles known at once.
FewHandles == Cardinality(DOMAIN fhandleMap) <= 3

Symmetry == Permutations({i, j})
=============================================================================
