-------------------------- MODULE SequentialProofs --------------------------
(***************************************************************************)
(* What the table of handles keeps for a client that makes one call at a   *)
(* time, as long as no system call fails for outside reasons: a handle of  *)
(* an OK reply is that of the object named, a handle is dropped or rebound *)
(* only when its path is gone, and it follows a silly rename.  Two calls   *)
(* at a time break each of these, as run silly_race shows of the last; and *)
(* so does one error, the first only with a hash that collides.            *)
(*                                                                         *)
(* The invariant says what a handler may still believe of what it read     *)
(* from the table and the file system some steps ago.                      *)
(***************************************************************************)
EXTENDS BackendProofs

\* One call at a time, and only the errors the file system itself is good for.
OneCall == (\A g, h \in Threads : g = h) /\ Faults = {}

\* Above whatever exists there are directories.
TreeOK == \A p \in DOMAIN tree : \A q \in Ancestors(p) : IsDir(q)

Known(h) == h \in DOMAIN fhandleMap
Bound(h, p) == Known(h) /\ fhandleMap[h] = p
Alive(p) == LstatErr(p) = "OK"

Binding == {"bind", "check", "set"}
Sillying == {"silly", "sillyGet", "sillySet"}

\* The handles of the call still mean the paths that were read for them; that
\* of a call with one handle is there until the handler drops it itself.
HandlesOK(c) ==
  /\ Known(c.fh) => fhandleMap[c.fh] = c.dir
  /\ Known(c.fh2) => fhandleMap[c.fh2] = c.dir2
  /\ c.op \notin TwoHandles => c.fh2 = NoHandle
  /\ c.pc \in {"stat", "act", "new"} \cup Binding /\ c.op \notin TwoHandles =>
       Known(c.fh)

\* What is about to be dropped or set.
DropOK(c) ==
  /\ c.pc \in {"drop", "dropFirst", "dropFrom"} => ~Alive(c.dir)
  /\ c.pc \in {"drop2", "dropSecond"} => ~Alive(c.dir2)
  /\ c.pc = "mntSet" => ~Known(ExportHandle) /\ c.fh = NoHandle

\* The object of the reply has the path and the handle the call has for it, and
\* is bound to it once the handler got past Bind.
ObjectOK(c) ==
  /\ c.pc = "new" => \E name \in Names : c.path = Append(c.dir, name)
  /\ c.pc \in Binding => Alive(c.dir)
  /\ c.pc = "check" => Bound(c.obj, c.found)
  /\ c.pc = "set" /\ Known(c.obj) => ~Alive(fhandleMap[c.obj])
  /\ c.op = "LINK" => c.obj = NoHandle
  /\ c.obj # NoHandle /\ c.op # "RENAME" =>
       /\ c.pc \in Binding \cup {"post", "drop", "reply"}
       /\ Alive(c.path) /\ c.obj = makeFHandle(c.path, tree[c.path])
       /\ c.pc \notin Binding => Bound(c.obj, c.path)

\* The path a silly rename started from is none of the directories it names,
\* and the handle it is to move is at the old path before, at the new one
\* after.
SillyOK(c) ==
  /\ c.pc \in Sillying => c.src # c.dir /\ c.src # c.dir2
  /\ c.pc = "sillySet" => Bound(c.obj, c.src)
  /\ c.held # NoHandle =>
       /\ c.pc \in Sillying \cup {"post", "dropFrom", "post2", "drop2", "reply"}
       /\ c.op = "RENAME"
       /\ Alive(c.path) /\ c.held = makeFHandle(c.src, tree[c.path])
       /\ Bound(c.held, IF c.pc \in Sillying THEN c.src ELSE c.path)
       /\ c.pc \in {"sillyGet", "sillySet"} => c.obj = c.held

AloneOK(c) == HandlesOK(c) /\ DropOK(c) /\ ObjectOK(c) /\ SillyOK(c)

SInv == IInv /\ TreeOK /\ \A g \in Threads : AloneOK(thread[g])

-----------------------------------------------------------------------------
(* Paths above paths. *)

\* The ancestors of a path are the shorter paths it starts with.
LEMMA AncestorIs ==
  ASSUME NEW S, NEW p \in Seq(S), NEW q
  PROVE  q \in Ancestors(p) <=>
           /\ q \in Seq(S) /\ Len(q) < Len(p)
           /\ \A k \in 1 .. Len(q) : q[k] = p[k]
<1>1. Len(p) \in Nat
  OBVIOUS
<1>2. ASSUME NEW n \in 0 .. (Len(p) - 1)
      PROVE  /\ SubSeq(p, 1, n) \in Seq(S) /\ Len(SubSeq(p, 1, n)) = n
             /\ \A k \in 1 .. n : SubSeq(p, 1, n)[k] = p[k]
  <2>1. n \in Nat /\ 1 .. n \subseteq 1 .. Len(p)
    BY <1>1
  <2>2. \A k \in 1 .. n : p[k] \in S
    BY <2>1
  <2>3. /\ SubSeq(p, 1, n) \in Seq(S)
        /\ Len(SubSeq(p, 1, n)) = IF 1 <= n THEN n - 1 + 1 ELSE 0
        /\ \A k \in 1 .. n - 1 + 1 : SubSeq(p, 1, n)[k] = p[1 + k - 1]
    BY <2>1, <2>2, SubSeqProperties
  <2>4. (IF 1 <= n THEN n - 1 + 1 ELSE 0) = n /\ n - 1 + 1 = n
        /\ \A k \in 1 .. n : 1 + k - 1 = k
    BY <2>1
  <2>5. QED
    BY <2>3, <2>4
<1>3. ASSUME q \in Ancestors(p)
      PROVE  /\ q \in Seq(S) /\ Len(q) < Len(p)
             /\ \A k \in 1 .. Len(q) : q[k] = p[k]
  <2>1. PICK n \in 0 .. (Len(p) - 1) : q = SubSeq(p, 1, n)
    BY <1>3 DEF Ancestors
  <2>2. QED
    BY <1>1, <1>2, <2>1
<1>4. ASSUME q \in Seq(S), Len(q) < Len(p), \A k \in 1 .. Len(q) : q[k] = p[k]
      PROVE  q \in Ancestors(p)
  <2>1. Len(q) \in 0 .. (Len(p) - 1)
    BY <1>1, <1>4
  <2> DEFINE r == SubSeq(p, 1, Len(q))
  <2>2. /\ r \in Seq(S) /\ Len(r) = Len(q)
        /\ \A k \in 1 .. Len(q) : r[k] = p[k]
    BY <1>2, <2>1
  <2> HIDE DEF r
  <2>3. q = r
    BY <1>4, <2>2, SeqEqual
  <2>4. QED
    BY <2>1, <2>3 DEF Ancestors, r
<1>5. QED
  BY <1>3, <1>4

\* A path starts with a shorter one where their names agree.
LEMMA PrefixIs ==
  ASSUME NEW S, NEW p \in Seq(S), NEW q \in Seq(S)
  PROVE  IsPrefix(p, q) <=>
           Len(p) <= Len(q) /\ \A k \in 1 .. Len(p) : p[k] = q[k]
<1>1. Len(p) \in Nat /\ Len(q) \in Nat
  OBVIOUS
<1>2. ASSUME NEW s \in Seq(S), Len(p) <= Len(s)
      PROVE  /\ SubSeq(s, 1, Len(p)) \in Seq(S)
             /\ Len(SubSeq(s, 1, Len(p))) = Len(p)
             /\ \A k \in 1 .. Len(p) : SubSeq(s, 1, Len(p))[k] = s[k]
  <2> DEFINE n == Len(p)
  <2>1. n \in Nat /\ Len(s) \in Nat /\ 1 .. n \subseteq 1 .. Len(s)
    BY <1>2
  <2>2. \A k \in 1 .. n : s[k] \in S
    BY <2>1
  <2> HIDE DEF n
  <2>3. /\ SubSeq(s, 1, n) \in Seq(S)
        /\ Len(SubSeq(s, 1, n)) = IF 1 <= n THEN n - 1 + 1 ELSE 0
        /\ \A k \in 1 .. n - 1 + 1 : SubSeq(s, 1, n)[k] = s[1 + k - 1]
    BY <2>1, <2>2, SubSeqProperties
  <2>4. (IF 1 <= n THEN n - 1 + 1 ELSE 0) = n /\ n - 1 + 1 = n
        /\ \A k \in 1 .. n : 1 + k - 1 = k
    BY <2>1
  <2>5. QED
    BY <2>3, <2>4 DEF n
<1>3. ASSUME IsPrefix(p, q)
      PROVE  Len(p) <= Len(q) /\ \A k \in 1 .. Len(p) : p[k] = q[k]
  <2>1. Len(p) <= Len(q) /\ SubSeq(p, 1, Len(p)) = SubSeq(q, 1, Len(p))
    BY <1>3 DEF IsPrefix
  <2>2. QED
    BY <1>1, <1>2, <2>1
<1>4. ASSUME Len(p) <= Len(q), \A k \in 1 .. Len(p) : p[k] = q[k]
      PROVE  IsPrefix(p, q)
  <2> DEFINE u == SubSeq(p, 1, Len(p))
             v == SubSeq(q, 1, Len(p))
  <2>1. /\ u \in Seq(S) /\ Len(u) = Len(p)
        /\ \A k \in 1 .. Len(p) : u[k] = p[k]
    BY <1>1, <1>2
  <2>2. /\ v \in Seq(S) /\ Len(v) = Len(p)
        /\ \A k \in 1 .. Len(p) : v[k] = q[k]
    BY <1>2, <1>4
  <2> HIDE DEF u, v
  <2>3. u = v
    BY <1>4, <2>1, <2>2, SeqEqual
  <2>4. QED
    BY <1>4, <2>3 DEF IsPrefix, u, v
<1>5. QED
  BY <1>3, <1>4

\* Below a name of a directory is that name, and above it what is above the
\* directory, and the directory.
LEMMA ChildAncestors ==
  ASSUME NEW S, NEW d \in Seq(S), NEW name \in S
  PROVE  /\ Append(d, name) \in Seq(S) /\ Len(Append(d, name)) = Len(d) + 1
         /\ d \in Ancestors(Append(d, name))
         /\ Ancestors(d) \subseteq Ancestors(Append(d, name))
         /\ Append(d, name) # d
<1> DEFINE p == Append(d, name)
<1>1. /\ p \in Seq(S) /\ Len(p) = Len(d) + 1 /\ Len(d) \in Nat
      /\ \A k \in 1 .. Len(d) : p[k] = d[k]
  BY AppendProperties
<1> HIDE DEF p
<1>2. d \in Ancestors(p)
  BY <1>1, AncestorIs
<1>3. ASSUME NEW q \in Ancestors(d)
      PROVE  q \in Ancestors(p)
  <2>1. q \in Seq(S) /\ Len(q) < Len(d) /\ \A k \in 1 .. Len(q) : q[k] = d[k]
    BY AncestorIs
  <2>2. Len(q) \in Nat
    BY <2>1
  <2>3. Len(q) < Len(p) /\ \A k \in 1 .. Len(q) : k \in 1 .. Len(d)
    BY <1>1, <2>1, <2>2
  <2>4. QED
    BY <1>1, <2>1, <2>3, AncestorIs
<1>4. p # d
  BY <1>1
<1>5. QED
  BY <1>1, <1>2, <1>3, <1>4 DEF p

\* Where a directory has a name that is there, the directory is there.
LEMMA ParentAlive ==
  ASSUME NEW d \in Seq(Names), NEW name \in Names, Alive(Append(d, name))
  PROVE  Alive(d)
<1> DEFINE p == Append(d, name)
<1>1. /\ p \in Seq(Names) /\ Len(p) = Len(d) + 1 /\ Len(d) \in Nat
      /\ d \in Ancestors(p) /\ Ancestors(d) \subseteq Ancestors(p)
  BY ChildAncestors
<1> HIDE DEF p
<1>2. WalkErr(p) = "OK"
  BY DEF Alive, LstatErr, p
<1>3. Len(p) <= MaxDepth /\ \A q \in Ancestors(p) : IsDir(q) /\ ~IsReg(q)
  <2>1. ~(Len(p) > MaxDepth) /\ \A q \in Ancestors(p) : IsDir(q)
    BY <1>2 DEF WalkErr
  <2>2. \A q \in Ancestors(p) : ~IsReg(q)
    BY <2>1 DEF IsDir, IsReg, Regular
  <2>3. QED
    BY <1>1, <2>1, <2>2, DepthAssumption
<1>4. Len(d) <= MaxDepth /\ \A q \in Ancestors(d) : IsDir(q) /\ ~IsReg(q)
  BY <1>1, <1>3, DepthAssumption
<1>5. WalkErr(d) = "OK" /\ Exists(d)
  BY <1>1, <1>3, <1>4, DepthAssumption DEF WalkErr, IsDir
<1>6. QED
  BY <1>5 DEF Alive, LstatErr

\* In a tree whatever exists and is not too long is found.
LEMMA ExistsAlive ==
  ASSUME FsOK, TreeOK, NEW p \in Paths, Exists(p)
  PROVE  Alive(p)
<1>1. Len(p) <= MaxDepth
  BY DepthAssumption DEF Paths
<1>2. \A q \in Ancestors(p) : IsDir(q) /\ ~IsReg(q)
  BY DEF TreeOK, Exists, IsDir, IsReg, Regular
<1>3. WalkErr(p) = "OK"
  BY <1>1, <1>2, DepthAssumption DEF WalkErr
<1>4. QED
  BY <1>3 DEF Alive, LstatErr

\* Path resolution gets through directories only.
LEMMA WalkDirs ==
  ASSUME NEW p, WalkErr(p) = "OK"
  PROVE  \A q \in Ancestors(p) : IsDir(q)
  BY DEF WalkErr
-----------------------------------------------------------------------------
(* The system calls keep the tree in one piece. *)

\* What stays a directory: one that keeps its path, its inode and its kind.
LEMMA SettleDir ==
  ASSUME FsOK, NEW t, NEW kinds, Settle(t, kinds),
         NEW q \in DOMAIN t, t[q] \in Inodes, kinds[t[q]] = "DIR"
  PROVE  IsDir(q)'
<1>1. tree' = t /\ node'[t[q]] = kinds[t[q]]
  BY DEF Settle
<1>2. QED
  BY <1>1 DEF IsDir, Exists, KindAt

\* Mkdir, Symlink and OpenFile with O_CREAT.
LEMMA NewObjectTree ==
  ASSUME FsOK, TreeOK, NEW p \in Seq(Names), WalkErr(p) = "OK", ~Exists(p),
         NEW i \in Inodes, node[i] = "FREE", NEW kind \in Kinds,
         NewObject(p, i, kind)
  PROVE  TreeOK'
<1> DEFINE t == With(p, i)
           kinds == [node EXCEPT ![i] = kind]
<1>1. Settle(t, kinds) /\ tree' = t
  BY DEF NewObject, Settle
<1>2. DOMAIN t = DOMAIN tree \cup {p}
  BY DEF With
<1>3. ASSUME NEW x \in DOMAIN t, NEW q \in Ancestors(x)
      PROVE  IsDir(q)'
  <2>1. IsDir(q)
    BY <1>2, <1>3, WalkDirs DEF TreeOK
  <2>2. q \in DOMAIN tree /\ q # p /\ node[tree[q]] = "DIR"
    BY <2>1 DEF IsDir, Exists, KindAt
  <2>3. q \in DOMAIN t /\ t[q] = tree[q] /\ tree[q] \in Inodes
    BY <2>2 DEF With, FsOK
  <2>4. kinds[t[q]] = "DIR"
    BY <2>2, <2>3 DEF FsOK
  <2> HIDE DEF t, kinds
  <2>5. QED
    BY <1>1, <2>3, <2>4, SettleDir
<1>4. QED
  BY <1>1, <1>3 DEF TreeOK

\* os.Link.
LEMMA NewNameTree ==
  ASSUME FsOK, TreeOK, NEW old \in DOMAIN tree, NEW p \in Seq(Names),
         WalkErr(p) = "OK", ~Exists(p), NewName(old, p)
  PROVE  TreeOK'
<1> DEFINE t == With(p, tree[old])
<1>1. Settle(t, node) /\ tree' = t
  BY DEF NewName, Settle
<1>2. DOMAIN t = DOMAIN tree \cup {p}
  BY DEF With
<1>3. ASSUME NEW x \in DOMAIN t, NEW q \in Ancestors(x)
      PROVE  IsDir(q)'
  <2>1. IsDir(q)
    BY <1>2, <1>3, WalkDirs DEF TreeOK
  <2>2. q \in DOMAIN tree /\ q # p /\ node[tree[q]] = "DIR"
    BY <2>1 DEF IsDir, Exists, KindAt
  <2>3. q \in DOMAIN t /\ t[q] = tree[q] /\ tree[q] \in Inodes
    BY <2>2 DEF With, FsOK
  <2> HIDE DEF t
  <2>4. QED
    BY <1>1, <2>2, <2>3, SettleDir
<1>4. QED
  BY <1>1, <1>3 DEF TreeOK

\* Where something is below p there is something right below p.
LEMMA BelowChild ==
  ASSUME FsOK, TreeOK, NEW x \in DOMAIN tree, NEW p \in Ancestors(x)
  PROVE  Children(p) # {}
<1> DEFINE n == Len(p) + 1
           q == SubSeq(x, 1, n)
<1>1. x \in Seq(Names) /\ Len(x) \in Nat
  BY DEF FsOK
<1>2. /\ p \in Seq(Names) /\ Len(p) < Len(x) /\ Len(p) \in Nat
      /\ \A k \in 1 .. Len(p) : p[k] = x[k]
  BY <1>1, AncestorIs
<1>3. n \in Nat /\ n >= 1 /\ n <= Len(x)
  BY <1>1, <1>2
<1>4. q \in Seq(Names) /\ Len(q) = n /\ \A k \in 1 .. n : q[k] = x[k]
  <2>1. \A k \in 1 .. n : k \in 1 .. Len(x)
    BY <1>1, <1>3
  <2>2. \A k \in 1 .. n : x[k] \in Names
    BY <1>1, <2>1
  <2> HIDE DEF n
  <2>3. /\ q \in Seq(Names) /\ Len(q) = IF 1 <= n THEN n - 1 + 1 ELSE 0
        /\ \A k \in 1 .. n - 1 + 1 : q[k] = x[1 + k - 1]
    BY <1>3, <2>2, SubSeqProperties
  <2>4. (IF 1 <= n THEN n - 1 + 1 ELSE 0) = n /\ n - 1 + 1 = n
        /\ \A k \in 1 .. n : 1 + k - 1 = k
    BY <1>3
  <2>5. QED
    BY <2>3, <2>4
<1> HIDE DEF q
<1>5. q \in DOMAIN tree
  <2>1. CASE Len(q) < Len(x)
    <3>1. q \in Ancestors(x)
      BY <1>1, <1>4, <2>1, AncestorIs
    <3>2. QED
      BY <3>1 DEF TreeOK, IsDir, Exists
  <2>2. CASE Len(q) = Len(x)
    <3>1. q = x
      BY <1>1, <1>4, <2>2, SeqEqual
    <3>2. QED
      BY <3>1
  <2>3. QED
    BY <1>1, <1>3, <1>4, <2>1, <2>2
<1>6. IsPrefix(p, q)
  <2>1. Len(p) <= Len(q) /\ \A k \in 1 .. Len(p) : k \in 1 .. n
    BY <1>2, <1>4
  <2>2. QED
    BY <1>2, <1>4, <2>1, PrefixIs
<1>7. QED
  BY <1>4, <1>5, <1>6 DEF Children

\* Unlink and Rmdir.
LEMMA DropNameTree ==
  ASSUME FsOK, TreeOK, NEW p, ~IsDir(p) \/ Children(p) = {}, DropName(p)
  PROVE  TreeOK'
<1> DEFINE t == Restrict(tree, DOMAIN tree \ {p})
<1>1. Settle(t, node) /\ tree' = t
  BY DEF DropName, Settle
<1>2. DOMAIN t = DOMAIN tree \ {p} /\ \A x \in DOMAIN t : t[x] = tree[x]
  BY DEF Restrict
<1>3. ASSUME NEW x \in DOMAIN t, NEW q \in Ancestors(x)
      PROVE  IsDir(q)'
  <2>1. IsDir(q)
    BY <1>2, <1>3 DEF TreeOK
  <2>2. q # p
    BY <1>2, <1>3, <2>1, BelowChild
  <2>3. q \in DOMAIN tree /\ node[tree[q]] = "DIR"
    BY <2>1 DEF IsDir, Exists, KindAt
  <2>4. q \in DOMAIN t /\ t[q] = tree[q] /\ tree[q] \in Inodes
    BY <1>2, <2>2, <2>3 DEF FsOK
  <2> HIDE DEF t
  <2>5. QED
    BY <1>1, <2>3, <2>4, SettleDir
<1>4. QED
  BY <1>1, <1>3 DEF TreeOK

\* Truncate, O_TRUNC and WriteAt.
LEMMA SetKindTree ==
  ASSUME FsOK, TreeOK, NEW i, NEW kind,
         i \in Inodes /\ node[i] = "DIR" => kind = "DIR", SetKind(i, kind)
  PROVE  TreeOK'
<1>1. ASSUME NEW q, IsDir(q) PROVE IsDir(q)'
  BY <1>1 DEF IsDir, Exists, KindAt, SetKind, FsOK
<1>2. QED
  BY <1>1 DEF TreeOK, SetKind
-----------------------------------------------------------------------------
(* Rename. *)

\* What Rebase makes: q in front, then y without p.
LEMMA RebaseIs ==
  ASSUME NEW S, NEW p \in Seq(S), NEW q \in Seq(S), NEW y \in Seq(S),
         IsPrefix(p, y)
  PROVE  /\ Rebase(y, p, q) \in Seq(S)
         /\ Len(Rebase(y, p, q)) = Len(q) + Len(y) - Len(p)
         /\ \A k \in 1 .. Len(q) + Len(y) - Len(p) :
              Rebase(y, p, q)[k] =
                IF k <= Len(q) THEN q[k] ELSE y[k - Len(q) + Len(p)]
<1> DEFINE r == SubSeq(y, Len(p) + 1, Len(y))
<1>1. Len(p) \in Nat /\ Len(q) \in Nat /\ Len(y) \in Nat /\ Len(p) <= Len(y)
  BY DEF IsPrefix
<1>2. /\ r \in Seq(S) /\ Len(r) = Len(y) - Len(p)
      /\ \A k \in 1 .. Len(r) : r[k] = y[Len(p) + k]
  BY <1>1, SubSeqProperties
<1> HIDE DEF r
<1> DEFINE x == q \o r
<1>3. /\ x \in Seq(S) /\ Len(x) = Len(q) + Len(r)
      /\ \A k \in 1 .. Len(q) + Len(r) :
           x[k] = IF k <= Len(q) THEN q[k] ELSE r[k - Len(q)]
  <2>1. q \in Seq(S) /\ r \in Seq(S)
    BY <1>2
  <2>2. QED
    BY ONLY <2>1, ConcatProperties
<1>4. x = Rebase(y, p, q)
  BY DEF Rebase, r
<1> HIDE DEF x
<1>5. Len(x) = Len(q) + Len(y) - Len(p)
  BY <1>1, <1>2, <1>3
<1>6. ASSUME NEW k \in 1 .. Len(q) + Len(y) - Len(p)
      PROVE  x[k] = IF k <= Len(q) THEN q[k] ELSE y[k - Len(q) + Len(p)]
  <2>1. k \in 1 .. Len(q) + Len(r) /\ k \in Nat
    BY <1>1, <1>2
  <2>2. CASE k <= Len(q)
    BY <1>3, <2>1, <2>2
  <2>3. CASE ~(k <= Len(q))
    <3>1. /\ k - Len(q) \in 1 .. Len(r)
          /\ Len(p) + (k - Len(q)) = k - Len(q) + Len(p)
      BY <1>1, <1>2, <2>1, <2>3
    <3>2. x[k] = r[k - Len(q)] /\ r[k - Len(q)] = y[Len(p) + (k - Len(q))]
      BY <1>2, <1>3, <2>1, <2>3, <3>1
    <3>3. QED
      BY <2>3, <3>1, <3>2
  <2>4. QED
    BY <2>2, <2>3
<1>7. QED
  BY <1>3, <1>4, <1>5, <1>6

\* A renamed path starts with the new name, and what is above it is above the
\* new name or was renamed with it.
LEMMA RebasedAncestor ==
  ASSUME NEW S, NEW p \in Seq(S), NEW q \in Seq(S), NEW y \in Seq(S),
         IsPrefix(p, y), NEW a \in Ancestors(Rebase(y, p, q))
  PROVE  \/ a \in Ancestors(q)
         \/ /\ IsPrefix(q, a) /\ IsPrefix(p, Rebase(a, q, p))
            /\ Rebase(a, q, p) \in Ancestors(y)
            /\ a = Rebase(Rebase(a, q, p), p, q)
<1> DEFINE x == Rebase(y, p, q)
           l == Len(p)
           m == Len(q)
<1>1. /\ x \in Seq(S) /\ Len(x) = m + Len(y) - l
      /\ \A k \in 1 .. m + Len(y) - l :
           x[k] = IF k <= m THEN q[k] ELSE y[k - m + l]
  <2>1. p \in Seq(S) /\ q \in Seq(S) /\ y \in Seq(S) /\ IsPrefix(p, y)
    OBVIOUS
  <2>2. QED
    BY ONLY <2>1, RebaseIs
<1>2. a \in Ancestors(x)
  OBVIOUS
<1> HIDE DEF x
<1>3. a \in Seq(S) /\ Len(a) < Len(x) /\ \A k \in 1 .. Len(a) : a[k] = x[k]
  BY <1>1, <1>2, AncestorIs
<1>4. /\ l \in Nat /\ m \in Nat /\ Len(y) \in Nat /\ Len(a) \in Nat
      /\ Len(x) \in Nat
  BY <1>1, <1>3
<1>5. l <= Len(y) /\ \A k \in 1 .. l : p[k] = y[k]
  BY PrefixIs
<1>6. CASE Len(a) < m
  <2>1. \A k \in 1 .. Len(a) : k \in 1 .. m + Len(y) - l /\ k <= m
    BY <1>4, <1>5, <1>6
  <2>2. \A k \in 1 .. Len(a) : a[k] = q[k]
    BY <1>1, <1>3, <2>1
  <2>3. QED
    BY <1>3, <1>6, <2>2, AncestorIs
<1>7. CASE m <= Len(a)
  <2> DEFINE b == Rebase(a, q, p)
  <2>1. IsPrefix(q, a)
    <3>1. \A k \in 1 .. m :
            k \in 1 .. Len(a) /\ k \in 1 .. m + Len(y) - l /\ k <= m
      BY <1>4, <1>5, <1>7
    <3>2. \A k \in 1 .. m : q[k] = a[k]
      BY <1>1, <1>3, <3>1
    <3>3. QED
      BY <1>3, <1>7, <3>2, PrefixIs
  <2>2. /\ b \in Seq(S) /\ Len(b) = l + Len(a) - m
        /\ \A k \in 1 .. l + Len(a) - m :
             b[k] = IF k <= l THEN p[k] ELSE a[k - l + m]
    <3>1. p \in Seq(S) /\ q \in Seq(S) /\ a \in Seq(S) /\ IsPrefix(q, a)
      BY <1>3, <2>1
    <3>2. QED
      BY ONLY <3>1, RebaseIs
  <2>3. a = Rebase(b, p, q)
    BY <1>3, <2>1, RebaseBack
  <2> HIDE DEF b
  <2>4. Len(b) \in Nat /\ Len(b) < Len(y) /\ l <= Len(b)
    <3> HIDE DEF l, m
    <3>1. QED
      BY <1>1, <1>3, <1>4, <1>7, <2>2
  <2>5. ASSUME NEW k \in 1 .. Len(b) PROVE b[k] = y[k]
    <3>1. k \in 1 .. l + Len(a) - m /\ k \in Nat
      BY <2>2, <2>4
    <3>2. CASE k <= l
      <4>1. k \in 1 .. l
        BY <1>4, <3>1, <3>2
      <4>2. QED
        BY <1>5, <2>2, <3>1, <3>2, <4>1
    <3>3. CASE ~(k <= l)
      <4> DEFINE j == k - l + m
      <4> HIDE DEF l, m
      <4>1. /\ j \in 1 .. Len(a) /\ j \in 1 .. m + Len(y) - l /\ ~(j <= m)
            /\ j - m + l = k
        BY <1>1, <1>3, <1>4, <1>5, <1>7, <3>1, <3>3
      <4> HIDE DEF j
      <4>2. b[k] = a[j]
        BY <2>2, <3>1, <3>3 DEF j
      <4>3. a[j] = x[j] /\ x[j] = y[j - m + l]
        BY <1>1, <1>3, <4>1
      <4>4. QED
        BY <4>1, <4>2, <4>3
    <3>4. QED
      BY <3>2, <3>3
  <2>6. b \in Ancestors(y)
    BY <2>2, <2>4, <2>5, AncestorIs
  <2>7. IsPrefix(p, b)
    <3>1. \A k \in 1 .. l : k \in 1 .. l + Len(a) - m /\ k <= l
      BY <1>4, <1>7
    <3>2. \A k \in 1 .. l : p[k] = b[k]
      BY <2>2, <3>1
    <3>3. QED
      BY <2>2, <2>4, <3>2, PrefixIs
  <2>8. QED
    BY <2>1, <2>3, <2>6, <2>7 DEF b
<1>8. QED
  BY <1>4, <1>6, <1>7

\* What starts an ancestor starts the path.
LEMMA PrefixAbove ==
  ASSUME NEW S, NEW x \in Seq(S), NEW a \in Ancestors(x), NEW p \in Seq(S),
         IsPrefix(p, a)
  PROVE  IsPrefix(p, x) /\ Len(p) < Len(x)
<1>1. a \in Seq(S) /\ Len(a) < Len(x) /\ \A k \in 1 .. Len(a) : a[k] = x[k]
  BY AncestorIs
<1>2. Len(p) <= Len(a) /\ \A k \in 1 .. Len(p) : p[k] = a[k]
  BY <1>1, PrefixIs
<1>3. Len(p) \in Nat /\ Len(a) \in Nat /\ Len(x) \in Nat
  BY <1>1
<1>4. Len(p) < Len(x) /\ \A k \in 1 .. Len(p) : k \in 1 .. Len(a)
  BY <1>1, <1>2, <1>3
<1>5. \A k \in 1 .. Len(p) : p[k] = x[k]
  BY <1>1, <1>2, <1>4
<1>6. QED
  BY <1>3, <1>4, <1>5, PrefixIs

\* No directory above the new name moves: it would be a rename of a directory
\* into itself.
LEMMA AboveStays ==
  ASSUME FsOK, NEW p \in Seq(Names), NEW q \in Seq(Names),
         RenameErr(p, q) = "OK", NEW a \in Ancestors(q)
  PROVE  /\ a \in DOMAIN tree /\ node[tree[a]] = "DIR"
         /\ ~IsPrefix(p, a) /\ ~IsPrefix(q, a)
<1>1. WalkErr(q) = "OK" /\ ~(IsDir(p) /\ IsStrictPrefix(p, q))
  <2>1. LstatErr(p) = "OK"
    BY DEF RenameErr
  <2>2. WalkErr(q) = "OK"
    BY <2>1 DEF RenameErr
  <2>3. ~IsDir(q)
    BY <2>1, <2>2 DEF RenameErr
  <2>4. QED
    BY <2>1, <2>2, <2>3 DEF RenameErr
<1>2. IsDir(a)
  BY <1>1, WalkDirs
<1>3. a \in Seq(Names) /\ Len(a) < Len(q) /\ \A k \in 1 .. Len(a) : a[k] = q[k]
  BY AncestorIs
<1>4. ~IsPrefix(q, a)
  <2>1. Len(a) \in Nat /\ Len(q) \in Nat
    BY <1>3
  <2>2. QED
    BY <1>3, <2>1, PrefixIs
<1>5. ~IsPrefix(p, a)
  <2> SUFFICES ASSUME IsPrefix(p, a) PROVE FALSE
    OBVIOUS
  <2>1. IsPrefix(p, q) /\ Len(p) < Len(q)
    BY <1>3, PrefixAbove
  <2>2. IsStrictPrefix(p, q)
    BY <2>1 DEF IsStrictPrefix
  <2>3. IsDir(p)
    <3>1. p \in Ancestors(q)
      BY <2>1, PrefixIs, AncestorIs
    <3>2. QED
      BY <1>1, <3>1, WalkDirs
  <2>4. QED
    BY <1>1, <2>2, <2>3
<1>6. QED
  BY <1>2, <1>4, <1>5 DEF IsDir, Exists, KindAt

\* os.Rename: the tree stays in one piece, and the object has its new name.
LEMMA MoveTree ==
  ASSUME FsOK, TreeOK, NEW p \in Seq(Names), NEW q \in Seq(Names),
         RenameErr(p, q) = "OK", Move(p, q)
  PROVE  TreeOK' /\ Alive(q)' /\ tree'[q] = tree[p]
<1>1. p \in DOMAIN tree /\ WalkErr(q) = "OK"
  <2>1. LstatErr(p) = "OK"
    BY DEF RenameErr
  <2>2. QED
    BY <2>1 DEF RenameErr, LstatErr, Exists
<1>2. CASE SameObject(p, q)
  <2>1. UNCHANGED <<tree, node>> /\ Exists(q) /\ tree[p] = tree[q]
    BY <1>2 DEF Move, SameObject
  <2>2. Alive(q)
    BY <1>1, <2>1 DEF Alive, LstatErr
  <2>3. TreeOK'
    BY <2>1 DEF TreeOK, IsDir, Exists, KindAt
  <2>4. Alive(q)'
    BY <2>1, <2>2 DEF Alive, LstatErr, WalkErr, IsDir, IsReg, Exists, KindAt
  <2>5. QED
    BY <2>1, <2>3, <2>4
<1>3. CASE ~SameObject(p, q)
  <2> DEFINE below == {x \in DOMAIN tree : IsPrefix(p, x)}
             stay == {x \in DOMAIN tree \ below : ~IsPrefix(q, x)}
             t == Renamed(p, q)
  <2>1. Settle(t, node) /\ tree' = t
    BY <1>3 DEF Move, Settle
  <2>2. DOMAIN t = stay \cup {Rebase(y, p, q) : y \in below}
    BY DEF Renamed
  <2>3. \A x \in DOMAIN t :
          t[x] = IF x \in stay THEN tree[x] ELSE tree[Rebase(x, q, p)]
    BY <2>2 DEF Renamed
  <2>4. \A x \in stay : x \in DOMAIN tree /\ ~IsPrefix(p, x) /\ ~IsPrefix(q, x)
    OBVIOUS
  <2>5. \A x \in DOMAIN tree :
          ~IsPrefix(p, x) /\ ~IsPrefix(q, x) => x \in stay
    OBVIOUS
  <2>6. \A y \in below : y \in DOMAIN tree /\ IsPrefix(p, y)
    OBVIOUS
  <2>7. \A y \in DOMAIN tree : IsPrefix(p, y) => y \in below
    OBVIOUS
  <2> HIDE DEF below, stay, t
  <2>8. \A a \in Ancestors(q) : IsDir(a)'
    <3> SUFFICES ASSUME NEW a \in Ancestors(q) PROVE IsDir(a)'
      OBVIOUS
    <3>1. a \in stay /\ node[tree[a]] = "DIR"
      BY <2>5, AboveStays
    <3>2. a \in DOMAIN t /\ t[a] = tree[a] /\ t[a] \in Inodes
      BY <2>2, <2>3, <2>4, <3>1 DEF FsOK
    <3>3. QED
      BY <2>1, <3>1, <3>2, SettleDir
  <2>9. ASSUME NEW x \in DOMAIN t, NEW a \in Ancestors(x)
        PROVE  IsDir(a)'
    <3>1. CASE x \in stay
      <4>1. x \in DOMAIN tree /\ ~IsPrefix(p, x) /\ ~IsPrefix(q, x)
        BY <2>4, <3>1
      <4>2. IsDir(a) /\ x \in Seq(Names)
        BY <4>1 DEF TreeOK, FsOK
      <4>3. ~IsPrefix(p, a) /\ ~IsPrefix(q, a)
        BY <4>1, <4>2, PrefixAbove
      <4>4. a \in DOMAIN tree /\ node[tree[a]] = "DIR" /\ a \in stay
        BY <2>5, <4>2, <4>3 DEF IsDir, Exists, KindAt
      <4>5. a \in DOMAIN t /\ t[a] = tree[a] /\ t[a] \in Inodes
        BY <2>2, <2>3, <4>4 DEF FsOK
      <4>6. QED
        BY <2>1, <4>4, <4>5, SettleDir
    <3>2. CASE x \notin stay
      <4>1. PICK y \in below : x = Rebase(y, p, q)
        BY <2>2, <3>2
      <4>2. y \in DOMAIN tree /\ y \in Seq(Names) /\ IsPrefix(p, y)
        BY <2>6 DEF FsOK
      <4>3. CASE a \in Ancestors(q)
        BY <2>8, <4>3
      <4>4. CASE a \notin Ancestors(q)
        <5> DEFINE b == Rebase(a, q, p)
        <5>1. /\ IsPrefix(q, a) /\ IsPrefix(p, b) /\ b \in Ancestors(y)
              /\ a = Rebase(b, p, q)
          BY <4>1, <4>2, <4>4, RebasedAncestor
        <5>2. b \in DOMAIN tree /\ node[tree[b]] = "DIR" /\ tree[b] \in Inodes
          BY <4>2, <5>1 DEF TreeOK, FsOK, IsDir, Exists, KindAt
        <5>3. b \in below /\ a \notin stay
          BY <2>4, <2>7, <5>1, <5>2
        <5>4. a \in DOMAIN t /\ t[a] = tree[b]
          BY <2>2, <2>3, <5>1, <5>3
        <5> HIDE DEF b
        <5>5. QED
          BY <2>1, <5>2, <5>4, SettleDir
      <4>5. QED
        BY <4>3, <4>4
    <3>3. QED
      BY <3>1, <3>2
  <2>10. q \in DOMAIN t /\ t[q] = tree[p]
    <3>1. IsPrefix(p, p) /\ IsPrefix(q, q)
      BY PrefixIs
    <3>2. p \in below /\ q \notin stay
      BY <1>1, <2>4, <2>7, <3>1
    <3>3. Rebase(p, p, q) = q /\ Rebase(q, q, p) = p
      <4>1. Rebase(p, p, q) = q
        <5> DEFINE z == Rebase(p, p, q)
        <5>1. /\ z \in Seq(Names) /\ Len(z) = Len(q) + Len(p) - Len(p)
              /\ \A k \in 1 .. Len(q) + Len(p) - Len(p) :
                   z[k] = IF k <= Len(q) THEN q[k] ELSE p[k - Len(q) + Len(p)]
          <6>1. p \in Seq(Names) /\ q \in Seq(Names) /\ IsPrefix(p, p)
            BY <3>1
          <6>2. QED
            BY ONLY <6>1, RebaseIs
        <5>2. Len(p) \in Nat /\ Len(q) \in Nat
          OBVIOUS
        <5> HIDE DEF z
        <5>3. Len(z) = Len(q)
          BY <5>1, <5>2
        <5>4. \A k \in 1 .. Len(q) :
                k \in 1 .. Len(q) + Len(p) - Len(p) /\ k <= Len(q)
          BY <5>2
        <5>5. \A k \in 1 .. Len(q) : z[k] = q[k]
          BY <5>1, <5>4
        <5>6. z = q
          BY <5>1, <5>3, <5>5, SeqEqual
        <5>7. QED
          BY <5>6 DEF z
      <4>2. QED
        BY <3>1, <4>1, RebaseBack
    <3>4. QED
      BY <2>2, <2>3, <3>2, <3>3
  <2>11. Alive(q)'
    <3>1. \A a \in Ancestors(q) : IsDir(a)' /\ ~IsReg(a)'
      BY <2>8 DEF IsDir, IsReg, Regular
    <3>2. ~(Len(q) > MaxDepth)
      BY <1>1 DEF WalkErr
    <3>3. WalkErr(q)' = "OK"
      BY <3>1, <3>2 DEF WalkErr
    <3>4. Exists(q)'
      BY <2>1, <2>10 DEF Exists
    <3>5. QED
      BY <3>3, <3>4 DEF Alive, LstatErr
  <2>12. QED
    BY <2>1, <2>9, <2>10, <2>11 DEF TreeOK
<1>4. QED
  BY <1>2, <1>3
-----------------------------------------------------------------------------
(* One step of the only call.  d is the call after the step. *)

Alone == \A h \in Threads : AloneOK(thread[h])

Drops ==
  \A h \in DOMAIN fhandleMap \ DOMAIN fhandleMap' :
    \/ LstatErr(fhandleMap[h]) # "OK"
    \/ \E g \in Threads : thread[g].pc = "umntDel" /\ h = ExportHandle
    \/ fhandleMap' = <<>> /\ \A g \in Threads : thread'[g] = Idle

Rebinds ==
  \A h \in DOMAIN fhandleMap \cap DOMAIN fhandleMap' :
    fhandleMap'[h] # fhandleMap[h] =>
      ~Exists(fhandleMap[h]) \/ IsSilly(fhandleMap'[h])

\* What every step does: it keeps the invariant but for IInv, and neither
\* drops nor rebinds the handle of an object that is there.
Kept == TreeOK' /\ Alone' /\ Drops /\ Rebinds

\* What a step that is not about handles leaves alone.
SameCall(c, d) ==
  /\ d.op = c.op /\ d.fh = c.fh /\ d.fh2 = c.fh2
  /\ d.dir = c.dir /\ d.dir2 = c.dir2 /\ d.obj = c.obj /\ d.held = c.held

\* There is no other call to think of.
LEMMA SoleStep ==
  ASSUME OneCall, IInv, NEW g \in Threads, NEW d,
         thread' = [thread EXCEPT ![g] = d],
         TreeOK', AloneOK(d)', Drops, Rebinds
  PROVE  Kept
<1>1. thread'[g] = d
  BY DEF IInv, ThreadOK
<1>2. AloneOK(thread[g])'
  BY <1>1
<1>3. \A h \in Threads : h = g
  BY DEF OneCall
<1>4. Alone'
  BY <1>2, <1>3 DEF Alone
<1>5. QED
  BY <1>4 DEF Kept

\* A step that changes the call only.
LEMMA SoleQuiet ==
  ASSUME OneCall, SInv, NEW g \in Threads, NEW d,
         thread' = [thread EXCEPT ![g] = d],
         UNCHANGED <<tree, node, fhandleMap>>, AloneOK(d)
  PROVE  Kept
<1>1. TreeOK'
  BY DEF SInv, TreeOK, IsDir, Exists, KindAt
<1>2. \A p : Alive(p)' <=> Alive(p)
  BY DEF Alive, LstatErr, WalkErr, IsDir, IsReg, Exists, KindAt
<1>3. AloneOK(d)'
  BY <1>2 DEF AloneOK, HandlesOK, DropOK, ObjectOK, SillyOK, Known, Bound
<1>4. Drops /\ Rebinds
  BY DEF Drops, Rebinds
<1>5. QED
  BY <1>1, <1>3, <1>4, SoleStep DEF SInv

\* The handles the table holds are Handles, so never NoHandle.
LEMMA NoHandleUnknown ==
  ASSUME IInv
  PROVE  ~Known(NoHandle)
  BY HandleAssumption DEF IInv, MapOK, Known

\* A step that changes the file system too: the call has not answered an
\* object yet, nor moved one.
LEMMA SoleFs ==
  ASSUME OneCall, SInv, NEW g \in Threads, NEW d,
         thread' = [thread EXCEPT ![g] = d], fhandleMap' = fhandleMap, TreeOK',
         thread[g].pc \in {"act", "io"}, thread[g].op # "RENAME",
         SameCall(thread[g], d),
         \/ d.pc \in {"post", "chattr", "io"}
         \/ /\ d.pc = "new" /\ thread[g].pc = "act"
            /\ \E name \in Names : d.path = Append(d.dir, name)
  PROVE  Kept
<1> DEFINE c == thread[g]
<1>1. HandlesOK(c) /\ ObjectOK(c) /\ SillyOK(c)
  BY DEF SInv, AloneOK
<1>2. c.obj = NoHandle /\ c.held = NoHandle
  BY <1>1 DEF ObjectOK, SillyOK, Binding, Sillying
<1>3. PICK e : e = d
  OBVIOUS
<1>4. HandlesOK(e)'
  BY <1>1, <1>3 DEF HandlesOK, Known, SameCall, Binding
<1>5. DropOK(e)'
  BY <1>3 DEF DropOK
<1>6. ObjectOK(e)'
  BY <1>2, <1>3 DEF ObjectOK, SameCall, Binding
<1>7. SillyOK(e)'
  BY <1>2, <1>3 DEF SillyOK, SameCall, Sillying
<1>8. Drops /\ Rebinds
  BY DEF Drops, Rebinds
<1>9. QED
  BY <1>3, <1>4, <1>5, <1>6, <1>7, <1>8, SoleStep DEF SInv, AloneOK

\* Where the call c may go on, with nothing but its status changed.
Fits(c, pc) ==
  /\ pc \notin {"new", "mntSet"} \cup Binding \cup Sillying
  /\ pc \in {"stat", "act"} /\ c.op \notin TwoHandles => Known(c.fh)
  /\ pc \in {"drop", "dropFirst", "dropFrom"} => ~Alive(c.dir)
  /\ pc \in {"drop2", "dropSecond"} => ~Alive(c.dir2)
  /\ c.obj # NoHandle /\ c.op # "RENAME" =>
       c.pc \notin Binding /\ pc \in {"post", "drop", "reply"}
  /\ c.held # NoHandle =>
       /\ c.pc \notin Sillying
       /\ pc \in {"post", "dropFrom", "post2", "drop2", "reply"}

\* A call that went on there.
LEMMA FitsAlone ==
  ASSUME NEW c, NEW d, AloneOK(c), Fits(c, d.pc), SameCall(c, d),
         d.src = c.src, d.path = c.path
  PROVE  AloneOK(d)
<1>1. HandlesOK(d)
  BY DEF AloneOK, HandlesOK, Fits, SameCall
<1>2. DropOK(d)
  BY DEF DropOK, Fits, SameCall
<1>3. ObjectOK(d)
  BY DEF AloneOK, ObjectOK, Fits, SameCall, Binding
<1>4. SillyOK(d)
  BY DEF AloneOK, SillyOK, Fits, SameCall, Sillying
<1>5. QED
  BY <1>1, <1>2, <1>3, <1>4 DEF AloneOK

\* The fields of a call whose step and status are set.
LEMMA GoFields ==
  ASSUME IInv, NEW g \in Threads, NEW pc, NEW st, Go(g, pc, st)
  PROVE  \E d : /\ thread' = [thread EXCEPT ![g] = d]
                /\ SameCall(thread[g], d)
                /\ d.pc = pc /\ d.src = thread[g].src
                /\ d.path = thread[g].path /\ d.found = thread[g].found
<1> DEFINE d == [thread[g] EXCEPT !.pc = pc, !.st = st]
<1>1. thread[g] \in Calls
  BY DEF IInv, ThreadOK
<1>2. /\ d.pc = pc /\ d.op = thread[g].op /\ d.fh = thread[g].fh
      /\ d.fh2 = thread[g].fh2 /\ d.dir = thread[g].dir
      /\ d.dir2 = thread[g].dir2 /\ d.obj = thread[g].obj
      /\ d.held = thread[g].held /\ d.src = thread[g].src
      /\ d.path = thread[g].path /\ d.found = thread[g].found
  BY <1>1 DEF Calls
<1>3. thread' = [thread EXCEPT ![g] = d]
  BY DEF Go
<1> HIDE DEF d
<1>4. QED
  BY <1>2, <1>3 DEF SameCall

\* A step to a place where the call fits.
LEMMA GoAlone ==
  ASSUME OneCall, SInv, NEW g \in Threads, NEW pc, NEW st, Go(g, pc, st),
         UNCHANGED <<tree, node, fhandleMap>>, Fits(thread[g], pc)
  PROVE  Kept
<1>1. PICK d : /\ thread' = [thread EXCEPT ![g] = d]
               /\ SameCall(thread[g], d)
               /\ d.pc = pc /\ d.src = thread[g].src
               /\ d.path = thread[g].path
  BY GoFields DEF SInv
<1>2. AloneOK(thread[g])
  BY DEF SInv
<1>3. AloneOK(d)
  BY <1>1, <1>2, FitsAlone
<1>4. QED
  BY <1>1, <1>3, SoleQuiet

\* Without outside errors a stat tells whether the path is alive.
LEMMA SoleOutcome ==
  ASSUME OneCall, NEW e
  PROVE  Outcomes(e) = {e}
  BY DEF OneCall, Outcomes

\* getFileAttrFromPath.
LEMMA OnStatAlone ==
  ASSUME OneCall, SInv, NEW g \in Threads, NEW at, NEW p, NEW good, NEW st,
         NEW bad, OnStat(g, at, p, good, st, bad),
         Alive(p) => Fits(thread[g], good), ~Alive(p) => Fits(thread[g], bad)
  PROVE  Kept
<1>1. IF LstatErr(p) = "OK" THEN Go(g, good, st)
      ELSE Go(g, bad, thread[g].st)
  BY SoleOutcome DEF OnStat
<1>2. UNCHANGED <<tree, node, fhandleMap>>
  BY DEF OnStat, OnlyThread
<1>3. QED
  BY <1>1, <1>2, GoAlone DEF Alive

\* deleteHandle, of a handle whose path is gone, or by UMNT.
LEMMA DeleteAlone ==
  ASSUME OneCall, SInv, NEW g \in Threads, NEW at, NEW h, NEW next,
         deleteHandle(g, at, h, next), Fits(thread[g], next),
         next \in {"reply", "alt", "statAgain", "post2"},
         \/ Known(h) => ~Alive(fhandleMap[h])
         \/ /\ thread[g].pc = "umntDel" /\ h = ExportHandle
            /\ thread[g].obj = NoHandle /\ thread[g].held = NoHandle
  PROVE  Kept
<1> DEFINE c == thread[g]
<1>1. PICK m : m = Restrict(fhandleMap, DOMAIN fhandleMap \ {h})
  OBVIOUS
<1>2. /\ fhandleMap' = m /\ DOMAIN m = DOMAIN fhandleMap \ {h}
      /\ \A x \in DOMAIN m : m[x] = fhandleMap[x]
  BY <1>1 DEF deleteHandle, Restrict
<1>3. UNCHANGED <<tree, node>> /\ Go(g, next, c.st)
  BY DEF deleteHandle
<1>4. PICK d : /\ thread' = [thread EXCEPT ![g] = d] /\ SameCall(c, d)
               /\ d.pc = next /\ d.src = c.src /\ d.path = c.path
  BY <1>3, GoFields DEF SInv
<1>5. AloneOK(c)
  BY DEF SInv
<1>6. AloneOK(d)
  BY <1>4, <1>5, FitsAlone
<1>7. TreeOK'
  BY <1>3 DEF SInv, TreeOK, IsDir, Exists, KindAt
<1>8. \A p : Alive(p)' <=> Alive(p)
  BY <1>3 DEF Alive, LstatErr, WalkErr, IsDir, IsReg, Exists, KindAt
<1>9. \A x : Known(x)' => Known(x) /\ fhandleMap'[x] = fhandleMap[x]
  BY <1>2 DEF Known
<1>10. \A x, p : Bound(x, p) /\ x # h => Bound(x, p)'
  BY <1>2 DEF Bound, Known
<1>11. HandlesOK(d)'
  BY <1>4, <1>6, <1>9 DEF AloneOK, HandlesOK, Binding
<1>12. DropOK(d)'
  BY <1>4 DEF DropOK
<1>13. ObjectOK(d)'
  <2>1. ASSUME d.obj # NoHandle, d.op # "RENAME"
        PROVE  /\ d.pc \in {"post", "drop", "reply"} /\ Alive(d.path)'
               /\ d.obj = makeFHandle(d.path, tree[d.path])'
               /\ Bound(d.obj, d.path)'
    <3>1. /\ d.pc \in {"post", "drop", "reply"} /\ Alive(d.path)
          /\ d.obj = makeFHandle(d.path, tree[d.path])
          /\ Bound(d.obj, d.path)
      BY <1>4, <1>6, <2>1 DEF AloneOK, ObjectOK, Binding
    <3>2. d.obj # h
      BY <1>4, <2>1, <3>1 DEF Bound, SameCall
    <3>3. QED
      BY <1>3, <1>8, <1>10, <3>1, <3>2
  <2>2. QED
    BY <1>4, <1>6, <2>1 DEF AloneOK, ObjectOK, Binding
<1>14. SillyOK(d)'
  <2>1. ASSUME d.held # NoHandle
        PROVE  /\ d.pc \in {"post2", "reply"}
               /\ d.op = "RENAME" /\ Alive(d.path)'
               /\ d.held = makeFHandle(d.src, tree[d.path])'
               /\ Bound(d.held, d.path)'
    <3>1. /\ d.pc \in {"post2", "reply"}
          /\ d.op = "RENAME" /\ Alive(d.path)
          /\ d.held = makeFHandle(d.src, tree[d.path])
          /\ Bound(d.held, d.path)
      BY <1>4, <1>6, <2>1 DEF AloneOK, SillyOK, Sillying
    <3>2. d.held # h
      BY <1>4, <2>1, <3>1 DEF Bound, SameCall
    <3>3. QED
      BY <1>3, <1>8, <1>10, <3>1, <3>2
  <2>2. QED
    BY <1>4, <2>1 DEF SillyOK, Sillying
<1>15. Drops /\ Rebinds
  BY <1>2 DEF Drops, Rebinds, Known, Alive
<1>16. QED
  BY <1>4, <1>7, <1>11, <1>12, <1>13, <1>14, <1>15, SoleStep DEF SInv, AloneOK
-----------------------------------------------------------------------------
(* What the handlers have in common. *)

\* What is known of the call before its step.
LEMMA CallAlone ==
  ASSUME SInv, NEW g \in Threads
  PROVE  /\ AloneOK(thread[g]) /\ thread[g] \in Calls /\ CallOK(thread[g])
         /\ thread[g].dir \in Seq(Names) /\ thread[g].dir2 \in Seq(Names)
<1>1. AloneOK(thread[g])
  BY DEF SInv
<1>2. thread[g] \in Calls /\ CallOK(thread[g])
  BY DEF SInv, IInv, ThreadOK
<1>3. thread[g].dir \in Paths /\ thread[g].dir2 \in Paths
  BY <1>2 DEF Calls
<1>4. QED
  BY <1>1, <1>2, <1>3, PathsAreSequences

\* Before a handler has acted it has no object, and held nothing.
LEMMA NothingYet ==
  ASSUME SInv, NEW g \in Threads
  PROVE  /\ thread[g].pc \notin Binding \cup {"post", "drop", "reply"} =>
              thread[g].op = "RENAME" \/ thread[g].obj = NoHandle
         /\ thread[g].pc \notin Sillying \cup
                {"post", "dropFrom", "post2", "drop2", "reply"} =>
              thread[g].held = NoHandle
         /\ thread[g].op # "RENAME" => thread[g].held = NoHandle
  BY CallAlone DEF AloneOK, ObjectOK, SillyOK

\* The first stat, or the dropping of the handle.
LEMMA FirstAlone ==
  ASSUME OneCall, SInv, NEW g \in Threads, thread[g].op \notin TwoHandles,
         NEW good \in {"act", "reply", "post"}, NEW st, First(g, good, st)
  PROVE  Kept
<1> DEFINE c == thread[g]
<1>1. AloneOK(c) /\ c.held = NoHandle
  BY CallAlone, NothingYet DEF TwoHandles
<1>2. CASE OnStat(g, "stat", c.dir, good, st, "drop")
  <2>1. c.pc = "stat"
    BY <1>2 DEF OnStat, At
  <2>2. Known(c.fh) /\ c.obj = NoHandle
    BY <1>1, <2>1, NothingYet DEF AloneOK, HandlesOK, TwoHandles, Binding
  <2>3. Fits(c, good) /\ (~Alive(c.dir) => Fits(c, "drop"))
    BY <1>1, <2>2 DEF Fits, Binding, Sillying
  <2>4. QED
    BY <1>2, <2>3, OnStatAlone
<1>3. CASE deleteHandle(g, "drop", c.fh, "reply")
  <2>1. c.pc = "drop"
    BY <1>3 DEF deleteHandle, At
  <2>2. Known(c.fh) => ~Alive(fhandleMap[c.fh])
    BY <1>1, <2>1 DEF AloneOK, HandlesOK, DropOK
  <2>3. Fits(c, "reply")
    BY <1>1, <2>1 DEF Fits, Binding, Sillying
  <2>4. QED
    BY <1>3, <2>2, <2>3, DeleteAlone
<1>4. QED
  BY <1>2, <1>3 DEF First

\* The same for a call that may change something.
LEMMA FirstWritableAlone ==
  ASSUME OneCall, SInv, NEW g \in Threads, thread[g].op \notin TwoHandles,
         FirstWritable(g)
  PROVE  Kept
  BY FirstAlone DEF FirstWritable

\* The post-operation stat.
LEMMA PostAlone ==
  ASSUME OneCall, SInv, NEW g \in Threads, thread[g].op \notin TwoHandles,
         Post(g)
  PROVE  Kept
<1> DEFINE c == thread[g]
<1>1. c.held = NoHandle
  BY NothingYet DEF TwoHandles
<1>2. c.pc = "post"
  BY DEF Post, OnStat, At
<1>3. Fits(c, "reply") /\ (~Alive(c.dir) => Fits(c, "drop"))
  BY <1>1, <1>2 DEF Fits, Binding, Sillying
<1>4. QED
  BY <1>3, OnStatAlone DEF Post

\* A step before the handler has had its effect, that shows nothing yet.
LEMMA EarlyGo ==
  ASSUME OneCall, SInv, NEW g \in Threads, NEW pc, NEW st,
         thread[g].pc \in {"act", "io", "chattr"},
         pc \in {"post", "chattr"} \/ pc = "reply",
         Go(g, pc, st), UNCHANGED <<tree, node, fhandleMap>>
  PROVE  Kept
<1> DEFINE c == thread[g]
<1>1. c.held = NoHandle /\ (c.op = "RENAME" \/ c.obj = NoHandle)
  BY NothingYet DEF Binding, Sillying
<1>2. Fits(c, pc)
  BY <1>1 DEF Fits, Binding, Sillying
<1>3. QED
  BY <1>2, GoAlone

\* A system call fails, or the handler turns the call down.
LEMMA RefuseAlone ==
  ASSUME OneCall, SInv, NEW g \in Threads, NEW st,
         thread[g].pc \in {"act", "io", "chattr"},
         Refuse(g, st), UNCHANGED <<fhandleMap, server>>
  PROVE  Kept
  BY EarlyGo DEF Refuse

\* A new object, at a name of the directory.
LEMMA MadeAlone ==
  ASSUME OneCall, SInv, NEW g \in Threads, NEW name \in Names, NEW fd, NEW how,
         Made(g, Child(g, name), fd, how), fhandleMap' = fhandleMap, TreeOK',
         thread[g].pc = "act", thread[g].op \notin TwoHandles
  PROVE  Kept
<1> DEFINE c == thread[g]
           p == Child(g, name)
           d == [c EXCEPT !.pc = "new", !.path = p, !.fd = fd, !.how = how,
                          !.did = TRUE]
<1>1. c \in Calls
  BY CallAlone
<1>2. thread' = [thread EXCEPT ![g] = d]
  BY DEF Made
<1>3. /\ d.pc = "new" /\ d.path = p /\ d.op = c.op /\ d.fh = c.fh
      /\ d.fh2 = c.fh2 /\ d.dir = c.dir /\ d.dir2 = c.dir2 /\ d.obj = c.obj
      /\ d.held = c.held
  <2> HIDE DEF p
  <2>1. QED
    BY <1>1 DEF Calls
<1> HIDE DEF d
<1>4. PICK e : e = d
  OBVIOUS
<1>5. SameCall(c, e) /\ e.pc = "new" /\ e.path = Append(e.dir, name)
  BY <1>3, <1>4 DEF SameCall, Child
<1>6. thread' = [thread EXCEPT ![g] = e]
  BY <1>2, <1>4
<1>7. QED
  BY <1>5, <1>6, SoleFs DEF TwoHandles

\* A call that had its effect and made nothing.
LEMMA DoneAlone ==
  ASSUME OneCall, SInv, NEW g \in Threads, TreeOK', fhandleMap' = fhandleMap,
         thread[g].pc \in {"act", "io"}, thread[g].op # "RENAME", NEW p,
         \/ thread' = [thread EXCEPT ![g].pc = "post", ![g].st = "OK",
                                     ![g].did = TRUE]
         \/ thread' = [thread EXCEPT ![g].pc = "post", ![g].path = p,
                                     ![g].st = "OK", ![g].did = TRUE]
         \/ thread' = [thread EXCEPT ![g].pc = "chattr", ![g].how = "SIZE",
                                     ![g].did = TRUE]
  PROVE  Kept
<1> DEFINE c == thread[g]
<1>1. c \in Calls
  BY CallAlone
<1>2. \E d : /\ thread' = [thread EXCEPT ![g] = d] /\ SameCall(c, d)
             /\ d.pc \in {"post", "chattr"}
  <2>1. CASE thread' = [thread EXCEPT ![g].pc = "post", ![g].st = "OK",
                                      ![g].did = TRUE]
    <3> DEFINE d == [c EXCEPT !.pc = "post", !.st = "OK", !.did = TRUE]
    <3>1. thread' = [thread EXCEPT ![g] = d]
      BY <2>1
    <3>2. d.pc = "post" /\ SameCall(c, d)
      BY <1>1 DEF Calls, SameCall
    <3>3. QED
      BY <3>1, <3>2
  <2>2. CASE thread' = [thread EXCEPT ![g].pc = "post", ![g].path = p,
                                      ![g].st = "OK", ![g].did = TRUE]
    <3> DEFINE d == [c EXCEPT !.pc = "post", !.path = p, !.st = "OK",
                              !.did = TRUE]
    <3>1. thread' = [thread EXCEPT ![g] = d]
      BY <2>2
    <3>2. d.pc = "post" /\ SameCall(c, d)
      BY <1>1 DEF Calls, SameCall
    <3>3. QED
      BY <3>1, <3>2
  <2>3. CASE thread' = [thread EXCEPT ![g].pc = "chattr", ![g].how = "SIZE",
                                      ![g].did = TRUE]
    <3> DEFINE d == [c EXCEPT !.pc = "chattr", !.how = "SIZE", !.did = TRUE]
    <3>1. thread' = [thread EXCEPT ![g] = d]
      BY <2>3
    <3>2. d.pc = "chattr" /\ SameCall(c, d)
      BY <1>1 DEF Calls, SameCall
    <3>3. QED
      BY <3>1, <3>2
  <2>4. QED
    BY <2>1, <2>2, <2>3
<1>3. PICK d : /\ thread' = [thread EXCEPT ![g] = d] /\ SameCall(c, d)
               /\ d.pc \in {"post", "chattr"}
  BY <1>2
<1>4. QED
  BY <1>3, SoleFs

\* The object to answer is there, and so is the directory it is in.
LEMMA NamedAlone ==
  ASSUME OneCall, SInv, NEW g \in Threads, thread[g].op \notin TwoHandles,
         thread[g].pc \in {"act", "new"}, NEW name \in Names,
         NEW p, p = Append(thread[g].dir, name), Alive(p),
         NEW d, thread' = [thread EXCEPT ![g] = d],
         UNCHANGED <<tree, node, fhandleMap>>,
         d.op = thread[g].op, d.fh = thread[g].fh, d.fh2 = thread[g].fh2,
         d.dir = thread[g].dir, d.dir2 = thread[g].dir2,
         d.held = thread[g].held,
         d.pc = "bind", d.path = p, d.obj = makeFHandle(p, tree[p])
  PROVE  Kept
<1> DEFINE c == thread[g]
<1>1. /\ d.op = c.op /\ d.fh = c.fh /\ d.fh2 = c.fh2 /\ d.dir = c.dir
      /\ d.dir2 = c.dir2 /\ d.held = c.held
  OBVIOUS
<1>2. AloneOK(c) /\ c.dir \in Seq(Names) /\ c.held = NoHandle
  BY CallAlone, NothingYet DEF TwoHandles
<1>3. Alive(c.dir)
  BY <1>2, ParentAlive
<1>4. HandlesOK(d)
  BY <1>1, <1>2 DEF AloneOK, HandlesOK, Binding
<1>5. DropOK(d)
  BY DEF DropOK
<1>6. ObjectOK(d)
  BY <1>1, <1>3 DEF ObjectOK, Binding, TwoHandles
<1>7. SillyOK(d)
  BY <1>1, <1>2 DEF SillyOK, Sillying
<1>8. QED
  BY <1>4, <1>5, <1>6, <1>7, SoleQuiet DEF AloneOK
-----------------------------------------------------------------------------
(* The object a reply names. *)

\* The new object is stated, and its handle made of its name and inode.
LEMMA StatObjectAlone ==
  ASSUME OneCall, SInv, NEW g \in Threads, thread[g].op \notin TwoHandles,
         StatObject(g)
  PROVE  Kept
<1> DEFINE c == thread[g]
           p == c.path
<1>1. c.pc = "new" /\ UNCHANGED <<tree, node, fhandleMap>>
  BY DEF StatObject, At, OnlyThread
<1>2. AloneOK(c) /\ c.held = NoHandle /\ c.obj = NoHandle /\ c \in Calls
  BY <1>1, CallAlone, NothingYet DEF TwoHandles, Binding
<1>3. PICK name \in Names : p = Append(c.dir, name)
  BY <1>1, <1>2 DEF AloneOK, ObjectOK
<1>4. IF LstatErr(p) = "OK"
      THEN thread' = [thread EXCEPT ![g].pc = "bind",
                                    ![g].obj = makeFHandle(p, tree[p])]
      ELSE Go(g, "post", StatFailed(c.op, LstatErr(p)))
  BY SoleOutcome DEF StatObject
<1>5. CASE Alive(p)
  <2> DEFINE h == makeFHandle(p, tree[p])
             d == [c EXCEPT !.pc = "bind", !.obj = h]
  <2>1. thread' = [thread EXCEPT ![g] = d]
    BY <1>4, <1>5 DEF Alive
  <2> HIDE DEF h
  <2>2. /\ d.op = c.op /\ d.fh = c.fh /\ d.fh2 = c.fh2 /\ d.dir = c.dir
        /\ d.dir2 = c.dir2 /\ d.held = c.held
        /\ d.pc = "bind" /\ d.path = p /\ d.obj = h
    BY <1>2 DEF Calls
  <2> HIDE DEF d, p
  <2>3. PICK e : e = d
    OBVIOUS
  <2>4. thread' = [thread EXCEPT ![g] = e] /\ e.obj = makeFHandle(p, tree[p])
    BY <2>1, <2>2, <2>3 DEF h
  <2>5. /\ e.op = c.op /\ e.fh = c.fh /\ e.fh2 = c.fh2 /\ e.dir = c.dir
        /\ e.dir2 = c.dir2 /\ e.held = c.held /\ e.pc = "bind" /\ e.path = p
    BY <2>2, <2>3
  <2>6. PICK q : q = p
    OBVIOUS
  <2>7. QED
    BY <1>1, <1>3, <1>5, <2>4, <2>5, <2>6, NamedAlone
<1>6. CASE ~Alive(p)
  <2>1. Go(g, "post", StatFailed(c.op, LstatErr(p)))
    BY <1>4, <1>6 DEF Alive
  <2>2. Fits(c, "post")
    BY <1>1, <1>2 DEF Fits, Binding, Sillying
  <2>3. QED
    BY <1>1, <2>1, <2>2, GoAlone
<1>7. QED
  BY <1>5, <1>6

\* What the table holds for the object.
LEMMA GetFoundAlone ==
  ASSUME OneCall, SInv, NEW g \in Threads, thread[g].op \notin TwoHandles,
         NEW next \in {"reply", "post"}, GetFound(g, next)
  PROVE  Kept
<1> DEFINE c == thread[g]
           f == IF c.obj \in DOMAIN fhandleMap THEN fhandleMap[c.obj]
                ELSE c.path
           pc == IF c.obj \notin DOMAIN fhandleMap THEN "set"
                 ELSE IF fhandleMap[c.obj] = c.path THEN next ELSE "check"
           d == [c EXCEPT !.found = f, !.pc = pc, !.st = "OK"]
<1>1. /\ thread' = [thread EXCEPT ![g] = d] /\ c.pc = "bind"
      /\ UNCHANGED <<tree, node, fhandleMap>>
  BY DEF GetFound, Found, At, OnlyThread
<1>2. AloneOK(c) /\ c \in Calls /\ c.held = NoHandle
  BY CallAlone, NothingYet DEF TwoHandles
<1>3. pc = "set" => ~Known(c.obj)
  BY DEF Known
<1>4. pc = "check" => Bound(c.obj, f)
  BY DEF Bound, Known
<1>5. pc \in {"reply", "post"} => Bound(c.obj, c.path)
  BY DEF Bound, Known
<1>6. pc \in {"reply", "post", "set", "check"}
  OBVIOUS
<1> HIDE DEF f, pc
<1>7. SameCall(c, d) /\ d.pc = pc /\ d.found = f /\ d.path = c.path
  BY <1>2 DEF Calls, SameCall
<1> HIDE DEF d
<1>8. HandlesOK(d)
  BY <1>1, <1>2, <1>7 DEF AloneOK, HandlesOK, SameCall, Binding
<1>9. DropOK(d)
  BY <1>6, <1>7 DEF DropOK
<1>10. ObjectOK(d)
  BY <1>1, <1>2, <1>3, <1>4, <1>5, <1>6, <1>7
     DEF AloneOK, ObjectOK, SameCall, Binding
<1>11. SillyOK(d)
  BY <1>2, <1>6, <1>7 DEF SillyOK, SameCall, Sillying
<1>12. QED
  BY <1>1, <1>8, <1>9, <1>10, <1>11, SoleQuiet DEF AloneOK

\* The path found instead is stated: the handle is to be rebound if it is gone.
LEMMA CheckFoundAlone ==
  ASSUME OneCall, SInv, NEW g \in Threads, thread[g].op \notin TwoHandles,
         CheckFound(g)
  PROVE  Kept
<1> DEFINE c == thread[g]
<1>1. c.pc = "check" /\ UNCHANGED <<tree, node, fhandleMap>>
  BY DEF CheckFound, At
<1>2. AloneOK(c) /\ c.held = NoHandle
  BY CallAlone, NothingYet DEF TwoHandles
<1>3. IF LstatErr(c.found) = "OK" THEN UNCHANGED thread
      ELSE Go(g, "set", c.st)
  BY SoleOutcome DEF CheckFound
<1>4. CASE Alive(c.found)
  <2>1. thread' = [thread EXCEPT ![g] = c]
    BY <1>3, <1>4 DEF Alive, SInv, IInv, ThreadOK
  <2>2. QED
    BY <1>1, <1>2, <2>1, SoleQuiet
<1>5. CASE ~Alive(c.found)
  <2>1. PICK d : /\ thread' = [thread EXCEPT ![g] = d] /\ SameCall(c, d)
                 /\ d.pc = "set" /\ d.path = c.path
    BY <1>3, <1>5, GoFields DEF Alive, SInv
  <2>2. Known(c.obj) => ~Alive(fhandleMap[c.obj])
    BY <1>1, <1>2, <1>5 DEF AloneOK, ObjectOK, Bound
  <2>3. HandlesOK(d)
    BY <1>1, <1>2, <2>1 DEF AloneOK, HandlesOK, SameCall, Binding
  <2>4. DropOK(d)
    BY <2>1 DEF DropOK
  <2>5. ObjectOK(d)
    BY <1>1, <1>2, <2>1, <2>2 DEF AloneOK, ObjectOK, SameCall, Binding
  <2>6. SillyOK(d)
    BY <1>2, <2>1 DEF SillyOK, SameCall, Sillying
  <2>7. QED
    BY <1>1, <2>1, <2>3, <2>4, <2>5, <2>6, SoleQuiet DEF AloneOK
<1>6. QED
  BY <1>4, <1>5

\* What setValueforHandle leaves of the rest.
LEMMA SetFacts ==
  ASSUME SInv, NEW g \in Threads, NEW at, NEW h, NEW p, NEW next,
         setValueforHandle(g, at, h, p, next)
  PROVE  /\ thread[g].pc = at /\ TreeOK'
         /\ \A q : Alive(q)' <=> Alive(q)
         /\ tree' = tree /\ Bound(h, p)'
         /\ \A x : Known(x)' <=> Known(x) \/ x = h
         /\ \A x : Known(x) /\ x # h => fhandleMap'[x] = fhandleMap[x]
         /\ Drops
         /\ \E d : /\ thread' = [thread EXCEPT ![g] = d]
                   /\ SameCall(thread[g], d) /\ d.pc = next
                   /\ d.src = thread[g].src /\ d.path = thread[g].path
<1>1. /\ thread[g].pc = at /\ Go(g, next, thread[g].st)
      /\ UNCHANGED <<tree, node>>
  BY DEF setValueforHandle, At
<1>2. PICK m : m = [x \in DOMAIN fhandleMap \cup {h} |->
                      IF x = h THEN p ELSE fhandleMap[x]]
  OBVIOUS
<1>3. /\ fhandleMap' = m /\ DOMAIN m = DOMAIN fhandleMap \cup {h}
      /\ m[h] = p /\ \A x \in DOMAIN fhandleMap : x # h => m[x] = fhandleMap[x]
  BY <1>2 DEF setValueforHandle
<1>4. \E d : /\ thread' = [thread EXCEPT ![g] = d]
             /\ SameCall(thread[g], d) /\ d.pc = next
             /\ d.src = thread[g].src /\ d.path = thread[g].path
  BY <1>1, GoFields DEF SInv
<1>5. TreeOK'
  BY <1>1 DEF SInv, TreeOK, IsDir, Exists, KindAt
<1>6. \A q : Alive(q)' <=> Alive(q)
  BY <1>1 DEF Alive, LstatErr, WalkErr, IsDir, IsReg, Exists, KindAt
<1>7. Bound(h, p)' /\ (\A x : Known(x)' <=> Known(x) \/ x = h)
  BY <1>3 DEF Bound, Known
<1>8. \A x : Known(x) /\ x # h => fhandleMap'[x] = fhandleMap[x]
  BY <1>3 DEF Known
<1>9. Drops
  BY <1>3 DEF Drops
<1>10. QED
  BY <1>1, <1>4, <1>5, <1>6, <1>7, <1>8, <1>9

\* A handle is bound anew where its path is gone, or that becomes silly.
LEMMA RebindsOne ==
  ASSUME SInv, NEW h, NEW p,
         \A x : Known(x) /\ x # h => fhandleMap'[x] = fhandleMap[x],
         Bound(h, p)',
         Known(h) => ~Alive(fhandleMap[h]) \/ IsSilly(p)
  PROVE  Rebinds
<1> SUFFICES ASSUME NEW x \in DOMAIN fhandleMap,
                    fhandleMap'[x] # fhandleMap[x]
             PROVE  ~Exists(fhandleMap[x]) \/ IsSilly(fhandleMap'[x])
  BY DEF Rebinds
<1>1. x = h /\ Known(h) /\ fhandleMap'[x] = p
  BY DEF Known, Bound
<1>2. fhandleMap[x] \in Paths
  BY DEF SInv, IInv, MapOK
<1>3. CASE ~Alive(fhandleMap[h])
  BY <1>1, <1>2, <1>3, ExistsAlive DEF SInv, IInv
<1>4. CASE IsSilly(p)
  BY <1>1, <1>4
<1>5. QED
  BY <1>1, <1>3, <1>4

\* The handle of the object is bound to its path.
LEMMA SetAlone ==
  ASSUME OneCall, SInv, NEW g \in Threads, thread[g].op \notin TwoHandles,
         NEW next \in {"reply", "post"},
         setValueforHandle(g, "set", thread[g].obj, thread[g].path, next)
  PROVE  Kept
<1> DEFINE c == thread[g]
<1>1. PICK h, p : h = c.obj /\ p = c.path
  OBVIOUS
<1>2. setValueforHandle(g, "set", h, p, next)
  BY <1>1
<1>3. /\ c.pc = "set" /\ TreeOK' /\ (\A q : Alive(q)' <=> Alive(q))
      /\ tree' = tree /\ Bound(h, p)'
      /\ (\A x : Known(x)' <=> Known(x) \/ x = h)
      /\ (\A x : Known(x) /\ x # h => fhandleMap'[x] = fhandleMap[x]) /\ Drops
  BY <1>2, SetFacts
<1>4. PICK d : /\ thread' = [thread EXCEPT ![g] = d]
               /\ SameCall(c, d) /\ d.pc = next
               /\ d.src = c.src /\ d.path = c.path
  BY <1>2, SetFacts
<1>5. AloneOK(c) /\ CallOK(c) /\ c \in Calls /\ c.held = NoHandle
  BY CallAlone, NothingYet DEF TwoHandles
<1>6. Alive(c.dir) /\ (Known(h) => ~Alive(fhandleMap[h]))
  BY <1>1, <1>3, <1>5 DEF AloneOK, ObjectOK, Binding
<1>7. h \in Handles /\ h # NoHandle
  <2>1. p \in Paths /\ MadeFrom(h, p)
    BY <1>1, <1>3, <1>5 DEF CallOK, Calls
  <2>2. QED
    BY <2>1, MadeHandle, HandleAssumption
<1>8. /\ Known(c.fh) /\ fhandleMap[c.fh] = c.dir /\ c.fh2 = NoHandle
      /\ ~Known(NoHandle)
  BY <1>3, <1>5, NoHandleUnknown DEF AloneOK, HandlesOK, SInv, Binding
<1>9. c.fh # h
  BY <1>6, <1>8
<1>10. HandlesOK(d)'
  BY <1>3, <1>4, <1>7, <1>8, <1>9 DEF HandlesOK, SameCall, Binding
<1>11. DropOK(d)'
  BY <1>4 DEF DropOK
<1>12. ObjectOK(d)'
  <2>1. /\ c.op # "RENAME" /\ Alive(p) /\ h = makeFHandle(p, tree[p])
    BY <1>1, <1>3, <1>5, <1>7 DEF AloneOK, ObjectOK, Binding, TwoHandles
  <2>2. d.obj = h /\ d.path = p
    BY <1>1, <1>4 DEF SameCall
  <2>3. /\ Alive(p)' /\ h = makeFHandle(p, tree[p])'
    BY <1>3, <2>1
  <2>4. d.pc \in {"reply", "post"} /\ d.op # "LINK"
    BY <1>4 DEF SameCall, TwoHandles
  <2>5. QED
    BY <1>3, <2>2, <2>3, <2>4 DEF ObjectOK, Binding
<1>13. SillyOK(d)'
  BY <1>4, <1>5 DEF SillyOK, SameCall, Sillying
<1>14. Rebinds
  BY <1>3, <1>6, RebindsOne
<1>15. QED
  BY <1>3, <1>4, <1>10, <1>11, <1>12, <1>13, <1>14, SoleStep
     DEF SInv, AloneOK

\* Getting and setting the handle of the object.
LEMMA BindAlone ==
  ASSUME OneCall, SInv, NEW g \in Threads, thread[g].op \notin TwoHandles,
         NEW next \in {"reply", "post"}, Bind(g, next)
  PROVE  Kept
  BY GetFoundAlone, CheckFoundAlone, SetAlone DEF Bind
-----------------------------------------------------------------------------
(* The handlers of one handle. *)

\* The handlers that do no more than stat the object.
LEMMA StatHandlersAlone ==
  ASSUME OneCall, SInv, NEW g \in Threads,
         \/ GetFileAttr(g) \/ Access(g) \/ GetFileSysInfo(g)
         \/ GetPathConf(g) \/ ReadDirPlus(g) \/ Commit(g)
  PROVE  Kept
<1>1. \E st : First(g, "reply", st)
  BY DEF GetFileAttr, Access, GetFileSysInfo, GetPathConf, ReadDirPlus, Commit
<1>2. thread[g].op \notin TwoHandles
  BY DEF Serving, GetFileAttr, Access, GetFileSysInfo, GetPathConf,
         ReadDirPlus, Commit, TwoHandles
<1>3. QED
  BY <1>1, <1>2, FirstAlone

\* Those that read it too.
LEMMA ReadHandlersAlone ==
  ASSUME OneCall, SInv, NEW g \in Threads,
         GetFileSystemAttr(g) \/ ReadDir(g) \/ Read(g) \/ ReadLink(g)
  PROVE  Kept
<1>1. thread[g].op \notin TwoHandles
  BY DEF Serving, GetFileSystemAttr, ReadDir, Read, ReadLink, TwoHandles
<1>2. CASE First(g, "act", "STALE") \/ First(g, "post", "INVAL")
  BY <1>1, <1>2, FirstAlone
<1>3. CASE Post(g)
  BY <1>1, <1>3, PostAlone
<1>4. CASE /\ At(g, "act") /\ OnlyThread
           /\ \E pc \in {"reply", "post"} : \E st : Go(g, pc, st)
  BY <1>4, EarlyGo DEF At, OnlyThread
<1>5. QED
  <2>1. CASE GetFileSystemAttr(g)
    BY <2>1, <1>2, <1>3, <1>4 DEF GetFileSystemAttr
  <2>2. CASE ReadDir(g)
    BY <2>2, <1>2, <1>3, <1>4 DEF ReadDir
  <2>3. CASE Read(g)
    BY <2>3, <1>2, <1>3, <1>4 DEF Read
  <2>4. CASE ReadLink(g)
    BY <2>4, <1>2, <1>3, <1>4 DEF ReadLink
  <2>5. QED
    BY <2>1, <2>2, <2>3, <2>4

\* LOOKUP, where the name is found.
LEMMA FoundName ==
  ASSUME OneCall, SInv, NEW g \in Threads, thread[g].op \notin TwoHandles,
         thread[g].pc = "act", NEW name \in Names,
         NEW p, p = Append(thread[g].dir, name), Alive(p),
         thread' = [thread EXCEPT ![g].pc = "bind", ![g].path = p,
                                  ![g].obj = makeFHandle(p, tree[p])],
         UNCHANGED <<tree, node, fhandleMap>>
  PROVE  Kept
<1> DEFINE c == thread[g]
           h == makeFHandle(p, tree[p])
           d == [c EXCEPT !.pc = "bind", !.path = p, !.obj = h]
<1>1. thread' = [thread EXCEPT ![g] = d] /\ c \in Calls
  BY CallAlone
<1> HIDE DEF h
<1>2. /\ d.op = c.op /\ d.fh = c.fh /\ d.fh2 = c.fh2 /\ d.dir = c.dir
      /\ d.dir2 = c.dir2 /\ d.held = c.held
      /\ d.pc = "bind" /\ d.path = p /\ d.obj = h
  BY <1>1 DEF Calls
<1> HIDE DEF d
<1>3. PICK e : e = d
  OBVIOUS
<1>4. /\ e.op = c.op /\ e.fh = c.fh /\ e.fh2 = c.fh2 /\ e.dir = c.dir
      /\ e.dir2 = c.dir2 /\ e.held = c.held /\ e.pc = "bind" /\ e.path = p
      /\ e.obj = makeFHandle(p, tree[p]) /\ thread' = [thread EXCEPT ![g] = e]
  BY <1>1, <1>2, <1>3 DEF h
<1>5. /\ OneCall /\ SInv /\ g \in Threads /\ c.op \notin TwoHandles
      /\ c.pc \in {"act", "new"} /\ name \in Names
      /\ p = Append(c.dir, name) /\ Alive(p)
      /\ UNCHANGED <<tree, node, fhandleMap>>
  OBVIOUS
<1>6. QED
  BY ONLY <1>4, <1>5, NamedAlone

\* LOOKUP answers the name it stated.
LEMMA LookupAlone ==
  ASSUME OneCall, SInv, NEW g \in Threads, Lookup(g)
  PROVE  Kept
<1>1. thread[g].op \notin TwoHandles
  BY DEF Serving, Lookup, TwoHandles
<1>2. CASE First(g, "act", "STALE")
  BY <1>1, <1>2, FirstAlone
<1>3. CASE Post(g)
  BY <1>1, <1>3, PostAlone
<1>4. CASE Bind(g, "reply")
  BY <1>1, <1>4, BindAlone
<1>5. CASE /\ At(g, "act") /\ UNCHANGED <<fhandleMap, server>>
           /\ \E st : Refuse(g, st)
  BY <1>5, RefuseAlone DEF At
<1>6. ASSUME At(g, "act"), UNCHANGED <<fhandleMap, server>>,
             NEW name \in Names, "OK" \in Outcomes(LstatErr(Child(g, name))),
             thread' = [thread EXCEPT ![g].pc = "bind",
               ![g].path = Child(g, name),
               ![g].obj = makeFHandle(Child(g, name), tree[Child(g, name)])],
             UNCHANGED <<tree, node>>
      PROVE  Kept
  <2>1. PICK p : p = Append(thread[g].dir, name)
    OBVIOUS
  <2>2. p = Child(g, name)
    BY <2>1 DEF Child
  <2>3. Alive(p)
    BY <1>6, <2>2, OutcomeOK DEF Alive
  <2>4. thread' = [thread EXCEPT ![g].pc = "bind", ![g].path = p,
                                 ![g].obj = makeFHandle(p, tree[p])]
    BY <1>6, <2>2
  <2>5. QED
    BY <1>1, <1>6, <2>1, <2>3, <2>4, FoundName DEF At
<1>7. QED
  BY <1>2, <1>3, <1>4, <1>5, <1>6 DEF Lookup

\* MKDIR and SYMLINK, and CREATE of a new file, where they make the object.
LEMMA NewAlone ==
  ASSUME OneCall, SInv, NEW g \in Threads, thread[g].op \notin TwoHandles,
         thread[g].pc = "act", NEW name \in Names, NEW i \in FreeInodes,
         NEW kind \in Kinds, WalkErr(Child(g, name)) = "OK",
         ~Exists(Child(g, name)), NewObject(Child(g, name), i, kind),
         NEW fd, NEW how, Made(g, Child(g, name), fd, how),
         UNCHANGED <<fhandleMap, server>>
  PROVE  Kept
<1>1. PICK p : p = Child(g, name)
  OBVIOUS
<1>2. p \in Seq(Names)
  BY <1>1, ChildPath DEF SInv
<1>3. i \in Inodes /\ node[i] = "FREE" /\ FsOK /\ TreeOK
  BY DEF FreeInodes, SInv, IInv
<1>4. TreeOK'
  BY <1>1, <1>2, <1>3, NewObjectTree
<1>5. QED
  BY <1>4, MadeAlone

\* A new name is made where the walk ends in a directory.
LEMMA NewErrOK ==
  ASSUME NEW p, NEW room, NewErr(p, room) = "OK"
  PROVE  WalkErr(p) = "OK" /\ ~Exists(p)
<1>1. WalkErr(p) = "OK"
  BY DEF NewErr
<1>2. ~Exists(p)
  BY <1>1 DEF NewErr
<1>3. QED
  BY <1>1, <1>2

\* MKDIR.
LEMMA MkdirAlone ==
  ASSUME OneCall, SInv, NEW g \in Threads, Mkdir(g)
  PROVE  Kept
<1>1. thread[g].op \notin TwoHandles
  BY DEF Serving, Mkdir, TwoHandles
<1>2. CASE FirstWritable(g)
  BY <1>1, <1>2, FirstWritableAlone
<1>3. CASE StatObject(g)
  BY <1>1, <1>3, StatObjectAlone
<1>4. CASE Bind(g, "post")
  BY <1>1, <1>4, BindAlone
<1>5. CASE Post(g)
  BY <1>1, <1>5, PostAlone
<1>6. CASE /\ At(g, "act") /\ UNCHANGED <<fhandleMap, server>>
           /\ \E st : Refuse(g, st)
  BY <1>6, RefuseAlone DEF At
<1>7. ASSUME At(g, "act"), UNCHANGED <<fhandleMap, server>>,
             NEW name \in Names,
             "OK" \in Outcomes(NewErr(Child(g, name), FreeInodes # {})),
             NEW i \in FreeInodes, NewObject(Child(g, name), i, "DIR"),
             Made(g, Child(g, name), NoInode, "none")
      PROVE  Kept
  <2>1. WalkErr(Child(g, name)) = "OK" /\ ~Exists(Child(g, name))
    BY <1>7, OutcomeOK, NewErrOK
  <2>2. thread[g].pc = "act" /\ "DIR" \in Kinds
    BY <1>7 DEF At, Kinds
  <2>3. QED
    BY <1>1, <1>7, <2>1, <2>2, NewAlone
<1>8. QED
  BY <1>2, <1>3, <1>4, <1>5, <1>6, <1>7 DEF Mkdir

\* SYMLINK.
LEMMA SymLinkAlone ==
  ASSUME OneCall, SInv, NEW g \in Threads, SymLink(g)
  PROVE  Kept
<1>1. thread[g].op \notin TwoHandles
  BY DEF Serving, SymLink, TwoHandles
<1>2. CASE FirstWritable(g)
  BY <1>1, <1>2, FirstWritableAlone
<1>3. CASE StatObject(g)
  BY <1>1, <1>3, StatObjectAlone
<1>4. CASE Bind(g, "post")
  BY <1>1, <1>4, BindAlone
<1>5. CASE Post(g)
  BY <1>1, <1>5, PostAlone
<1>6. CASE /\ At(g, "act") /\ UNCHANGED <<fhandleMap, server>>
           /\ \E st : Refuse(g, st)
  BY <1>6, RefuseAlone DEF At
<1>7. ASSUME At(g, "act"), UNCHANGED <<fhandleMap, server>>,
             NEW name \in Names,
             "OK" \in Outcomes(NewErr(Child(g, name), FreeInodes # {})),
             NEW i \in FreeInodes, NewObject(Child(g, name), i, "LNK"),
             Made(g, Child(g, name), NoInode, "none")
      PROVE  Kept
  <2>1. WalkErr(Child(g, name)) = "OK" /\ ~Exists(Child(g, name))
    BY <1>7, OutcomeOK, NewErrOK
  <2>2. thread[g].pc = "act" /\ "LNK" \in Kinds
    BY <1>7 DEF At, Kinds
  <2>3. QED
    BY <1>1, <1>7, <2>1, <2>2, NewAlone
<1>8. QED
  BY <1>2, <1>3, <1>4, <1>5, <1>6, <1>7 DEF SymLink

\* CREATE opens a file, or makes one where there is none.
LEMMA OpenErrFile ==
  ASSUME NEW how, NEW p, OpenErr(how, p) = "OK"
  PROVE  IF Exists(p) THEN ~IsDir(p) ELSE WalkErr(p) = "OK"
<1>1. CASE how = "UNCHECKED"
  <2>1. CreatErr(p, FreeInodes # {}) = "OK"
    BY <1>1 DEF OpenErr
  <2>2. CASE WalkErr(p) # "OK" \/ ~Exists(p)
    <3>1. NewErr(p, FreeInodes # {}) = "OK"
      BY <2>1, <2>2 DEF CreatErr
    <3>2. QED
      BY <3>1, NewErrOK
  <2>3. CASE WalkErr(p) = "OK" /\ Exists(p)
    BY <2>1, <2>3 DEF CreatErr
  <2>4. QED
    BY <2>2, <2>3
<1>2. CASE how # "UNCHECKED"
  BY <1>2, NewErrOK DEF OpenErr
<1>3. QED
  BY <1>1, <1>2

\* OpenFile of CREATE, on a new name or on one that is there.
LEMMA CreateFileAlone ==
  ASSUME OneCall, SInv, NEW g \in Threads, thread[g].op \notin TwoHandles,
         thread[g].pc = "act", NEW name \in Names,
         CreateFile(g, Child(g, name)), UNCHANGED <<fhandleMap, server>>
  PROVE  Kept
<1>1. PICK p : p = Child(g, name)
  OBVIOUS
<1>2. CreateFile(g, p) /\ FsOK /\ TreeOK
  BY <1>1 DEF SInv, IInv
<1>8. PICK how \in {"UNCHECKED", "GUARDED"} :
        \E e \in Outcomes(OpenErr(how, p)) :
          \/ e # "OK" /\ Refuse(g, getCreateErr(e))
          \/ /\ e = "OK" /\ Exists(p)
             /\ SetKind(tree[p], "EMPTY") /\ Made(g, p, tree[p], how)
          \/ /\ e = "OK" /\ ~Exists(p)
             /\ \E i \in FreeInodes :
                  NewObject(p, i, "EMPTY") /\ Made(g, p, i, how)
  BY <1>2 DEF CreateFile
<1>3. PICK e \in Outcomes(OpenErr(how, p)) :
          \/ e # "OK" /\ Refuse(g, getCreateErr(e))
          \/ /\ e = "OK" /\ Exists(p)
             /\ SetKind(tree[p], "EMPTY") /\ Made(g, p, tree[p], how)
          \/ /\ e = "OK" /\ ~Exists(p)
             /\ \E i \in FreeInodes :
                  NewObject(p, i, "EMPTY") /\ Made(g, p, i, how)
  BY <1>8
<1>4. CASE e # "OK"
  BY <1>3, <1>4, RefuseAlone
<1>5. CASE e = "OK" /\ Exists(p)
  <2>1. ~IsDir(p) /\ node[tree[p]] # "DIR"
    BY <1>5, OutcomeOK, OpenErrFile DEF IsDir, KindAt
  <2>2. SetKind(tree[p], "EMPTY") /\ Made(g, p, tree[p], how)
    BY <1>3, <1>5
  <2>3. TreeOK'
    BY <1>2, <2>1, <2>2, SetKindTree
  <2>4. PICK fd : fd = tree[p]
    OBVIOUS
  <2>5. Made(g, Child(g, name), fd, how)
    BY <1>1, <2>2, <2>4
  <2>6. QED
    BY <2>3, <2>5, MadeAlone
<1>6. CASE e = "OK" /\ ~Exists(p)
  <2>1. PICK i \in FreeInodes : NewObject(p, i, "EMPTY") /\ Made(g, p, i, how)
    BY <1>3, <1>6
  <2>2. WalkErr(p) = "OK" /\ "EMPTY" \in Kinds
    BY <1>6, OutcomeOK, OpenErrFile DEF Kinds
  <2>3. QED
    BY <1>1, <1>6, <2>1, <2>2, NewAlone
<1>7. QED
  BY <1>4, <1>5, <1>6

\* CREATE.
LEMMA CreateAlone ==
  ASSUME OneCall, SInv, NEW g \in Threads, Create(g)
  PROVE  Kept
<1>1. thread[g].op \notin TwoHandles
  BY DEF Serving, Create, TwoHandles
<1>2. CASE FirstWritable(g)
  BY <1>1, <1>2, FirstWritableAlone
<1>3. CASE StatObject(g)
  BY <1>1, <1>3, StatObjectAlone
<1>4. CASE Bind(g, "post")
  BY <1>1, <1>4, BindAlone
<1>5. CASE Post(g)
  BY <1>1, <1>5, PostAlone
<1>6. CASE /\ At(g, "act") /\ UNCHANGED <<fhandleMap, server>>
           /\ Refuse(g, "INVAL")
  BY <1>6, RefuseAlone DEF At
<1>7. CASE /\ At(g, "act") /\ UNCHANGED <<fhandleMap, server>>
           /\ \E name \in Names : CreateFile(g, Child(g, name))
  BY <1>1, <1>7, CreateFileAlone DEF At
<1>8. QED
  BY <1>2, <1>3, <1>4, <1>5, <1>6, <1>7 DEF Create
\* A file that could be opened for writing is no directory.
LEMMA OpenedFile ==
  ASSUME NEW p, WriteOpenErr(p) = "OK"
  PROVE  node[tree[p]] # "DIR"
  BY DEF WriteOpenErr, FollowErr, LstatErr, IsDir, KindAt

\* SETATTR; it changes the kind of an inode, never the tree.
LEMMA SetattrAlone ==
  ASSUME OneCall, SInv, NEW g \in Threads, Setattr(g)
  PROVE  Kept
<1> DEFINE p == thread[g].dir
<1>1. thread[g].op \notin TwoHandles /\ thread[g].op # "RENAME"
  BY DEF Serving, Setattr, TwoHandles
<1>2. CASE FirstWritable(g)
  BY <1>1, <1>2, FirstWritableAlone
<1>3. CASE Post(g)
  BY <1>1, <1>3, PostAlone
<1>4. CASE /\ thread[g].pc \in {"act", "chattr"} /\ OnlyThread
           /\ \E pc \in {"post", "chattr"} : \E st : Go(g, pc, st)
  BY <1>4, EarlyGo DEF OnlyThread
<1>5. ASSUME At(g, "act"), UNCHANGED <<fhandleMap, server>>,
             "OK" \in Outcomes(WriteOpenErr(p)),
             NEW kind, SetKind(tree[p], kind),
             thread' = [thread EXCEPT ![g].pc = "chattr",
                          ![g].how = "SIZE", ![g].did = TRUE]
      PROVE  Kept
  <2>1. node[tree[p]] # "DIR"
    BY <1>5, OutcomeOK, OpenedFile
  <2>2. TreeOK'
    BY <1>5, <2>1, SetKindTree DEF SInv, IInv
  <2>3. thread[g].pc \in {"act", "io"}
    BY <1>5 DEF At
  <2>4. QED
    BY <1>1, <1>5, <2>2, <2>3, DoneAlone
<1>6. QED
  BY <1>2, <1>3, <1>4, <1>5 DEF Setattr, At, Refuse, OnlyThread

\* WRITE opens the file ...
LEMMA WriteOpenAlone ==
  ASSUME OneCall, SInv, NEW g \in Threads, thread[g].op # "RENAME",
         thread[g].pc = "act", NEW fd,
         thread' = [thread EXCEPT ![g].pc = "io", ![g].fd = fd], OnlyThread
  PROVE  Kept
<1> DEFINE c == thread[g]
           d == [c EXCEPT !.pc = "io", !.fd = fd]
<1>1. c \in Calls /\ thread' = [thread EXCEPT ![g] = d]
  BY CallAlone
<1>2. SameCall(c, d) /\ d.pc = "io"
  BY <1>1 DEF Calls, SameCall
<1> HIDE DEF d
<1>3. PICK e : e = d
  OBVIOUS
<1>4. TreeOK' /\ fhandleMap' = fhandleMap
  BY DEF OnlyThread, SInv, TreeOK, IsDir, Exists, KindAt
<1>5. QED
  BY <1>1, <1>2, <1>3, <1>4, SoleFs

\* ... and writes into it.
LEMMA WriteAlone ==
  ASSUME OneCall, SInv, NEW g \in Threads, Write(g)
  PROVE  Kept
<1> DEFINE p == thread[g].dir
<1>1. thread[g].op \notin TwoHandles /\ thread[g].op # "RENAME"
  BY DEF Serving, Write, TwoHandles
<1>2. CASE FirstWritable(g)
  BY <1>1, <1>2, FirstWritableAlone
<1>3. CASE First(g, "post", "INVAL")
  BY <1>1, <1>3, FirstAlone
<1>4. CASE Post(g)
  BY <1>1, <1>4, PostAlone
<1>5. CASE /\ thread[g].pc \in {"act", "io"} /\ OnlyThread
           /\ \E st : Go(g, "post", st)
  BY <1>5, EarlyGo DEF OnlyThread
<1>6. CASE /\ At(g, "act") /\ OnlyThread
           /\ thread' = [thread EXCEPT ![g].pc = "io", ![g].fd = tree[p]]
  <2>1. PICK fd : fd = tree[p]
    OBVIOUS
  <2>2. thread' = [thread EXCEPT ![g].pc = "io", ![g].fd = fd]
    BY <1>6, <2>1
  <2>3. QED
    BY <1>1, <1>6, <2>2, WriteOpenAlone DEF At
<1>7. CASE /\ At(g, "io") /\ UNCHANGED <<fhandleMap, server>>
           /\ \E kind : /\ node[thread[g].fd] = "DIR" => kind = "DIR"
                        /\ SetKind(thread[g].fd, kind)
           /\ thread' = [thread EXCEPT ![g].pc = "post",
                           ![g].st = "OK", ![g].did = TRUE]
  <2>1. TreeOK'
    BY <1>7, SetKindTree DEF SInv, IInv
  <2>2. thread[g].pc \in {"act", "io"}
    BY <1>7 DEF At
  <2>3. QED
    BY <1>1, <1>7, <2>1, <2>2, DoneAlone
<1>8. QED
  <2>1. CASE At(g, "io")
    <3> DEFINE kind == IF node[thread[g].fd] \in Regular
                       THEN "DATA" ELSE node[thread[g].fd]
    <3>1. node[thread[g].fd] = "DIR" => kind = "DIR"
      BY DEF Regular
    <3>2. \/ /\ \E e : Refuse(g, getWriteErr(e))
             /\ UNCHANGED <<fhandleMap, server>>
          \/ /\ SetKind(thread[g].fd, kind)
             /\ thread' = [thread EXCEPT ![g].pc = "post",
                             ![g].st = "OK", ![g].did = TRUE]
             /\ UNCHANGED <<fhandleMap, server>>
      BY <2>1 DEF Write, At, FirstWritable, First, OnStat, deleteHandle, Post
    <3> HIDE DEF kind
    <3>3. QED
      BY <2>1, <3>1, <3>2, <1>5, <1>7 DEF Refuse, OnlyThread, At
  <2>2. CASE ~At(g, "io")
    BY <2>2, <1>2, <1>3, <1>4, <1>5, <1>6 DEF Write, At
  <2>3. QED
    BY <2>1, <2>2

\* REMOVE.
LEMMA RemoveAlone ==
  ASSUME OneCall, SInv, NEW g \in Threads, RemoveFile(g)
  PROVE  Kept
<1>1. thread[g].op \notin TwoHandles /\ thread[g].op # "RENAME"
  BY DEF Serving, RemoveFile, TwoHandles
<1>2. CASE FirstWritable(g)
  BY <1>1, <1>2, FirstWritableAlone
<1>3. CASE Post(g)
  BY <1>1, <1>3, PostAlone
<1>4. CASE /\ At(g, "act") /\ UNCHANGED <<fhandleMap, server>>
           /\ \E st : Refuse(g, st)
  BY <1>4, RefuseAlone DEF At
<1>5. ASSUME At(g, "act"), UNCHANGED <<fhandleMap, server>>,
             NEW name \in Names,
             "OK" \in Outcomes(UnlinkErr(Child(g, name))),
             DropName(Child(g, name)),
             thread' = [thread EXCEPT ![g].pc = "post",
                          ![g].st = "OK", ![g].did = TRUE]
      PROVE  Kept
  <2>1. UnlinkErr(Child(g, name)) = "OK"
    BY <1>5, OutcomeOK
  <2>2. ~IsDir(Child(g, name))
    BY <2>1 DEF UnlinkErr
  <2>3. PICK p : p = Child(g, name)
    OBVIOUS
  <2>4. TreeOK'
    BY <1>5, <2>2, <2>3, DropNameTree DEF SInv, IInv
  <2>5. thread[g].pc \in {"act", "io"}
    BY <1>5 DEF At
  <2>6. QED
    BY <1>1, <1>5, <2>4, <2>5, DoneAlone
<1>6. QED
  BY <1>2, <1>3, <1>4, <1>5 DEF RemoveFile

\* One of the names RMDIR may be given.
LEMMA RmdirAtAlone ==
  ASSUME OneCall, SInv, NEW g \in Threads, thread[g].op # "RENAME",
         thread[g].pc = "act", NEW p, NEW err, err = "OK" => RmdirErr(p) = "OK",
         RmdirAt(g, p, err), UNCHANGED <<fhandleMap, server>>
  PROVE  Kept
<1>1. CASE \E e : Refuse(g, getRmdirErr(e))
  BY <1>1, RefuseAlone
<1>2. CASE /\ "OK" \in Outcomes(err)
           /\ DropName(p)
           /\ thread' = [thread EXCEPT ![g].pc = "post", ![g].path = p,
                           ![g].st = "OK", ![g].did = TRUE]
  <2>1. Children(p) = {}
    <3>1. RmdirErr(p) = "OK"
      BY <1>2, OutcomeOK
    <3>2. LstatErr(p) = "OK" /\ IsDir(p)
      BY <3>1 DEF RmdirErr
    <3>3. QED
      BY <3>1, <3>2 DEF RmdirErr
  <2>2. TreeOK'
    BY <1>2, <2>1, DropNameTree DEF SInv, IInv
  <2>3. QED
    BY <1>2, <2>2, DoneAlone
<1>3. QED
  BY <1>1, <1>2 DEF RmdirAt

\* RMDIR.
LEMMA RmdirAlone ==
  ASSUME OneCall, SInv, NEW g \in Threads, Rmdir(g)
  PROVE  Kept
<1>1. thread[g].op \notin TwoHandles /\ thread[g].op # "RENAME"
  BY DEF Serving, Rmdir, TwoHandles
<1>2. CASE FirstWritable(g)
  BY <1>1, <1>2, FirstWritableAlone
<1>3. CASE Post(g)
  BY <1>1, <1>3, PostAlone
<1>4. ASSUME At(g, "act"), UNCHANGED <<fhandleMap, server>>,
             NEW q, RmdirAt(g, q, RmdirErr(q))
      PROVE  Kept
  BY <1>1, <1>4, RmdirAtAlone DEF At
<1>5. CASE /\ At(g, "act") /\ UNCHANGED <<fhandleMap, server>>
           /\ RmdirAt(g, thread[g].dir,
                IF RmdirErr(thread[g].dir) \in {"OK", "ENOTEMPTY"} THEN "EINVAL"
                ELSE RmdirErr(thread[g].dir))
  <2> DEFINE err == IF RmdirErr(thread[g].dir) \in {"OK", "ENOTEMPTY"}
                    THEN "EINVAL" ELSE RmdirErr(thread[g].dir)
  <2>1. PICK q, e : q = thread[g].dir /\ e = err
    OBVIOUS
  <2>2. e # "OK" /\ RmdirAt(g, q, e)
    BY <1>5, <2>1
  <2>3. QED
    BY <1>1, <1>5, <2>2, RmdirAtAlone DEF At
<1>6. QED
  <2>1. CASE \E q : /\ At(g, "act") /\ UNCHANGED <<fhandleMap, server>>
                    /\ RmdirAt(g, q, RmdirErr(q))
    BY <2>1, <1>4
  <2>2. QED
    BY <2>1, <1>2, <1>3, <1>5 DEF Rmdir
-----------------------------------------------------------------------------
(* The handlers of two handles. *)

\* The second handle means the path read for it with it.
LEMMA SecondAlone ==
  ASSUME OneCall, SInv, NEW g \in Threads, thread[g].op \in TwoHandles,
         NEW at \in {"alt", "get2"}, NEW found \in {"statAlt", "stat2"},
         NEW lost \in {"reply", "statAgain"}, Second(g, at, found, lost)
  PROVE  Kept
<1> DEFINE c == thread[g]
<1>1. c.pc = at /\ UNCHANGED <<tree, node, fhandleMap>>
  BY DEF Second, At, OnlyThread
<1>2. /\ AloneOK(c) /\ c \in Calls /\ c.held = NoHandle
      /\ c.op = "RENAME" \/ c.obj = NoHandle
  BY <1>1, CallAlone, NothingYet DEF Binding, Sillying
<1>3. CASE Go(g, lost, c.st)
  <2>1. Fits(c, lost)
    BY <1>2 DEF Fits, Binding, Sillying
  <2>2. QED
    BY <1>1, <1>3, <2>1, GoAlone
<1>4. ASSUME NEW h \in DOMAIN fhandleMap,
             thread' = [thread EXCEPT ![g].pc = found, ![g].fh2 = h,
                                      ![g].dir2 = fhandleMap[h]]
      PROVE  Kept
  <2> DEFINE p == fhandleMap[h]
             d == [c EXCEPT !.pc = found, !.fh2 = h, !.dir2 = p]
  <2>1. thread' = [thread EXCEPT ![g] = d]
    BY <1>4
  <2> HIDE DEF p
  <2>2. /\ d.op = c.op /\ d.fh = c.fh /\ d.dir = c.dir /\ d.obj = c.obj
        /\ d.held = c.held /\ d.pc = found /\ d.fh2 = h /\ d.dir2 = p
    BY <1>2 DEF Calls
  <2> HIDE DEF d
  <2>3. HandlesOK(d)
    BY <1>2, <2>2 DEF AloneOK, HandlesOK, Binding, p
  <2>4. DropOK(d)
    BY <2>2 DEF DropOK
  <2>5. ObjectOK(d)
    BY <1>2, <2>2 DEF AloneOK, ObjectOK, Binding
  <2>6. SillyOK(d)
    BY <1>2, <2>2 DEF SillyOK, Sillying
  <2>7. QED
    BY <1>1, <2>1, <2>3, <2>4, <2>5, <2>6, SoleQuiet DEF AloneOK
<1>5. QED
  BY <1>3, <1>4 DEF Second

\* The stats of both objects, and what is dropped after them.
LEMMA BothAlone ==
  ASSUME OneCall, SInv, NEW g \in Threads, thread[g].op \in TwoHandles, Both(g)
  PROVE  Kept
<1> DEFINE c == thread[g]
<1>1. AloneOK(c) /\ (c.op = "LINK" => c.obj = NoHandle)
  BY CallAlone DEF AloneOK, ObjectOK
<1>2. /\ c.op = "RENAME" \/ c.obj = NoHandle
      /\ c.pc \in {"drop2", "reply"} \/ c.held = NoHandle
         \/ c.pc \in Sillying \cup {"post", "dropFrom", "post2"}
  BY <1>1, NothingYet DEF TwoHandles
<1>3. CASE \/ OnStat(g, "stat", c.dir, "get2", "STALE", "dropFirst")
           \/ OnStat(g, "statAgain", c.dir, "reply", "STALE", "drop")
  <2>1. c.held = NoHandle
    BY <1>2, <1>3 DEF OnStat, At, Sillying
  <2>2. /\ Fits(c, "get2") /\ Fits(c, "reply")
        /\ ~Alive(c.dir) => Fits(c, "dropFirst") /\ Fits(c, "drop")
    BY <1>2, <2>1 DEF Fits, Binding, Sillying
  <2>3. QED
    BY <1>3, <2>2, OnStatAlone
<1>4. CASE \/ OnStat(g, "statAlt", c.dir2, "reply", "STALE", "drop2")
           \/ OnStat(g, "stat2", c.dir2, "act", "STALE", "dropSecond")
           \/ OnStat(g, "stat2", c.dir2, "reply", "ROFS", "dropSecond")
  <2>1. c.held = NoHandle
    BY <1>2, <1>4 DEF OnStat, At, Sillying
  <2>2. /\ Fits(c, "reply") /\ Fits(c, "act")
        /\ ~Alive(c.dir2) => Fits(c, "dropSecond") /\ Fits(c, "drop2")
    BY <1>2, <2>1 DEF Fits, Binding, Sillying
  <2>3. QED
    BY <1>4, <2>2, OnStatAlone
<1>5. CASE \/ Second(g, "alt", "statAlt", "reply")
           \/ Second(g, "get2", "stat2", "statAgain")
  BY <1>5, SecondAlone
<1>6. CASE \/ deleteHandle(g, "dropFirst", c.fh, "alt")
           \/ deleteHandle(g, "drop", c.fh, "reply")
  <2>1. c.pc \in {"dropFirst", "drop"}
    BY <1>6 DEF deleteHandle, At
  <2>2. Known(c.fh) => ~Alive(fhandleMap[c.fh])
    BY <1>1, <2>1 DEF AloneOK, HandlesOK, DropOK
  <2>3. Fits(c, "alt") /\ Fits(c, "reply")
    BY <1>2, <2>1 DEF Fits, Binding, Sillying
  <2>4. QED
    BY <1>6, <2>2, <2>3, DeleteAlone
<1>7. CASE \/ deleteHandle(g, "dropSecond", c.fh2, "statAgain")
           \/ deleteHandle(g, "drop2", c.fh2, "reply")
  <2>1. c.pc \in {"dropSecond", "drop2"}
    BY <1>7 DEF deleteHandle, At
  <2>2. Known(c.fh2) => ~Alive(fhandleMap[c.fh2])
    BY <1>1, <2>1 DEF AloneOK, HandlesOK, DropOK
  <2>3. /\ c.pc = "dropSecond" => Fits(c, "statAgain")
        /\ c.pc = "drop2" => Fits(c, "reply")
    BY <1>2, <2>1 DEF Fits, Binding, Sillying
  <2>4. QED
    BY <1>7, <2>2, <2>3, DeleteAlone DEF deleteHandle, At
<1>8. QED
  BY <1>3, <1>4, <1>5, <1>6, <1>7 DEF Both

\* The call that renamed from to to, of whatever handle it notes.
LEMMA RenamedFields ==
  ASSUME NEW c \in Calls, NEW pc, NEW from, NEW to, NEW h
  PROVE  LET d == [c EXCEPT !.pc = pc, !.st = "OK", !.src = from, !.path = to,
                            !.did = TRUE, !.held = h]
         IN  /\ d.pc = pc /\ d.src = from /\ d.path = to /\ d.held = h
             /\ d.op = c.op /\ d.fh = c.fh /\ d.fh2 = c.fh2 /\ d.dir = c.dir
             /\ d.dir2 = c.dir2 /\ d.obj = c.obj
  BY DEF Calls

\* os.Rename.  The old name is not the directory the new one is made in: a
\* directory is not renamed into itself.
LEMMA RenameToAlone ==
  ASSUME OneCall, SInv, NEW g \in Threads, thread[g].op = "RENAME",
         thread[g].pc = "act", NEW fromName \in Names, NEW toName \in Names,
         NEW from, from = Append(thread[g].dir, fromName),
         NEW to, to = Append(thread[g].dir2, toName),
         NEW silly \in BOOLEAN, RenameTo(g, from, to, silly),
         UNCHANGED <<fhandleMap, server>>
  PROVE  Kept
<1> DEFINE c == thread[g]
           h == makeFHandle(from, tree[from])
           k == IF silly /\ h \in DOMAIN fhandleMap /\ fhandleMap[h] = from
                THEN h ELSE NoHandle
           pc == IF silly THEN "silly" ELSE "post"
           d == [c EXCEPT !.pc = pc, !.st = "OK", !.src = from, !.path = to,
                          !.did = TRUE, !.held = k]
<1>1. /\ AloneOK(c) /\ c \in Calls
      /\ c.dir \in Seq(Names) /\ c.dir2 \in Seq(Names)
  BY CallAlone
<1>2. CASE \E e : Refuse(g, getRenameErr(e))
  BY <1>2, RefuseAlone
<1>3. CASE /\ "OK" \in Outcomes(RenameErr(from, to)) /\ Move(from, to)
           /\ thread' = [thread EXCEPT
                ![g].pc = pc, ![g].st = "OK", ![g].src = from, ![g].path = to,
                ![g].did = TRUE, ![g].held = k]
  <2>1. /\ from \in Seq(Names) /\ to \in Seq(Names)
        /\ from # c.dir /\ c.dir2 \in Ancestors(to) /\ to # c.dir2
    BY <1>1, ChildAncestors
  <2>2. RenameErr(from, to) = "OK" /\ Move(from, to)
    BY <1>3, OutcomeOK
  <2>3. from # c.dir2
    <3> SUFFICES ASSUME from = c.dir2 PROVE FALSE
      OBVIOUS
    <3>1. ~IsPrefix(from, c.dir2)
      BY <2>1, <2>2, AboveStays DEF SInv, IInv
    <3>2. IsPrefix(c.dir2, c.dir2)
      BY <1>1, PrefixIs
    <3>3. QED
      BY <3>1, <3>2
  <2>4. TreeOK' /\ Alive(to)' /\ tree'[to] = tree[from]
    BY <2>1, <2>2, MoveTree DEF SInv, IInv
  <2>5. k # NoHandle => silly /\ k = h /\ Bound(k, from)
    BY DEF Bound, Known
  <2>6. pc \in {"silly", "post"} /\ (silly => pc = "silly")
    OBVIOUS
  <2>7. thread' = [thread EXCEPT ![g] = d]
    BY <1>3
  <2> HIDE DEF pc, k
  <2>8. /\ d.pc = pc /\ d.src = from /\ d.path = to /\ d.held = k
        /\ d.op = c.op /\ d.fh = c.fh /\ d.fh2 = c.fh2 /\ d.dir = c.dir
        /\ d.dir2 = c.dir2 /\ d.obj = c.obj
    BY <1>1, RenamedFields
  <2> HIDE DEF d, h
  <2>9. PICK e, i : e = d /\ i = tree[from]
    OBVIOUS
  <2>10. HandlesOK(e)'
    BY <1>1, <2>6, <2>8, <2>9
       DEF AloneOK, HandlesOK, Known, Binding, TwoHandles
  <2>11. DropOK(e)'
    BY <2>6, <2>8, <2>9 DEF DropOK
  <2>12. ObjectOK(e)'
    BY <2>6, <2>8, <2>9 DEF ObjectOK, Binding
  <2>13. SillyOK(e)'
    <3>1. /\ e.src = from /\ e.path = to /\ e.dir = c.dir /\ e.dir2 = c.dir2
          /\ e.op = "RENAME" /\ e.pc \in {"silly", "post"}
      BY <2>6, <2>8, <2>9
    <3>2. e.src # e.dir /\ e.src # e.dir2
      BY <2>1, <2>3, <3>1
    <3>3. ASSUME e.held # NoHandle
          PROVE  /\ e.pc = "silly" /\ e.held = makeFHandle(e.src, tree'[e.path])
                 /\ Bound(e.held, e.src)'
      <4>1. silly /\ e.held = h /\ Bound(e.held, from)
        BY <2>5, <2>8, <2>9, <3>3
      <4>2. e.pc = "silly"
        BY <2>6, <2>8, <2>9, <4>1
      <4>3. e.held = makeFHandle(e.src, tree'[e.path])
        BY <2>4, <3>1, <4>1 DEF h
      <4>4. Bound(e.held, e.src)'
        BY <3>1, <4>1 DEF Bound, Known
      <4>5. QED
        BY <4>2, <4>3, <4>4
    <3>4. Alive(e.path)'
      BY <2>4, <3>1
    <3>5. QED
      BY <3>1, <3>2, <3>3, <3>4 DEF SillyOK, Sillying
  <2>14. Drops /\ Rebinds
    BY DEF Drops, Rebinds
  <2>15. thread' = [thread EXCEPT ![g] = e]
    BY <2>7, <2>9
  <2>16. QED
    BY <2>4, <2>10, <2>11, <2>12, <2>13, <2>14, <2>15, SoleStep
       DEF SInv, AloneOK
<1>4. QED
  BY <1>2, <1>3 DEF RenameTo

\* After a silly rename: the stat ...
LEMMA SillyStatAlone ==
  ASSUME OneCall, SInv, NEW g \in Threads, thread[g].op = "RENAME",
         At(g, "silly"), SillyRename(g)
  PROVE  Kept
<1> DEFINE c == thread[g]
           h == makeFHandle(c.src, tree[c.path])
           d == [c EXCEPT !.pc = "sillyGet", !.obj = h]
<1>1. /\ UNCHANGED <<tree, node, fhandleMap>>
      /\ IF LstatErr(c.path) = "OK"
         THEN thread' = [thread EXCEPT ![g].pc = "sillyGet", ![g].obj = h]
         ELSE Go(g, "post", "OK")
  BY SoleOutcome DEF SillyRename, At, setValueforHandle, OnlyThread
<1>2. AloneOK(c) /\ c \in Calls /\ c.pc = "silly"
  BY CallAlone DEF At
<1>3. CASE Alive(c.path)
  <2>1. thread' = [thread EXCEPT ![g] = d]
    BY <1>1, <1>3 DEF Alive
  <2>2. c.held # NoHandle => c.held = h /\ Bound(h, c.src)
    BY <1>2 DEF AloneOK, SillyOK, Sillying
  <2> HIDE DEF h
  <2>3. /\ d.op = c.op /\ d.fh = c.fh /\ d.fh2 = c.fh2 /\ d.dir = c.dir
        /\ d.dir2 = c.dir2 /\ d.held = c.held /\ d.src = c.src
        /\ d.path = c.path /\ d.pc = "sillyGet" /\ d.obj = h
    BY <1>2 DEF Calls
  <2> HIDE DEF d
  <2>4. HandlesOK(d)
    BY <1>2, <2>3 DEF AloneOK, HandlesOK, Binding, TwoHandles
  <2>5. DropOK(d)
    BY <2>3 DEF DropOK
  <2>6. ObjectOK(d)
    BY <2>3 DEF ObjectOK, Binding
  <2>7. SillyOK(d)
    BY <1>2, <2>2, <2>3 DEF AloneOK, SillyOK, Sillying
  <2>8. QED
    BY <1>1, <2>1, <2>4, <2>5, <2>6, <2>7, SoleQuiet DEF AloneOK
<1>4. CASE ~Alive(c.path)
  <2>1. Go(g, "post", "OK")
    BY <1>1, <1>4 DEF Alive
  <2>2. c.held = NoHandle
    BY <1>2, <1>4 DEF AloneOK, SillyOK
  <2>3. Fits(c, "post")
    BY <2>2 DEF Fits, Binding, Sillying
  <2>4. QED
    BY <1>1, <2>1, <2>3, GoAlone
<1>5. QED
  BY <1>3, <1>4

\* ... the look in the table ...
LEMMA SillyGetAlone ==
  ASSUME OneCall, SInv, NEW g \in Threads, thread[g].op = "RENAME",
         At(g, "sillyGet"), SillyRename(g)
  PROVE  Kept
<1> DEFINE c == thread[g]
<1>1. /\ UNCHANGED <<tree, node, fhandleMap>>
      /\ \/ ~Known(c.obj) /\ Go(g, "post", "OK")
         \/ Bound(c.obj, c.src) /\ Go(g, "sillySet", "OK")
         \/ /\ Known(c.obj) /\ fhandleMap[c.obj] # c.src
            /\ thread' = [thread EXCEPT ![g].found = fhandleMap[c.obj]]
  BY DEF SillyRename, At, setValueforHandle, Known, Bound
<1>2. AloneOK(c) /\ c \in Calls /\ c.pc = "sillyGet"
  BY CallAlone DEF At
<1>3. c.held # NoHandle => c.obj = c.held /\ Bound(c.obj, c.src)
  BY <1>2 DEF AloneOK, SillyOK, Sillying
<1>4. CASE ~Known(c.obj) /\ Go(g, "post", "OK")
  <2>1. c.held = NoHandle
    BY <1>3, <1>4 DEF Bound
  <2>2. Fits(c, "post")
    BY <2>1 DEF Fits, Binding, Sillying
  <2>3. QED
    BY <1>1, <1>4, <2>2, GoAlone
<1>5. CASE Bound(c.obj, c.src) /\ Go(g, "sillySet", "OK")
  <2>1. PICK d : /\ thread' = [thread EXCEPT ![g] = d] /\ SameCall(c, d)
                 /\ d.pc = "sillySet" /\ d.src = c.src /\ d.path = c.path
    BY <1>5, GoFields DEF SInv
  <2>2. HandlesOK(d)
    BY <1>2, <2>1 DEF AloneOK, HandlesOK, SameCall, Binding, TwoHandles
  <2>3. DropOK(d)
    BY <2>1 DEF DropOK
  <2>4. ObjectOK(d)
    BY <2>1 DEF ObjectOK, SameCall, Binding
  <2>5. SillyOK(d)
    BY <1>2, <1>5, <2>1 DEF AloneOK, SillyOK, SameCall, Sillying
  <2>6. QED
    BY <1>1, <2>1, <2>2, <2>3, <2>4, <2>5, SoleQuiet DEF AloneOK
<1>6. CASE thread' = [thread EXCEPT ![g].found = fhandleMap[c.obj]]
  <2> DEFINE f == fhandleMap[c.obj]
             d == [c EXCEPT !.found = f]
  <2>1. thread' = [thread EXCEPT ![g] = d]
    BY <1>6
  <2> HIDE DEF f
  <2>2. SameCall(c, d) /\ d.pc = c.pc /\ d.src = c.src /\ d.path = c.path
    BY <1>2 DEF Calls, SameCall
  <2> HIDE DEF d
  <2>3. HandlesOK(d)
    BY <1>2, <2>2 DEF AloneOK, HandlesOK, SameCall, Binding
  <2>4. DropOK(d)
    BY <1>2, <2>2 DEF DropOK
  <2>5. ObjectOK(d)
    BY <1>2, <2>2 DEF ObjectOK, SameCall, Binding
  <2>6. SillyOK(d)
    BY <1>2, <2>2 DEF AloneOK, SillyOK, SameCall, Sillying
  <2>7. QED
    BY <1>1, <2>1, <2>3, <2>4, <2>5, <2>6, SoleQuiet DEF AloneOK
<1>7. QED
  BY <1>1, <1>4, <1>5, <1>6

\* ... and the handle follows the file.
LEMMA SillySetAlone ==
  ASSUME OneCall, SInv, NEW g \in Threads, thread[g].op = "RENAME",
         setValueforHandle(g, "sillySet", thread[g].obj, thread[g].path, "post")
  PROVE  Kept
<1> DEFINE c == thread[g]
<1>1. PICK h, p : h = c.obj /\ p = c.path
  OBVIOUS
<1>2. setValueforHandle(g, "sillySet", h, p, "post")
  BY <1>1
<1>3. /\ c.pc = "sillySet" /\ TreeOK' /\ (\A q : Alive(q)' <=> Alive(q))
      /\ tree' = tree /\ Bound(h, p)'
      /\ (\A x : Known(x)' <=> Known(x) \/ x = h)
      /\ (\A x : Known(x) /\ x # h => fhandleMap'[x] = fhandleMap[x]) /\ Drops
  BY <1>2, SetFacts
<1>4. PICK d : /\ thread' = [thread EXCEPT ![g] = d]
               /\ SameCall(c, d) /\ d.pc = "post"
               /\ d.src = c.src /\ d.path = c.path
  BY <1>2, SetFacts
<1>5. AloneOK(c) /\ IsSilly(p)
  BY <1>1, <1>3, CallAlone DEF CallOK
<1>6. Bound(h, c.src) /\ c.src # c.dir /\ c.src # c.dir2
  BY <1>1, <1>3, <1>5 DEF AloneOK, SillyOK, Sillying
<1>7. /\ Known(c.fh) => fhandleMap[c.fh] = c.dir /\ c.fh # h
      /\ Known(c.fh2) => fhandleMap[c.fh2] = c.dir2 /\ c.fh2 # h
      /\ Known(h)
  BY <1>5, <1>6 DEF AloneOK, HandlesOK, Bound
<1>8. HandlesOK(d)'
  BY <1>3, <1>4, <1>7 DEF HandlesOK, SameCall, Binding, TwoHandles
<1>9. DropOK(d)'
  BY <1>4 DEF DropOK
<1>10. ObjectOK(d)'
  BY <1>4 DEF ObjectOK, SameCall, Binding
<1>11. SillyOK(d)'
  <2>1. ASSUME c.held # NoHandle
        PROVE  c.held = h /\ Alive(p) /\ h = makeFHandle(c.src, tree[p])
    BY <1>1, <1>3, <1>5, <2>1 DEF AloneOK, SillyOK
  <2>2. d.op = "RENAME" /\ d.held = c.held /\ d.src = c.src /\ d.path = p
    BY <1>1, <1>4 DEF SameCall
  <2>3. QED
    BY <1>3, <1>4, <2>1, <2>2 DEF SillyOK, Sillying
<1>12. Rebinds
  BY <1>3, <1>5, RebindsOne
<1>13. QED
  BY <1>3, <1>4, <1>8, <1>9, <1>10, <1>11, <1>12, SoleStep DEF SInv, AloneOK

\* RENAME.
LEMMA RenameAlone ==
  ASSUME OneCall, SInv, NEW g \in Threads, Rename(g)
  PROVE  Kept
<1> DEFINE c == thread[g]
<1>1. c.op = "RENAME" /\ c.op \in TwoHandles
  BY DEF Serving, Rename, TwoHandles
<1>2. CASE Both(g)
  BY <1>1, <1>2, BothAlone
<1>3. CASE SillyRename(g)
  BY <1>1, <1>3, SillyStatAlone, SillyGetAlone, SillySetAlone DEF SillyRename
<1>4. CASE /\ At(g, "act") /\ Refuse(g, "INVAL")
           /\ UNCHANGED <<fhandleMap, server>>
  BY <1>4, RefuseAlone DEF At
<1>5. ASSUME At(g, "act"), UNCHANGED <<fhandleMap, server>>,
             NEW fromName \in Names, NEW toName \in Names,
             RenameTo(g, Append(c.dir, fromName), Append(c.dir2, toName),
                      HasSillyPrefix(toName))
      PROVE  Kept
  <2>1. PICK from, to : /\ from = Append(c.dir, fromName)
                        /\ to = Append(c.dir2, toName)
    OBVIOUS
  <2> DEFINE named == HasSillyPrefix(toName)
  <2>6. named \in BOOLEAN
    BY DEF HasSillyPrefix
  <2> HIDE DEF named
  <2>2. PICK silly \in BOOLEAN : silly = named
    BY <2>6
  <2>3. RenameTo(g, from, to, silly)
    BY <1>5, <2>1, <2>2 DEF named
  <2>4. c.pc = "act"
    BY <1>5 DEF At
  <2>5. QED
    BY <1>1, <1>5, <2>1, <2>3, <2>4, RenameToAlone
<1>6. CASE OnStat(g, "post", c.dir, "post2", c.st, "dropFrom")
  <2>1. c.pc = "post"
    BY <1>6 DEF OnStat, At
  <2>2. Fits(c, "post2") /\ (~Alive(c.dir) => Fits(c, "dropFrom"))
    BY <1>1, <2>1 DEF Fits, Binding, Sillying
  <2>3. QED
    BY <1>6, <2>2, OnStatAlone
<1>7. CASE OnStat(g, "post2", c.dir2, "reply", c.st, "drop2")
  <2>1. c.pc = "post2"
    BY <1>7 DEF OnStat, At
  <2>2. Fits(c, "reply") /\ (~Alive(c.dir2) => Fits(c, "drop2"))
    BY <1>1, <2>1 DEF Fits, Binding, Sillying
  <2>3. QED
    BY <1>7, <2>2, OnStatAlone
<1>8. CASE deleteHandle(g, "dropFrom", c.fh, "post2")
  <2>1. c.pc = "dropFrom"
    BY <1>8 DEF deleteHandle, At
  <2>2. Known(c.fh) => ~Alive(fhandleMap[c.fh])
    BY <2>1, CallAlone DEF AloneOK, HandlesOK, DropOK
  <2>3. Fits(c, "post2")
    BY <1>1, <2>1 DEF Fits, Binding, Sillying
  <2>4. QED
    BY <1>8, <2>2, <2>3, DeleteAlone
<1>9. QED
  BY <1>2, <1>3, <1>4, <1>5, <1>6, <1>7, <1>8 DEF Rename

\* LINK.
LEMMA LinkAlone ==
  ASSUME OneCall, SInv, NEW g \in Threads, Link(g)
  PROVE  Kept
<1> DEFINE c == thread[g]
<1>1. c.op \in TwoHandles /\ c.op # "RENAME" /\ c.op = "LINK"
  BY DEF Serving, Link, TwoHandles
<1>2. /\ c.obj = NoHandle /\ c.held = NoHandle
      /\ c.dir \in Seq(Names) /\ c.dir2 \in Seq(Names)
  BY <1>1, CallAlone, NothingYet DEF AloneOK, ObjectOK
<1>3. CASE Both(g)
  BY <1>1, <1>3, BothAlone
<1>4. CASE /\ At(g, "act") /\ UNCHANGED <<fhandleMap, server>>
           /\ \E st : Refuse(g, st)
  BY <1>4, RefuseAlone DEF At
<1>5. ASSUME At(g, "act"), UNCHANGED <<fhandleMap, server>>,
             NEW newName \in Names,
             "OK" \in Outcomes(LinkErr(c.dir2, Child(g, newName))),
             NewName(c.dir2, Child(g, newName)),
             thread' = [thread EXCEPT ![g].pc = "post",
               ![g].path = Child(g, newName), ![g].st = "OK", ![g].did = TRUE]
      PROVE  Kept
  <2>1. PICK p, q : p = Child(g, newName) /\ q = c.dir2
    OBVIOUS
  <2>2. p \in Seq(Names)
    BY <2>1, ChildPath DEF SInv
  <2>3. LinkErr(q, p) = "OK"
    BY <1>5, <2>1, OutcomeOK
  <2>4. LstatErr(q) = "OK" /\ WalkErr(p) = "OK"
    BY <2>3 DEF LinkErr
  <2>5. ~Exists(p)
    BY <2>3, <2>4 DEF LinkErr
  <2>6. q \in DOMAIN tree
    BY <1>2, <2>1, <2>4, LstatOK
  <2>7. TreeOK'
    BY <1>5, <2>1, <2>2, <2>4, <2>5, <2>6, NewNameTree DEF SInv, IInv
  <2>8. thread' = [thread EXCEPT ![g].pc = "post", ![g].path = p,
                                 ![g].st = "OK", ![g].did = TRUE]
    BY <1>5, <2>1
  <2>9. thread[g].pc \in {"act", "io"}
    BY <1>5 DEF At
  <2>10. QED
    BY <1>1, <1>5, <2>7, <2>8, <2>9, DoneAlone
<1>6. CASE OnStat(g, "post", c.dir, "post2", c.st, "drop")
  <2>1. Fits(c, "post2") /\ (~Alive(c.dir) => Fits(c, "drop"))
    BY <1>1, <1>2 DEF Fits, Binding, Sillying
  <2>2. QED
    BY <1>6, <2>1, OnStatAlone
<1>7. CASE OnStat(g, "post2", c.dir2, "reply", c.st, "drop2")
  <2>1. Fits(c, "reply") /\ (~Alive(c.dir2) => Fits(c, "drop2"))
    BY <1>1, <1>2 DEF Fits, Binding, Sillying
  <2>2. QED
    BY <1>7, <2>1, OnStatAlone
<1>8. QED
  BY <1>3, <1>4, <1>5, <1>6, <1>7 DEF Link
-----------------------------------------------------------------------------
-----------------------------------------------------------------------------
(* Calls that arrive and end, the MOUNT program, a restart. *)

\* A call that has no handle, object or path yet, on its way to pc.
LEMMA FreshAlone ==
  ASSUME SInv, NEW d,
         d.pc \in {"idle", "alt", "reply", "umntDel", "mntSet"},
         d.pc = "mntSet" => ~Known(ExportHandle),
         d.fh = NoHandle, d.fh2 = NoHandle, d.obj = NoHandle, d.held = NoHandle
  PROVE  AloneOK(d)
<1>1. ~Known(NoHandle)
  BY NoHandleUnknown DEF SInv
<1>2. HandlesOK(d)
  BY <1>1 DEF HandlesOK, Binding
<1>3. DropOK(d)
  BY DEF DropOK
<1>4. ObjectOK(d)
  BY DEF ObjectOK, Binding
<1>5. SillyOK(d)
  BY DEF SillyOK, Sillying
<1>6. QED
  BY <1>2, <1>3, <1>4, <1>5 DEF AloneOK

\* A call arrives, and reads the path of its handle.
LEMMA ReceiveAlone ==
  ASSUME OneCall, SInv, NEW g \in Threads, Receive(g)
  PROVE  Kept
<1>1. UNCHANGED <<tree, node, fhandleMap>>
  BY DEF Receive, OnlyThread
<1>2. PICK op \in Ops, fh \in DOMAIN fhandleMap \cup {NoHandle} :
       thread' = [thread EXCEPT ![g] =
         IF fh # NoHandle
         THEN [Idle EXCEPT !.pc = "stat", !.op = op, !.fh = fh,
                           !.dir = fhandleMap[fh]]
         ELSE [Idle EXCEPT !.pc = IF op \in TwoHandles THEN "alt" ELSE "reply",
                           !.op = op]]
  BY DEF Receive
<1>3. CASE fh # NoHandle
  <2> DEFINE p == fhandleMap[fh]
             d == [Idle EXCEPT !.pc = "stat", !.op = op, !.fh = fh, !.dir = p]
  <2>1. thread' = [thread EXCEPT ![g] = d]
    BY <1>2, <1>3
  <2>2. Known(fh) /\ fhandleMap[fh] = p /\ ~Known(NoHandle)
    BY <1>3, NoHandleUnknown DEF Known, SInv
  <2> HIDE DEF p
  <2>3. /\ d.pc = "stat" /\ d.fh = fh /\ d.dir = p /\ d.fh2 = NoHandle
        /\ d.obj = NoHandle /\ d.held = NoHandle
    BY DEF Idle
  <2> HIDE DEF d
  <2>4. HandlesOK(d)
    BY <2>2, <2>3 DEF HandlesOK
  <2>5. DropOK(d)
    BY <2>3 DEF DropOK
  <2>6. ObjectOK(d)
    BY <2>3 DEF ObjectOK, Binding
  <2>7. SillyOK(d)
    BY <2>3 DEF SillyOK, Sillying
  <2>8. QED
    BY <1>1, <2>1, <2>4, <2>5, <2>6, <2>7, SoleQuiet DEF AloneOK
<1>4. CASE fh = NoHandle
  <2> DEFINE pc == IF op \in TwoHandles THEN "alt" ELSE "reply"
             d == [Idle EXCEPT !.pc = pc, !.op = op]
  <2>1. thread' = [thread EXCEPT ![g] = d]
    BY <1>2, <1>4
  <2>2. pc \in {"alt", "reply"}
    OBVIOUS
  <2> HIDE DEF pc
  <2>3. /\ d.pc = pc /\ d.fh = NoHandle /\ d.fh2 = NoHandle
        /\ d.obj = NoHandle /\ d.held = NoHandle
    BY DEF Idle
  <2> HIDE DEF d
  <2>4. AloneOK(d)
    BY <2>2, <2>3, FreshAlone
  <2>5. QED
    BY <1>1, <2>1, <2>4, SoleQuiet
<1>5. QED
  BY <1>3, <1>4

\* A call ends.
LEMMA ReturnAlone ==
  ASSUME OneCall, SInv, NEW g \in Threads, Return(g)
  PROVE  Kept
<1>1. /\ thread' = [thread EXCEPT ![g] = Idle]
      /\ UNCHANGED <<tree, node, fhandleMap>>
  BY DEF Return, OnlyThread
<1>2. /\ Idle.pc = "idle" /\ Idle.fh = NoHandle /\ Idle.fh2 = NoHandle
      /\ Idle.obj = NoHandle /\ Idle.held = NoHandle
  BY DEF Idle
<1>3. AloneOK(Idle)
  BY <1>2, FreshAlone
<1>4. QED
  BY <1>1, <1>3, SoleQuiet

\* A call of MNT or UMNT.
LEMMA ArriveAlone ==
  ASSUME OneCall, SInv, NEW g \in Threads, NEW op, NEW pc, NEW st,
         pc \in {"reply", "umntDel", "mntSet"},
         pc = "mntSet" => ~Known(ExportHandle),
         Arrive(g, op, pc, st)
  PROVE  Kept
<1> DEFINE d == [Idle EXCEPT !.pc = pc, !.op = op, !.st = st]
<1>1. thread' = [thread EXCEPT ![g] = d] /\ UNCHANGED <<tree, node, fhandleMap>>
  BY DEF Arrive, OnlyThread
<1>2. /\ d.pc = pc /\ d.fh = NoHandle /\ d.fh2 = NoHandle
      /\ d.obj = NoHandle /\ d.held = NoHandle
  BY DEF Idle
<1> HIDE DEF d
<1>3. AloneOK(d)
  BY <1>2, FreshAlone
<1>4. QED
  BY <1>1, <1>3, SoleQuiet

\* MNT binds the handle of the export only where it was unknown.
LEMMA MountAlone ==
  ASSUME OneCall, SInv, NEW g \in Threads, Mount(g)
  PROVE  Kept
<1> DEFINE c == thread[g]
<1>1. CASE Arrive(g, "MNT", "reply", "ACCES")
  BY <1>1, ArriveAlone
<1>2. CASE Arrive(g, "MNT",
             IF ExportHandle \in DOMAIN fhandleMap THEN "reply" ELSE "mntSet",
             "OK")
  <2>1. CASE Known(ExportHandle)
    BY <1>2, <2>1, ArriveAlone DEF Known
  <2>2. CASE ~Known(ExportHandle)
    BY <1>2, <2>2, ArriveAlone DEF Known
  <2>3. QED
    BY <2>1, <2>2
<1>3. CASE /\ Serving(g, "MNT")
           /\ setValueforHandle(g, "mntSet", ExportHandle, <<>>, "reply")
  <2>1. PICK h, p : h = ExportHandle /\ p = <<>>
    OBVIOUS
  <2>2. setValueforHandle(g, "mntSet", h, p, "reply")
    BY <1>3, <2>1
  <2>3. /\ c.pc = "mntSet" /\ TreeOK' /\ Bound(h, p)'
        /\ (\A x : Known(x)' <=> Known(x) \/ x = h)
        /\ (\A x : Known(x) /\ x # h => fhandleMap'[x] = fhandleMap[x])
        /\ Drops
    BY <2>2, SetFacts
  <2>4. PICK d : /\ thread' = [thread EXCEPT ![g] = d]
                 /\ SameCall(c, d) /\ d.pc = "reply"
                 /\ d.src = c.src /\ d.path = c.path
    BY <2>2, SetFacts
  <2>5. AloneOK(c) /\ c.op = "MNT" /\ c.obj = NoHandle /\ c.held = NoHandle
    BY <1>3, <2>3, CallAlone, NothingYet DEF Serving, Binding, Sillying
  <2>6. ~Known(h) /\ c.fh = NoHandle /\ c.fh2 = NoHandle
    BY <2>1, <2>3, <2>5 DEF AloneOK, DropOK, HandlesOK, TwoHandles
  <2>7. h # NoHandle /\ ~Known(NoHandle)
    <3>1. h \in Handles
      BY <2>1, RootPath, RootAssumption, HandleAssumption DEF ExportHandle
    <3>2. QED
      BY <3>1, HandleAssumption, NoHandleUnknown DEF SInv
  <2>8. /\ d.pc = "reply" /\ d.fh = NoHandle /\ d.fh2 = NoHandle
        /\ d.obj = NoHandle /\ d.held = NoHandle
    BY <2>4, <2>5, <2>6 DEF SameCall
  <2>9. HandlesOK(d)'
    BY <2>3, <2>7, <2>8 DEF HandlesOK, Binding
  <2>10. DropOK(d)'
    BY <2>8 DEF DropOK
  <2>11. ObjectOK(d)'
    BY <2>8 DEF ObjectOK, Binding
  <2>12. SillyOK(d)'
    BY <2>8 DEF SillyOK, Sillying
  <2>13. Rebinds
    BY <2>3, <2>6, RebindsOne
  <2>14. QED
    BY <2>3, <2>4, <2>9, <2>10, <2>11, <2>12, <2>13, SoleStep DEF SInv, AloneOK
<1>4. QED
  BY <1>1, <1>2, <1>3 DEF Mount

\* UMNT is the one call that drops a handle that is in use.
LEMMA UnMountAlone ==
  ASSUME OneCall, SInv, NEW g \in Threads, UnMount(g)
  PROVE  Kept
<1>1. CASE \/ Arrive(g, "UMNT", "reply", "OK")
           \/ Arrive(g, "UMNT", "umntDel", "OK")
  BY <1>1, ArriveAlone
<1>2. CASE /\ Serving(g, "UMNT")
           /\ deleteHandle(g, "umntDel", ExportHandle, "reply")
  <2>1. thread[g].pc = "umntDel" /\ thread[g].op = "UMNT"
    BY <1>2 DEF Serving, deleteHandle, At
  <2>2. thread[g].obj = NoHandle /\ thread[g].held = NoHandle
    BY <2>1, NothingYet DEF Binding, Sillying
  <2>3. Fits(thread[g], "reply")
    BY <2>2 DEF Fits, Binding, Sillying
  <2>4. QED
    BY <1>2, <2>1, <2>2, <2>3, DeleteAlone
<1>3. QED
  BY <1>1, <1>2 DEF UnMount

\* A restart forgets the table and the calls, and leaves the tree.
LEMMA RestartAlone ==
  ASSUME SInv, Restart
  PROVE  Kept
<1>1. /\ fhandleMap' = <<>> /\ (\A g \in Threads : thread'[g] = Idle)
      /\ UNCHANGED <<tree, node>>
  BY DEF Restart
<1>2. TreeOK'
  BY <1>1 DEF SInv, TreeOK, IsDir, Exists, KindAt
<1>3. ~Known(NoHandle)'
  BY <1>1 DEF Known
<1>4. PICK d : d = Idle
  OBVIOUS
<1>5. /\ d.pc = "idle" /\ d.fh = NoHandle /\ d.fh2 = NoHandle
      /\ d.obj = NoHandle /\ d.held = NoHandle
  BY <1>4 DEF Idle
<1>6. HandlesOK(d)' /\ DropOK(d)' /\ ObjectOK(d)' /\ SillyOK(d)'
  BY <1>3, <1>5
     DEF HandlesOK, DropOK, ObjectOK, SillyOK, Binding, Sillying
<1>7. Alone'
  BY <1>1, <1>4, <1>6 DEF Alone, AloneOK
<1>8. Drops /\ Rebinds
  BY <1>1 DEF Drops, Rebinds
<1>9. QED
  BY <1>2, <1>7, <1>8 DEF Kept
-----------------------------------------------------------------------------
-----------------------------------------------------------------------------
(* The theorems. *)

\* What is exported is in one piece, and nothing was called yet.
LEMMA InitSInv == Init => SInv
<1> SUFFICES ASSUME Init PROVE SInv
  OBVIOUS
<1>1. IInv
  BY InitIInv
<1>2. TreeOK
  BY TreeAssumption DEF Init, TreeOK, IsDir, Exists, KindAt
<1>3. ~Known(NoHandle)
  BY DEF Init, Known
<1>4. AloneOK(Idle)
  <2>1. HandlesOK(Idle)
    BY <1>3 DEF HandlesOK, Idle, Binding
  <2>2. DropOK(Idle)
    BY DEF DropOK, Idle
  <2>3. ObjectOK(Idle)
    BY DEF ObjectOK, Idle, Binding
  <2>4. SillyOK(Idle)
    BY DEF SillyOK, Idle, Sillying
  <2>5. QED
    BY <2>1, <2>2, <2>3, <2>4 DEF AloneOK
<1>5. \A g \in Threads : AloneOK(thread[g])
  BY <1>4 DEF Init
<1>6. QED
  BY <1>1, <1>2, <1>5 DEF SInv

\* Every step of the only call.
LEMMA HandlerAlone ==
  ASSUME OneCall, SInv, NEW g \in Threads, Handler(g)
  PROVE  Kept
  BY StatHandlersAlone, ReadHandlersAlone, LookupAlone, MkdirAlone,
     SymLinkAlone, CreateAlone, SetattrAlone, WriteAlone, RemoveAlone,
     RmdirAlone, RenameAlone, LinkAlone DEF Handler

\* Every step of the server.
LEMMA NextKept ==
  ASSUME OneCall, SInv, [Next]_vars
  PROVE  Kept
<1>1. CASE UNCHANGED vars
  <2>1. UNCHANGED <<tree, node, fhandleMap, thread>>
    BY <1>1 DEF vars
  <2>2. TreeOK'
    BY <2>1 DEF SInv, TreeOK, IsDir, Exists, KindAt
  <2>3. \A p : Alive(p)' <=> Alive(p)
    BY <2>1 DEF Alive, LstatErr, WalkErr, IsDir, IsReg, Exists, KindAt
  <2>4. ASSUME NEW h \in Threads
        PROVE  AloneOK(thread[h])'
    <3>1. PICK d : d = thread[h]
      OBVIOUS
    <3>2. AloneOK(d)
      BY <3>1 DEF SInv
    <3>3. AloneOK(d)'
      BY <2>1, <2>3, <3>2
         DEF AloneOK, HandlesOK, DropOK, ObjectOK, SillyOK, Known, Bound
    <3>4. QED
      BY <2>1, <3>1, <3>3
  <2>5. Drops /\ Rebinds
    BY <2>1 DEF Drops, Rebinds
  <2>6. QED
    BY <2>2, <2>4, <2>5 DEF Kept, Alone
<1>2. CASE Restart
  BY <1>2, RestartAlone
<1>3. ASSUME NEW g \in Threads, Receive(g) \/ Serve(g)
      PROVE  Kept
  BY <1>3, HandlerAlone, ReceiveAlone, ReturnAlone, MountAlone, UnMountAlone
     DEF Serve
<1>4. QED
  BY <1>1, <1>2, <1>3 DEF Next, Work

\* One call at a time: whatever the calls are, the handler of each still means
\* what it read, from the stat of its handle to the reply.
THEOREM CallKeepsMeaning ==
  ASSUME OneCall
  PROVE  Spec => []SInv
<1>1. SInv /\ [Next]_vars => SInv'
  <2> SUFFICES ASSUME SInv, [Next]_vars PROVE SInv'
    OBVIOUS
  <2>1. IInv'
    BY NextIInv DEF SInv
  <2>2. TreeOK' /\ Alone'
    BY NextKept DEF Kept
  <2>3. QED
    BY <2>1, <2>2 DEF SInv, Alone
<1>2. QED
  BY <1>1, InitSInv, PTL DEF Spec

\* LOOKUP, CREATE, MKDIR and SYMLINK, one call at a time: the handle of an OK
\* reply is in the table, is bound to the name asked for, and is the one
\* makeFHandle gives for the object that has that name.
THEOREM ReplyNames ==
  ASSUME OneCall
  PROVE  Spec => []ReplyNamesObject
<1>1. SInv => ReplyNamesObject
  <2> SUFFICES ASSUME SInv, NEW g \in Threads, Replying(g),
                      thread[g].obj # NoHandle, thread[g].op # "RENAME"
               PROVE  /\ thread[g].obj \in DOMAIN fhandleMap
                      /\ fhandleMap[thread[g].obj] = thread[g].path
                      /\ Exists(thread[g].path)
                      /\ thread[g].obj =
                           makeFHandle(thread[g].path, tree[thread[g].path])
    BY DEF ReplyNamesObject
  <2>1. thread[g].pc = "reply" /\ AloneOK(thread[g])
    BY DEF SInv, Replying, At
  <2>2. /\ Bound(thread[g].obj, thread[g].path) /\ Alive(thread[g].path)
        /\ thread[g].obj = makeFHandle(thread[g].path, tree[thread[g].path])
    BY <2>1 DEF AloneOK, ObjectOK, Binding
  <2>3. Exists(thread[g].path)
    BY <2>2 DEF Alive, LstatErr
  <2>4. QED
    BY <2>2, <2>3 DEF Bound, Known
<1>2. QED
  BY <1>1, CallKeepsMeaning, PTL

\* Rename to a ".nfs" name, one call at a time: the handle the file was known
\* by means the ".nfs" name when the reply is sent.
THEOREM SillyHandle ==
  ASSUME OneCall
  PROVE  Spec => []SillyHandleKept
<1>1. SInv => SillyHandleKept
  <2> SUFFICES ASSUME SInv, NEW g \in Threads, Replying(g),
                      thread[g].held # NoHandle
               PROVE  /\ thread[g].held \in DOMAIN fhandleMap
                      /\ fhandleMap[thread[g].held] = thread[g].path
    BY DEF SillyHandleKept
  <2>1. thread[g].pc = "reply" /\ AloneOK(thread[g])
    BY DEF SInv, Replying, At
  <2>2. Bound(thread[g].held, thread[g].path)
    BY <2>1 DEF AloneOK, SillyOK, Sillying
  <2>3. QED
    BY <2>2 DEF Bound, Known
<1>2. QED
  BY <1>1, CallKeepsMeaning, PTL

\* deleteHandle, one call at a time: a live server drops a handle only when
\* the path it is bound to is gone, or when UMNT names the export.
THEOREM DropsDead ==
  ASSUME OneCall
  PROVE  Spec => DropsOnlyDead
<1>1. SInv /\ [Next]_vars => Drops
  BY NextKept DEF Kept
<1>2. QED
  BY <1>1, CallKeepsMeaning, PTL DEF Spec, DropsOnlyDead, Drops

\* setValueforHandle, one call at a time: a handle changes its meaning only
\* when its path is gone or when it becomes a ".nfs" name.
THEOREM RebindsDead ==
  ASSUME OneCall
  PROVE  Spec => RebindsOnlyDead
<1>1. SInv /\ [Next]_vars => Rebinds
  BY NextKept DEF Kept
<1>2. QED
  BY <1>1, CallKeepsMeaning, PTL DEF Spec, RebindsOnlyDead, Rebinds

=============================================================================
