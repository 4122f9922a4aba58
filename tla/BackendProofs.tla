--------------------------- MODULE BackendProofs ----------------------------
(***************************************************************************)
(* Theorems about the backend, for every set of names, inodes, goroutines  *)
(* and handles, every hash, every set of procedures and of outside errors. *)
(*                                                                         *)
(* One inductive invariant, IInv, carries them all: besides the types it   *)
(* says what the local variables of a handler are worth at each step, and  *)
(* so what may be written to the table next.                               *)
(*                                                                         *)
(* That the backend implements ExportService needs one more, Told: which   *)
(* of a call's steps come before its effect and which after, and that its  *)
(* status so far may be answered at any time.  It is about single calls,   *)
(* so that it does not matter what the other goroutines do.                *)
(***************************************************************************)
EXTENDS BackendService, SequenceTheorems, TLAPS

-----------------------------------------------------------------------------
(* Paths. *)

\* A path the host accepts is a sequence of names.
LEMMA PathsAreSequences == Paths \subseteq Seq(Names)
  BY DepthAssumption DEF Paths

\* exportPath is accepted.
LEMMA RootPath == <<>> \in Paths
  BY DepthAssumption DEF Paths

\* Lstat succeeds on paths that are accepted and exist.
LEMMA LstatOK ==
  ASSUME NEW p \in Seq(Names), LstatErr(p) = "OK"
  PROVE  p \in Paths /\ p \in DOMAIN tree
<1>1. WalkErr(p) = "OK" /\ Exists(p)
  BY DEF LstatErr
<1>2. Len(p) <= MaxDepth
  BY <1>1, DepthAssumption DEF WalkErr
<1>3. QED
  BY <1>1, <1>2, DepthAssumption DEF Paths, Exists

\* Path resolution succeeds on paths that are accepted only.
LEMMA WalkOK ==
  ASSUME NEW p \in Seq(Names), WalkErr(p) = "OK"
  PROVE  p \in Paths
<1>1. Len(p) <= MaxDepth
  BY DepthAssumption DEF WalkErr
<1>2. QED
  BY <1>1, DepthAssumption DEF Paths

\* Renaming back finds the path one started from.
LEMMA RebaseBack ==
  ASSUME NEW S, NEW p \in Seq(S), NEW q \in Seq(S), NEW y \in Seq(S), IsPrefix(p, y)
  PROVE  /\ Rebase(y, p, q) \in Seq(S)
         /\ Rebase(Rebase(y, p, q), q, p) = y
<1> DEFINE r == SubSeq(y, Len(p) + 1, Len(y))
           x == q \o r
<1>1. /\ Len(p) <= Len(y)
      /\ \A k \in 1 .. Len(p) : p[k] = y[k]
  <2>1. Len(p) \in Nat /\ Len(y) \in Nat /\ Len(p) <= Len(y) /\ SubSeq(p,1,Len(p)) = SubSeq(y,1,Len(p))
    BY DEF IsPrefix
  <2>2. \A k \in 1 .. Len(p) : SubSeq(p,1,Len(p))[k] = p[k] /\ SubSeq(y,1,Len(p))[k] = y[k]
    BY <2>1, SubSeqProperties
  <2>3. QED BY <2>1, <2>2
<1>2. /\ r \in Seq(S)
      /\ Len(r) = Len(y) - Len(p)
      /\ \A k \in 1 .. Len(r) : r[k] = y[Len(p) + k]
  BY <1>1, SubSeqProperties
<1>3. /\ x \in Seq(S)
      /\ Len(x) = Len(q) + Len(r)
      /\ \A k \in 1 .. Len(r) : x[Len(q) + k] = r[k]
  BY <1>2, ConcatProperties
<1>4. SubSeq(x, Len(q) + 1, Len(x)) = r
  <2> DEFINE z == SubSeq(x, Len(q) + 1, Len(x))
  <2>1. Len(q) \in Nat /\ Len(r) \in Nat
    BY <1>2
  <2> HIDE DEF x, r
  <2>2. \A i \in (Len(q) + 1) .. Len(x) : x[i] \in S
    BY <1>3, <2>1
  <2>3. /\ z \in Seq(S)
        /\ Len(z) = Len(r)
        /\ \A k \in 1 .. Len(r) : z[k] = x[Len(q) + 1 + k - 1]
    BY <1>3, <2>1, <2>2, SubSeqProperties
  <2> HIDE DEF z
  <2>4. ASSUME NEW k \in 1 .. Len(z) PROVE z[k] = r[k]
    <3>1. k \in 1 .. Len(r)
      BY <2>3
    <3>2. Len(q) + 1 + k - 1 = Len(q) + k
      BY <2>1, <3>1
    <3>3. z[k] = x[Len(q) + k] /\ x[Len(q) + k] = r[k]
      BY <1>3, <2>3, <3>1, <3>2
    <3>4. QED
      BY <3>3
  <2>5. z = r
    BY <1>2, <2>3, <2>4, SeqEqual
  <2>6. QED
    BY <2>5 DEF z
<1>5. p \o r = y
  <2>1. /\ p \o r \in Seq(S)
        /\ Len(p \o r) = Len(y)
        /\ \A k \in 1 .. Len(y) : (p \o r)[k] = y[k]
    BY <1>1, <1>2, ConcatProperties
  <2>2. QED
    BY <2>1, SeqEqual
<1>6. QED
  BY <1>3, <1>4, <1>5 DEF Rebase

-----------------------------------------------------------------------------
(* The host file system keeps its types. *)

FsOK ==
  /\ DOMAIN tree \subseteq Seq(Names)
  /\ \A p \in DOMAIN tree : tree[p] \in Inodes
  /\ node \in [Inodes -> Kinds]

\* Giving back inodes without a name keeps the types.
LEMMA SettleType ==
  ASSUME NEW t, DOMAIN t \subseteq Seq(Names),
         \A p \in DOMAIN t : t[p] \in Inodes,
         NEW kinds \in [Inodes -> Kinds], Settle(t, kinds)
  PROVE  FsOK'
  BY DEF Settle, FsOK, Kinds

\* Mkdir, Symlink and OpenFile with O_CREAT make an object at a new path.
LEMMA NewObjectType ==
  ASSUME FsOK, NEW p \in Seq(Names), NEW i \in Inodes, NEW kind \in Kinds,
         NewObject(p, i, kind)
  PROVE  FsOK'
  BY SettleType DEF NewObject, With, FsOK

\* os.Link adds a name of an object that is there.
LEMMA NewNameType ==
  ASSUME FsOK, NEW p \in DOMAIN tree, NEW q \in Seq(Names), NewName(p, q)
  PROVE  FsOK'
  BY SettleType DEF NewName, With, FsOK

\* Unlink and Rmdir take a name away.
LEMMA DropNameType ==
  ASSUME FsOK, NEW p, DropName(p)
  PROVE  FsOK'
  BY SettleType DEF DropName, Restrict, FsOK

\* Truncate, O_TRUNC and WriteAt change what a file holds.
LEMMA SetKindType ==
  ASSUME FsOK, NEW i, NEW kind, i \in Inodes => kind \in Kinds,
         SetKind(i, kind)
  PROVE  FsOK'
  BY DEF SetKind, FsOK

\* Rename moves a subtree; every path it makes stands for one that was there.
LEMMA MoveType ==
  ASSUME FsOK, NEW p \in Seq(Names), NEW q \in Seq(Names), Move(p, q)
  PROVE  FsOK'
<1>1. CASE SameObject(p, q)
  BY <1>1 DEF Move, FsOK
<1>2. CASE ~SameObject(p, q)
  <2> DEFINE below == {x \in DOMAIN tree : IsPrefix(p, x)}
             stay == {x \in DOMAIN tree \ below : ~IsPrefix(q, x)}
             t == Renamed(p, q)
  <2>1. DOMAIN t = stay \cup {Rebase(y, p, q) : y \in below}
    BY DEF Renamed
  <2>2. DOMAIN t \subseteq Seq(Names)
    BY <2>1, RebaseBack DEF FsOK
  <2>3. \A x \in DOMAIN t : t[x] \in Inodes
    <3> SUFFICES ASSUME NEW x \in DOMAIN t PROVE t[x] \in Inodes
      OBVIOUS
    <3>1. t[x] = IF x \in stay THEN tree[x] ELSE tree[Rebase(x, q, p)]
      BY <2>1 DEF Renamed
    <3>2. CASE x \in stay
      BY <3>1, <3>2 DEF FsOK
    <3>3. CASE x \notin stay
      <4>1. PICK y \in below : x = Rebase(y, p, q)
        BY <2>1, <3>3
      <4>2. Rebase(x, q, p) = y
        BY <4>1, RebaseBack DEF FsOK
      <4>3. QED
        BY <3>1, <3>3, <4>1, <4>2 DEF FsOK
    <3>4. QED
      BY <3>2, <3>3
  <2>4. Settle(t, node)
    BY <1>2 DEF Move
  <2>5. QED
    BY <2>2, <2>3, <2>4, SettleType DEF FsOK
<1>3. QED
  BY <1>1, <1>2

-----------------------------------------------------------------------------
(* The inductive invariant. *)

\* The steps that rely on nothing but the types of a call's variables.
Plain == Pcs \ {"act", "io", "chattr", "bind", "check", "set",
                "silly", "sillyGet", "sillySet"}

\* What the variables of a call are worth where its next step relies on them:
\* the handle about to be bound was made from the path it will be bound to, a
\* silly rename binds to a ".nfs" name, the path found in the table is another
\* one and has its own claim to the handle, and a call that changes files got
\* past the check of writeaccess.
CallOK(c) ==
  /\ c.pc \in {"bind", "check", "set"} => MadeFrom(c.obj, c.path)
  /\ c.pc \in {"silly", "sillyGet", "sillySet"} => IsSilly(c.path)
  /\ c.pc \in {"sillyGet", "sillySet"} => c.obj \in Handles
  /\ c.pc = "check" =>
       c.found # c.path /\ (MadeFrom(c.obj, c.found) \/ IsSilly(c.found))
  /\ c.pc \in {"act", "io", "chattr"} /\ c.op \in Mutating => writeaccess

\* The table, with what its entries were made from.
MapOK ==
  /\ DOMAIN fhandleMap \subseteq Handles
  /\ \A h \in DOMAIN fhandleMap : fhandleMap[h] \in Paths
  /\ HandleOrigin

\* The calls in progress.
ThreadOK ==
  /\ thread \in [Threads -> Calls]
  /\ \A g \in Threads : CallOK(thread[g])

\* The call that ended the process: the table held another path for the handle.
Fatal(c) ==
  /\ \/ c.pc = "check" /\ c.found # c.path
     \/ c.pc = "sillyGet" /\ c.found # c.src
  /\ MadeFrom(c.obj, c.found) \/ IsSilly(c.found)

\* A server that gave up has the call that did it.
ServerOK ==
  /\ server \in {"up", "fatal"}
  /\ server = "fatal" => \E g \in Threads : Fatal(thread[g])

IInv == FsOK /\ MapOK /\ ThreadOK /\ ServerOK

-----------------------------------------------------------------------------
(* One step of one call.  next is the call after the step. *)

\* A call that goes from c to next keeps ThreadOK if next is as it should be.
LEMMA ThreadStep ==
  ASSUME ThreadOK, NEW g \in Threads, NEW next \in Calls, CallOK(next),
         thread' = [thread EXCEPT ![g] = next]
  PROVE  ThreadOK'
<1>1. thread' \in [Threads -> Calls]
  BY DEF ThreadOK
<1>2. \A h \in Threads : CallOK(thread'[h])
  BY DEF ThreadOK
<1>3. QED
  BY <1>1, <1>2 DEF ThreadOK, CallOK, MadeFrom, IsSilly

\* A step that changes the call only.
LEMMA QuietStep ==
  ASSUME IInv, server = "up", NEW g \in Threads, NEW next \in Calls,
         CallOK(next), thread' = [thread EXCEPT ![g] = next], OnlyThread
  PROVE  IInv'
<1>1. ThreadOK'
  BY ThreadStep DEF IInv
<1>2. FsOK' /\ MapOK' /\ ServerOK'
  BY DEF IInv, OnlyThread, FsOK, MapOK, HandleOrigin, ServerOK
<1>3. QED
  BY <1>1, <1>2 DEF IInv

\* A step that changes the file system too.
LEMMA FsStep ==
  ASSUME IInv, server = "up", NEW g \in Threads, NEW next \in Calls,
         CallOK(next), thread' = [thread EXCEPT ![g] = next],
         FsOK', UNCHANGED <<fhandleMap, server>>
  PROVE  IInv'
<1>1. ThreadOK'
  BY ThreadStep DEF IInv
<1>2. MapOK' /\ ServerOK'
  BY DEF IInv, MapOK, HandleOrigin, ServerOK
<1>3. QED
  BY <1>1, <1>2 DEF IInv

\* A step that changes the table too.
LEMMA MapStep ==
  ASSUME IInv, server = "up", NEW g \in Threads, NEW next \in Calls,
         CallOK(next), thread' = [thread EXCEPT ![g] = next],
         MapOK', UNCHANGED <<tree, node, server>>
  PROVE  IInv'
<1>1. ThreadOK'
  BY ThreadStep DEF IInv
<1>2. FsOK' /\ ServerOK'
  BY DEF IInv, FsOK, ServerOK
<1>3. QED
  BY <1>1, <1>2 DEF IInv

\* The steps a handler names, for the leaves that only need their membership.
LEMMA PcNames ==
  /\ "stat" \in Pcs /\ "io" \in Pcs /\ "chattr" \in Pcs /\ "new" \in Pcs
  /\ "bind" \in Pcs /\ "set" \in Pcs /\ "sillyGet" \in Pcs
  /\ "sillySet" \in Pcs /\ "post" \in Pcs /\ "OK" \in Statuses
  BY DEF Pcs, Statuses

\* Where a call may go with nothing to show for it.
Open(g, pc) ==
  \/ pc \in Plain
  \/ /\ pc \in {"act", "io", "chattr"}
     /\ thread[g].op \notin Mutating \/ writeaccess

\* The handler goes on, with a status, at a step where Open lets it.
LEMMA GoStep ==
  ASSUME IInv, NEW g \in Threads, NEW pc, Open(g, pc), NEW st \in Statuses,
         Go(g, pc, st)
  PROVE  \E next \in Calls :
           CallOK(next) /\ thread' = [thread EXCEPT ![g] = next]
<1> DEFINE next == [thread[g] EXCEPT !.pc = pc, !.st = st]
<1>1. pc \in Pcs
  BY DEF Open, Plain, Pcs
<1>0. thread[g] \in Calls
  BY DEF IInv, ThreadOK
<1>2. next \in Calls
  BY <1>0, <1>1 DEF Calls
<1>3. next.pc = pc /\ next.op = thread[g].op
  BY <1>0 DEF Calls
<1>4. CallOK(next)
  BY <1>3 DEF CallOK, Open, Plain, Pcs
<1>5. thread' = [thread EXCEPT ![g] = next]
  BY DEF Go
<1>6. QED
  BY <1>2, <1>4, <1>5

\* So does a handler that read the file system or nothing.
LEMMA QuietGo ==
  ASSUME IInv, server = "up", NEW g \in Threads, NEW pc, Open(g, pc),
         NEW st \in Statuses, Go(g, pc, st), OnlyThread
  PROVE  IInv'
  BY GoStep, QuietStep

\* The status of a call so far is one of those NFS defines.
LEMMA StatusOfCall ==
  ASSUME IInv, NEW g \in Threads
  PROVE  thread[g].st \in Statuses
  BY DEF IInv, ThreadOK, Calls

\* getFileAttrFromPath, as every handler calls it.
LEMMA OnStatStep ==
  ASSUME IInv, server = "up", NEW g \in Threads, NEW at, NEW p,
         NEW good, Open(g, good), NEW st \in Statuses, NEW bad, Open(g, bad),
         OnStat(g, at, p, good, st, bad)
  PROVE  IInv'
<1>1. Go(g, good, st) \/ Go(g, bad, thread[g].st)
  BY DEF OnStat
<1>2. OnlyThread
  BY DEF OnStat
<1>3. QED
  BY <1>1, <1>2, QuietGo, StatusOfCall

\* deleteHandle only takes an entry out of the table.
LEMMA DeleteStep ==
  ASSUME IInv, server = "up", NEW g \in Threads, NEW at, NEW h,
         NEW next, Open(g, next), deleteHandle(g, at, h, next)
  PROVE  IInv'
<1>1. MapOK'
  BY DEF deleteHandle, Restrict, IInv, MapOK, HandleOrigin
<1>2. Go(g, next, thread[g].st) /\ UNCHANGED <<tree, node, server>>
  BY DEF deleteHandle
<1>3. QED
  BY <1>1, <1>2, GoStep, MapStep, StatusOfCall

\* A handle is bound to a path it was made from, or to a ".nfs" name.
LEMMA SetStep ==
  ASSUME IInv, server = "up", NEW g \in Threads, NEW at,
         NEW h \in Handles, NEW p \in Paths, MadeFrom(h, p) \/ IsSilly(p),
         NEW next, Open(g, next), setValueforHandle(g, at, h, p, next)
  PROVE  IInv'
<1>1. fhandleMap' = [x \in DOMAIN fhandleMap \cup {h} |->
                       IF x = h THEN p ELSE fhandleMap[x]]
  BY DEF setValueforHandle
<1>2. MapOK'
  BY <1>1 DEF IInv, MapOK, HandleOrigin
<1>3. Go(g, next, thread[g].st) /\ UNCHANGED <<tree, node, server>>
  BY DEF setValueforHandle
<1>4. QED
  BY <1>2, <1>3, GoStep, MapStep, StatusOfCall

-----------------------------------------------------------------------------
(* What the handlers have in common. *)

\* The error tables answer a status whatever the error number.
LEMMA StatusTypes ==
  ASSUME NEW e
  PROVE  /\ getLookupErr(e) \in Statuses /\ getReadDirErr(e) \in Statuses
         /\ getMkdirErr(e) \in Statuses /\ getRenameErr(e) \in Statuses
         /\ getCreateErr(e) \in Statuses /\ getSetattrErr(e) \in Statuses
         /\ getReadErr(e) \in Statuses /\ getWriteErr(e) \in Statuses
         /\ getRemoveErr(e) \in Statuses /\ getRmdirErr(e) \in Statuses
         /\ getSymLinkErr(e) \in Statuses /\ getLinkErr(e) \in Statuses
         /\ getReadLinkErr(e) \in Statuses
<1>1. getLookupErr(e) \in Statuses /\ getReadDirErr(e) \in Statuses
  BY DEF getLookupErr, getReadDirErr, Status, Statuses
<1>2. getMkdirErr(e) \in Statuses
  BY DEF getMkdirErr, Status, Statuses
<1>3. getRenameErr(e) \in Statuses
  BY DEF getRenameErr, Status, Statuses
<1>4. getCreateErr(e) \in Statuses /\ getSetattrErr(e) \in Statuses
  BY DEF getCreateErr, getSetattrErr, Status, Statuses
<1>5. getReadErr(e) \in Statuses /\ getWriteErr(e) \in Statuses
  BY DEF getReadErr, getWriteErr, Status, Statuses
<1>6. getRemoveErr(e) \in Statuses
  BY DEF getRemoveErr, Status, Statuses
<1>7. getRmdirErr(e) \in Statuses
  BY <1>6 DEF getRmdirErr, Statuses
<1>8. getSymLinkErr(e) \in Statuses
  BY DEF getSymLinkErr, Status, Statuses
<1>9. getLinkErr(e) \in Statuses
  BY <1>8 DEF getLinkErr, Status, Statuses
<1>10. getReadLinkErr(e) \in Statuses
  BY DEF getReadLinkErr, Status, Statuses
<1>11. QED
  BY <1>1, <1>2, <1>3, <1>4, <1>5, <1>6, <1>7, <1>8, <1>9, <1>10

\* A call may always go on to the steps that rely on nothing.
LEMMA OpenPlain ==
  ASSUME NEW g, NEW pc \in {"reply", "post", "post2", "drop", "drop2",
                           "dropFirst", "dropSecond", "dropFrom", "alt",
                           "statAlt", "get2", "stat2", "statAgain"}
  PROVE  Open(g, pc)
  BY DEF Open, Plain, Pcs

\* The first stat of a handler, or the dropping of the handle.
LEMMA FirstStep ==
  ASSUME IInv, server = "up", NEW g \in Threads, NEW good, Open(g, good),
         NEW st \in Statuses, First(g, good, st)
  PROVE  IInv'
<1>1. Open(g, "drop") /\ Open(g, "reply")
  BY OpenPlain
<1>2. CASE OnStat(g, "stat", thread[g].dir, good, st, "drop")
  BY <1>1, <1>2, OnStatStep
<1>3. CASE deleteHandle(g, "drop", thread[g].fh, "reply")
  BY <1>1, <1>3, DeleteStep
<1>4. QED
  BY <1>2, <1>3 DEF First

\* And with the check of writeaccess, after which a call may change files.
LEMMA FirstWritableStep ==
  ASSUME IInv, server = "up", NEW g \in Threads, FirstWritable(g)
  PROVE  IInv'
<1>1. CASE writeaccess
  <2>1. First(g, "act", "STALE") /\ Open(g, "act")
    BY <1>1 DEF FirstWritable, Open
  <2>2. QED
    BY <2>1, FirstStep DEF Statuses
<1>2. CASE ~writeaccess
  <2>1. First(g, "reply", "ROFS") /\ Open(g, "reply")
    BY <1>2, OpenPlain DEF FirstWritable
  <2>2. QED
    BY <2>1, FirstStep DEF Statuses
<1>3. QED
  BY <1>1, <1>2

\* The post-operation stat.
LEMMA PostStep ==
  ASSUME IInv, server = "up", NEW g \in Threads, Post(g)
  PROVE  IInv'
  BY OnStatStep, OpenPlain, StatusOfCall DEF Post

\* A system call that fails, or a name that is refused.
LEMMA RefuseStep ==
  ASSUME IInv, server = "up", NEW g \in Threads, NEW st \in Statuses,
         Refuse(g, st), UNCHANGED <<fhandleMap, server>>
  PROVE  IInv'
  BY QuietGo, OpenPlain DEF Refuse, OnlyThread

\* A new object answers at "new", whatever its path.
LEMMA MadeStep ==
  ASSUME IInv, server = "up", NEW g \in Threads, NEW p \in Paths,
         NEW fd \in Inodes \cup {NoInode},
         NEW how \in {"none", "UNCHECKED", "GUARDED"},
         Made(g, p, fd, how), FsOK', UNCHANGED <<fhandleMap, server>>
  PROVE  IInv'
<1> DEFINE next == [thread[g] EXCEPT !.pc = "new", !.path = p, !.fd = fd,
                                     !.how = how, !.did = TRUE]
<1> thread[g] \in Calls
  BY DEF IInv, ThreadOK
<1>1. next \in Calls
  BY PcNames DEF Calls
<1>2. next.pc = "new"
  BY DEF Calls
<1>3. CallOK(next)
  BY <1>2 DEF CallOK
<1>4. thread' = [thread EXCEPT ![g] = next]
  BY DEF Made
<1>5. QED
  BY <1>1, <1>3, <1>4, FsStep

\* A handle made from a path the host accepts is one of Handles.
LEMMA MadeHandle ==
  ASSUME NEW p \in Paths, NEW h, MadeFrom(h, p)
  PROVE  h \in Handles
  BY HandleAssumption DEF MadeFrom

\* The handle a stat yields is made from the path stated.
LEMMA StatedHandle ==
  ASSUME FsOK, NEW p \in Seq(Names), LstatErr(p) = "OK"
  PROVE  p \in Paths /\ MadeFrom(makeFHandle(p, tree[p]), p)
  BY LstatOK DEF FsOK, MadeFrom

\* Getting the entry of the handle: what is found under another path has its
\* own claim to the handle.
LEMMA BindGet ==
  ASSUME IInv, server = "up", NEW g \in Threads, At(g, "bind"),
         NEW next \in {"reply", "post"},
         thread' = [thread EXCEPT
           ![g].found = IF thread[g].obj \in DOMAIN fhandleMap
                        THEN fhandleMap[thread[g].obj] ELSE thread[g].path,
           ![g].pc = IF thread[g].obj \notin DOMAIN fhandleMap THEN "set"
                     ELSE IF fhandleMap[thread[g].obj] = thread[g].path
                          THEN next ELSE "check",
           ![g].st = "OK"],
         OnlyThread
  PROVE  IInv'
<1> DEFINE t == thread[g]
           f == IF t.obj \in DOMAIN fhandleMap THEN fhandleMap[t.obj]
                ELSE t.path
           pc == IF t.obj \notin DOMAIN fhandleMap THEN "set"
                 ELSE IF fhandleMap[t.obj] = t.path THEN next ELSE "check"
           c == [t EXCEPT !.found = f, !.pc = pc, !.st = "OK"]
<1>1. t \in Calls /\ CallOK(t)
  BY DEF IInv, ThreadOK
<1>2. MadeFrom(t.obj, t.path)
  BY <1>1 DEF At, CallOK
<1>3. f \in Paths /\ pc \in Pcs /\ "OK" \in Statuses
  BY <1>1 DEF IInv, MapOK, Calls, Pcs, Statuses
<1>4. pc = "check" =>
        f # t.path /\ (MadeFrom(t.obj, f) \/ IsSilly(f))
  BY DEF IInv, MapOK, HandleOrigin
<1>5. pc \in {"reply", "post", "set", "check"}
  OBVIOUS
<1> HIDE DEF f, pc
<1>6. c \in Calls
  BY <1>1, <1>3 DEF Calls
<1>7. /\ c.pc = pc /\ c.found = f
      /\ c.obj = t.obj /\ c.path = t.path
  BY <1>1 DEF Calls
<1>8. CallOK(c)
  BY <1>2, <1>4, <1>5, <1>7 DEF CallOK
<1>9. thread' = [thread EXCEPT ![g] = c]
  BY DEF f, pc
<1>10. QED
  BY <1>6, <1>8, <1>9, QuietStep

\* Putting the handle of an object into the table, in all its steps.
LEMMA BindStep ==
  ASSUME IInv, server = "up", NEW g \in Threads,
         NEW next \in {"reply", "post"}, Bind(g, next)
  PROVE  IInv'
<1> DEFINE t == thread[g]
<1>1. t \in Calls /\ CallOK(t)
  BY DEF IInv, ThreadOK
<1>2. t.path \in Paths /\ t.st \in Statuses
  BY <1>1 DEF Calls
<1>3. CASE At(g, "bind")
  BY <1>3, BindGet DEF Bind, GetFound, Found, CheckFound, At,
                       setValueforHandle
<1>4. CASE At(g, "check")
  <2>1. PICK e \in Outcomes(LstatErr(t.found)) :
          IF e = "OK"
          THEN server' = "fatal" /\ UNCHANGED thread
          ELSE server' = server /\ Go(g, "set", t.st)
    BY <1>4 DEF Bind, GetFound, Found, CheckFound, At, setValueforHandle
  <2>2. UNCHANGED <<tree, node, fhandleMap>>
    BY <1>4 DEF Bind, GetFound, Found, CheckFound, At, setValueforHandle
  <2>3. CASE e = "OK"
    <3>1. Fatal(t)
      BY <1>1, <1>4 DEF At, CallOK, Fatal
    <3>2. ServerOK'
      BY <2>1, <2>3, <3>1 DEF ServerOK, Fatal, MadeFrom, IsSilly
    <3>3. FsOK' /\ MapOK' /\ ThreadOK'
      BY <2>1, <2>2, <2>3
         DEF IInv, FsOK, MapOK, HandleOrigin, ThreadOK, CallOK, MadeFrom,
             IsSilly
    <3>4. QED
      BY <3>2, <3>3 DEF IInv
  <2>4. CASE e # "OK"
    <3> DEFINE c == [t EXCEPT !.pc = "set", !.st = t.st]
    <3>1. c \in Calls
      BY <1>1, PcNames DEF Calls
    <3>2. c.pc = "set" /\ c.obj = t.obj /\ c.path = t.path
      BY <1>1 DEF Calls
    <3>3. CallOK(c)
      BY <1>1, <1>4, <3>2 DEF At, CallOK
    <3>4. thread' = [thread EXCEPT ![g] = c]
      BY <2>1, <2>4 DEF Go
    <3>5. QED
      BY <2>1, <2>2, <2>4, <3>1, <3>3, <3>4, QuietStep DEF OnlyThread
  <2>5. QED
    BY <2>3, <2>4
<1>5. CASE At(g, "set")
  <2>1. MadeFrom(t.obj, t.path)
    BY <1>1, <1>5 DEF At, CallOK
  <2>2. setValueforHandle(g, "set", t.obj, t.path, next)
    BY <1>5 DEF Bind, GetFound, Found, CheckFound, At
  <2>3. QED
    BY <1>2, <2>1, <2>2, MadeHandle, OpenPlain, SetStep
<1>6. QED
  BY <1>3, <1>4, <1>5 DEF Bind, GetFound, Found, CheckFound, At,
                          setValueforHandle

\* A stat that succeeded has made the handle the call is to bind.
LEMMA BindReady ==
  ASSUME IInv, server = "up", NEW g \in Threads, NEW p \in Seq(Names),
         LstatErr(p) = "OK",
         thread' = [thread EXCEPT ![g].pc = "bind", ![g].path = p,
                                  ![g].obj = makeFHandle(p, tree[p])],
         OnlyThread
  PROVE  IInv'
<1> DEFINE t == thread[g]
           h == makeFHandle(p, tree[p])
           c == [t EXCEPT !.pc = "bind", !.path = p, !.obj = h]
<1>1. t \in Calls
  BY DEF IInv, ThreadOK
<1>2. p \in Paths /\ MadeFrom(h, p)
  BY StatedHandle DEF IInv
<1>3. h \in Handles
  BY <1>2, MadeHandle
<1> HIDE DEF h
<1>4. c \in Calls
  BY <1>1, <1>2, <1>3, PcNames DEF Calls
<1>5. c.pc = "bind" /\ c.obj = h /\ c.path = p
  BY <1>1 DEF Calls
<1>6. CallOK(c)
  BY <1>2, <1>5 DEF CallOK
<1>7. thread' = [thread EXCEPT ![g] = c]
  BY DEF h
<1>8. QED
  BY <1>4, <1>6, <1>7, QuietStep

\* StatObject, where it succeeds.
LEMMA StatedStep ==
  ASSUME IInv, server = "up", NEW g \in Threads,
         LstatErr(thread[g].path) = "OK",
         thread' = [thread EXCEPT ![g].pc = "bind",
           ![g].obj = makeFHandle(thread[g].path, tree[thread[g].path])],
         OnlyThread
  PROVE  IInv'
<1> DEFINE t == thread[g]
           h == makeFHandle(t.path, tree[t.path])
           c == [t EXCEPT !.pc = "bind", !.obj = h]
<1>1. t \in Calls
  BY DEF IInv, ThreadOK
<1>2. t.path \in Paths /\ t.path \in Seq(Names)
  BY <1>1, PathsAreSequences DEF Calls
<1>3. MadeFrom(h, t.path)
  BY <1>2, StatedHandle DEF IInv
<1>4. h \in Handles
  BY <1>2, <1>3, MadeHandle
<1> HIDE DEF h
<1>5. c \in Calls
  BY <1>1, <1>4, PcNames DEF Calls
<1>6. c.pc = "bind" /\ c.obj = h /\ c.path = t.path
  BY <1>1 DEF Calls
<1>7. CallOK(c)
  BY <1>3, <1>6 DEF CallOK
<1>8. thread' = [thread EXCEPT ![g] = c]
  BY DEF h
<1>9. QED
  BY <1>5, <1>7, <1>8, QuietStep

\* The path of a child is a sequence of names.
LEMMA ChildPath ==
  ASSUME IInv, NEW g \in Threads, NEW name \in Names
  PROVE  Child(g, name) \in Seq(Names)
<1>1. thread[g].dir \in Seq(Names)
  BY PathsAreSequences DEF IInv, ThreadOK, Calls
<1>2. QED
  BY <1>1 DEF Child

-----------------------------------------------------------------------------
(* The handlers that only read. *)

\* GETATTR, ACCESS, FSINFO, PATHCONF, READDIRPLUS and COMMIT: one stat.
LEMMA StatHandlers ==
  ASSUME IInv, NEW g \in Threads,
         \/ GetFileAttr(g) \/ Access(g) \/ GetFileSysInfo(g)
         \/ GetPathConf(g) \/ ReadDirPlus(g) \/ Commit(g)
  PROVE  IInv'
<1>1. PICK st \in Statuses : First(g, "reply", st)
  <2>1. {"OK", "NOTSUPP", "ROFS", "INVAL"} \subseteq Statuses
    BY DEF Statuses
  <2>2. QED
    BY <2>1 DEF GetFileAttr, Access, GetFileSysInfo, GetPathConf,
                ReadDirPlus, Commit
<1>2. server = "up"
  BY DEF Serving, GetFileAttr, Access, GetFileSysInfo, GetPathConf,
         ReadDirPlus, Commit
<1>3. QED
  BY <1>1, <1>2, OpenPlain, FirstStep

\* FSSTAT, READDIR, READ and READLINK: a stat, a system call, a stat.
LEMMA ReadHandlers ==
  ASSUME IInv, NEW g \in Threads,
         GetFileSystemAttr(g) \/ ReadDir(g) \/ Read(g) \/ ReadLink(g)
  PROVE  IInv'
<1>1. /\ server = "up"
      /\ thread[g].op \notin Mutating
  BY DEF Serving, GetFileSystemAttr, ReadDir, Read, ReadLink, Mutating
<1>2. Open(g, "act") /\ Open(g, "reply") /\ Open(g, "post")
  BY <1>1, OpenPlain DEF Open
<1>3. {"OK", "STALE", "INVAL"} \subseteq Statuses
  BY DEF Statuses
<1>4. CASE First(g, "act", "STALE") \/ First(g, "post", "INVAL")
  BY <1>1, <1>2, <1>3, <1>4, FirstStep
<1>5. CASE Post(g)
  BY <1>1, <1>5, PostStep
<1>6. CASE OnlyThread /\ \E pc \in {"reply", "post"}, st \in Statuses :
                             Go(g, pc, st)
  BY <1>1, <1>2, <1>6, QuietGo
<1>7. QED
  <2>1. CASE GetFileSystemAttr(g)
    BY <2>1, <1>3, <1>4, <1>5, <1>6 DEF GetFileSystemAttr
  <2>2. CASE ReadDir(g)
    BY <2>2, <1>3, <1>4, <1>5, <1>6, StatusTypes DEF ReadDir
  <2>3. CASE Read(g)
    BY <2>3, <1>3, <1>4, <1>5, <1>6, StatusTypes DEF Read
  <2>4. CASE ReadLink(g)
    BY <2>4, <1>3, <1>4, <1>5, <1>6, StatusTypes DEF ReadLink
  <2>5. QED
    BY <2>1, <2>2, <2>3, <2>4

\* LOOKUP binds the handle of the child it stated.
LEMMA LookupStep ==
  ASSUME IInv, NEW g \in Threads, Lookup(g)
  PROVE  IInv'
<1>1. server = "up" /\ thread[g].op \notin Mutating
  BY DEF Serving, Lookup, Mutating
<1>2. Open(g, "act") /\ {"STALE", "ACCES"} \subseteq Statuses
  BY <1>1 DEF Open, Statuses
<1>3. CASE First(g, "act", "STALE")
  BY <1>1, <1>2, <1>3, FirstStep
<1>4. CASE Post(g)
  BY <1>1, <1>4, PostStep
<1>5. CASE Bind(g, "reply")
  BY <1>1, <1>5, BindStep
<1>6. CASE /\ UNCHANGED <<fhandleMap, server>>
           /\ \E st \in Statuses : Refuse(g, st)
  BY <1>1, <1>6, RefuseStep
<1>7. CASE /\ UNCHANGED <<fhandleMap, server>>
           /\ \E name \in Names :
                /\ "OK" \in Outcomes(LstatErr(Child(g, name)))
                /\ thread' = [thread EXCEPT ![g].pc = "bind",
                     ![g].path = Child(g, name),
                     ![g].obj = makeFHandle(Child(g, name),
                                            tree[Child(g, name)])]
                /\ UNCHANGED <<tree, node>>
  <2>1. PICK name \in Names :
                /\ "OK" \in Outcomes(LstatErr(Child(g, name)))
                /\ thread' = [thread EXCEPT ![g].pc = "bind",
                     ![g].path = Child(g, name),
                     ![g].obj = makeFHandle(Child(g, name),
                                            tree[Child(g, name)])]
                /\ UNCHANGED <<tree, node>>
    BY <1>7
  <2>2. LstatErr(Child(g, name)) = "OK"
    BY <2>1, ConfigAssumption DEF Outcomes, Errnos
  <2>3. OnlyThread
    BY <1>7, <2>1 DEF OnlyThread
  <2>4. QED
    BY <1>1, <2>1, <2>2, <2>3, ChildPath, BindReady
<1>8. QED
  BY <1>2, <1>3, <1>4, <1>5, <1>6, <1>7, StatusTypes DEF Lookup

-----------------------------------------------------------------------------
(* The handlers that change the file system. *)

\* A system call may succeed only where the host's state lets it: Faults are
\* errors.
LEMMA OutcomeOK ==
  ASSUME NEW e, "OK" \in Outcomes(e)
  PROVE  e = "OK"
  BY ConfigAssumption DEF Outcomes, Errnos

\* The stat of a new object: bind its handle, or give up with a status.
LEMMA StatObjectStep ==
  ASSUME IInv, server = "up", NEW g \in Threads, StatObject(g)
  PROVE  IInv'
<1>1. OnlyThread
  BY DEF StatObject
<1>2. CASE /\ "OK" \in Outcomes(LstatErr(thread[g].path))
           /\ thread' = [thread EXCEPT ![g].pc = "bind",
                ![g].obj = makeFHandle(thread[g].path, tree[thread[g].path])]
  BY <1>1, <1>2, OutcomeOK, StatedStep
<1>3. CASE \E st \in Statuses : Go(g, "post", st)
  BY <1>1, <1>3, QuietGo, OpenPlain
<1>4. \A op, e : StatFailed(op, e) \in Statuses
  BY StatusTypes DEF StatFailed, Statuses
<1>5. QED
  BY <1>2, <1>3, <1>4 DEF StatObject

\* Mkdir and Symlink of a child that got an inode.
LEMMA NewObjectStep ==
  ASSUME IInv, server = "up", NEW g \in Threads, NEW p \in Seq(Names),
         NEW i \in FreeInodes, NEW kind \in Kinds, WalkErr(p) = "OK",
         NEW fd \in Inodes \cup {NoInode},
         NEW how \in {"none", "UNCHECKED", "GUARDED"},
         NewObject(p, i, kind), Made(g, p, fd, how),
         UNCHANGED <<fhandleMap, server>>
  PROVE  IInv'
<1>1. i \in Inodes
  BY DEF FreeInodes
<1>2. p \in Paths
  BY WalkOK
<1>3. FsOK'
  BY <1>1, NewObjectType DEF IInv
<1>4. QED
  BY <1>2, <1>3, MadeStep

\* MKDIR.
LEMMA MkdirStep ==
  ASSUME IInv, NEW g \in Threads, Mkdir(g)
  PROVE  IInv'
<1>1. server = "up"
  BY DEF Serving, Mkdir
<1>2. CASE FirstWritable(g)
  BY <1>1, <1>2, FirstWritableStep
<1>3. CASE StatObject(g)
  BY <1>1, <1>3, StatObjectStep
<1>4. CASE Bind(g, "post")
  BY <1>1, <1>4, BindStep
<1>5. CASE Post(g)
  BY <1>1, <1>5, PostStep
<1>6. CASE /\ UNCHANGED <<fhandleMap, server>>
           /\ \E st \in Statuses : Refuse(g, st)
  BY <1>1, <1>6, RefuseStep
<1>7. CASE /\ UNCHANGED <<fhandleMap, server>>
           /\ \E name \in Names :
                LET p == Child(g, name) IN
                /\ "OK" \in Outcomes(NewErr(p, FreeInodes # {}))
                /\ \E i \in FreeInodes :
                     NewObject(p, i, "DIR") /\ Made(g, p, NoInode, "none")
  <2>1. PICK name \in Names :
          /\ "OK" \in Outcomes(NewErr(Child(g, name), FreeInodes # {}))
          /\ \E i \in FreeInodes :
               /\ NewObject(Child(g, name), i, "DIR")
               /\ Made(g, Child(g, name), NoInode, "none")
    BY <1>7
  <2>2. WalkErr(Child(g, name)) = "OK"
    BY <2>1, OutcomeOK DEF NewErr
  <2>3. QED
    BY <1>1, <1>7, <2>1, <2>2, ChildPath, NewObjectStep DEF Kinds
<1>8. QED
  <2>1. {"ACCES", "EXIST"} \subseteq Statuses
    BY DEF Statuses
  <2>2. QED
    BY <2>1, <1>2, <1>3, <1>4, <1>5, <1>6, <1>7, StatusTypes DEF Mkdir

\* SYMLINK.
LEMMA SymLinkStep ==
  ASSUME IInv, NEW g \in Threads, SymLink(g)
  PROVE  IInv'
<1>1. server = "up"
  BY DEF Serving, SymLink
<1>2. CASE FirstWritable(g)
  BY <1>1, <1>2, FirstWritableStep
<1>3. CASE StatObject(g)
  BY <1>1, <1>3, StatObjectStep
<1>4. CASE Bind(g, "post")
  BY <1>1, <1>4, BindStep
<1>5. CASE Post(g)
  BY <1>1, <1>5, PostStep
<1>6. CASE /\ UNCHANGED <<fhandleMap, server>>
           /\ \E st \in Statuses : Refuse(g, st)
  BY <1>1, <1>6, RefuseStep
<1>7. CASE /\ UNCHANGED <<fhandleMap, server>>
           /\ \E name \in Names :
                LET p == Child(g, name) IN
                /\ "OK" \in Outcomes(NewErr(p, FreeInodes # {}))
                /\ \E i \in FreeInodes :
                     NewObject(p, i, "LNK") /\ Made(g, p, NoInode, "none")
  <2>1. PICK name \in Names :
          /\ "OK" \in Outcomes(NewErr(Child(g, name), FreeInodes # {}))
          /\ \E i \in FreeInodes :
               /\ NewObject(Child(g, name), i, "LNK")
               /\ Made(g, Child(g, name), NoInode, "none")
    BY <1>7
  <2>2. WalkErr(Child(g, name)) = "OK"
    BY <2>1, OutcomeOK DEF NewErr
  <2>3. QED
    BY <1>1, <1>7, <2>1, <2>2, ChildPath, NewObjectStep DEF Kinds
<1>8. QED
  <2>1. "INVAL" \in Statuses
    BY DEF Statuses
  <2>2. QED
    BY <2>1, <1>2, <1>3, <1>4, <1>5, <1>6, <1>7, StatusTypes DEF SymLink

\* OpenFile succeeds for Create on a path the host accepts.
LEMMA OpenErrOK ==
  ASSUME NEW p \in Seq(Names), NEW how, OpenErr(how, p) = "OK"
  PROVE  p \in Paths
<1>1. WalkErr(p) = "OK"
  BY DEF OpenErr, CreatErr, NewErr, FollowErr, LstatErr
<1>2. QED
  BY <1>1, WalkOK

\* CREATE, of a new file or by truncating the one that is there.
LEMMA CreateFileStep ==
  ASSUME IInv, server = "up", NEW g \in Threads, NEW p \in Seq(Names),
         CreateFile(g, p), UNCHANGED <<fhandleMap, server>>
  PROVE  IInv'
<1>1. PICK how \in {"UNCHECKED", "GUARDED"} :
        \E e \in Outcomes(OpenErr(how, p)) :
          \/ e # "OK" /\ Refuse(g, getCreateErr(e))
          \/ /\ e = "OK" /\ Exists(p)
             /\ SetKind(tree[p], "EMPTY") /\ Made(g, p, tree[p], how)
          \/ /\ e = "OK" /\ ~Exists(p)
             /\ \E i \in FreeInodes :
                  NewObject(p, i, "EMPTY") /\ Made(g, p, i, how)
  BY DEF CreateFile
<1>2. PICK e \in Outcomes(OpenErr(how, p)) :
          \/ e # "OK" /\ Refuse(g, getCreateErr(e))
          \/ /\ e = "OK" /\ Exists(p)
             /\ SetKind(tree[p], "EMPTY") /\ Made(g, p, tree[p], how)
          \/ /\ e = "OK" /\ ~Exists(p)
             /\ \E i \in FreeInodes :
                  NewObject(p, i, "EMPTY") /\ Made(g, p, i, how)
  BY <1>1
<1>3. CASE e # "OK"
  BY <1>2, <1>3, RefuseStep, StatusTypes
<1>4. CASE e = "OK"
  <2>1. p \in Paths
    BY <1>4, OutcomeOK, OpenErrOK
  <2>2. CASE Exists(p)
    <3>1. tree[p] \in Inodes
      BY <2>2 DEF Exists, IInv, FsOK
    <3>2. SetKind(tree[p], "EMPTY") /\ Made(g, p, tree[p], how)
      BY <1>2, <1>4, <2>2
    <3>3. FsOK'
      BY <3>2, SetKindType DEF IInv, Kinds
    <3>4. QED
      BY <2>1, <3>1, <3>2, <3>3, MadeStep
  <2>3. CASE ~Exists(p)
    <3>1. PICK i \in FreeInodes : NewObject(p, i, "EMPTY") /\ Made(g, p, i, how)
      BY <1>2, <1>4, <2>3
    <3>2. i \in Inodes
      BY DEF FreeInodes
    <3>3. FsOK'
      BY <3>1, <3>2, NewObjectType DEF IInv, Kinds
    <3>4. QED
      BY <2>1, <3>1, <3>2, <3>3, MadeStep
  <2>4. QED
    BY <2>2, <2>3
<1>5. QED
  BY <1>3, <1>4

\* CREATE.
LEMMA CreateStep ==
  ASSUME IInv, NEW g \in Threads, Create(g)
  PROVE  IInv'
<1>1. server = "up"
  BY DEF Serving, Create
<1>2. CASE FirstWritable(g)
  BY <1>1, <1>2, FirstWritableStep
<1>3. CASE StatObject(g)
  BY <1>1, <1>3, StatObjectStep
<1>4. CASE Bind(g, "post")
  BY <1>1, <1>4, BindStep
<1>5. CASE Post(g)
  BY <1>1, <1>5, PostStep
<1>6. CASE Refuse(g, "INVAL") /\ UNCHANGED <<fhandleMap, server>>
  BY <1>1, <1>6, RefuseStep DEF Statuses
<1>7. CASE /\ UNCHANGED <<fhandleMap, server>>
           /\ \E name \in Names : CreateFile(g, Child(g, name))
  BY <1>1, <1>7, ChildPath, CreateFileStep
<1>8. QED
  BY <1>2, <1>3, <1>4, <1>5, <1>6, <1>7 DEF Create

\* A call at "act" that may change files got past the check of writeaccess.
LEMMA ActWritable ==
  ASSUME IInv, NEW g \in Threads, thread[g].op \in Mutating,
         At(g, "act") \/ At(g, "io") \/ At(g, "chattr")
  PROVE  writeaccess
  BY DEF IInv, ThreadOK, CallOK, At

\* A call that had its effect, perhaps at a path it notes, has its type still.
LEMMA DoneCall ==
  ASSUME NEW t \in Calls, NEW p \in Paths
  PROVE  /\ [t EXCEPT !.pc = "post", !.st = "OK", !.did = TRUE] \in Calls
         /\ [t EXCEPT !.pc = "post", !.st = "OK", !.did = TRUE].pc = "post"
         /\ [t EXCEPT !.pc = "post", !.path = p, !.st = "OK",
                      !.did = TRUE] \in Calls
         /\ [t EXCEPT !.pc = "post", !.path = p, !.st = "OK",
                      !.did = TRUE].pc = "post"
<1> "post" \in Pcs /\ "OK" \in Statuses
  BY DEF Pcs, Statuses
<1>1. [t EXCEPT !.pc = "post", !.st = "OK", !.did = TRUE] \in Calls
  BY DEF Calls
<1>2. [t EXCEPT !.pc = "post", !.path = p, !.st = "OK", !.did = TRUE] \in Calls
  BY DEF Calls
<1>3. QED
  BY <1>1, <1>2 DEF Calls

\* Such a call goes on to the post-operation stat.
LEMMA DoneStep ==
  ASSUME IInv, server = "up", NEW g \in Threads, FsOK', NEW p \in Paths,
         \/ thread' = [thread EXCEPT ![g].pc = "post", ![g].st = "OK",
                                     ![g].did = TRUE]
         \/ thread' = [thread EXCEPT ![g].pc = "post", ![g].path = p,
                                     ![g].st = "OK", ![g].did = TRUE],
         UNCHANGED <<fhandleMap, server>>
  PROVE  IInv'
<1>1. thread[g] \in Calls
  BY DEF IInv, ThreadOK
<1>2. PICK c \in Calls : c.pc = "post" /\ thread' = [thread EXCEPT ![g] = c]
  <2>1. CASE thread' = [thread EXCEPT ![g].pc = "post", ![g].st = "OK",
                                      ![g].did = TRUE]
    <3> DEFINE c == [thread[g] EXCEPT !.pc = "post", !.st = "OK",
                                      !.did = TRUE]
    <3>1. thread' = [thread EXCEPT ![g] = c]
      BY <2>1
    <3>2. QED
      BY <1>1, <3>1, DoneCall
  <2>2. CASE thread' = [thread EXCEPT ![g].pc = "post", ![g].path = p,
                                      ![g].st = "OK", ![g].did = TRUE]
    <3> DEFINE c == [thread[g] EXCEPT !.pc = "post", !.path = p, !.st = "OK",
                                      !.did = TRUE]
    <3>1. thread' = [thread EXCEPT ![g] = c]
      BY <2>2
    <3>2. QED
      BY <1>1, <3>1, DoneCall
  <2>3. QED
    BY <2>1, <2>2
<1>3. CallOK(c)
  BY <1>2 DEF CallOK
<1>4. QED
  BY <1>2, <1>3, FsStep

\* A file that could be opened for writing is there.
LEMMA OpenedExists ==
  ASSUME IInv, NEW p, WriteOpenErr(p) = "OK"
  PROVE  p \in DOMAIN tree /\ tree[p] \in Inodes /\ KindAt(p) \in Kinds
  BY DEF WriteOpenErr, FollowErr, LstatErr, Exists, KindAt, IInv, FsOK

\* SETATTR, truncation first.
LEMMA SetattrStep ==
  ASSUME IInv, NEW g \in Threads, Setattr(g)
  PROVE  IInv'
<1> DEFINE p == thread[g].dir
<1>1. server = "up" /\ thread[g].op \in Mutating
  BY DEF Serving, Setattr, Mutating
<1>2. {"OK", "NOT_SYNC", "STALE"} \subseteq Statuses
  BY DEF Statuses
<1>3. CASE FirstWritable(g)
  BY <1>1, <1>3, FirstWritableStep
<1>4. CASE Post(g)
  BY <1>1, <1>4, PostStep
<1>5. CASE OnlyThread /\ \E st \in Statuses : Go(g, "post", st)
  BY <1>1, <1>5, QuietGo, OpenPlain
<1>6. CASE At(g, "act") /\ Go(g, "chattr", "STALE") /\ OnlyThread
  <2>1. Open(g, "chattr")
    BY <1>1, <1>6, ActWritable DEF Open
  <2>2. QED
    BY <1>1, <1>2, <1>6, <2>1, QuietGo
<1>7. CASE /\ At(g, "act") /\ UNCHANGED <<fhandleMap, server>>
           /\ "OK" \in Outcomes(WriteOpenErr(p))
           /\ \E kind \in {"EMPTY", KindAt(p)} :
                /\ SetKind(tree[p], kind)
                /\ thread' = [thread EXCEPT ![g].pc = "chattr",
                     ![g].how = "SIZE", ![g].did = TRUE]
  <2> DEFINE c == [thread[g] EXCEPT !.pc = "chattr", !.how = "SIZE",
                                    !.did = TRUE]
  <2>1. thread[g] \in Calls
    BY DEF IInv, ThreadOK
  <2>2. c \in Calls
    BY <2>1, PcNames DEF Calls
  <2>3. c.pc = "chattr"
    BY <2>1 DEF Calls
  <2>4. CallOK(c)
    BY <2>3, <1>1, <1>7, ActWritable DEF CallOK
  <2>5. PICK kind \in {"EMPTY", KindAt(p)} : SetKind(tree[p], kind)
    BY <1>7
  <2>6. kind \in Kinds
    BY <1>7, OutcomeOK, OpenedExists DEF Kinds
  <2>7. FsOK'
    BY <2>5, <2>6, SetKindType DEF IInv
  <2>8. thread' = [thread EXCEPT ![g] = c]
    BY <1>7
  <2>9. QED
    BY <1>1, <1>7, <2>2, <2>4, <2>7, <2>8, FsStep
<1>8. QED
  BY <1>1, <1>2, <1>3, <1>4, <1>5, <1>6, <1>7, StatusTypes
     DEF Setattr, Refuse, OnlyThread

\* WRITE: open, then write into the inode that was opened.
LEMMA WriteStep ==
  ASSUME IInv, NEW g \in Threads, Write(g)
  PROVE  IInv'
<1> DEFINE p == thread[g].dir
<1>1. server = "up" /\ thread[g].op \in Mutating
  BY DEF Serving, Write, Mutating
<1>2. CASE FirstWritable(g)
  BY <1>1, <1>2, FirstWritableStep
<1>3. CASE First(g, "post", "INVAL")
  BY <1>1, <1>3, FirstStep, OpenPlain DEF Statuses
<1>4. CASE Post(g)
  BY <1>1, <1>4, PostStep
<1>5. CASE OnlyThread /\ \E st \in Statuses : Go(g, "post", st)
  BY <1>1, <1>5, QuietGo, OpenPlain
<1>6. CASE /\ At(g, "act") /\ OnlyThread
           /\ "OK" \in Outcomes(WriteOpenErr(p))
           /\ thread' = [thread EXCEPT ![g].pc = "io", ![g].fd = tree[p]]
  <2> DEFINE c == [thread[g] EXCEPT !.pc = "io", !.fd = tree[p]]
  <2>1. thread[g] \in Calls
    BY DEF IInv, ThreadOK
  <2>2. tree[p] \in Inodes
    BY <1>6, OutcomeOK, OpenedExists
  <2>3. c \in Calls
    BY <2>1, <2>2, PcNames DEF Calls
  <2>4. c.pc = "io"
    BY <2>1 DEF Calls
  <2>5. CallOK(c)
    BY <2>4, <1>1, <1>6, ActWritable DEF CallOK
  <2>6. QED
    BY <1>1, <1>6, <2>3, <2>5, QuietStep
<1>7. CASE /\ UNCHANGED <<fhandleMap, server>>
           /\ \E kind : /\ thread[g].fd \in Inodes => kind \in Kinds
                        /\ SetKind(thread[g].fd, kind)
           /\ thread' = [thread EXCEPT ![g].pc = "post",
                           ![g].st = "OK", ![g].did = TRUE]
  <2>1. FsOK'
    BY <1>7, SetKindType DEF IInv
  <2>2. QED
    BY <1>1, <1>7, <2>1, RootPath, DoneStep
<1>8. QED
  <2>1. CASE At(g, "io")
    <3> DEFINE kind == IF node[thread[g].fd] \in Regular
                       THEN "DATA" ELSE node[thread[g].fd]
    <3>1. thread[g].fd \in Inodes => kind \in Kinds
      BY DEF IInv, FsOK, Kinds
    <3>2. \/ /\ \E e : Refuse(g, getWriteErr(e))
             /\ UNCHANGED <<fhandleMap, server>>
          \/ /\ SetKind(thread[g].fd, kind)
             /\ thread' = [thread EXCEPT ![g].pc = "post",
                             ![g].st = "OK", ![g].did = TRUE]
             /\ UNCHANGED <<fhandleMap, server>>
      BY <2>1 DEF Write, At, FirstWritable, First, OnStat, deleteHandle, Post
    <3>3. QED
      BY <3>1, <3>2, <1>5, <1>7, StatusTypes DEF Refuse, OnlyThread
  <2>2. CASE ~At(g, "io")
    BY <2>2, <1>2, <1>3, <1>4, <1>5, <1>6, StatusTypes DEF Write, At
  <2>3. QED
    BY <2>1, <2>2

\* REMOVE.
LEMMA RemoveStep ==
  ASSUME IInv, NEW g \in Threads, RemoveFile(g)
  PROVE  IInv'
<1>1. server = "up"
  BY DEF Serving, RemoveFile
<1>2. CASE FirstWritable(g)
  BY <1>1, <1>2, FirstWritableStep
<1>3. CASE Post(g)
  BY <1>1, <1>3, PostStep
<1>4. CASE UNCHANGED <<fhandleMap, server>> /\ \E st \in Statuses : Refuse(g, st)
  BY <1>1, <1>4, RefuseStep
<1>5. CASE /\ UNCHANGED <<fhandleMap, server>>
           /\ \E name \in Names : DropName(Child(g, name))
           /\ thread' = [thread EXCEPT ![g].pc = "post",
                           ![g].st = "OK", ![g].did = TRUE]
  <2>1. FsOK'
    BY <1>5, DropNameType DEF IInv
  <2>2. QED
    BY <1>1, <1>5, <2>1, RootPath, DoneStep
<1>6. QED
  <2>1. "INVAL" \in Statuses
    BY DEF Statuses
  <2>2. QED
    BY <2>1, <1>2, <1>3, <1>4, <1>5, StatusTypes DEF RemoveFile

\* One of the names RMDIR may be given.
LEMMA RmdirAtStep ==
  ASSUME IInv, server = "up", NEW g \in Threads, NEW p \in Seq(Names),
         NEW err, err = "OK" => RmdirErr(p) = "OK",
         RmdirAt(g, p, err), UNCHANGED <<fhandleMap, server>>
  PROVE  IInv'
<1>1. CASE \E e : Refuse(g, getRmdirErr(e))
  BY <1>1, RefuseStep, StatusTypes
<1>2. CASE /\ "OK" \in Outcomes(err)
           /\ DropName(p)
           /\ thread' = [thread EXCEPT ![g].pc = "post", ![g].path = p,
                           ![g].st = "OK", ![g].did = TRUE]
  <2>1. p \in Paths
    BY <1>2, OutcomeOK, LstatOK DEF RmdirErr
  <2>2. FsOK'
    BY <1>2, DropNameType DEF IInv
  <2>3. QED
    BY <1>2, <2>1, <2>2, DoneStep
<1>3. QED
  BY <1>1, <1>2 DEF RmdirAt

\* RMDIR.
LEMMA RmdirStep ==
  ASSUME IInv, NEW g \in Threads, Rmdir(g)
  PROVE  IInv'
<1> DEFINE d == thread[g].dir
<1>1. server = "up"
  BY DEF Serving, Rmdir
<1>2. CASE FirstWritable(g)
  BY <1>1, <1>2, FirstWritableStep
<1>3. CASE Post(g)
  BY <1>1, <1>3, PostStep
<1>4. d \in Seq(Names)
  BY PathsAreSequences DEF IInv, ThreadOK, Calls
<1>5. CASE /\ UNCHANGED <<fhandleMap, server>>
           /\ RmdirAt(g, d, RmdirErr(d))
  BY <1>1, <1>4, <1>5, RmdirAtStep
<1>6. CASE /\ UNCHANGED <<fhandleMap, server>>
           /\ RmdirAt(g, d, IF RmdirErr(d) \in {"OK", "ENOTEMPTY"} THEN "EINVAL"
                            ELSE RmdirErr(d))
  BY <1>1, <1>4, <1>6, RmdirAtStep
<1>7. CASE /\ UNCHANGED <<fhandleMap, server>>
           /\ \E name \in Names :
                RmdirAt(g, Child(g, name), RmdirErr(Child(g, name)))
  BY <1>1, <1>7, ChildPath, RmdirAtStep
<1>8. ASSUME NEW top \in Names, NEW name \in Names,
             UNCHANGED <<fhandleMap, server>>,
             RmdirAt(g, Append(Child(g, top), name),
                     RmdirErr(Append(Child(g, top), name)))
      PROVE  IInv'
  <2>1. Append(Child(g, top), name) \in Seq(Names)
    BY ChildPath
  <2>2. QED
    BY <1>1, <1>8, <2>1, RmdirAtStep
<1>9. QED
  BY <1>2, <1>3, <1>5, <1>6, <1>7, <1>8 DEF Rmdir

-----------------------------------------------------------------------------
(* The handlers of two handles. *)

\* Looking the second handle up, where "found" and "lost" rely on nothing.
LEMMA SecondStep ==
  ASSUME IInv, server = "up", NEW g \in Threads, NEW at,
         NEW found \in {"statAlt", "stat2"}, NEW lost, Open(g, lost),
         Second(g, at, found, lost)
  PROVE  IInv'
<1>1. OnlyThread
  BY DEF Second
<1>2. CASE Go(g, lost, thread[g].st)
  BY <1>1, <1>2, QuietGo, StatusOfCall
<1>3. CASE \E h \in DOMAIN fhandleMap :
             thread' = [thread EXCEPT ![g].pc = found, ![g].fh2 = h,
                                      ![g].dir2 = fhandleMap[h]]
  <2>1. PICK h \in DOMAIN fhandleMap :
          thread' = [thread EXCEPT ![g].pc = found, ![g].fh2 = h,
                                   ![g].dir2 = fhandleMap[h]]
    BY <1>3
  <2> DEFINE p == fhandleMap[h]
             c == [thread[g] EXCEPT !.pc = found, !.fh2 = h, !.dir2 = p]
  <2>2. h \in Handles /\ p \in Paths /\ found \in Pcs
    BY DEF IInv, MapOK, Pcs
  <2>3. thread' = [thread EXCEPT ![g] = c]
    BY <2>1
  <2>4. thread[g] \in Calls
    BY DEF IInv, ThreadOK
  <2> HIDE DEF p
  <2>5. c \in Calls /\ c.pc = found
    BY <2>2, <2>4 DEF Calls
  <2>6. CallOK(c)
    BY <2>5 DEF CallOK
  <2>7. QED
    BY <1>1, <2>3, <2>5, <2>6, QuietStep
<1>4. QED
  BY <1>2, <1>3 DEF Second

\* The stats of both objects at the start of RENAME and LINK.
LEMMA BothStep ==
  ASSUME IInv, server = "up", NEW g \in Threads, Both(g)
  PROVE  IInv'
<1> DEFINE t == thread[g]
<1>1. {"STALE", "ROFS"} \subseteq Statuses
  BY DEF Statuses
<1>2. writeaccess => Open(g, "act")
  BY DEF Open
<1>3. \A pc \in {"reply", "drop", "drop2", "dropFirst", "dropSecond", "alt",
                 "statAlt", "get2", "stat2", "statAgain"} : Open(g, pc)
  BY OpenPlain
<1>4. CASE \/ OnStat(g, "stat", t.dir, "get2", "STALE", "dropFirst")
           \/ OnStat(g, "statAlt", t.dir2, "reply", "STALE", "drop2")
           \/ OnStat(g, "statAgain", t.dir, "reply", "STALE", "drop")
  BY <1>1, <1>3, <1>4, OnStatStep
<1>5. CASE IF writeaccess
           THEN OnStat(g, "stat2", t.dir2, "act", "STALE", "dropSecond")
           ELSE OnStat(g, "stat2", t.dir2, "reply", "ROFS", "dropSecond")
  BY <1>1, <1>2, <1>3, <1>5, OnStatStep
<1>6. CASE \/ deleteHandle(g, "dropFirst", t.fh, "alt")
           \/ deleteHandle(g, "dropSecond", t.fh2, "statAgain")
           \/ deleteHandle(g, "drop", t.fh, "reply")
           \/ deleteHandle(g, "drop2", t.fh2, "reply")
  BY <1>3, <1>6, DeleteStep
<1>7. CASE \/ Second(g, "alt", "statAlt", "reply")
           \/ Second(g, "get2", "stat2", "statAgain")
  BY <1>3, <1>7, SecondStep
<1>8. QED
  BY <1>4, <1>5, <1>6, <1>7 DEF Both

\* A name appended to a path of the export.
LEMMA ChildOf ==
  ASSUME NEW p \in Paths, NEW name \in Names
  PROVE  /\ Append(p, name) \in Seq(Names)
         /\ name \in Silly => IsSilly(Append(p, name))
  BY PathsAreSequences DEF IsSilly, Last

\* os.Rename.
LEMMA RenameToStep ==
  ASSUME IInv, server = "up", NEW g \in Threads, NEW from \in Seq(Names),
         NEW to \in Seq(Names), NEW silly \in BOOLEAN, silly => IsSilly(to),
         RenameTo(g, from, to, silly), UNCHANGED <<fhandleMap, server>>
  PROVE  IInv'
<1> DEFINE h == makeFHandle(from, tree[from])
           held == IF /\ silly /\ h \in DOMAIN fhandleMap
                      /\ fhandleMap[h] = from
                   THEN h ELSE NoHandle
           pc == IF silly THEN "silly" ELSE "post"
           c == [thread[g] EXCEPT !.pc = pc, !.st = "OK", !.src = from,
                   !.path = to, !.did = TRUE, !.held = held]
<1>1. CASE \E e : Refuse(g, getRenameErr(e))
  BY <1>1, RefuseStep, StatusTypes
<1>2. CASE /\ "OK" \in Outcomes(RenameErr(from, to))
           /\ Move(from, to)
           /\ thread' = [thread EXCEPT
                ![g].pc = pc, ![g].st = "OK", ![g].src = from, ![g].path = to,
                ![g].did = TRUE, ![g].held = held]
  <2>1. from \in Paths /\ to \in Paths
    BY <1>2, OutcomeOK, LstatOK, WalkOK DEF RenameErr
  <2>2. held \in Handles \cup {NoHandle} /\ pc \in {"silly", "post"}
    BY DEF IInv, MapOK
  <2>3. thread[g] \in Calls
    BY DEF IInv, ThreadOK
  <2>4. c \in Calls /\ c.pc = pc /\ c.path = to
    <3>1. pc \in Pcs /\ "OK" \in Statuses
      BY DEF Pcs, Statuses
    <3> HIDE DEF held, pc
    <3>2. QED
      BY <2>1, <2>2, <2>3, <3>1 DEF Calls
  <2>5. thread' = [thread EXCEPT ![g] = c]
    BY <1>2
  <2>6. CallOK(c)
    <3>1. c.pc = "silly" => IsSilly(c.path)
      BY <2>4
    <3>2. c.pc \in {"silly", "post"}
      BY <2>4
    <3>3. QED
      BY <3>1, <3>2 DEF CallOK
  <2>7. FsOK'
    BY <1>2, MoveType DEF IInv
  <2>8. QED
    BY <2>4, <2>5, <2>6, <2>7, FsStep
<1>3. QED
  BY <1>1, <1>2 DEF RenameTo

\* After a silly rename: stat, get, set.
LEMMA SillyRenameStep ==
  ASSUME IInv, server = "up", NEW g \in Threads, SillyRename(g)
  PROVE  IInv'
<1> DEFINE t == thread[g]
<1>1. t \in Calls /\ CallOK(t)
  BY DEF IInv, ThreadOK
<1>2. t.path \in Paths /\ t.src \in Paths
  BY <1>1 DEF Calls
<1>3. CASE OnlyThread /\ Go(g, "post", "OK")
  BY <1>3, QuietGo, OpenPlain DEF Statuses
<1>4. CASE /\ At(g, "silly") /\ OnlyThread
           /\ "OK" \in Outcomes(LstatErr(t.path))
           /\ thread' = [thread EXCEPT ![g].pc = "sillyGet",
                           ![g].obj = makeFHandle(t.src, tree[t.path])]
  <2> DEFINE h == makeFHandle(t.src, tree[t.path])
             c == [t EXCEPT !.pc = "sillyGet", !.obj = h]
  <2>1. t.path \in DOMAIN tree
    BY <1>2, <1>4, OutcomeOK, LstatOK, PathsAreSequences
  <2>2. h \in Handles
    BY <1>2, <2>1, HandleAssumption DEF IInv, FsOK
  <2>3. thread' = [thread EXCEPT ![g] = c]
    BY <1>4
  <2> HIDE DEF h
  <2>4. c \in Calls
    BY <1>1, <2>2, PcNames DEF Calls
  <2>5. c.pc = "sillyGet" /\ c.obj = h /\ c.path = t.path
    BY <1>1 DEF Calls
  <2>6. CallOK(c)
    BY <1>1, <1>4, <2>2, <2>5 DEF At, CallOK
  <2>7. QED
    BY <1>4, <2>3, <2>4, <2>6, QuietStep
<1>5. CASE /\ At(g, "sillyGet") /\ OnlyThread /\ Go(g, "sillySet", "OK")
  <2> DEFINE c == [t EXCEPT !.pc = "sillySet", !.st = "OK"]
  <2>0. "sillySet" \in Pcs /\ "OK" \in Statuses
    BY DEF Pcs, Statuses
  <2>1. c \in Calls
    BY <1>1, <2>0 DEF Calls
  <2>2. c.pc = "sillySet" /\ c.obj = t.obj /\ c.path = t.path
    BY <1>1 DEF Calls
  <2>3. CallOK(c)
    BY <1>1, <1>5, <2>2 DEF At, CallOK
  <2>4. thread' = [thread EXCEPT ![g] = c]
    BY <1>5 DEF Go
  <2>5. QED
    BY <1>5, <2>1, <2>3, <2>4, QuietStep
<1>6. CASE /\ At(g, "sillyGet") /\ t.obj \in DOMAIN fhandleMap
           /\ fhandleMap[t.obj] # t.src
           /\ thread' = [thread EXCEPT ![g].found = fhandleMap[t.obj]]
           /\ server' = "fatal" /\ UNCHANGED <<tree, node, fhandleMap>>
  <2> DEFINE f == fhandleMap[t.obj]
             c == [t EXCEPT !.found = f]
  <2>1. f \in Paths /\ (MadeFrom(t.obj, f) \/ IsSilly(f)) /\ f # t.src
    BY <1>6 DEF IInv, MapOK, HandleOrigin
  <2>2. thread' = [thread EXCEPT ![g] = c]
    BY <1>6
  <2> HIDE DEF f
  <2>3. c \in Calls
    BY <1>1, <2>1 DEF Calls
  <2>4. /\ c.pc = "sillyGet" /\ c.obj = t.obj /\ c.found = f
        /\ c.path = t.path /\ c.src = t.src
    BY <1>1, <1>6 DEF At, Calls
  <2>5. CallOK(c)
    BY <1>1, <1>6, <2>4 DEF At, CallOK
  <2>6. ThreadOK'
    BY <2>2, <2>3, <2>5, ThreadStep DEF IInv
  <2>7. thread'[g] = c
    BY <2>2 DEF IInv, ThreadOK
  <2>8. Fatal(c)
    BY <2>1, <2>4 DEF Fatal
  <2>9. ServerOK'
    BY <1>6, <2>7, <2>8 DEF ServerOK, Fatal, MadeFrom, IsSilly
  <2>10. FsOK' /\ MapOK'
    BY <1>6 DEF IInv, FsOK, MapOK, HandleOrigin
  <2>11. QED
    BY <2>6, <2>9, <2>10 DEF IInv
<1>7. CASE setValueforHandle(g, "sillySet", t.obj, t.path, "post")
  <2>1. t.obj \in Handles /\ IsSilly(t.path)
    BY <1>1, <1>7 DEF setValueforHandle, At, CallOK
  <2>2. QED
    BY <1>2, <1>7, <2>1, OpenPlain, SetStep
<1>8. QED
  <2>1. CASE At(g, "silly")
    <3>1. OnlyThread
      BY <2>1 DEF SillyRename, At, setValueforHandle
    <3>2. \/ Go(g, "post", "OK")
          \/ /\ "OK" \in Outcomes(LstatErr(t.path))
             /\ thread' = [thread EXCEPT ![g].pc = "sillyGet",
                             ![g].obj = makeFHandle(t.src, tree[t.path])]
      BY <2>1 DEF SillyRename, At, setValueforHandle
    <3>3. QED
      BY <1>3, <1>4, <2>1, <3>1, <3>2
  <2>2. CASE At(g, "sillyGet")
    <3>1. UNCHANGED <<tree, node, fhandleMap>>
      BY <2>2 DEF SillyRename, At, setValueforHandle
    <3>2. IF t.obj \notin DOMAIN fhandleMap
          THEN Go(g, "post", "OK") /\ server' = server
          ELSE IF fhandleMap[t.obj] = t.src
          THEN Go(g, "sillySet", "OK") /\ server' = server
          ELSE /\ thread' = [thread EXCEPT ![g].found = fhandleMap[t.obj]]
               /\ server' = "fatal"
      BY <2>2 DEF SillyRename, At, setValueforHandle
    <3>3. QED
      BY <1>3, <1>5, <1>6, <2>2, <3>1, <3>2 DEF OnlyThread
  <2>3. QED
    BY <1>7, <2>1, <2>2 DEF SillyRename

\* RENAME.
LEMMA RenameStep ==
  ASSUME IInv, NEW g \in Threads, Rename(g)
  PROVE  IInv'
<1> DEFINE t == thread[g]
<1>1. server = "up"
  BY DEF Serving, Rename
<1>2. t.dir \in Paths /\ t.dir2 \in Paths
  BY DEF IInv, ThreadOK, Calls
<1>3. CASE Both(g)
  BY <1>1, <1>3, BothStep
<1>4. CASE SillyRename(g)
  BY <1>1, <1>4, SillyRenameStep
<1>5. CASE Refuse(g, "INVAL") /\ UNCHANGED <<fhandleMap, server>>
  BY <1>1, <1>5, RefuseStep DEF Statuses
<1>6. CASE /\ UNCHANGED <<fhandleMap, server>>
           /\ \E fromName, toName \in Names :
                RenameTo(g, Append(t.dir, fromName), Append(t.dir2, toName),
                         HasSillyPrefix(toName))
  <2>1. PICK fromName \in Names, toName \in Names :
          RenameTo(g, Append(t.dir, fromName), Append(t.dir2, toName),
                   HasSillyPrefix(toName))
    BY <1>6
  <2> DEFINE from == Append(t.dir, fromName)
             to == Append(t.dir2, toName)
             silly == HasSillyPrefix(toName)
  <2>2. from \in Seq(Names) /\ to \in Seq(Names)
    BY <1>2, ChildOf
  <2>3. silly \in BOOLEAN /\ (silly => IsSilly(to))
    BY <1>2, ChildOf DEF HasSillyPrefix
  <2>4. RenameTo(g, from, to, silly)
    BY <2>1
  <2> HIDE DEF from, to, silly
  <2>5. QED
    BY <1>1, <1>6, <2>2, <2>3, <2>4, RenameToStep
<1>7. CASE \/ OnStat(g, "post", t.dir, "post2", t.st, "dropFrom")
           \/ OnStat(g, "post2", t.dir2, "reply", t.st, "drop2")
  BY <1>1, <1>7, OnStatStep, OpenPlain, StatusOfCall
<1>8. CASE deleteHandle(g, "dropFrom", t.fh, "post2")
  BY <1>1, <1>8, DeleteStep, OpenPlain
<1>9. QED
  BY <1>3, <1>4, <1>5, <1>6, <1>7, <1>8 DEF Rename

\* LINK.
LEMMA LinkStep ==
  ASSUME IInv, NEW g \in Threads, Link(g)
  PROVE  IInv'
<1> DEFINE t == thread[g]
<1>1. server = "up"
  BY DEF Serving, Link
<1>2. t.dir2 \in Seq(Names)
  BY PathsAreSequences DEF IInv, ThreadOK, Calls
<1>3. CASE Both(g)
  BY <1>1, <1>3, BothStep
<1>4. CASE UNCHANGED <<fhandleMap, server>> /\ \E st \in Statuses : Refuse(g, st)
  BY <1>1, <1>4, RefuseStep
<1>5. CASE /\ UNCHANGED <<fhandleMap, server>>
           /\ \E newName \in Names :
                LET p == Child(g, newName) IN
                /\ "OK" \in Outcomes(LinkErr(t.dir2, p))
                /\ NewName(t.dir2, p)
                /\ thread' = [thread EXCEPT ![g].pc = "post",
                     ![g].path = p, ![g].st = "OK", ![g].did = TRUE]
  <2>1. PICK newName \in Names :
          /\ "OK" \in Outcomes(LinkErr(t.dir2, Child(g, newName)))
          /\ NewName(t.dir2, Child(g, newName))
          /\ thread' = [thread EXCEPT ![g].pc = "post",
               ![g].path = Child(g, newName), ![g].st = "OK", ![g].did = TRUE]
    BY <1>5
  <2> DEFINE p == Child(g, newName)
  <2>2. p \in Seq(Names)
    BY ChildPath
  <2>3. LinkErr(t.dir2, p) = "OK"
    BY <2>1, OutcomeOK
  <2>4. LstatErr(t.dir2) = "OK" /\ WalkErr(p) = "OK"
    BY <2>3 DEF LinkErr
  <2>5. t.dir2 \in DOMAIN tree /\ p \in Paths
    BY <1>2, <2>2, <2>4, LstatOK, WalkOK
  <2>6. FsOK'
    BY <2>1, <2>2, <2>5, NewNameType DEF IInv
  <2>7. QED
    BY <1>1, <1>5, <2>1, <2>5, <2>6, DoneStep
<1>6. CASE \/ OnStat(g, "post", t.dir, "post2", t.st, "drop")
           \/ OnStat(g, "post2", t.dir2, "reply", t.st, "drop2")
  BY <1>1, <1>6, OnStatStep, OpenPlain, StatusOfCall
<1>7. QED
  <2>1. "INVAL" \in Statuses
    BY DEF Statuses
  <2>2. QED
    BY <2>1, <1>3, <1>4, <1>5, <1>6, StatusTypes DEF Link

-----------------------------------------------------------------------------
(* Calls that arrive and end, the MOUNT program, a restart. *)

\* A goroutine without a call, and one whose call has just arrived.
LEMMA IdleOK == Idle \in Calls /\ CallOK(Idle)
  BY RootPath DEF Idle, Calls, Pcs, Statuses, CallOK

\* A call arrives.
LEMMA ReceiveStep ==
  ASSUME IInv, NEW g \in Threads, Receive(g)
  PROVE  IInv'
<1>1. server = "up" /\ OnlyThread
  BY DEF Receive
<1>2. PICK op \in Ops, fh \in DOMAIN fhandleMap \cup {NoHandle} :
       thread' = [thread EXCEPT ![g] =
         IF fh # NoHandle
         THEN [Idle EXCEPT !.pc = "stat", !.op = op, !.fh = fh,
                           !.dir = fhandleMap[fh]]
         ELSE [Idle EXCEPT !.pc = IF op \in TwoHandles THEN "alt" ELSE "reply",
                           !.op = op]]
  BY DEF Receive
<1>3. op \in Procedures
  BY OpsAssumption
<1>4. CASE fh # NoHandle
  <2> DEFINE d == fhandleMap[fh]
             c == [Idle EXCEPT !.pc = "stat", !.op = op, !.fh = fh, !.dir = d]
  <2>1. fh \in Handles /\ d \in Paths
    BY <1>4 DEF IInv, MapOK
  <2>2. thread' = [thread EXCEPT ![g] = c]
    BY <1>2, <1>4
  <2> HIDE DEF d
  <2>3. c \in Calls /\ c.pc = "stat"
    BY <1>3, <2>1, IdleOK, PcNames DEF Calls
  <2>4. CallOK(c)
    BY <2>3 DEF CallOK
  <2>5. QED
    BY <1>1, <2>2, <2>3, <2>4, QuietStep
<1>5. CASE fh = NoHandle
  <2> DEFINE pc == IF op \in TwoHandles THEN "alt" ELSE "reply"
             c == [Idle EXCEPT !.pc = pc, !.op = op]
  <2>1. thread' = [thread EXCEPT ![g] = c]
    BY <1>2, <1>5
  <2>2. pc \in {"alt", "reply"}
    OBVIOUS
  <2>0. pc \in Pcs
    BY <2>2 DEF Pcs
  <2> HIDE DEF pc
  <2>3. c \in Calls /\ c.pc = pc
    BY <1>3, <2>0, IdleOK DEF Calls
  <2>4. CallOK(c)
    BY <2>2, <2>3 DEF CallOK
  <2>5. QED
    BY <1>1, <2>1, <2>3, <2>4, QuietStep
<1>6. QED
  BY <1>4, <1>5

\* A call ends.
LEMMA ReturnStep ==
  ASSUME IInv, NEW g \in Threads, Return(g)
  PROVE  IInv'
  BY IdleOK, QuietStep DEF Return

\* A call of MNT or UMNT.
LEMMA ArriveStep ==
  ASSUME IInv, server = "up", NEW g \in Threads,
         NEW op \in {"MNT", "UMNT"}, NEW pc \in {"reply", "mntSet", "umntDel"},
         NEW st \in Statuses, Arrive(g, op, pc, st)
  PROVE  IInv'
<1> DEFINE c == [Idle EXCEPT !.pc = pc, !.op = op, !.st = st]
<1>1. thread' = [thread EXCEPT ![g] = c] /\ OnlyThread
  BY DEF Arrive
<1>2. pc \in Pcs /\ op \in Procedures
  BY DEF Pcs, Procedures
<1>3. c \in Calls /\ c.pc = pc
  BY <1>2, IdleOK DEF Calls
<1>4. CallOK(c)
  BY <1>3 DEF CallOK
<1>5. QED
  BY <1>1, <1>3, <1>4, QuietStep

\* MNT binds the handle of the export to its path.
LEMMA MountStep ==
  ASSUME IInv, NEW g \in Threads, Mount(g)
  PROVE  IInv'
<1>1. server = "up"
  BY DEF Mount, Called, Serving
<1>2. CASE \E pc \in {"reply", "mntSet"}, st \in Statuses :
             Arrive(g, "MNT", pc, st)
  BY <1>1, <1>2, ArriveStep
<1>3. CASE setValueforHandle(g, "mntSet", ExportHandle, <<>>, "reply")
  <2>1. ExportHandle \in Handles /\ MadeFrom(ExportHandle, <<>>)
    BY RootPath, RootAssumption, HandleAssumption DEF ExportHandle, MadeFrom
  <2>2. QED
    BY <1>1, <1>3, <2>1, RootPath, OpenPlain, SetStep
<1>4. QED
  BY <1>2, <1>3 DEF Mount, Statuses

\* UMNT takes it out.
LEMMA UnMountStep ==
  ASSUME IInv, NEW g \in Threads, UnMount(g)
  PROVE  IInv'
<1>1. server = "up"
  BY DEF UnMount, Called, Serving
<1>2. CASE \E pc \in {"reply", "umntDel"}, st \in Statuses :
             Arrive(g, "UMNT", pc, st)
  BY <1>1, <1>2, ArriveStep
<1>3. CASE deleteHandle(g, "umntDel", ExportHandle, "reply")
  BY <1>1, <1>3, OpenPlain, DeleteStep
<1>4. QED
  BY <1>2, <1>3 DEF UnMount, Statuses

\* A restart forgets the table and all calls.
LEMMA RestartStep ==
  ASSUME IInv, Restart
  PROVE  IInv'
<1>1. FsOK'
  BY DEF Restart, IInv, FsOK
<1>2. MapOK'
  BY DEF Restart, MapOK, HandleOrigin
<1>3. ThreadOK'
  BY IdleOK DEF Restart, ThreadOK, CallOK, MadeFrom, IsSilly
<1>4. ServerOK'
  BY DEF Restart, ServerOK
<1>5. QED
  BY <1>1, <1>2, <1>3, <1>4 DEF IInv

-----------------------------------------------------------------------------
(* The theorems. *)

\* The server starts with an empty table and no calls.
LEMMA InitIInv == Init => IInv
<1> SUFFICES ASSUME Init PROVE IInv
  OBVIOUS
<1>1. FsOK
  BY ExportAssumption DEF Init, FsOK
<1>2. MapOK /\ ServerOK
  BY DEF Init, MapOK, HandleOrigin, ServerOK
<1>3. ThreadOK
  BY IdleOK DEF Init, ThreadOK
<1>4. QED
  BY <1>1, <1>2, <1>3 DEF IInv

\* No step of any handler, no restart and no stuttering breaks the invariant.
LEMMA NextIInv == IInv /\ [Next]_vars => IInv'
<1> SUFFICES ASSUME IInv, [Next]_vars PROVE IInv'
  OBVIOUS
<1>1. CASE UNCHANGED vars
  BY <1>1 DEF vars, IInv, FsOK, MapOK, HandleOrigin, ThreadOK, CallOK,
              MadeFrom, IsSilly, ServerOK, Fatal
<1>2. CASE Restart
  BY <1>2, RestartStep
<1>3. ASSUME NEW g \in Threads, Handler(g)
      PROVE  IInv'
  BY <1>3, StatHandlers, ReadHandlers, LookupStep, MkdirStep, SymLinkStep,
     CreateStep, SetattrStep, WriteStep, RemoveStep, RmdirStep, RenameStep,
     LinkStep DEF Handler
<1>4. ASSUME NEW g \in Threads, Receive(g) \/ Serve(g)
      PROVE  IInv'
  BY <1>3, <1>4, ReceiveStep, ReturnStep, MountStep, UnMountStep DEF Serve
<1>5. QED
  BY <1>1, <1>2, <1>4 DEF Next, Work

\* The invariant holds in every state the server may reach.
THEOREM Invariance == Spec => []IInv
<1>1. QED
  BY InitIInv, NextIInv, PTL DEF Spec

\* Types: the table only ever maps handles to paths the host accepts, and a
\* reply carries a status NFS defines.
THEOREM TypeCorrect == Spec => []TypeOK
<1>1. IInv => TypeOK
  BY DEF IInv, FsOK, MapOK, ThreadOK, ServerOK, TypeOK
<1>2. QED
  BY <1>1, Invariance, PTL

\* setValueforHandle never binds a handle to a path it was not made from, but
\* for the ".nfs" names of Rename, whatever the goroutines interleave.
THEOREM HandlesKeepOrigin == Spec => []HandleOrigin
<1>1. IInv => HandleOrigin
  BY DEF IInv, MapOK
<1>2. QED
  BY <1>1, Invariance, PTL

\* On an export where no name starts with ".nfs", log.Fatalf is only ever
\* called when two paths were given one handle.
THEOREM NoFalseCollision ==
  ASSUME Silly = {}
  PROVE  Spec => []FatalOnlyOnCollision
<1>1. IInv => FatalOnlyOnCollision
  BY DEF IInv, ServerOK, Fatal, FatalOnlyOnCollision, IsSilly
<1>2. QED
  BY <1>1, Invariance, PTL

-----------------------------------------------------------------------------
(* The read-only export. *)

\* The steps handlers share leave the file system alone.
LEMMA SharedStepsQuiet ==
  ASSUME NEW g,
         \/ FirstWritable(g) \/ Post(g) \/ Both(g) \/ SillyRename(g)
         \/ \E good, st : First(g, good, st)
         \/ \E next : Bind(g, next)
         \/ \E at, p, good, st, bad : OnStat(g, at, p, good, st, bad)
         \/ \E at, h, next : deleteHandle(g, at, h, next)
  PROVE  UNCHANGED <<tree, node>>
<1>1. CASE \E at, p, good, st, bad : OnStat(g, at, p, good, st, bad)
  BY <1>1 DEF OnStat, OnlyThread
<1>2. CASE \E at, h, next : deleteHandle(g, at, h, next)
  BY <1>2 DEF deleteHandle
<1>3. CASE \E good, st : First(g, good, st)
  BY <1>1, <1>2, <1>3 DEF First
<1>4. CASE FirstWritable(g)
  BY <1>3, <1>4 DEF FirstWritable
<1>5. CASE Post(g)
  BY <1>1, <1>5 DEF Post
<1>6. CASE \E next : Bind(g, next)
  BY <1>6 DEF Bind, GetFound, Found, CheckFound, OnlyThread,
              setValueforHandle
<1>7. CASE SillyRename(g)
  BY <1>7 DEF SillyRename, OnlyThread, setValueforHandle
<1>8. CASE Both(g)
  <2>1. CASE \E at, found, lost : Second(g, at, found, lost)
    BY <2>1 DEF Second, OnlyThread
  <2>2. QED
    BY <1>1, <1>2, <1>8, <2>1 DEF Both
<1>9. QED
  BY <1>1, <1>2, <1>3, <1>4, <1>5, <1>6, <1>7, <1>8

\* With writeaccess off the steps that change files are out of reach.
LEMMA HandlerReadOnly ==
  ASSUME IInv, ~writeaccess, NEW g \in Threads, Handler(g)
  PROVE  UNCHANGED <<tree, node>>
<1>1. thread[g].op \in Mutating =>
        ~At(g, "act") /\ ~At(g, "io") /\ ~At(g, "chattr")
  BY ActWritable
<1>2. CASE \/ GetFileAttr(g) \/ Access(g) \/ GetFileSysInfo(g)
           \/ GetPathConf(g) \/ ReadDirPlus(g) \/ Commit(g)
  BY <1>2, SharedStepsQuiet
     DEF GetFileAttr, Access, GetFileSysInfo, GetPathConf, ReadDirPlus, Commit
<1>3. CASE GetFileSystemAttr(g) \/ ReadDir(g)
  BY <1>3, SharedStepsQuiet DEF GetFileSystemAttr, ReadDir, OnlyThread
<1>4. CASE Read(g) \/ ReadLink(g)
  BY <1>4, SharedStepsQuiet DEF Read, ReadLink, OnlyThread
<1>5. CASE Lookup(g)
  BY <1>5, SharedStepsQuiet DEF Lookup, Refuse
<1>6. CASE Mkdir(g)
  <2>1. thread[g].op \in Mutating
    BY <1>6 DEF Mkdir, Serving, Mutating
  <2>2. QED
    BY <1>1, <1>6, <2>1, SharedStepsQuiet DEF Mkdir, StatObject, OnlyThread
<1>7. CASE SymLink(g)
  <2>1. thread[g].op \in Mutating
    BY <1>7 DEF SymLink, Serving, Mutating
  <2>2. QED
    BY <1>1, <1>7, <2>1, SharedStepsQuiet DEF SymLink, StatObject, OnlyThread
<1>8. CASE Create(g)
  <2>1. thread[g].op \in Mutating
    BY <1>8 DEF Create, Serving, Mutating
  <2>2. QED
    BY <1>1, <1>8, <2>1, SharedStepsQuiet DEF Create, StatObject, OnlyThread
<1>9. CASE Setattr(g)
  <2>1. thread[g].op \in Mutating
    BY <1>9 DEF Setattr, Serving, Mutating
  <2>2. QED
    BY <1>1, <1>9, <2>1, SharedStepsQuiet DEF Setattr, OnlyThread
<1>10. CASE Write(g)
  <2>1. thread[g].op \in Mutating
    BY <1>10 DEF Write, Serving, Mutating
  <2>2. QED
    BY <1>1, <1>10, <2>1, SharedStepsQuiet DEF Write, OnlyThread
<1>11. CASE RemoveFile(g)
  <2>1. thread[g].op \in Mutating
    BY <1>11 DEF RemoveFile, Serving, Mutating
  <2>2. QED
    BY <1>1, <1>11, <2>1, SharedStepsQuiet DEF RemoveFile
<1>12. CASE Rmdir(g)
  <2>1. thread[g].op \in Mutating
    BY <1>12 DEF Rmdir, Serving, Mutating
  <2>2. QED
    BY <1>1, <1>12, <2>1, SharedStepsQuiet DEF Rmdir
<1>13. CASE Rename(g)
  <2>1. thread[g].op \in Mutating
    BY <1>13 DEF Rename, Serving, Mutating
  <2>2. QED
    BY <1>1, <1>13, <2>1, SharedStepsQuiet DEF Rename
<1>14. CASE Link(g)
  <2>1. thread[g].op \in Mutating
    BY <1>14 DEF Link, Serving, Mutating
  <2>2. QED
    BY <1>1, <1>14, <2>1, SharedStepsQuiet DEF Link
<1>15. QED
  BY <1>2, <1>3, <1>4, <1>5, <1>6, <1>7, <1>8, <1>9, <1>10, <1>11, <1>12,
     <1>13, <1>14 DEF Handler

\* writeaccess = false: nothing a client does changes the export.
THEOREM ReadOnly == Spec => ReadOnlyExport
<1>1. IInv /\ [Next]_vars => [writeaccess \/ UNCHANGED <<tree, node>>]_vars
  <2> SUFFICES ASSUME IInv, Next, ~writeaccess PROVE UNCHANGED <<tree, node>>
    OBVIOUS
  <2>1. CASE Restart
    BY <2>1 DEF Restart
  <2>2. ASSUME NEW g \in Threads, Receive(g) \/ Serve(g)
        PROVE  UNCHANGED <<tree, node>>
    <3>1. CASE Receive(g) \/ Return(g)
      BY <3>1 DEF Receive, Return, OnlyThread
    <3>2. CASE Mount(g)
      BY <3>2 DEF Mount, Arrive, OnlyThread, setValueforHandle
    <3>3. CASE UnMount(g)
      BY <3>3 DEF UnMount, Arrive, OnlyThread, deleteHandle
    <3>4. QED
      BY <2>2, <3>1, <3>2, <3>3, HandlerReadOnly DEF Serve
  <2>3. QED
    BY <2>1, <2>2 DEF Next, Work
<1>2. QED
  BY <1>1, Invariance, PTL DEF Spec, ReadOnlyExport

-----------------------------------------------------------------------------
(* The refinement: the calls of ExportService, and what is true of each. *)

\* The steps before the effect of a call.
Before == {"idle", "stat", "act", "io", "get2", "stat2", "dropFirst",
           "dropSecond", "statAgain", "alt", "statAlt"}

\* The procedures that name a new object, and what they do with its handle.
Makers == {"MKDIR", "SYMLINK", "CREATE"}
Naming == {"new", "bind", "check", "set"}
Following == {"silly", "sillyGet", "sillySet"}

\* A call of op at the step pc, with or without its effect, has status st.
StatusFits(op, did, pc, st) ==
  /\ pc = "idle" <=> op = "none"
  /\ pc \in Before => ~did /\ st # "OK"
  /\ pc \in Naming => op = "LOOKUP" \/ (op \in Makers /\ did)
  /\ pc \in Following => did /\ st = "OK"
  /\ st = "OK" /\ op \in Service!ByEffect => did
  /\ st # "OK" /\ did => op \in Service!HalfWay

Told(c) == StatusFits(c.op, c.did, c.pc, c.st)
AllTold == \A g \in Threads : Told(thread[g])

\* What a call made of its history in a step that emptied a file (DataKept).
Emptying(c) == c.how \in {"SIZE", "UNCHECKED"}
KeptBy(c) ==
  \A i \in Inodes : node[i] = "DATA" /\ node'[i] = "EMPTY" => Emptying(c)

-----------------------------------------------------------------------------
(* What a step of a handler is to ExportService. *)

\* Only the call of g moves.
OnlyCall(g) == \A h \in Threads \ {g} : thread'[h] = thread[h]

\* The effect of a call, and how much it may be.
Acts(g) ==
  /\ writeaccess
  /\ ~thread[g].did /\ thread'[g].did
  /\ thread'[g].pc # "reply"
  /\ Service!Change(thread[g].op)
  /\ KeptBy(thread'[g])

\* A step that a call takes after it arrived and before it is answered.
Goes(g) ==
  /\ OnlyCall(g)
  /\ thread[g].pc \notin {"idle", "reply"} /\ thread'[g].pc # "idle"
  /\ thread'[g].op = thread[g].op
  /\ \/ thread'[g].did = thread[g].did /\ UNCHANGED <<tree, node>>
     \/ Acts(g)
  /\ Told(thread'[g])

\* The handler goes on, with a status, and nothing else happens.
LEMMA GoGoes ==
  ASSUME IInv, NEW g \in Threads, NEW pc, NEW st, Go(g, pc, st),
         UNCHANGED <<tree, node>>, thread[g].pc \notin {"idle", "reply"},
         pc # "idle", StatusFits(thread[g].op, thread[g].did, pc, st)
  PROVE  Goes(g)
<1>1. thread[g] \in Calls /\ thread \in [Threads -> Calls]
  BY DEF IInv, ThreadOK
<1>2. thread' = [thread EXCEPT ![g] = [thread[g] EXCEPT !.pc = pc, !.st = st]]
  BY DEF Go
<1>3. OnlyCall(g)
  BY <1>1, <1>2 DEF OnlyCall
<1>4. thread'[g] = [thread[g] EXCEPT !.pc = pc, !.st = st]
  BY <1>1, <1>2
<1>5. /\ thread'[g].pc = pc /\ thread'[g].st = st
      /\ thread'[g].op = thread[g].op /\ thread'[g].did = thread[g].did
  BY <1>1, <1>4 DEF Calls
<1>6. QED
  BY <1>3, <1>5 DEF Goes, Told

\* getFileAttrFromPath, as every handler calls it.
LEMMA OnStatGoes ==
  ASSUME IInv, NEW g \in Threads, NEW at, at \notin {"idle", "reply"}, NEW p,
         NEW good, NEW st, NEW bad, OnStat(g, at, p, good, st, bad),
         good # "idle", StatusFits(thread[g].op, thread[g].did, good, st),
         bad # "idle", StatusFits(thread[g].op, thread[g].did, bad, thread[g].st)
  PROVE  Goes(g)
<1>1. /\ Go(g, good, st) \/ Go(g, bad, thread[g].st)
      /\ UNCHANGED <<tree, node>> /\ thread[g].pc = at
  BY DEF OnStat, OnlyThread, At
<1>2. QED
  BY <1>1, GoGoes

\* deleteHandle and setValueforHandle.
LEMMA DeleteGoes ==
  ASSUME IInv, NEW g \in Threads, NEW at, at \notin {"idle", "reply"}, NEW h,
         NEW next, deleteHandle(g, at, h, next),
         next # "idle", StatusFits(thread[g].op, thread[g].did, next, thread[g].st)
  PROVE  Goes(g)
<1>1. /\ Go(g, next, thread[g].st)
      /\ UNCHANGED <<tree, node>> /\ thread[g].pc = at
  BY DEF deleteHandle, At
<1>2. QED
  BY <1>1, GoGoes

LEMMA SetGoes ==
  ASSUME IInv, NEW g \in Threads, NEW at, at \notin {"idle", "reply"}, NEW h,
         NEW p, NEW next, setValueforHandle(g, at, h, p, next),
         next # "idle", StatusFits(thread[g].op, thread[g].did, next, thread[g].st)
  PROVE  Goes(g)
<1>1. /\ Go(g, next, thread[g].st)
      /\ UNCHANGED <<tree, node>> /\ thread[g].pc = at
  BY DEF setValueforHandle, At
<1>2. QED
  BY <1>1, GoGoes

\* The first stat of a handler, or the dropping of the handle: only a
\* procedure that has no effect to tell of succeeds by it.
LEMMA FirstGoes ==
  ASSUME IInv, AllTold, NEW g \in Threads, NEW good \in {"act", "post", "reply"},
         NEW st, First(g, good, st), thread[g].op # "none",
         st = "OK" => good = "reply" /\ thread[g].op \notin Service!ByEffect
  PROVE  Goes(g)
<1> DEFINE t == thread[g]
<1>1. StatusFits(t.op, t.did, t.pc, t.st)
  BY DEF AllTold, Told
<1>2. CASE OnStat(g, "stat", t.dir, good, st, "drop")
  <2>1. t.pc = "stat"
    BY <1>2 DEF OnStat, At
  <2>2. ~t.did /\ t.st # "OK"
    BY <1>1, <2>1 DEF StatusFits, Before
  <2>3. StatusFits(t.op, t.did, good, st) /\ StatusFits(t.op, t.did, "drop", t.st)
    BY <2>2 DEF StatusFits, Before, Naming, Following
  <2>4. QED
    BY <1>2, <2>3, OnStatGoes
<1>3. CASE deleteHandle(g, "drop", t.fh, "reply")
  <2>1. t.pc = "drop"
    BY <1>3 DEF deleteHandle, At
  <2>2. StatusFits(t.op, t.did, "reply", t.st)
    BY <1>1, <2>1 DEF StatusFits, Before, Naming, Following
  <2>3. QED
    BY <1>3, <2>2, DeleteGoes
<1>4. QED
  BY <1>2, <1>3 DEF First

LEMMA FirstWritableGoes ==
  ASSUME IInv, AllTold, NEW g \in Threads, FirstWritable(g), thread[g].op # "none"
  PROVE  Goes(g)
  BY FirstGoes DEF FirstWritable

\* The post-operation stat keeps what the call is to answer.
LEMMA PostGoes ==
  ASSUME IInv, AllTold, NEW g \in Threads, Post(g)
  PROVE  Goes(g)
<1> DEFINE t == thread[g]
<1>1. t.pc = "post" /\ StatusFits(t.op, t.did, t.pc, t.st)
  BY DEF Post, OnStat, At, AllTold, Told
<1>2. /\ StatusFits(t.op, t.did, "reply", t.st)
      /\ StatusFits(t.op, t.did, "drop", t.st)
  BY <1>1 DEF StatusFits, Before, Naming, Following
<1>3. QED
  BY <1>2, OnStatGoes DEF Post

\* A system call that fails, or a name that is refused, before the effect.
LEMMA RefuseGoes ==
  ASSUME IInv, AllTold, NEW g \in Threads, thread[g].op # "none",
         At(g, "act") \/ At(g, "io"), NEW st, st # "OK", Refuse(g, st)
  PROVE  Goes(g)
<1> DEFINE t == thread[g]
<1>1. t.pc \in {"act", "io"} /\ StatusFits(t.op, t.did, t.pc, t.st)
  BY DEF At, AllTold, Told
<1>2. StatusFits(t.op, t.did, "post", st)
  BY <1>1 DEF StatusFits, Before, Naming, Following
<1>3. QED
  BY <1>1, <1>2, GoGoes DEF Refuse

\* An error number is never answered with OK.
LEMMA ErrorsTold ==
  ASSUME NEW e
  PROVE  /\ getLookupErr(e) # "OK" /\ getMkdirErr(e) # "OK"
         /\ getRenameErr(e) # "OK" /\ getCreateErr(e) # "OK"
         /\ getSetattrErr(e) # "OK" /\ getWriteErr(e) # "OK"
         /\ getRemoveErr(e) # "OK" /\ getRmdirErr(e) # "OK"
         /\ getSymLinkErr(e) # "OK" /\ getLinkErr(e) # "OK"
<1>1. getLookupErr(e) # "OK" /\ getMkdirErr(e) # "OK"
  BY DEF getLookupErr, getMkdirErr, Status
<1>2. getRenameErr(e) # "OK"
  BY DEF getRenameErr, Status
<1>3. getCreateErr(e) # "OK" /\ getSetattrErr(e) # "OK"
  BY DEF getCreateErr, getSetattrErr, Status
<1>4. getWriteErr(e) # "OK"
  BY DEF getWriteErr, Status
<1>5. getRemoveErr(e) # "OK"
  BY DEF getRemoveErr, Status
<1>6. getRmdirErr(e) # "OK"
  BY <1>5 DEF getRmdirErr
<1>7. getSymLinkErr(e) # "OK"
  BY DEF getSymLinkErr, Status
<1>8. getLinkErr(e) # "OK"
  BY <1>7 DEF getLinkErr, Status
<1>9. QED
  BY <1>1, <1>2, <1>3, <1>4, <1>5, <1>6, <1>7, <1>8

\* A step that leaves procedure, effect and file system alone.
LEMMA SameGoes ==
  ASSUME IInv, IInv', NEW g \in Threads, NEW t \in Calls, NEW c,
         t = thread[g], thread' = [thread EXCEPT ![g] = c],
         UNCHANGED <<tree, node>>, t.pc \notin {"idle", "reply"},
         c.pc # "idle", c.op = t.op, c.did = t.did,
         StatusFits(t.op, t.did, c.pc, c.st)
  PROVE  Goes(g)
<1>1. thread \in [Threads -> Calls]
  BY DEF IInv, ThreadOK
<1>2. OnlyCall(g) /\ thread'[g] = c
  BY <1>1 DEF OnlyCall
<1>3. QED
  BY <1>2 DEF Goes, Told

\* Putting the handle of an object into the table, in all its steps.
LEMMA BindGoes ==
  ASSUME IInv, IInv', AllTold, NEW g \in Threads, thread[g].op # "none",
         NEW next \in {"reply", "post"}, Bind(g, next)
  PROVE  Goes(g)
<1> DEFINE t == thread[g]
<1>1. t \in Calls /\ thread \in [Threads -> Calls]
  BY DEF IInv, ThreadOK
<1>2. StatusFits(t.op, t.did, t.pc, t.st)
  BY DEF AllTold, Told
<1>3. t.pc \in {"bind", "check", "set"}
  BY DEF Bind, GetFound, Found, CheckFound, setValueforHandle, At
<1>4. t.op = "LOOKUP" \/ (t.op \in Makers /\ t.did)
  BY <1>2, <1>3 DEF StatusFits, Naming
<1>5. \A pc \in {"reply", "post", "check", "set"}, st \in {"OK", t.st} :
        StatusFits(t.op, t.did, pc, st)
  BY <1>2, <1>3, <1>4 DEF StatusFits, Before, Naming, Following, Makers,
                          Service!ByEffect, Service!HalfWay
<1>6. CASE GetFound(g, next)
  <2> DEFINE f == IF t.obj \in DOMAIN fhandleMap THEN fhandleMap[t.obj]
                  ELSE t.path
             pc == IF t.obj \notin DOMAIN fhandleMap THEN "set"
                   ELSE IF fhandleMap[t.obj] = t.path THEN next ELSE "check"
             c == [t EXCEPT !.found = f, !.pc = pc, !.st = "OK"]
  <2>1. thread' = [thread EXCEPT ![g] = c] /\ UNCHANGED <<tree, node>>
    BY <1>6 DEF GetFound, Found, OnlyThread
  <2>2. pc \in {"reply", "post", "check", "set"}
    OBVIOUS
  <2> HIDE DEF f, pc
  <2>3. c.pc = pc /\ c.op = t.op /\ c.did = t.did /\ c.st = "OK"
    BY <1>1 DEF Calls
  <2>4. StatusFits(t.op, t.did, c.pc, c.st) /\ c.pc # "idle"
    BY <1>5, <2>2, <2>3
  <2> HIDE DEF c
  <2>5. QED
    BY <1>1, <1>3, <2>1, <2>3, <2>4, SameGoes
<1>7. CASE CheckFound(g)
  <2>1. \/ UNCHANGED thread
        \/ Go(g, "set", t.st)
    BY <1>7 DEF CheckFound
  <2>2. UNCHANGED <<tree, node>>
    BY <1>7 DEF CheckFound
  <2>3. CASE UNCHANGED thread
    BY <1>2, <1>3, <2>2, <2>3 DEF Goes, OnlyCall, Told
  <2>4. CASE Go(g, "set", t.st)
    BY <1>3, <1>5, <2>2, <2>4, GoGoes
  <2>5. QED
    BY <2>1, <2>3, <2>4
<1>8. CASE setValueforHandle(g, "set", t.obj, t.path, next)
  BY <1>5, <1>8, SetGoes
<1>9. QED
  BY <1>6, <1>7, <1>8 DEF Bind

-----------------------------------------------------------------------------
(* The handlers that only read. *)

\* GETATTR, ACCESS, FSINFO, PATHCONF, READDIRPLUS and COMMIT: one stat.
LEMMA StatHandlersGo ==
  ASSUME IInv, AllTold, NEW g \in Threads,
         \/ GetFileAttr(g) \/ Access(g) \/ GetFileSysInfo(g)
         \/ GetPathConf(g) \/ ReadDirPlus(g) \/ Commit(g)
  PROVE  Goes(g)
<1>1. PICK st : First(g, "reply", st)
  BY DEF GetFileAttr, Access, GetFileSysInfo, GetPathConf, ReadDirPlus, Commit
<1>2. thread[g].op \in {"GETATTR", "ACCESS", "FSINFO", "PATHCONF",
                        "READDIRPLUS", "COMMIT"}
  BY DEF GetFileAttr, Access, GetFileSysInfo, GetPathConf, ReadDirPlus,
         Commit, Serving
<1>3. QED
  BY <1>1, <1>2, FirstGoes DEF Service!ByEffect

\* The other procedures that only read answer what they like.
LEMMA AnswerGoes ==
  ASSUME IInv, AllTold, NEW g \in Threads, At(g, "act"),
         thread[g].op \in {"FSSTAT", "READDIR", "READ", "READLINK"},
         NEW pc \in {"reply", "post"}, NEW st, Go(g, pc, st), OnlyThread
  PROVE  Goes(g)
<1> DEFINE t == thread[g]
<1>1. StatusFits(t.op, t.did, t.pc, t.st) /\ t.pc = "act"
  BY DEF AllTold, Told, At
<1>2. StatusFits(t.op, t.did, pc, st)
  BY <1>1 DEF StatusFits, Before, Naming, Following, Service!ByEffect
<1>3. QED
  BY <1>1, <1>2, GoGoes DEF OnlyThread

LEMMA ReadHandlersGo ==
  ASSUME IInv, AllTold, NEW g \in Threads,
         GetFileSystemAttr(g) \/ ReadDir(g) \/ Read(g) \/ ReadLink(g)
  PROVE  Goes(g)
<1>1. thread[g].op \in {"FSSTAT", "READDIR", "READ", "READLINK"}
  BY DEF GetFileSystemAttr, ReadDir, Read, ReadLink, Serving
<1>2. \/ First(g, "act", "STALE") \/ First(g, "post", "INVAL") \/ Post(g)
      \/ /\ At(g, "act") /\ OnlyThread
         /\ \E pc \in {"reply", "post"} : \E st : Go(g, pc, st)
  BY DEF GetFileSystemAttr, ReadDir, Read, ReadLink
<1>3. QED
  BY <1>1, <1>2, FirstGoes, PostGoes, AnswerGoes

\* LOOKUP.
LEMMA LookupGoes ==
  ASSUME IInv, IInv', AllTold, NEW g \in Threads, Lookup(g)
  PROVE  Goes(g)
<1> DEFINE t == thread[g]
<1>1. t.op = "LOOKUP"
  BY DEF Lookup, Serving
<1>2. CASE First(g, "act", "STALE")
  BY <1>1, <1>2, FirstGoes
<1>3. CASE Bind(g, "reply")
  BY <1>1, <1>3, BindGoes
<1>4. CASE Post(g)
  BY <1>4, PostGoes
<1>5. CASE At(g, "act") /\ \E st : st # "OK" /\ Refuse(g, st)
  BY <1>1, <1>5, RefuseGoes
<1>6. CASE /\ At(g, "act") /\ UNCHANGED <<tree, node>>
           /\ \E p, h : thread' = [thread EXCEPT ![g].pc = "bind",
                                     ![g].path = p, ![g].obj = h]
  <2>1. PICK p, h : thread' = [thread EXCEPT ![g].pc = "bind",
                                 ![g].path = p, ![g].obj = h]
    BY <1>6
  <2> DEFINE c == [t EXCEPT !.pc = "bind", !.path = p, !.obj = h]
  <2>2. t \in Calls /\ t.pc = "act" /\ StatusFits(t.op, t.did, t.pc, t.st)
    BY <1>6 DEF IInv, ThreadOK, At, AllTold, Told
  <2>3. thread' = [thread EXCEPT ![g] = c]
    BY <2>1
  <2>4. c.pc = "bind" /\ c.op = t.op /\ c.did = t.did /\ c.st = t.st
    BY <2>2 DEF Calls
  <2>5. StatusFits(t.op, t.did, c.pc, c.st)
    BY <1>1, <2>2, <2>4 DEF StatusFits, Before, Naming, Following
  <2> HIDE DEF c
  <2>6. QED
    BY <1>6, <2>2, <2>3, <2>4, <2>5, SameGoes
<1>7. QED
  BY <1>2, <1>3, <1>4, <1>5, <1>6, ErrorsTold DEF Lookup

-----------------------------------------------------------------------------
(* ExportService knows the same host file system as the backend. *)

LEMMA SameErrors ==
  ASSUME NEW p, NEW q, NEW room
  PROVE  /\ Service!NewErr(p, room) = NewErr(p, room)
         /\ Service!WriteOpenErr(p) = WriteOpenErr(p)
         /\ Service!UnlinkErr(p) = UnlinkErr(p)
         /\ Service!RmdirErr(p) = RmdirErr(p)
         /\ Service!LinkErr(p, q) = LinkErr(p, q)
         /\ Service!RenameErr(p, q) = RenameErr(p, q)
<1>0. \A x, y : /\ Service!IsPrefix(x, y) = IsPrefix(x, y)
                /\ Service!IsStrictPrefix(x, y) = IsStrictPrefix(x, y)
  BY DEF Service!IsPrefix, IsPrefix, Service!IsStrictPrefix, IsStrictPrefix
<1>1. \A x : /\ Service!Exists(x) = Exists(x) /\ Service!KindAt(x) = KindAt(x)
             /\ Service!Ancestors(x) = Ancestors(x)
             /\ Service!Children(x) = Children(x)
  BY <1>0 DEF Service!Exists, Exists, Service!KindAt, KindAt,
              Service!Ancestors, Ancestors, Service!Children, Children
<1>2. \A x : /\ Service!IsDir(x) = IsDir(x) /\ Service!IsReg(x) = IsReg(x)
             /\ Service!IsLink(x) = IsLink(x)
  BY <1>1 DEF Service!IsDir, IsDir, Service!IsReg, IsReg, Service!IsLink,
              IsLink, Service!Regular, Regular
<1>3. \A x : Service!WalkErr(x) = WalkErr(x)
  BY <1>1, <1>2 DEF Service!WalkErr, WalkErr
<1>4. \A x : Service!LstatErr(x) = LstatErr(x)
  BY <1>1, <1>3 DEF Service!LstatErr, LstatErr
<1>5. \A x : Service!FollowErr(x) = FollowErr(x)
  BY <1>2, <1>4 DEF Service!FollowErr, FollowErr
<1>6. Service!NewErr(p, room) = NewErr(p, room)
  BY <1>1, <1>3 DEF Service!NewErr, NewErr
<1>7. /\ Service!WriteOpenErr(p) = WriteOpenErr(p)
      /\ Service!UnlinkErr(p) = UnlinkErr(p)
  BY <1>2, <1>4, <1>5 DEF Service!WriteOpenErr, WriteOpenErr,
                          Service!UnlinkErr, UnlinkErr
<1>8. Service!RmdirErr(p) = RmdirErr(p)
  BY <1>1, <1>2, <1>4 DEF Service!RmdirErr, RmdirErr
<1>9. Service!LinkErr(p, q) = LinkErr(p, q)
  BY <1>1, <1>2, <1>3, <1>4 DEF Service!LinkErr, LinkErr
<1>10. Service!RenameErr(p, q) = RenameErr(p, q)
  BY <1>0, <1>1, <1>2, <1>3, <1>4 DEF Service!RenameErr, RenameErr
<1>11. QED
  BY <1>6, <1>7, <1>8, <1>9, <1>10

LEMMA SameCalls ==
  ASSUME NEW p, NEW q, NEW i, NEW kind
  PROVE  /\ NewObject(p, i, kind) => Service!NewObject(p, i, kind)
         /\ NewName(p, q) => Service!NewName(p, q)
         /\ DropName(p) => Service!DropName(p)
         /\ SetKind(i, kind) => Service!SetKind(i, kind)
         /\ Move(p, q) => Service!Move(p, q)
<1>1. \A t, kinds : Settle(t, kinds) => Service!Settle(t, kinds)
  BY DEF Settle, Service!Settle
<1>2. \A x, j : Service!With(x, j) = With(x, j)
  BY DEF With, Service!With
<1>3. Service!Renamed(p, q) = Renamed(p, q)
  <2>1. \A x, y : Service!IsPrefix(x, y) = IsPrefix(x, y)
    BY DEF Service!IsPrefix, IsPrefix
  <2>2. \A x, y, z : Service!Rebase(x, y, z) = Rebase(x, y, z)
    BY DEF Service!Rebase, Rebase
  <2>3. QED
    BY <2>1, <2>2 DEF Renamed, Service!Renamed
<1>4. Service!SameObject(p, q) = SameObject(p, q)
  BY DEF SameObject, Service!SameObject, Exists, Service!Exists
<1>5. Move(p, q) => Service!Move(p, q)
  BY <1>1, <1>3, <1>4 DEF Move, Service!Move
<1>6. SetKind(i, kind) => Service!SetKind(i, kind)
  BY DEF SetKind, Service!SetKind
<1>7. NewObject(p, i, kind) => Service!NewObject(p, i, kind)
  BY <1>1, <1>2 DEF NewObject, Service!NewObject
<1>8. NewName(p, q) => Service!NewName(p, q)
  BY <1>1, <1>2 DEF NewName, Service!NewName
<1>9. DropName(p) => Service!DropName(p)
  BY <1>1 DEF DropName, Service!DropName, Restrict, Service!Restrict
<1>10. QED
  BY <1>5, <1>6, <1>7, <1>8, <1>9

-----------------------------------------------------------------------------
(* The one effect of a call. *)

\* Objects that come, go and move keep what the files hold.
LEMMA SettleKept ==
  ASSUME NEW t, NEW kinds, Settle(t, kinds),
         \A i \in Inodes : node[i] = "DATA" => kinds[i] # "EMPTY", NEW c
  PROVE  KeptBy(c)
  BY DEF Settle, KeptBy

LEMMA DroppedKept ==
  ASSUME NEW p, DropName(p), NEW c
  PROVE  KeptBy(c)
  BY SettleKept DEF DropName

LEMMA LinkedKept ==
  ASSUME NEW p, NEW q, NewName(p, q), NEW c
  PROVE  KeptBy(c)
  BY SettleKept DEF NewName

LEMMA MovedKept ==
  ASSUME NEW p, NEW q, Move(p, q), NEW c
  PROVE  KeptBy(c)
<1>1. CASE UNCHANGED <<tree, node>>
  BY <1>1 DEF KeptBy
<1>2. CASE Settle(Renamed(p, q), node)
  BY <1>2, SettleKept
<1>3. QED
  BY <1>1, <1>2 DEF Move

LEMMA MadeKept ==
  ASSUME IInv, NEW p, NEW i \in FreeInodes, NEW kind, NewObject(p, i, kind),
         NEW c
  PROVE  KeptBy(c)
<1>1. \A j \in Inodes : node[j] = "DATA" => [node EXCEPT ![i] = kind][j] # "EMPTY"
  BY DEF IInv, FsOK, FreeInodes
<1>2. QED
  BY <1>1, SettleKept DEF NewObject

\* A system call for a call that has had none yet, in the call's procedure.
LEMMA EffectGoes ==
  ASSUME IInv, IInv', AllTold, NEW g \in Threads, NEW t \in Calls,
         t = thread[g], t.pc \in {"act", "io"}, t.op \in Mutating,
         NEW c, thread' = [thread EXCEPT ![g] = c],
         c.pc \notin {"idle", "reply"}, c.op = t.op, c.did = TRUE,
         StatusFits(t.op, TRUE, c.pc, c.st), Service!Change(t.op), KeptBy(c)
  PROVE  Goes(g)
<1>1. thread \in [Threads -> Calls]
  BY DEF IInv, ThreadOK
<1>2. OnlyCall(g) /\ thread'[g] = c
  BY <1>1 DEF OnlyCall
<1>3. ~t.did
  BY DEF AllTold, Told, StatusFits, Before
<1>4. writeaccess
  BY ActWritable DEF At
<1>5. Acts(g)
  BY <1>2, <1>3, <1>4 DEF Acts
<1>6. QED
  BY <1>2, <1>5 DEF Goes, Told

\* The steps that are the whole of a procedure, with the path they note.
LEMMA DoneGoes ==
  ASSUME IInv, IInv', AllTold, NEW g \in Threads, thread[g].op \in Mutating,
         thread[g].pc \in {"act", "io"}, NEW p,
         \/ thread' = [thread EXCEPT ![g].pc = "post", ![g].st = "OK",
                                     ![g].did = TRUE]
         \/ thread' = [thread EXCEPT ![g].pc = "post", ![g].path = p,
                                     ![g].st = "OK", ![g].did = TRUE],
         Service!Change(thread[g].op), \A c : KeptBy(c)
  PROVE  Goes(g)
<1> DEFINE t == thread[g]
<1>1. t \in Calls
  BY DEF IInv, ThreadOK
<1>2. StatusFits(t.op, TRUE, "post", "OK")
  BY DEF StatusFits, Before, Naming, Following, Mutating
<1>3. CASE thread' = [thread EXCEPT ![g].pc = "post", ![g].st = "OK",
                                    ![g].did = TRUE]
  <2> DEFINE c == [t EXCEPT !.pc = "post", !.st = "OK", !.did = TRUE]
  <2>1. thread' = [thread EXCEPT ![g] = c]
    BY <1>3
  <2>2. c.pc = "post" /\ c.st = "OK" /\ c.op = t.op /\ c.did = TRUE
    BY <1>1 DEF Calls
  <2> HIDE DEF c
  <2>3. QED
    BY <1>1, <1>2, <2>1, <2>2, EffectGoes
<1>4. CASE thread' = [thread EXCEPT ![g].pc = "post", ![g].path = p,
                                    ![g].st = "OK", ![g].did = TRUE]
  <2> DEFINE c == [t EXCEPT !.pc = "post", !.path = p, !.st = "OK",
                            !.did = TRUE]
  <2>1. thread' = [thread EXCEPT ![g] = c]
    BY <1>4
  <2>2. c.pc = "post" /\ c.st = "OK" /\ c.op = t.op /\ c.did = TRUE
    BY <1>1 DEF Calls
  <2> HIDE DEF c
  <2>3. QED
    BY <1>1, <1>2, <2>1, <2>2, EffectGoes
<1>5. QED
  BY <1>3, <1>4

\* Mkdir, Symlink and OpenFile, which leave the object to be stated.
LEMMA MadeGoes ==
  ASSUME IInv, IInv', AllTold, NEW g \in Threads, thread[g].op \in Makers,
         At(g, "act"), NEW p, NEW fd, NEW how, Made(g, p, fd, how),
         Service!Change(thread[g].op),
         \A c : c.how = how => KeptBy(c)
  PROVE  Goes(g)
<1> DEFINE t == thread[g]
           c == [t EXCEPT !.pc = "new", !.path = p, !.fd = fd, !.how = how,
                          !.did = TRUE]
<1>1. t \in Calls
  BY DEF IInv, ThreadOK
<1>2. t.op \in Mutating
  BY DEF Makers, Mutating
<1>3. thread' = [thread EXCEPT ![g] = c]
  BY DEF Made
<1>4. /\ c.pc = "new" /\ c.st = t.st /\ c.op = t.op /\ c.did = TRUE
      /\ c.how = how
  BY <1>1 DEF Calls
<1>5. StatusFits(t.op, TRUE, "new", t.st)
  <2>1. t.st # "OK"
    BY DEF AllTold, Told, StatusFits, Before, At
  <2>2. QED
    BY <2>1 DEF StatusFits, Before, Naming, Following, Makers, Service!HalfWay
<1> HIDE DEF c
<1>6. QED
  BY <1>1, <1>2, <1>3, <1>4, <1>5, EffectGoes DEF At

\* A new object, for the procedures that make one.
LEMMA NewChange ==
  ASSUME NEW p \in Seq(Names), NEW i \in FreeInodes, NEW kind,
         NewErr(p, FreeInodes # {}) = "OK", NewObject(p, i, kind)
  PROVE  p \in Paths /\ Service!NewOf(p, kind)
<1>1. WalkErr(p) = "OK" /\ NewErr(p, TRUE) = "OK"
  BY DEF NewErr
<1>2. i \in Inodes /\ node[i] = "FREE"
  BY DEF FreeInodes
<1>3. QED
  BY <1>1, <1>2, WalkOK, SameErrors, SameCalls DEF Service!NewOf

-----------------------------------------------------------------------------
(* The handlers that change the file system. *)

\* Stating the new object: an object that is out of reach fails half way.
LEMMA StatObjectGoes ==
  ASSUME IInv, IInv', AllTold, NEW g \in Threads, thread[g].op \in Makers,
         StatObject(g)
  PROVE  Goes(g)
<1> DEFINE t == thread[g]
           h == makeFHandle(t.path, tree[t.path])
           c == [t EXCEPT !.pc = "bind", !.obj = h]
<1>1. t \in Calls /\ t.pc = "new" /\ UNCHANGED <<tree, node>>
  BY DEF IInv, ThreadOK, StatObject, At, OnlyThread
<1>2. t.did /\ StatusFits(t.op, t.did, t.pc, t.st)
  BY <1>1 DEF AllTold, Told, StatusFits, Naming, Makers
<1>3. CASE thread' = [thread EXCEPT ![g].pc = "bind", ![g].obj = h]
  <2>1. thread' = [thread EXCEPT ![g] = c]
    BY <1>3
  <2> HIDE DEF h
  <2>2. c.pc = "bind" /\ c.op = t.op /\ c.did = t.did /\ c.st = t.st
    BY <1>1 DEF Calls
  <2>3. StatusFits(t.op, t.did, "bind", t.st)
    BY <1>1, <1>2 DEF StatusFits, Before, Naming, Following
  <2> HIDE DEF c
  <2>4. QED
    BY <1>1, <2>1, <2>2, <2>3, SameGoes
<1>4. CASE \E e : Go(g, "post", StatFailed(t.op, e))
  <2>1. PICK e : Go(g, "post", StatFailed(t.op, e))
    BY <1>4
  <2>2. StatusFits(t.op, t.did, "post", StatFailed(t.op, e))
    BY <1>2, ErrorsTold DEF StatFailed, Makers, StatusFits, Before, Naming,
                            Following, Service!HalfWay
  <2>3. QED
    BY <1>1, <2>1, <2>2, GoGoes
<1>5. QED
  BY <1>3, <1>4 DEF StatObject

\* MKDIR.
LEMMA MkdirGoes ==
  ASSUME IInv, IInv', AllTold, NEW g \in Threads, Mkdir(g)
  PROVE  Goes(g)
<1>1. thread[g].op = "MKDIR" /\ thread[g].op \in Makers
  BY DEF Mkdir, Serving, Makers
<1>2. CASE FirstWritable(g)
  BY <1>1, <1>2, FirstWritableGoes
<1>3. CASE StatObject(g)
  BY <1>1, <1>3, StatObjectGoes
<1>4. CASE Bind(g, "post")
  BY <1>1, <1>4, BindGoes
<1>5. CASE Post(g)
  BY <1>5, PostGoes
<1>6. CASE At(g, "act") /\ \E st : st # "OK" /\ Refuse(g, st)
  BY <1>1, <1>6, RefuseGoes
<1>7. ASSUME At(g, "act"), NEW name \in Names, NEW i \in FreeInodes,
             "OK" \in Outcomes(NewErr(Child(g, name), FreeInodes # {})),
             NewObject(Child(g, name), i, "DIR"),
             Made(g, Child(g, name), NoInode, "none")
      PROVE  Goes(g)
  <2> DEFINE p == Child(g, name)
  <2>1. p \in Paths /\ Service!NewOf(p, "DIR")
    BY <1>7, OutcomeOK, ChildPath, NewChange
  <2>2. Service!Change(thread[g].op)
    BY <1>1, <2>1 DEF Service!Change, Service!Paths, Paths
  <2>3. QED
    BY <1>1, <1>7, <2>2, MadeKept, MadeGoes
<1>8. QED
  BY <1>2, <1>3, <1>4, <1>5, <1>6, <1>7, ErrorsTold DEF Mkdir

\* SYMLINK.
LEMMA SymLinkGoes ==
  ASSUME IInv, IInv', AllTold, NEW g \in Threads, SymLink(g)
  PROVE  Goes(g)
<1>1. thread[g].op = "SYMLINK" /\ thread[g].op \in Makers
  BY DEF SymLink, Serving, Makers
<1>2. CASE FirstWritable(g)
  BY <1>1, <1>2, FirstWritableGoes
<1>3. CASE StatObject(g)
  BY <1>1, <1>3, StatObjectGoes
<1>4. CASE Bind(g, "post")
  BY <1>1, <1>4, BindGoes
<1>5. CASE Post(g)
  BY <1>5, PostGoes
<1>6. CASE At(g, "act") /\ \E st : st # "OK" /\ Refuse(g, st)
  BY <1>1, <1>6, RefuseGoes
<1>7. ASSUME At(g, "act"), NEW name \in Names, NEW i \in FreeInodes,
             "OK" \in Outcomes(NewErr(Child(g, name), FreeInodes # {})),
             NewObject(Child(g, name), i, "LNK"),
             Made(g, Child(g, name), NoInode, "none")
      PROVE  Goes(g)
  <2> DEFINE p == Child(g, name)
  <2>1. p \in Paths /\ Service!NewOf(p, "LNK")
    BY <1>7, OutcomeOK, ChildPath, NewChange
  <2>2. Service!Change(thread[g].op)
    BY <1>1, <2>1 DEF Service!Change, Service!Paths, Paths
  <2>3. QED
    BY <1>1, <1>7, <2>2, MadeKept, MadeGoes
<1>8. QED
  BY <1>2, <1>3, <1>4, <1>5, <1>6, <1>7, ErrorsTold DEF SymLink

\* OpenFile of CREATE: O_EXCL keeps a file that is there from being emptied.
LEMMA CreateFileGoes ==
  ASSUME IInv, IInv', AllTold, NEW g \in Threads, thread[g].op = "CREATE",
         At(g, "act"), NEW p \in Seq(Names), CreateFile(g, p)
  PROVE  Goes(g)
<1>0. thread[g].op \in Makers
  BY DEF Makers
<1> DEFINE Opens(how, e) ==
        \/ e # "OK" /\ Refuse(g, getCreateErr(e))
        \/ /\ e = "OK" /\ Exists(p)
           /\ SetKind(tree[p], "EMPTY") /\ Made(g, p, tree[p], how)
        \/ /\ e = "OK" /\ ~Exists(p)
           /\ \E i \in FreeInodes :
                NewObject(p, i, "EMPTY") /\ Made(g, p, i, how)
<1>a. PICK how \in {"UNCHECKED", "GUARDED"} :
        \E e \in Outcomes(OpenErr(how, p)) : Opens(how, e)
  BY DEF CreateFile
<1>1. PICK e \in Outcomes(OpenErr(how, p)) : Opens(how, e)
  BY <1>a
<1>2. CASE e # "OK"
  BY <1>1, <1>2, RefuseGoes, ErrorsTold
<1>3. CASE e = "OK"
  <2>1. OpenErr(how, p) = "OK"
    BY <1>3, OutcomeOK
  <2>2. p \in Paths
    BY <2>1, OpenErrOK
  <2>3. CASE Exists(p)
    <3>1. SetKind(tree[p], "EMPTY") /\ Made(g, p, tree[p], how)
      BY <1>1, <1>3, <2>3
    <3>2. how = "UNCHECKED" /\ CreatErr(p, FreeInodes # {}) = "OK"
      BY <2>1, <2>3 DEF OpenErr, NewErr
    <3>3. WriteOpenErr(p) = "OK"
      BY <2>3, <3>2 DEF CreatErr, WriteOpenErr, NewErr
    <3>4. Service!Emptied(p)
      BY <3>1, <3>3, SameErrors, SameCalls DEF Service!Emptied
    <3>5. Service!Change(thread[g].op)
      BY <2>2, <3>4 DEF Service!Change, Service!Paths, Paths
    <3>6. \A c : c.how = how => KeptBy(c)
      BY <3>2 DEF KeptBy, Emptying
    <3>7. QED
      BY <1>0, <3>1, <3>5, <3>6, MadeGoes
  <2>4. CASE ~Exists(p)
    <3>1. PICK i \in FreeInodes : NewObject(p, i, "EMPTY") /\ Made(g, p, i, how)
      BY <1>1, <1>3, <2>4
    <3>2. NewErr(p, FreeInodes # {}) = "OK"
      BY <2>1, <2>4 DEF OpenErr, CreatErr
    <3>3. Service!NewOf(p, "EMPTY")
      BY <3>1, <3>2, NewChange
    <3>4. Service!Change(thread[g].op)
      BY <2>2, <3>3 DEF Service!Change, Service!Paths, Paths
    <3>5. QED
      BY <1>0, <3>1, <3>4, MadeKept, MadeGoes
  <2>5. QED
    BY <2>3, <2>4
<1>4. QED
  BY <1>2, <1>3

\* CREATE.
LEMMA CreateGoes ==
  ASSUME IInv, IInv', AllTold, NEW g \in Threads, Create(g)
  PROVE  Goes(g)
<1>1. thread[g].op = "CREATE" /\ thread[g].op \in Makers
  BY DEF Create, Serving, Makers
<1>2. CASE FirstWritable(g)
  BY <1>1, <1>2, FirstWritableGoes
<1>3. CASE StatObject(g)
  BY <1>1, <1>3, StatObjectGoes
<1>4. CASE Bind(g, "post")
  BY <1>1, <1>4, BindGoes
<1>5. CASE Post(g)
  BY <1>5, PostGoes
<1>6. CASE At(g, "act") /\ Refuse(g, "INVAL")
  BY <1>1, <1>6, RefuseGoes
<1>7. CASE At(g, "act") /\ \E name \in Names : CreateFile(g, Child(g, name))
  BY <1>1, <1>7, ChildPath, CreateFileGoes
<1>8. QED
  BY <1>2, <1>3, <1>4, <1>5, <1>6, <1>7 DEF Create

\* SETATTR: what fails after Truncate fails half way.
LEMMA SetattrGoes ==
  ASSUME IInv, IInv', AllTold, NEW g \in Threads, Setattr(g)
  PROVE  Goes(g)
<1> DEFINE t == thread[g]
           p == t.dir
<1>1. t.op = "SETATTR" /\ t.op \in Mutating /\ t \in Calls
  BY DEF Setattr, Serving, Mutating, IInv, ThreadOK
<1>2. CASE FirstWritable(g)
  BY <1>1, <1>2, FirstWritableGoes
<1>3. CASE Post(g)
  BY <1>3, PostGoes
<1>4. CASE At(g, "act") /\ \E st : st # "OK" /\ Refuse(g, st)
  BY <1>1, <1>4, RefuseGoes
<1>5. CASE /\ At(g, "act") /\ Go(g, "chattr", "STALE")
           /\ UNCHANGED <<tree, node>>
  <2>1. StatusFits(t.op, t.did, "chattr", "STALE")
    BY <1>1 DEF StatusFits, Before, Naming, Following, Service!HalfWay
  <2>2. QED
    BY <1>5, <2>1, GoGoes DEF At
<1>6. ASSUME At(g, "chattr"), OnlyThread, NEW st, Go(g, "post", st)
      PROVE  Goes(g)
  <2>1. StatusFits(t.op, t.did, "post", st)
    BY <1>1 DEF StatusFits, Before, Naming, Following, Service!HalfWay,
                Service!ByEffect
  <2>2. QED
    BY <1>6, <2>1, GoGoes DEF At, OnlyThread
<1>7. CASE /\ At(g, "act") /\ "OK" \in Outcomes(WriteOpenErr(p))
           /\ \E kind \in {"EMPTY", KindAt(p)} :
                /\ SetKind(tree[p], kind)
                /\ thread' = [thread EXCEPT ![g].pc = "chattr",
                     ![g].how = "SIZE", ![g].did = TRUE]
  <2> DEFINE c == [t EXCEPT !.pc = "chattr", !.how = "SIZE", !.did = TRUE]
  <2>1. thread' = [thread EXCEPT ![g] = c]
    BY <1>7
  <2>2. /\ c.pc = "chattr" /\ c.st = t.st /\ c.op = t.op /\ c.did = TRUE
        /\ c.how = "SIZE"
    BY <1>1 DEF Calls
  <2>3. StatusFits(t.op, TRUE, "chattr", t.st)
    BY <1>1 DEF StatusFits, Before, Naming, Following, Service!HalfWay
  <2>4. p \in Paths /\ WriteOpenErr(p) = "OK"
    BY <1>1, <1>7, OutcomeOK DEF Calls
  <2>5. PICK kind \in {"EMPTY", KindAt(p)} : SetKind(tree[p], kind)
    BY <1>7
  <2>6. Service!Emptied(p) \/ Service!Nothing
    <3>1. CASE kind = "EMPTY"
      BY <2>4, <2>5, <3>1, SameErrors, SameCalls DEF Service!Emptied
    <3>2. CASE kind = KindAt(p)
      BY <2>5, <3>2 DEF SetKind, KindAt, IInv, FsOK, Service!Nothing
    <3>3. QED
      BY <3>1, <3>2
  <2>7. Service!Change(t.op)
    BY <1>1, <2>4, <2>6 DEF Service!Change, Service!Paths, Paths
  <2>8. KeptBy(c)
    BY <2>2 DEF KeptBy, Emptying
  <2> HIDE DEF c
  <2>9. QED
    BY <1>1, <1>7, <2>1, <2>2, <2>3, <2>7, <2>8, EffectGoes DEF At
<1>8. QED
  BY <1>2, <1>3, <1>4, <1>5, <1>6, <1>7, ErrorsTold DEF Setattr

\* WRITE, into the inode that was opened, whatever has become of its names.
LEMMA WriteGoes ==
  ASSUME IInv, IInv', AllTold, NEW g \in Threads, Write(g)
  PROVE  Goes(g)
<1> DEFINE t == thread[g]
           p == t.dir
           kind == IF node[t.fd] \in Regular THEN "DATA" ELSE node[t.fd]
<1>1. t.op = "WRITE" /\ t.op \in Mutating /\ t \in Calls
  BY DEF Write, Serving, Mutating, IInv, ThreadOK
<1>2. CASE FirstWritable(g)
  BY <1>1, <1>2, FirstWritableGoes
<1>3. CASE First(g, "post", "INVAL")
  BY <1>1, <1>3, FirstGoes
<1>4. CASE Post(g)
  BY <1>4, PostGoes
<1>5. CASE (At(g, "act") \/ At(g, "io")) /\ \E st : st # "OK" /\ Refuse(g, st)
  BY <1>1, <1>5, RefuseGoes
<1>6. CASE /\ At(g, "act") /\ OnlyThread
           /\ thread' = [thread EXCEPT ![g].pc = "io", ![g].fd = tree[p]]
  <2> DEFINE i == tree[p]
             c == [t EXCEPT !.pc = "io", !.fd = i]
  <2>1. thread' = [thread EXCEPT ![g] = c]
    BY <1>6
  <2>2. StatusFits(t.op, t.did, t.pc, t.st)
    BY DEF AllTold, Told
  <2> HIDE DEF i
  <2>3. c.pc = "io" /\ c.op = t.op /\ c.did = t.did /\ c.st = t.st
    BY <1>1 DEF Calls
  <2>4. StatusFits(t.op, t.did, "io", t.st)
    BY <1>6, <2>2 DEF At, StatusFits, Before, Naming, Following
  <2> HIDE DEF c
  <2>5. QED
    BY <1>1, <1>6, <2>1, <2>3, <2>4, SameGoes DEF At, OnlyThread
<1>7. CASE /\ At(g, "io") /\ SetKind(t.fd, kind)
           /\ thread' = [thread EXCEPT ![g].pc = "post",
                           ![g].st = "OK", ![g].did = TRUE]
  <2>1. \/ Service!Nothing
        \/ \E i \in Inodes : node[i] \in Regular /\ Service!SetKind(i, "DATA")
    <3>1. CASE t.fd \in Inodes /\ node[t.fd] \in Regular
      BY <1>7, <3>1, SameCalls
    <3>2. CASE ~(t.fd \in Inodes /\ node[t.fd] \in Regular)
      BY <1>7, <3>2 DEF SetKind, IInv, FsOK, Service!Nothing
    <3>3. QED
      BY <3>1, <3>2
  <2>2. Service!Change(t.op)
    BY <1>1, <2>1, RootPath
       DEF Service!Change, Service!Paths, Paths, Service!Regular, Regular
  <2>3. \A c : KeptBy(c)
    <3>1. \A i \in Inodes : node[i] = "DATA" => node'[i] # "EMPTY"
      BY <1>7 DEF SetKind, IInv, FsOK, Regular
    <3>2. QED
      BY <3>1 DEF KeptBy
  <2>4. QED
    BY <1>1, <1>7, <2>2, <2>3, DoneGoes DEF At
<1>8. QED
  <2>1. CASE At(g, "io")
    <3>1. \/ \E e : Refuse(g, getWriteErr(e))
          \/ /\ SetKind(t.fd, kind)
             /\ thread' = [thread EXCEPT ![g].pc = "post",
                             ![g].st = "OK", ![g].did = TRUE]
      BY <2>1 DEF Write, At, FirstWritable, First, OnStat, deleteHandle, Post
    <3>2. QED
      BY <2>1, <3>1, <1>5, <1>7, ErrorsTold
  <2>2. CASE ~At(g, "io")
    BY <2>2, <1>2, <1>3, <1>4, <1>5, <1>6, ErrorsTold
       DEF Write, Refuse, OnlyThread
  <2>3. QED
    BY <2>1, <2>2

\* REMOVE.
LEMMA RemoveGoes ==
  ASSUME IInv, IInv', AllTold, NEW g \in Threads, RemoveFile(g)
  PROVE  Goes(g)
<1>1. thread[g].op = "REMOVE" /\ thread[g].op \in Mutating
  BY DEF RemoveFile, Serving, Mutating
<1>2. CASE FirstWritable(g)
  BY <1>1, <1>2, FirstWritableGoes
<1>3. CASE Post(g)
  BY <1>3, PostGoes
<1>4. CASE At(g, "act") /\ \E st : st # "OK" /\ Refuse(g, st)
  BY <1>1, <1>4, RefuseGoes
<1>5. ASSUME At(g, "act"), NEW name \in Names,
             "OK" \in Outcomes(UnlinkErr(Child(g, name))),
             DropName(Child(g, name)),
             thread' = [thread EXCEPT ![g].pc = "post", ![g].st = "OK",
                                      ![g].did = TRUE]
      PROVE  Goes(g)
  <2> DEFINE p == Child(g, name)
  <2>1. UnlinkErr(p) = "OK"
    BY <1>5, OutcomeOK
  <2>2. p \in Paths
    BY <2>1, ChildPath, LstatOK DEF UnlinkErr
  <2>3. Service!UnlinkErr(p) = "OK" /\ Service!DropName(p)
    BY <1>5, <2>1, SameErrors, SameCalls
  <2>4. Service!Change(thread[g].op)
    BY <1>1, <2>2, <2>3 DEF Service!Change, Service!Paths, Paths
  <2>5. QED
    BY <1>1, <1>5, <2>4, DroppedKept, DoneGoes DEF At
<1>6. QED
  BY <1>2, <1>3, <1>4, <1>5, ErrorsTold DEF RemoveFile

\* One of the names RMDIR may be given.
LEMMA RmdirAtGoes ==
  ASSUME IInv, IInv', AllTold, NEW g \in Threads, thread[g].op = "RMDIR",
         At(g, "act"), NEW p \in Seq(Names),
         NEW err, err = "OK" => RmdirErr(p) = "OK", RmdirAt(g, p, err)
  PROVE  Goes(g)
<1>1. thread[g].op \in Mutating
  BY DEF Mutating
<1>2. CASE \E e : Refuse(g, getRmdirErr(e))
  BY <1>2, RefuseGoes, ErrorsTold
<1>3. CASE /\ "OK" \in Outcomes(err)
           /\ DropName(p)
           /\ thread' = [thread EXCEPT ![g].pc = "post", ![g].path = p,
                           ![g].st = "OK", ![g].did = TRUE]
  <2>1. RmdirErr(p) = "OK"
    BY <1>3, OutcomeOK
  <2>2. p \in Paths
    BY <2>1, LstatOK DEF RmdirErr
  <2>3. Service!RmdirErr(p) = "OK" /\ Service!DropName(p)
    BY <1>3, <2>1, SameErrors, SameCalls
  <2>4. Service!Change(thread[g].op)
    BY <2>2, <2>3 DEF Service!Change, Service!Paths, Paths
  <2>5. QED
    BY <1>1, <1>3, <2>4, DroppedKept, DoneGoes DEF At
<1>4. QED
  BY <1>2, <1>3 DEF RmdirAt

\* RMDIR, of the directory itself, a child or one further down.
LEMMA RmdirGoes ==
  ASSUME IInv, IInv', AllTold, NEW g \in Threads, Rmdir(g)
  PROVE  Goes(g)
<1> DEFINE d == thread[g].dir
<1>1. thread[g].op = "RMDIR"
  BY DEF Rmdir, Serving
<1>2. CASE FirstWritable(g)
  BY <1>1, <1>2, FirstWritableGoes
<1>3. CASE Post(g)
  BY <1>3, PostGoes
<1>4. d \in Seq(Names)
  BY PathsAreSequences DEF IInv, ThreadOK, Calls
<1>5. CASE At(g, "act") /\ RmdirAt(g, d, RmdirErr(d))
  BY <1>1, <1>4, <1>5, RmdirAtGoes
<1>6. CASE /\ At(g, "act")
           /\ RmdirAt(g, d, IF RmdirErr(d) \in {"OK", "ENOTEMPTY"} THEN "EINVAL"
                            ELSE RmdirErr(d))
  BY <1>1, <1>4, <1>6, RmdirAtGoes
<1>7. CASE /\ At(g, "act")
           /\ \E name \in Names :
                RmdirAt(g, Child(g, name), RmdirErr(Child(g, name)))
  BY <1>1, <1>7, ChildPath, RmdirAtGoes
<1>8. ASSUME At(g, "act"), NEW top \in Names, NEW name \in Names,
             RmdirAt(g, Append(Child(g, top), name),
                     RmdirErr(Append(Child(g, top), name)))
      PROVE  Goes(g)
  <2>1. Append(Child(g, top), name) \in Seq(Names)
    BY ChildPath
  <2>2. QED
    BY <1>1, <1>8, <2>1, RmdirAtGoes
<1>9. QED
  BY <1>2, <1>3, <1>5, <1>6, <1>7, <1>8 DEF Rmdir

-----------------------------------------------------------------------------
(* The handlers of two handles. *)

\* Looking the second handle up.
LEMMA SecondGoes ==
  ASSUME IInv, IInv', NEW g \in Threads, NEW at, at \notin {"idle", "reply"},
         NEW found, found # "idle", NEW lost, lost # "idle",
         Second(g, at, found, lost),
         StatusFits(thread[g].op, thread[g].did, found, thread[g].st),
         StatusFits(thread[g].op, thread[g].did, lost, thread[g].st)
  PROVE  Goes(g)
<1> DEFINE t == thread[g]
<1>1. t \in Calls /\ t.pc = at /\ UNCHANGED <<tree, node>>
  BY DEF IInv, ThreadOK, Second, At, OnlyThread
<1>2. CASE Go(g, lost, t.st)
  BY <1>1, <1>2, GoGoes
<1>3. ASSUME NEW h, thread' = [thread EXCEPT ![g].pc = found, ![g].fh2 = h,
                                             ![g].dir2 = fhandleMap[h]]
      PROVE  Goes(g)
  <2> DEFINE p == fhandleMap[h]
             c == [t EXCEPT !.pc = found, !.fh2 = h, !.dir2 = p]
  <2>1. thread' = [thread EXCEPT ![g] = c]
    BY <1>3
  <2> HIDE DEF p
  <2>2. c.pc = found /\ c.op = t.op /\ c.did = t.did /\ c.st = t.st
    BY <1>1 DEF Calls
  <2> HIDE DEF c
  <2>3. QED
    BY <1>1, <2>1, <2>2, SameGoes
<1>4. QED
  BY <1>2, <1>3 DEF Second

\* The stats of both objects: all before the effect, or the end of the call.
LEMMA BothGoes ==
  ASSUME IInv, IInv', AllTold, NEW g \in Threads,
         thread[g].op \in {"RENAME", "LINK"}, Both(g)
  PROVE  Goes(g)
<1> DEFINE t == thread[g]
<1>1. StatusFits(t.op, t.did, t.pc, t.st)
  BY DEF AllTold, Told
<1>2. ASSUME ~t.did, t.st # "OK", NEW pc, pc \in (Before \ {"idle"}) \cup
               {"drop", "drop2", "reply"}, NEW st \in {"STALE", "ROFS", t.st}
      PROVE  pc # "idle" /\ StatusFits(t.op, t.did, pc, st)
  BY <1>2 DEF StatusFits, Before, Naming, Following
<1>3. CASE \/ OnStat(g, "stat", t.dir, "get2", "STALE", "dropFirst")
           \/ OnStat(g, "statAlt", t.dir2, "reply", "STALE", "drop2")
           \/ OnStat(g, "stat2", t.dir2, "act", "STALE", "dropSecond")
           \/ OnStat(g, "stat2", t.dir2, "reply", "ROFS", "dropSecond")
           \/ OnStat(g, "statAgain", t.dir, "reply", "STALE", "drop")
  <2>1. t.pc \in Before
    BY <1>3 DEF OnStat, At, Before
  <2>2. ~t.did /\ t.st # "OK"
    BY <1>1, <2>1 DEF StatusFits
  <2>3. \A pc \in {"get2", "dropFirst", "reply", "drop2", "act", "dropSecond",
                    "drop"}, st \in {"STALE", "ROFS", t.st} :
          pc # "idle" /\ StatusFits(t.op, t.did, pc, st)
    BY <1>2, <2>2 DEF Before
  <2>4. QED
    BY <1>3, <2>3, OnStatGoes
<1>4. CASE \/ Second(g, "alt", "statAlt", "reply")
           \/ Second(g, "get2", "stat2", "statAgain")
  <2>1. t.pc \in Before
    BY <1>4 DEF Second, At, Before
  <2>2. ~t.did /\ t.st # "OK"
    BY <1>1, <2>1 DEF StatusFits
  <2>3. \A pc \in {"statAlt", "reply", "stat2", "statAgain"} :
          pc # "idle" /\ StatusFits(t.op, t.did, pc, t.st)
    BY <1>2, <2>2 DEF Before
  <2>4. QED
    BY <1>4, <2>3, SecondGoes
<1>5. CASE \/ deleteHandle(g, "dropFirst", t.fh, "alt")
           \/ deleteHandle(g, "dropSecond", t.fh2, "statAgain")
  <2>1. t.pc \in Before
    BY <1>5 DEF deleteHandle, At, Before
  <2>2. ~t.did /\ t.st # "OK"
    BY <1>1, <2>1 DEF StatusFits
  <2>3. \A pc \in {"alt", "statAgain"} :
          pc # "idle" /\ StatusFits(t.op, t.did, pc, t.st)
    BY <1>2, <2>2 DEF Before
  <2>4. QED
    BY <1>5, <2>3, DeleteGoes
<1>6. CASE \/ deleteHandle(g, "drop", t.fh, "reply")
           \/ deleteHandle(g, "drop2", t.fh2, "reply")
  <2>1. t.pc \in {"drop", "drop2"}
    BY <1>6 DEF deleteHandle, At
  <2>2. StatusFits(t.op, t.did, "reply", t.st)
    BY <1>1, <2>1 DEF StatusFits, Before, Naming, Following
  <2>3. QED
    BY <1>6, <2>2, DeleteGoes
<1>7. QED
  BY <1>3, <1>4, <1>5, <1>6 DEF Both

\* The stats after the effect, which keep what the call is to answer.
LEMMA AfterGoes ==
  ASSUME AllTold, NEW g \in Threads,
         thread[g].pc \in {"post", "post2", "dropFrom"},
         NEW pc \in {"post2", "dropFrom", "drop", "drop2", "reply"}
  PROVE  StatusFits(thread[g].op, thread[g].did, pc, thread[g].st)
<1>1. StatusFits(thread[g].op, thread[g].did, thread[g].pc, thread[g].st)
  BY DEF AllTold, Told
<1>2. QED
  BY <1>1 DEF StatusFits, Before, Naming, Following

\* os.Rename.
LEMMA RenameToGoes ==
  ASSUME IInv, IInv', AllTold, NEW g \in Threads, thread[g].op = "RENAME",
         At(g, "act"), NEW from \in Seq(Names), NEW to \in Seq(Names),
         NEW silly \in BOOLEAN, RenameTo(g, from, to, silly)
  PROVE  Goes(g)
<1> DEFINE t == thread[g]
           h == makeFHandle(from, tree[from])
           held == IF /\ silly /\ h \in DOMAIN fhandleMap
                      /\ fhandleMap[h] = from
                   THEN h ELSE NoHandle
           pc == IF silly THEN "silly" ELSE "post"
           c == [t EXCEPT !.pc = pc, !.st = "OK", !.src = from,
                   !.path = to, !.did = TRUE, !.held = held]
<1>1. t \in Calls /\ t.op \in Mutating
  BY DEF IInv, ThreadOK, Mutating
<1>2. CASE \E e : Refuse(g, getRenameErr(e))
  BY <1>2, RefuseGoes, ErrorsTold
<1>3. CASE /\ "OK" \in Outcomes(RenameErr(from, to))
           /\ Move(from, to)
           /\ thread' = [thread EXCEPT
                ![g].pc = pc, ![g].st = "OK", ![g].src = from, ![g].path = to,
                ![g].did = TRUE, ![g].held = held]
  <2>1. RenameErr(from, to) = "OK"
    BY <1>3, OutcomeOK
  <2>2. from \in Paths /\ to \in Paths
    BY <2>1, LstatOK, WalkOK DEF RenameErr
  <2>3. Service!RenameErr(from, to) = "OK" /\ Service!Move(from, to)
    BY <1>3, <2>1, SameErrors, SameCalls
  <2>4. Service!Change(t.op)
    BY <2>2, <2>3 DEF Service!Change, Service!Paths, Paths
  <2>5. thread' = [thread EXCEPT ![g] = c]
    BY <1>3
  <2>6. pc \in {"silly", "post"}
    OBVIOUS
  <2> HIDE DEF held, pc
  <2>7. c.pc = pc /\ c.st = "OK" /\ c.op = t.op /\ c.did = TRUE
    BY <1>1 DEF Calls
  <2>8. StatusFits(t.op, TRUE, c.pc, c.st) /\ c.pc \notin {"idle", "reply"}
    BY <2>6, <2>7 DEF StatusFits, Before, Naming, Following
  <2>9. KeptBy(c)
    BY <1>3, MovedKept
  <2> HIDE DEF c
  <2>10. QED
    BY <1>1, <2>4, <2>5, <2>7, <2>8, <2>9, EffectGoes DEF At
<1>4. QED
  BY <1>2, <1>3 DEF RenameTo

\* After a silly rename the call is as good as done.
LEMMA SillyRenameGoes ==
  ASSUME IInv, IInv', AllTold, NEW g \in Threads, thread[g].op = "RENAME",
         SillyRename(g)
  PROVE  Goes(g)
<1> DEFINE t == thread[g]
<1>1. /\ t \in Calls /\ t.pc \in Following /\ UNCHANGED <<tree, node>>
  BY DEF IInv, ThreadOK, SillyRename, At, OnlyThread, setValueforHandle,
         Following
<1>2. /\ t.did /\ t.st = "OK"
      /\ \A pc \in {"sillyGet", "sillySet", "post"} :
           StatusFits(t.op, t.did, pc, "OK")
  <2>1. t.did /\ t.st = "OK"
    BY <1>1 DEF AllTold, Told, StatusFits
  <2>2. QED
    BY <2>1 DEF StatusFits, Before, Naming, Following
<1>3. ASSUME NEW pc \in {"sillySet", "post"}, Go(g, pc, "OK")
      PROVE  Goes(g)
  BY <1>1, <1>2, <1>3, GoGoes DEF Following
<1>4. ASSUME NEW h, thread' = [thread EXCEPT ![g].pc = "sillyGet",
                                             ![g].obj = h]
      PROVE  Goes(g)
  <2> DEFINE c == [t EXCEPT !.pc = "sillyGet", !.obj = h]
  <2>1. thread' = [thread EXCEPT ![g] = c]
    BY <1>4
  <2>2. c.pc = "sillyGet" /\ c.op = t.op /\ c.did = t.did /\ c.st = t.st
    BY <1>1 DEF Calls
  <2> HIDE DEF c
  <2>3. QED
    BY <1>1, <1>2, <2>1, <2>2, SameGoes DEF Following
<1>5. ASSUME NEW p, thread' = [thread EXCEPT ![g].found = p]
      PROVE  Goes(g)
  <2> DEFINE c == [t EXCEPT !.found = p]
  <2>1. thread' = [thread EXCEPT ![g] = c]
    BY <1>5
  <2>2. c.pc = t.pc /\ c.op = t.op /\ c.did = t.did /\ c.st = t.st
    BY <1>1 DEF Calls
  <2>3. StatusFits(t.op, t.did, t.pc, t.st)
    BY DEF AllTold, Told
  <2> HIDE DEF c
  <2>4. QED
    BY <1>1, <2>1, <2>2, <2>3, SameGoes DEF Following
<1>6. CASE setValueforHandle(g, "sillySet", t.obj, t.path, "post")
  BY <1>2, <1>6, SetGoes
<1>7. QED
  BY <1>3, <1>4, <1>5, <1>6 DEF SillyRename

\* RENAME.
LEMMA RenameGoes ==
  ASSUME IInv, IInv', AllTold, NEW g \in Threads, Rename(g)
  PROVE  Goes(g)
<1> DEFINE t == thread[g]
<1>1. t.op = "RENAME"
  BY DEF Rename, Serving
<1>2. CASE Both(g)
  BY <1>1, <1>2, BothGoes
<1>3. CASE At(g, "act") /\ Refuse(g, "INVAL")
  BY <1>1, <1>3, RefuseGoes
<1>4. ASSUME At(g, "act"), NEW fromName \in Names, NEW toName \in Names,
             RenameTo(g, Append(t.dir, fromName), Append(t.dir2, toName),
                      HasSillyPrefix(toName))
      PROVE  Goes(g)
  <2>1. /\ Append(t.dir, fromName) \in Seq(Names)
        /\ Append(t.dir2, toName) \in Seq(Names)
    BY ChildOf DEF IInv, ThreadOK, Calls
  <2>2. HasSillyPrefix(toName) \in BOOLEAN
    BY DEF HasSillyPrefix
  <2>3. QED
    BY <1>1, <1>4, <2>1, <2>2, RenameToGoes
<1>5. CASE SillyRename(g)
  BY <1>1, <1>5, SillyRenameGoes
<1>6. CASE \/ OnStat(g, "post", t.dir, "post2", t.st, "dropFrom")
           \/ OnStat(g, "post2", t.dir2, "reply", t.st, "drop2")
  <2>1. t.pc \in {"post", "post2"}
    BY <1>6 DEF OnStat, At
  <2>2. QED
    BY <1>6, <2>1, AfterGoes, OnStatGoes
<1>7. CASE deleteHandle(g, "dropFrom", t.fh, "post2")
  <2>1. t.pc = "dropFrom"
    BY <1>7 DEF deleteHandle, At
  <2>2. QED
    BY <1>7, <2>1, AfterGoes, DeleteGoes
<1>8. QED
  BY <1>2, <1>3, <1>4, <1>5, <1>6, <1>7 DEF Rename

\* LINK.
LEMMA LinkGoes ==
  ASSUME IInv, IInv', AllTold, NEW g \in Threads, Link(g)
  PROVE  Goes(g)
<1> DEFINE t == thread[g]
<1>1. t.op = "LINK" /\ t.op \in Mutating
  BY DEF Link, Serving, Mutating
<1>2. CASE Both(g)
  BY <1>1, <1>2, BothGoes
<1>3. CASE At(g, "act") /\ \E st : st # "OK" /\ Refuse(g, st)
  BY <1>1, <1>3, RefuseGoes
<1>4. ASSUME At(g, "act"), NEW newName \in Names,
             "OK" \in Outcomes(LinkErr(t.dir2, Child(g, newName))),
             NewName(t.dir2, Child(g, newName)),
             thread' = [thread EXCEPT ![g].pc = "post",
               ![g].path = Child(g, newName), ![g].st = "OK", ![g].did = TRUE]
      PROVE  Goes(g)
  <2> DEFINE p == Child(g, newName)
  <2>1. LinkErr(t.dir2, p) = "OK"
    BY <1>4, OutcomeOK
  <2>2. t.dir2 \in Paths /\ p \in Seq(Names)
    BY ChildPath DEF IInv, ThreadOK, Calls
  <2>3. p \in Paths
    BY <2>1, <2>2, WalkOK DEF LinkErr
  <2>4. Service!LinkErr(t.dir2, p) = "OK" /\ Service!NewName(t.dir2, p)
    BY <1>4, <2>1, SameErrors, SameCalls
  <2>5. Service!Change(t.op)
    BY <1>1, <2>2, <2>3, <2>4 DEF Service!Change, Service!Paths, Paths
  <2>6. \A c : KeptBy(c)
    BY <1>4, LinkedKept
  <2>7. QED
    BY <1>1, <1>4, <2>5, <2>6, DoneGoes DEF At
<1>5. CASE \/ OnStat(g, "post", t.dir, "post2", t.st, "drop")
           \/ OnStat(g, "post2", t.dir2, "reply", t.st, "drop2")
  <2>1. t.pc \in {"post", "post2"}
    BY <1>5 DEF OnStat, At
  <2>2. QED
    BY <1>5, <2>1, AfterGoes, OnStatGoes
<1>6. QED
  BY <1>2, <1>3, <1>4, <1>5, ErrorsTold DEF Link

-----------------------------------------------------------------------------
(* What such a step is to ExportService. *)

\* What a client sees of a call.
LEMMA SeenCall ==
  ASSUME NEW c
  PROVE  Seen(c) = [op |-> c.op, did |-> c.did,
                    st |-> IF c.pc # "reply" THEN "none"
                           ELSE IF c.st = "OK" THEN "OK" ELSE "error"]
  BY DEF Seen

\* Only the call of g moves in what the clients see, too.
LEMMA SeenAlone ==
  ASSUME NEW g \in Threads, \A h \in Threads \ {g} : thread'[h] = thread[h]
  PROVE  [h \in Threads |-> Seen(thread'[h])]
           = [[h \in Threads |-> Seen(thread[h])] EXCEPT ![g] = Seen(thread'[g])]
  OBVIOUS

\* A handler's step keeps the invariant, and is the effect of its call, the
\* decision on its status, or nothing that a client could see.
LEMMA GoesServed ==
  ASSUME IInv, IInv', AllTold, NEW g \in Threads, Goes(g)
  PROVE  /\ AllTold'
         /\ Service!Next \/ UNCHANGED Service!vars
         /\ \A i \in Inodes : node[i] = "DATA" /\ node'[i] = "EMPTY" =>
              Emptying(thread'[g])
<1> DEFINE t == thread[g]
           c == thread'[g]
           call == [h \in Threads |-> Seen(thread[h])]
           next == [h \in Threads |-> Seen(thread'[h])]
<1>1. t \in Calls /\ c \in Calls
  BY DEF IInv, ThreadOK
<1>2. AllTold'
  BY DEF Goes, OnlyCall, AllTold, Told, StatusFits,
         Service!ByEffect, Service!HalfWay
<1>3. /\ t.pc \notin {"idle", "reply"} /\ c.pc # "idle" /\ c.op = t.op
      /\ t.op # "none" /\ Told(c)
  BY DEF Goes, AllTold, Told, StatusFits
<1>4. next = [call EXCEPT ![g] = Seen(c)]
  BY DEF Goes, OnlyCall
<1>5. Seen(t) = [op |-> t.op, did |-> t.did, st |-> "none"]
  BY <1>3 DEF Seen
<1>6. CASE Acts(g)
  <2>1. Seen(c) = [Seen(t) EXCEPT !.did = TRUE]
    <3>1. c.did = TRUE /\ c.pc # "reply"
      BY <1>1, <1>6 DEF Acts, Calls
    <3>2. Seen(c) = [op |-> t.op, did |-> c.did, st |-> "none"]
      BY <1>3, <3>1, SeenCall
    <3>3. PICK r, s, op, did, x :
            /\ r = Seen(t) /\ s = Seen(c)
            /\ op = t.op /\ did = t.did /\ x = c.did
      OBVIOUS
    <3>4. /\ r = [op |-> op, did |-> did, st |-> "none"]
          /\ s = [op |-> op, did |-> x, st |-> "none"]
      BY <1>5, <3>2, <3>3
    <3>5. s = [r EXCEPT !.did = x]
      BY <3>4
    <3>6. Seen(c) = [Seen(t) EXCEPT !.did = c.did]
      BY <3>3, <3>5
    <3> HIDE DEF c, t
    <3>7. QED
      BY <3>1, <3>6, Zenon
  <2>2. /\ call[g].did = FALSE /\ call[g].st = "none" /\ call[g].op = t.op
    BY <1>1, <1>5, <1>6 DEF Acts, Calls
  <2>3. next = [call EXCEPT ![g].did = TRUE]
    BY <1>4, <2>1
  <2>4. Service!Effect(g)
    BY <1>6, <2>2, <2>3 DEF Service!Effect, Acts
  <2>5. QED
    BY <1>2, <1>6, <2>4 DEF Service!Next, Acts, KeptBy
<1>7. CASE c.did = t.did /\ UNCHANGED <<tree, node>>
  <2>1. \A i \in Inodes : ~(node[i] = "DATA" /\ node'[i] = "EMPTY")
    BY <1>7
  <2>2. CASE c.pc # "reply"
    <3>1. Seen(c) = Seen(t)
      BY <1>3, <1>5, <1>7, <2>2 DEF Seen
    <3>2. next = call
      BY <1>4, <3>1
    <3>3. UNCHANGED Service!vars
      BY <1>7, <3>2 DEF Service!vars
    <3>4. QED
      BY <1>2, <2>1, <3>3
  <2>3. CASE c.pc = "reply"
    <3> DEFINE st == IF c.st = "OK" THEN "OK" ELSE "error"
    <3>1. Seen(c) = [Seen(t) EXCEPT !.st = st]
      BY <1>3, <1>5, <1>7, <2>3 DEF Seen
    <3>2. call[g].op = t.op /\ call[g].did = t.did /\ call[g].st = "none"
      BY <1>5
    <3>3. next = [call EXCEPT ![g].st = st]
      BY <1>4, <3>1
    <3>4. Service!Honest(t.op, t.did, st)
      BY <1>3, <1>7 DEF Service!Honest, Told, StatusFits
    <3>5. Service!Decide(g)
      BY <1>3, <1>7, <3>2, <3>3, <3>4 DEF Service!Decide
    <3>6. QED
      BY <1>2, <2>1, <3>5 DEF Service!Next
  <2>4. QED
    BY <2>2, <2>3
<1>8. QED
  BY <1>6, <1>7 DEF Goes

\* A call arrives, and may have its status at once.
LEMMA ArrivalServed ==
  ASSUME IInv, IInv', AllTold, NEW g \in Threads, At(g, "idle"),
         NEW c, thread' = [thread EXCEPT ![g] = c], UNCHANGED <<tree, node>>,
         c.op \in Ops, c.did = FALSE, c.pc # "idle", Told(c)
  PROVE  AllTold' /\ Service!Next
<1> DEFINE t == thread[g]
           call == [h \in Threads |-> Seen(thread[h])]
           next == [h \in Threads |-> Seen(thread'[h])]
           st == IF c.pc # "reply" THEN "none"
                 ELSE IF c.st = "OK" THEN "OK" ELSE "error"
<1>1. thread \in [Threads -> Calls] /\ t \in Calls
  BY DEF IInv, ThreadOK
<1>2. thread'[g] = c /\ \A h \in Threads \ {g} : thread'[h] = thread[h]
  BY <1>1
<1>3. AllTold'
  BY <1>2 DEF AllTold, Told, StatusFits,
         Service!ByEffect, Service!HalfWay
<1>4. t.op = "none" /\ t.did = FALSE /\ t.pc = "idle"
  BY <1>1 DEF AllTold, Told, StatusFits, Before, At, Calls
<1>5. call[g] = Service!NoCall
  BY <1>4 DEF Seen, Service!NoCall
<1>6. Service!Honest(c.op, FALSE, st)
  BY DEF Service!Honest, Told, StatusFits
<1>7. Seen(c) = [op |-> c.op, did |-> c.did, st |-> st]
  BY SeenCall
<1>8. st \in {"none", "OK", "error"}
  OBVIOUS
<1> HIDE DEF st
<1>9. next = [call EXCEPT ![g] =
                [Service!NoCall EXCEPT !.op = c.op, !.st = st]]
  <2>1. Seen(c) = [Service!NoCall EXCEPT !.op = c.op, !.st = st]
    <3>1. Service!NoCall = [op |-> "none", did |-> c.did, st |-> "none"]
      BY Zenon DEF Service!NoCall
    <3>2. PICK n, r, s, op, did, x :
            /\ n = Service!NoCall /\ r = [n EXCEPT !.op = op] /\ s = Seen(c)
            /\ op = c.op /\ did = c.did /\ x = st
      OBVIOUS
    <3>3. /\ n = [op |-> "none", did |-> did, st |-> "none"]
          /\ s = [op |-> op, did |-> did, st |-> x]
      BY <1>7, <3>1, <3>2
    <3>4. r = [op |-> op, did |-> did, st |-> "none"]
      BY <3>2, <3>3
    <3>5. s = [r EXCEPT !.st = x]
      BY <3>3, <3>4
    <3>6. QED
      BY <3>2, <3>5
  <2>2. next = [call EXCEPT ![g] = Seen(c)]
    BY <1>2, SeenAlone
  <2>3. QED
    BY <2>1, <2>2
<1>10. Service!Call(g)
  BY <1>5, <1>6, <1>8, <1>9 DEF Service!Call
<1>11. QED
  BY <1>3, <1>10 DEF Service!Next

\* Every call that arrives at an NFS procedure.
LEMMA ReceiveServed ==
  ASSUME IInv, IInv', AllTold, NEW g \in Threads, Receive(g)
  PROVE  AllTold' /\ Service!Next
<1>1. At(g, "idle") /\ UNCHANGED <<tree, node>>
  BY DEF Receive, OnlyThread
<1>2. PICK op \in Ops \ {"MNT", "UMNT"} :
        \E fh \in DOMAIN fhandleMap \cup {NoHandle} :
          thread' = [thread EXCEPT ![g] =
            IF fh # NoHandle
            THEN [Idle EXCEPT !.pc = "stat", !.op = op, !.fh = fh,
                              !.dir = fhandleMap[fh]]
            ELSE [Idle EXCEPT !.pc = IF op \in TwoHandles THEN "alt" ELSE "reply",
                              !.op = op]]
  BY DEF Receive
<1>3. op # "none"
  BY OpsAssumption DEF Procedures, Mutating
<1>4. ASSUME NEW c, thread' = [thread EXCEPT ![g] = c], c.op = op,
             c.pc \in {"stat", "alt", "reply"}, c.did = FALSE, c.st = "STALE"
      PROVE  AllTold' /\ Service!Next
  <2>1. Told(c)
    BY <1>3, <1>4 DEF Told, StatusFits, Before, Naming, Following
  <2>2. QED
    BY <1>1, <1>4, <2>1, ArrivalServed
<1>5. CASE \E fh \in DOMAIN fhandleMap :
             thread' = [thread EXCEPT ![g] =
               [Idle EXCEPT !.pc = "stat", !.op = op, !.fh = fh,
                            !.dir = fhandleMap[fh]]]
  <2>1. PICK fh \in DOMAIN fhandleMap :
             thread' = [thread EXCEPT ![g] =
               [Idle EXCEPT !.pc = "stat", !.op = op, !.fh = fh,
                            !.dir = fhandleMap[fh]]]
    BY <1>5
  <2> DEFINE c == [Idle EXCEPT !.pc = "stat", !.op = op, !.fh = fh,
                               !.dir = fhandleMap[fh]]
  <2>2. c.op = op /\ c.pc = "stat" /\ c.did = FALSE /\ c.st = "STALE"
    BY DEF Idle
  <2> HIDE DEF c
  <2>3. thread' = [thread EXCEPT ![g] = c]
    BY <2>1 DEF c
  <2>4. QED
    BY <1>4, <2>2, <2>3
<1>6. CASE thread' = [thread EXCEPT ![g] =
             [Idle EXCEPT !.pc = IF op \in TwoHandles THEN "alt" ELSE "reply",
                          !.op = op]]
  <2> DEFINE pc == IF op \in TwoHandles THEN "alt" ELSE "reply"
             c == [Idle EXCEPT !.pc = pc, !.op = op]
  <2>1. pc \in {"alt", "reply"}
    OBVIOUS
  <2>2. thread' = [thread EXCEPT ![g] = c]
    BY <1>6
  <2> HIDE DEF pc
  <2>3. c.op = op /\ c.pc = pc /\ c.did = FALSE /\ c.st = "STALE"
    BY DEF Idle
  <2> HIDE DEF c
  <2>4. QED
    BY <1>4, <2>1, <2>2, <2>3
<1>7. QED
  BY <1>2, <1>5, <1>6

\* MNT and UMNT arrive so too.
LEMMA ArriveServed ==
  ASSUME IInv, IInv', AllTold, NEW g \in Threads, NEW op \in {"MNT", "UMNT"},
         Called(g, op), NEW pc \in {"reply", "mntSet", "umntDel"}, NEW st,
         Arrive(g, op, pc, st)
  PROVE  AllTold' /\ Service!Next
<1> DEFINE c == [Idle EXCEPT !.pc = pc, !.op = op, !.st = st]
<1>1. thread' = [thread EXCEPT ![g] = c] /\ UNCHANGED <<tree, node>>
  BY DEF Arrive, OnlyThread
<1>2. c.op = op /\ c.did = FALSE /\ c.pc = pc /\ c.st = st
  BY DEF Idle
<1>3. Told(c)
  BY <1>2 DEF Told, StatusFits, Before, Naming, Following, Service!ByEffect
<1> HIDE DEF c
<1>4. QED
  BY <1>1, <1>2, <1>3, ArrivalServed DEF Called

\* MNT and UMNT have no effect on the export.
LEMMA MountServed ==
  ASSUME IInv, IInv', AllTold, NEW g \in Threads, Mount(g) \/ UnMount(g)
  PROVE  Goes(g) \/ (AllTold' /\ Service!Next)
<1> DEFINE t == thread[g]
<1>1. \A pc \in {"mntSet", "umntDel"} :
        t.pc = pc => StatusFits(t.op, t.did, "reply", t.st)
  BY DEF AllTold, Told, StatusFits, Before, Naming, Following
<1>2. CASE \E op \in {"MNT", "UMNT"}, pc \in {"reply", "mntSet", "umntDel"} :
             \E st : Called(g, op) /\ Arrive(g, op, pc, st)
  BY <1>2, ArriveServed
<1>3. CASE setValueforHandle(g, "mntSet", ExportHandle, <<>>, "reply")
  <2>1. t.pc = "mntSet"
    BY <1>3 DEF setValueforHandle, At
  <2>2. QED
    BY <1>1, <1>3, <2>1, SetGoes
<1>4. CASE deleteHandle(g, "umntDel", ExportHandle, "reply")
  <2>1. t.pc = "umntDel"
    BY <1>4 DEF deleteHandle, At
  <2>2. QED
    BY <1>1, <1>4, <2>1, DeleteGoes
<1>5. QED
  BY <1>2, <1>3, <1>4 DEF Mount, UnMount

\* The goroutine that replies, and the server that is started again, forget.
LEMMA IdleTold == Told(Idle) /\ Seen(Idle) = Service!NoCall
  BY DEF Told, StatusFits, Before, Naming, Following, Idle, Seen, Service!NoCall

LEMMA ReturnServed ==
  ASSUME IInv, IInv', AllTold, NEW g \in Threads, Return(g)
  PROVE  AllTold' /\ Service!Next
<1> DEFINE call == [h \in Threads |-> Seen(thread[h])]
           next == [h \in Threads |-> Seen(thread'[h])]
<1>1. thread' = [thread EXCEPT ![g] = Idle] /\ UNCHANGED <<tree, node>>
  BY DEF Return, OnlyThread
<1>2. thread'[g] = Idle /\ \A h \in Threads \ {g} : thread'[h] = thread[h]
  BY <1>1 DEF IInv, ThreadOK
<1>3. AllTold'
  BY <1>2, IdleTold DEF AllTold, Told, StatusFits,
         Service!ByEffect, Service!HalfWay
<1>4. next = [call EXCEPT ![g] = Service!NoCall]
  BY <1>2, IdleTold
<1>5. call[g].st # "none"
  BY DEF Return, At, Seen
<1>6. Service!Answer(g)
  BY <1>1, <1>4, <1>5 DEF Service!Answer
<1>7. QED
  BY <1>3, <1>6 DEF Service!Next

LEMMA RestartServed ==
  ASSUME Restart
  PROVE  AllTold' /\ Service!Next
<1>1. /\ \A g \in Threads : thread'[g] = Idle
      /\ UNCHANGED <<tree, node>>
  BY DEF Restart
<1>2. AllTold'
  BY <1>1, IdleTold DEF AllTold, Told, StatusFits,
         Service!ByEffect, Service!HalfWay
<1>3. [g \in Threads |-> Seen(thread'[g])] = [g \in Threads |-> Service!NoCall]
  BY <1>1, IdleTold
<1>4. Service!StartAgain
  BY <1>1, <1>3 DEF Service!StartAgain
<1>5. QED
  BY <1>2, <1>4 DEF Service!Next

\* Every handler, one procedure at a time.
LEMMA HandlerGoes ==
  ASSUME IInv, IInv', AllTold, NEW g \in Threads, Handler(g)
  PROVE  Goes(g)
  BY StatHandlersGo, ReadHandlersGo, LookupGoes, MkdirGoes, SymLinkGoes,
     CreateGoes, SetattrGoes, WriteGoes, RemoveGoes, RmdirGoes, RenameGoes,
     LinkGoes DEF Handler

-----------------------------------------------------------------------------
(* The theorems. *)

\* What a step does to the files, the property DataKept of one step.
NotLost ==
  \A i \in Inodes : node[i] = "DATA" /\ node'[i] = "EMPTY" =>
    \E g \in Threads : Emptying(thread'[g])

LEMMA InitServed == Init => AllTold /\ Service!Init
<1> SUFFICES ASSUME Init PROVE AllTold /\ Service!Init
  OBVIOUS
<1>1. \A g \in Threads : thread[g] = Idle
  BY DEF Init
<1>2. AllTold
  BY <1>1, IdleTold DEF AllTold
<1>3. [g \in Threads |-> Seen(thread[g])] = [g \in Threads |-> Service!NoCall]
  BY <1>1, IdleTold
<1>4. Service!Init
  BY <1>3 DEF Init, Service!Init
<1>5. QED
  BY <1>2, <1>4

LEMMA NextServed ==
  ASSUME IInv, IInv', AllTold, [Next]_vars
  PROVE  AllTold' /\ [Service!Next]_(Service!vars) /\ NotLost
<1>1. CASE UNCHANGED vars
  <2>1. AllTold' /\ NotLost
    BY <1>1 DEF vars, AllTold, Told, StatusFits,
         Service!ByEffect, Service!HalfWay,
                NotLost
  <2>2. UNCHANGED Service!vars
    BY <1>1 DEF vars, Service!vars
  <2>3. QED
    BY <2>1, <2>2
<1>2. CASE Restart
  BY <1>2, RestartServed DEF Restart, NotLost
<1>3. ASSUME NEW g \in Threads, Goes(g)
      PROVE  AllTold' /\ [Service!Next]_(Service!vars) /\ NotLost
  BY <1>3, GoesServed DEF NotLost
<1>4. ASSUME NEW g \in Threads, Receive(g) \/ Return(g)
      PROVE  AllTold' /\ [Service!Next]_(Service!vars) /\ NotLost
  <2>1. NotLost
    BY <1>4 DEF Receive, Return, OnlyThread, NotLost
  <2>2. QED
    BY <1>4, <2>1, ReceiveServed, ReturnServed
<1>5. ASSUME NEW g \in Threads, Mount(g) \/ UnMount(g)
      PROVE  AllTold' /\ [Service!Next]_(Service!vars) /\ NotLost
  <2>1. NotLost
    BY <1>5 DEF Mount, UnMount, Arrive, OnlyThread, setValueforHandle,
                deleteHandle, NotLost
  <2>2. QED
    BY <1>3, <1>5, <2>1, MountServed
<1>6. ASSUME NEW g \in Threads, Handler(g)
      PROVE  AllTold' /\ [Service!Next]_(Service!vars) /\ NotLost
  BY <1>3, <1>6, HandlerGoes
<1>7. QED
  BY <1>1, <1>2, <1>4, <1>5, <1>6 DEF Next, Work, Serve

\* AllTold holds along with IInv in every state the server may reach.
THEOREM ToldAlways == Spec => []AllTold
<1>1. Init => AllTold
  BY InitServed
<1>2. IInv /\ IInv' /\ AllTold /\ [Next]_vars => AllTold'
  BY NextServed
<1>3. QED
  BY <1>1, <1>2, Invariance, PTL DEF Spec

\* The status of a reply tells what happened: the handlers, their error tables
\* and their second stats never answer OK for what was not done, nor an error
\* for what was, but where CREATE, MKDIR, SYMLINK and SETATTR fail half way.
THEOREM StatusTells == Spec => []ReplyTellsEffect
<1>1. AllTold => ReplyTellsEffect
  BY DEF AllTold, Told, StatusFits, ReplyTellsEffect, Mutating, Service!ByEffect,
         Service!HalfWay
<1>2. QED
  BY <1>1, ToldAlways, PTL

\* The backend with all its steps, races, failing system calls and restarts
\* implements ExportService: one effect for a call at most, one that its
\* procedure may have, on a writable export, and before its status.
THEOREM ServiceImplemented == Spec => Implements
<1>1. Init => Service!Init
  BY InitServed
<1>2. IInv /\ IInv' /\ AllTold /\ [Next]_vars => [Service!Next]_(Service!vars)
  BY NextServed
<1>3. QED
  BY <1>1, <1>2, Invariance, ToldAlways, PTL
     DEF Spec, Implements, Service!Spec

\* O_TRUNC and O_EXCL: what clients wrote to a file is emptied only by a
\* SETATTR of the size or an UNCHECKED create, whoever else is at work.
THEOREM NothingEmptied == Spec => DataKept
<1>1. NotLost =>
        \A i \in Inodes : node[i] = "DATA" /\ node'[i] = "EMPTY" =>
          \E g \in Threads : thread'[g].how \in {"SIZE", "UNCHECKED"}
  BY DEF NotLost, Emptying
<1>2. IInv /\ IInv' /\ AllTold /\ [Next]_vars =>
        [\A i \in Inodes : node[i] = "DATA" /\ node'[i] = "EMPTY" =>
          \E g \in Threads : thread'[g].how \in {"SIZE", "UNCHECKED"}]_vars
  BY <1>1, NextServed
<1>3. QED
  BY <1>2, Invariance, ToldAlways, PTL DEF Spec, DataKept
=============================================================================
