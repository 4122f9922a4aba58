------------------------------ MODULE Backend -------------------------------
(***************************************************************************)
(* The NFS version 3 backend of gonfs, src/nfs3/allunix.go: a table from   *)
(* file handles to path names and one handler per procedure.  net/rpc runs *)
(* every call in a goroutine of its own, so the handlers interleave.  Only *)
(* fhandleRWMutex protects anything, and it is released between any two    *)
(* accesses of the table; a step of a handler is therefore one access of   *)
(* the table or one system call.                                           *)
(*                                                                         *)
(* A handle is made from a path and an inode and does not depend on the    *)
(* life of the server, so a client may present any handle at any time; all *)
(* those the table does not hold are treated alike and are one, NoHandle.  *)
(* A handler picks an argument of its call in the step that first uses it. *)
(***************************************************************************)
EXTENDS Filesystem

CONSTANTS
  Threads,            \* the goroutines net/rpc may run at once
  Ops,                \* the procedures the clients call
  Handles,            \* 64-bit file handles
  NoHandle,           \* any handle the table does not hold
  NoInode,            \* no open file
  makeFHandle(_, _),  \* FNV-1a of a path and an inode; one file system
  Silly,              \* the names that start with ".nfs"
  writeaccess,        \* configOptions.writeaccess
  Faults              \* errors a system call may return for outside reasons

VARIABLES
  fhandleMap,         \* Backend.fhandleMap: handle |-> path
  server,             \* "up", or "fatal" after a log.Fatalf
  thread              \* the calls in progress

vars == <<tree, node, fhandleMap, server, thread>>

Mutating == {"SETATTR", "WRITE", "COMMIT", "CREATE", "MKDIR", "SYMLINK",
             "REMOVE", "RMDIR", "RENAME", "LINK"}
TwoHandles == {"RENAME", "LINK"}
Procedures ==
  Mutating \cup {"MNT", "UMNT", "GETATTR", "LOOKUP", "ACCESS", "READLINK",
                 "READ", "READDIR", "READDIRPLUS", "FSSTAT", "FSINFO",
                 "PATHCONF"}

Errnos == {"ENOENT", "ENOTDIR", "EISDIR", "EEXIST", "ENOTEMPTY", "EINVAL",
           "EPERM", "EACCES", "EIO", "ENOSPC", "EROFS", "EFBIG", "ELOOP",
           "ENXIO", "ENODEV", "EXDEV", "EMLINK", "ENOSYS", "ENAMETOOLONG"}
Statuses == {"OK", "PERM", "NOENT", "IO", "NXIO", "ACCES", "EXIST", "XDEV",
             "NOTDIR", "ISDIR", "INVAL", "FBIG", "NOSPC", "ROFS", "MLINK",
             "NAMETOOLONG", "NOTEMPTY", "STALE", "NOT_SYNC", "NOTSUPP"}

ASSUME ThreadAssumption == Threads # {}
ASSUME OpsAssumption == Ops \subseteq Procedures
ASSUME HandleAssumption ==
  /\ NoHandle \notin Handles
  /\ NoInode \notin Inodes
  /\ \A p \in Paths, i \in Inodes : makeFHandle(p, i) \in Handles
ASSUME ConfigAssumption ==
  Silly \subseteq Names /\ writeaccess \in BOOLEAN /\ Faults \subseteq Errnos

-----------------------------------------------------------------------------
(* The error tables: every error number not listed is NFS3ERR_IO. *)

Status(table, e) == IF e \in DOMAIN table THEN table[e] ELSE "IO"

\* Mutant of getLookupErr: the error number goes out as it is.
RawErr(e) == e

getLookupErr(e) ==
  Status([ENOENT |-> "NOENT", EACCES |-> "ACCES", EINVAL |-> "INVAL",
          ENAMETOOLONG |-> "NAMETOOLONG", ENOTDIR |-> "STALE",
          ELOOP |-> "STALE"], e)

getReadDirErr(e) ==
  Status([EPERM |-> "PERM", EACCES |-> "ACCES", ENOTDIR |-> "NOTDIR",
          ENAMETOOLONG |-> "STALE", ELOOP |-> "STALE", ENOENT |-> "STALE",
          EINVAL |-> "INVAL"], e)

getMkdirErr(e) ==
  Status([EACCES |-> "ACCES", EPERM |-> "ACCES", ENOTDIR |-> "NOTDIR",
          EEXIST |-> "EXIST", ENOSPC |-> "NOSPC", EROFS |-> "ROFS",
          EINVAL |-> "INVAL", ENAMETOOLONG |-> "STALE", ELOOP |-> "STALE",
          ENOENT |-> "STALE"], e)

getRenameErr(e) ==
  Status([EISDIR |-> "ISDIR", EXDEV |-> "XDEV", EEXIST |-> "EXIST",
          ENOTEMPTY |-> "NOTEMPTY", EINVAL |-> "INVAL", ENOTDIR |-> "NOTDIR",
          EACCES |-> "ACCES", EPERM |-> "ACCES", ENOENT |-> "NOENT",
          ENAMETOOLONG |-> "STALE", ELOOP |-> "STALE", ENOSPC |-> "NOSPC",
          EROFS |-> "ROFS", EMLINK |-> "MLINK"], e)

getCreateErr(e) ==
  Status([EEXIST |-> "EXIST", EACCES |-> "ACCES", ENAMETOOLONG |-> "STALE",
          ELOOP |-> "STALE", ENOTDIR |-> "STALE", ENOSPC |-> "NOSPC",
          EROFS |-> "ROFS"], e)

getSetattrErr(e) ==
  Status([EACCES |-> "ACCES", EPERM |-> "PERM", ENAMETOOLONG |-> "STALE",
          ELOOP |-> "STALE", ENOTDIR |-> "STALE", ENOENT |-> "STALE",
          EROFS |-> "ROFS", EINVAL |-> "INVAL"], e)

getReadErr(e) ==
  Status([EACCES |-> "ACCES", ENAMETOOLONG |-> "STALE", ELOOP |-> "STALE",
          ENOTDIR |-> "STALE", ENOENT |-> "STALE", ENXIO |-> "NXIO",
          ENODEV |-> "NXIO", EINVAL |-> "INVAL"], e)

getWriteErr(e) ==
  Status([EACCES |-> "ACCES", ENAMETOOLONG |-> "STALE", ELOOP |-> "STALE",
          ENOTDIR |-> "STALE", ENOENT |-> "STALE", EROFS |-> "ROFS",
          ENOSPC |-> "NOSPC", EFBIG |-> "FBIG", EINVAL |-> "INVAL"], e)

getRemoveErr(e) ==
  Status([EACCES |-> "ACCES", EPERM |-> "ACCES", ENOENT |-> "NOENT",
          ENAMETOOLONG |-> "STALE", ELOOP |-> "STALE", ENOTDIR |-> "STALE",
          EROFS |-> "ROFS", EINVAL |-> "INVAL"], e)

getRmdirErr(e) ==
  IF e = "ENOTEMPTY" THEN "NOTEMPTY" ELSE getRemoveErr(e)

getSymLinkErr(e) ==
  Status([EACCES |-> "ACCES", EPERM |-> "ACCES", ENAMETOOLONG |-> "STALE",
          ELOOP |-> "STALE", ENOTDIR |-> "STALE", ENOENT |-> "STALE",
          EROFS |-> "ROFS", EEXIST |-> "EXIST", ENOSPC |-> "NOSPC",
          ENOSYS |-> "NOTSUPP", EINVAL |-> "INVAL"], e)

getLinkErr(e) ==
  IF e \in {"EXDEV", "EMLINK"}
  THEN Status([EXDEV |-> "XDEV", EMLINK |-> "MLINK"], e)
  ELSE getSymLinkErr(e)

getReadLinkErr(e) ==
  Status([EINVAL |-> "INVAL", EACCES |-> "ACCES", ENOSYS |-> "NOTSUPP",
          ENAMETOOLONG |-> "STALE", ELOOP |-> "STALE", ENOTDIR |-> "STALE",
          ENOENT |-> "STALE"], e)

-----------------------------------------------------------------------------
(* A call in progress.                                                     *)
(*   pc           the step its handler takes next                          *)
(*   op, fh, fh2  the procedure and the handles of the call                *)
(*   dir, dir2    the paths read from the table for fh and fh2             *)
(*   src, path    the old and the new path a handler built from its names  *)
(*   st           the status of the reply so far                           *)
(*   obj, found   the handle of the object answered, and what the table    *)
(*                held for it                                              *)
(*   fd           the inode of the file the handler has open               *)
(* The last three are history that no step reads.                          *)
(*   how          what a CREATE or SETATTR asked for                       *)
(*   did          the call changed the file system, or had nothing to do   *)
(*   held         the handle the object of a silly rename was known by     *)
Idle ==
  [pc |-> "idle", op |-> "none", fh |-> NoHandle, fh2 |-> NoHandle,
   dir |-> <<>>, dir2 |-> <<>>, src |-> <<>>, path |-> <<>>, st |-> "STALE",
   obj |-> NoHandle, found |-> <<>>, fd |-> NoInode, how |-> "none",
   did |-> FALSE, held |-> NoHandle]

ExportHandle == makeFHandle(<<>>, RootIno)
FreeInodes ==
  {i \in Inodes : node[i] = "FREE" /\ \A g \in Threads : thread[g].fd # i}
Outcomes(e) == {e} \cup Faults

At(g, pc) == thread[g].pc = pc
Serving(g, op) == server = "up" /\ thread[g].op = op
Child(g, name) == Append(thread[g].dir, name)

\* The handler of g goes on at pc with status st.
Go(g, pc, st) == thread' = [thread EXCEPT ![g].pc = pc, ![g].st = st]

\* A step that reads the file system or nothing.
OnlyThread == UNCHANGED <<tree, node, fhandleMap, server>>

\* getFileAttrFromPath(p): good and st if it succeeds, bad if not.
OnStat(g, at, p, good, st, bad) ==
  /\ At(g, at)
  /\ \E e \in Outcomes(LstatErr(p)) :
       IF e = "OK" THEN Go(g, good, st) ELSE Go(g, bad, thread[g].st)
  /\ OnlyThread

\* Mutant of setValueforHandle: an entry that is there stays.
SetIfAbsent(g, at, h, p, next) ==
  /\ At(g, at)
  /\ fhandleMap' = [x \in DOMAIN fhandleMap \cup {h} |->
                      IF x \in DOMAIN fhandleMap THEN fhandleMap[x] ELSE p]
  /\ Go(g, next, thread[g].st)
  /\ UNCHANGED <<tree, node, server>>

setValueforHandle(g, at, h, p, next) ==
  /\ At(g, at)
  /\ fhandleMap' = [x \in DOMAIN fhandleMap \cup {h} |->
                      IF x = h THEN p ELSE fhandleMap[x]]
  /\ Go(g, next, thread[g].st)
  /\ UNCHANGED <<tree, node, server>>

deleteHandle(g, at, h, next) ==
  /\ At(g, at)
  /\ fhandleMap' = Restrict(fhandleMap, DOMAIN fhandleMap \ {h})
  /\ Go(g, next, thread[g].st)
  /\ UNCHANGED <<tree, node, server>>

\* A call arrives and its handler looks the first handle up.
Receive(g) ==
  /\ server = "up"
  /\ At(g, "idle")
  /\ \E op \in Ops \ {"MNT", "UMNT"}, fh \in DOMAIN fhandleMap \cup {NoHandle} :
       thread' = [thread EXCEPT ![g] =
         IF fh # NoHandle
         THEN [Idle EXCEPT !.pc = "stat", !.op = op, !.fh = fh,
                           !.dir = fhandleMap[fh]]
         ELSE [Idle EXCEPT !.pc = IF op \in TwoHandles THEN "alt" ELSE "reply",
                           !.op = op]]
  /\ OnlyThread

\* The goroutine writes the reply, closes what it opened and ends.
Return(g) ==
  /\ server = "up"
  /\ At(g, "reply")
  /\ thread' = [thread EXCEPT ![g] = Idle]
  /\ OnlyThread

-----------------------------------------------------------------------------
(* What the handlers have in common. *)

\* The object of the call must be there; its handle is dropped if it is not.
First(g, good, st) ==
  \/ OnStat(g, "stat", thread[g].dir, good, st, "drop")
  \/ deleteHandle(g, "drop", thread[g].fh, "reply")

\* Then a call that changes something ends here on a read-only export.
FirstWritable(g) ==
  IF writeaccess THEN First(g, "act", "STALE") ELSE First(g, "reply", "ROFS")

\* Mutants of Post: the status is lost; the object is stated in place of the
\* directory; a stat that fails is tried again.
PostForgets(g) == OnStat(g, "post", thread[g].dir, "reply", "STALE", "drop")
PostOfObject(g) ==
  OnStat(g, "post", thread[g].path, "reply", thread[g].st, "drop")
PostRetries(g) ==
  OnStat(g, "post", thread[g].dir, "reply", thread[g].st, "post")

\* The post-operation attributes, and again the handle may be dropped.
Post(g) == OnStat(g, "post", thread[g].dir, "reply", thread[g].st, "drop")

\* A system call, or a check before it, fails with status st.
Refuse(g, st) == Go(g, "post", st) /\ UNCHANGED <<tree, node>>

\* A new object, open as fd, has been made at p.
Made(g, p, fd, how) ==
  thread' = [thread EXCEPT ![g].pc = "new", ![g].path = p, ![g].fd = fd,
                           ![g].how = how, ![g].did = TRUE]

\* The status when an object just made cannot be stated; SymLink sets none.
StatFailed(op, e) ==
  CASE op = "MKDIR" -> getMkdirErr(e)
    [] op = "CREATE" -> getCreateErr(e)
    [] OTHER -> "STALE"

\* Mutant of StatObject: when the stat fails the object is made once more.
StatObjectRetries(g) ==
  OnStat(g, "new", thread[g].path, "bind", thread[g].st, "act")

\* Stat the object a reply is to name, for its handle.
StatObject(g) ==
  /\ At(g, "new")
  /\ LET p == thread[g].path
     IN  \E e \in Outcomes(LstatErr(p)) :
           IF e = "OK"
           THEN thread' = [thread EXCEPT ![g].pc = "bind",
                                 ![g].obj = makeFHandle(p, tree[p])]
           ELSE Go(g, "post", StatFailed(thread[g].op, e))
  /\ OnlyThread

\* What the table holds for the handle of the object goes to pc.
Found(g, pc) ==
  LET t == thread[g] IN
  /\ At(g, "bind")
  /\ thread' = [thread EXCEPT
       ![g].found = IF t.obj \in DOMAIN fhandleMap
                    THEN fhandleMap[t.obj] ELSE t.path,
       ![g].pc = pc, ![g].st = "OK"]
  /\ OnlyThread

\* Mutants of GetFound: the path found is not compared with the object's; any
\* path found is taken for the object's.
GetFoundBlindly(g, next) ==
  Found(g, IF thread[g].obj \notin DOMAIN fhandleMap THEN "set" ELSE "check")
GetFoundTrusting(g, next) ==
  Found(g, IF thread[g].obj \notin DOMAIN fhandleMap THEN "set" ELSE next)

GetFound(g, next) ==
  LET t == thread[g] IN
  Found(g, IF t.obj \notin DOMAIN fhandleMap THEN "set"
           ELSE IF fhandleMap[t.obj] = t.path THEN next ELSE "check")

\* Mutant of CheckFound: the other path is taken for stale without a stat.
CheckNothing(g) ==
  At(g, "check") /\ Go(g, "set", thread[g].st) /\ OnlyThread

\* The handle is bound to another path: stale if that path is gone.
CheckFound(g) ==
  /\ At(g, "check")
  /\ \E e \in Outcomes(LstatErr(thread[g].found)) :
       IF e = "OK" THEN server' = "fatal" /\ UNCHANGED thread
       ELSE server' = server /\ Go(g, "set", thread[g].st)
  /\ UNCHANGED <<tree, node, fhandleMap>>

\* Put the handle of the object into the table, unless it is there; a handle
\* bound to another path is rebound if that path is gone, else fatal.
Bind(g, next) ==
  \/ GetFound(g, next)
  \/ CheckFound(g)
  \/ setValueforHandle(g, "set", thread[g].obj, thread[g].path, next)

-----------------------------------------------------------------------------
(* The handlers that only read: no step changes the file system. *)

GetFileAttr(g) == Serving(g, "GETATTR") /\ First(g, "reply", "OK")
Access(g) == Serving(g, "ACCESS") /\ First(g, "reply", "OK")
GetFileSysInfo(g) == Serving(g, "FSINFO") /\ First(g, "reply", "OK")
GetPathConf(g) == Serving(g, "PATHCONF") /\ First(g, "reply", "OK")
ReadDirPlus(g) == Serving(g, "READDIRPLUS") /\ First(g, "reply", "NOTSUPP")

\* Statfs; when it fails the status stays NFS3ERR_STALE.
GetFileSystemAttr(g) ==
  /\ Serving(g, "FSSTAT")
  /\ \/ First(g, "act", "STALE")
     \/ /\ At(g, "act")
        /\ \E e \in Outcomes(FollowErr(thread[g].dir)) :
             IF e = "OK" THEN Go(g, "reply", "OK") ELSE Go(g, "post", "STALE")
        /\ OnlyThread
     \/ Post(g)

\* Open and Readdir; the paging of the entries is not modelled here.
ReadDir(g) ==
  /\ Serving(g, "READDIR")
  /\ \/ First(g, "act", "STALE")
     \/ /\ At(g, "act")
        /\ \E e \in Outcomes(ReaddirErr(thread[g].dir)) :
             IF e = "OK" THEN Go(g, "reply", "OK")
             ELSE Go(g, "post", getReadDirErr(e))
        /\ OnlyThread
     \/ Post(g)

\* Open and ReadAt, which changes nothing and so is not a step of its own.
Read(g) ==
  /\ Serving(g, "READ")
  /\ \/ IF IsReg(thread[g].dir) THEN First(g, "act", "STALE")
        ELSE First(g, "post", "INVAL")
     \/ /\ At(g, "act")
        /\ \E e \in Outcomes(WriteOpenErr(thread[g].dir)) :
             Go(g, "post", IF e = "OK" THEN "OK" ELSE getReadErr(e))
        /\ OnlyThread
     \/ Post(g)

ReadLink(g) ==
  /\ Serving(g, "READLINK")
  /\ \/ First(g, "act", "STALE")
     \/ /\ At(g, "act")
        /\ \E e \in Outcomes(ReadlinkErr(thread[g].dir)) :
             Go(g, "post", IF e = "OK" THEN "OK" ELSE getReadLinkErr(e))
        /\ OnlyThread
     \/ Post(g)

\* Lookup of a child; success has no post-operation attributes.
Lookup(g) ==
  /\ Serving(g, "LOOKUP")
  /\ \/ First(g, "act", "STALE")
     \/ /\ At(g, "act")
        /\ \/ Refuse(g, "ACCES")
           \/ \E name \in Names :
                LET p == Child(g, name) IN
                \E e \in Outcomes(LstatErr(p)) :
                  IF e # "OK" THEN Refuse(g, getLookupErr(e))
                  ELSE /\ thread' = [thread EXCEPT ![g].pc = "bind",
                            ![g].path = p, ![g].obj = makeFHandle(p, tree[p])]
                       /\ UNCHANGED <<tree, node>>
        /\ UNCHANGED <<fhandleMap, server>>
     \/ Bind(g, "reply")
     \/ Post(g)

-----------------------------------------------------------------------------
(* The handlers that change the file system. *)

\* Mkdir; "." and ".." exist, other invalid names are refused.
Mkdir(g) ==
  /\ Serving(g, "MKDIR")
  /\ \/ FirstWritable(g)
     \/ /\ At(g, "act")
        /\ \/ \E st \in {"ACCES", "EXIST"} : Refuse(g, st)
           \/ \E name \in Names :
                LET p == Child(g, name) IN
                \E e \in Outcomes(NewErr(p, FreeInodes # {})) :
                  IF e = "OK"
                  THEN \E i \in FreeInodes :
                         NewObject(p, i, "DIR") /\ Made(g, p, NoInode, "none")
                  ELSE Refuse(g, getMkdirErr(e))
        /\ UNCHANGED <<fhandleMap, server>>
     \/ StatObject(g)
     \/ Bind(g, "post")
     \/ Post(g)

\* SymLink.
SymLink(g) ==
  /\ Serving(g, "SYMLINK")
  /\ \/ FirstWritable(g)
     \/ /\ At(g, "act")
        /\ \/ Refuse(g, "INVAL")
           \/ \E name \in Names :
                LET p == Child(g, name) IN
                \E e \in Outcomes(NewErr(p, FreeInodes # {})) :
                  IF e = "OK"
                  THEN \E i \in FreeInodes :
                         NewObject(p, i, "LNK") /\ Made(g, p, NoInode, "none")
                  ELSE Refuse(g, getSymLinkErr(e))
        /\ UNCHANGED <<fhandleMap, server>>
     \/ StatObject(g)
     \/ Bind(g, "post")
     \/ Post(g)

\* Mutant of OpenErr: O_EXCL is forgotten.
OpenErrNoExcl(how, p) == CreatErr(p, FreeInodes # {})

\* OpenFile: O_EXCL unless the client asked for UNCHECKED, O_TRUNC always.
OpenErr(how, p) ==
  IF how = "UNCHECKED" THEN CreatErr(p, FreeInodes # {})
  ELSE NewErr(p, FreeInodes # {})

CreateFile(g, p) ==
  \E how \in {"UNCHECKED", "GUARDED"} : \E e \in Outcomes(OpenErr(how, p)) :
    \/ e # "OK" /\ Refuse(g, getCreateErr(e))
    \/ /\ e = "OK" /\ Exists(p)
       /\ SetKind(tree[p], "EMPTY") /\ Made(g, p, tree[p], how)
    \/ /\ e = "OK" /\ ~Exists(p)
       /\ \E i \in FreeInodes : NewObject(p, i, "EMPTY") /\ Made(g, p, i, how)

Create(g) ==
  /\ Serving(g, "CREATE")
  /\ \/ FirstWritable(g)
     \/ /\ At(g, "act")
        /\ \/ Refuse(g, "INVAL")
           \/ \E name \in Names : CreateFile(g, Child(g, name))
        /\ UNCHANGED <<fhandleMap, server>>
     \/ StatObject(g)
     \/ Bind(g, "post")
     \/ Post(g)

\* Truncate, then Chmod and Chtimes (one step: neither has an effect the
\* model keeps); the first that fails ends the call and undoes nothing.
Setattr(g) ==
  LET p == thread[g].dir IN
  /\ Serving(g, "SETATTR")
  /\ \/ FirstWritable(g)
     \/ /\ At(g, "act")
        /\ \/ Refuse(g, "NOT_SYNC")
           \/ Go(g, "chattr", "STALE") /\ UNCHANGED <<tree, node>>
           \/ \E e \in Outcomes(WriteOpenErr(p)) :
                IF e # "OK" THEN Refuse(g, getSetattrErr(e))
                ELSE \E kind \in {"EMPTY", KindAt(p)} :
                       /\ SetKind(tree[p], kind)
                       /\ thread' = [thread EXCEPT ![g].pc = "chattr",
                            ![g].how = "SIZE", ![g].did = TRUE]
        /\ UNCHANGED <<fhandleMap, server>>
     \/ /\ At(g, "chattr")
        /\ \/ Go(g, "post", "OK")
           \/ \E e \in Outcomes(FollowErr(p)) :
                Go(g, "post", IF e = "OK" THEN "OK" ELSE getSetattrErr(e))
        /\ OnlyThread
     \/ Post(g)

\* OpenFile and WriteAt; a failing Sync is ignored.
Write(g) ==
  LET p == thread[g].dir IN
  /\ Serving(g, "WRITE")
  /\ \/ IF writeaccess /\ ~IsReg(p) THEN First(g, "post", "INVAL")
        ELSE FirstWritable(g)
     \/ /\ At(g, "act")
        /\ \E e \in Outcomes(WriteOpenErr(p)) :
             IF e = "OK"
             THEN thread' = [thread EXCEPT ![g].pc = "io", ![g].fd = tree[p]]
             ELSE Go(g, "post", getWriteErr(e))
        /\ OnlyThread
     \/ /\ At(g, "io")
        /\ \E e \in Outcomes("OK") :
             IF e # "OK" THEN Refuse(g, getWriteErr(e))
             ELSE /\ SetKind(thread[g].fd, IF node[thread[g].fd] \in Regular
                                           THEN "DATA" ELSE node[thread[g].fd])
                  /\ thread' = [thread EXCEPT ![g].pc = "post",
                                  ![g].st = "OK", ![g].did = TRUE]
        /\ UNCHANGED <<fhandleMap, server>>
     \/ Post(g)

\* No Sync and no post-operation stat: the answer is what the stat gave.
Commit(g) ==
  /\ Serving(g, "COMMIT")
  /\ First(g, "reply", IF ~writeaccess THEN "ROFS"
                       ELSE IF IsReg(thread[g].dir) THEN "OK" ELSE "INVAL")

\* syscall.Unlink, which removes no directory.
RemoveFile(g) ==
  /\ Serving(g, "REMOVE")
  /\ \/ FirstWritable(g)
     \/ /\ At(g, "act")
        /\ \/ Refuse(g, "INVAL")
           \/ \E name \in Names : \E e \in Outcomes(UnlinkErr(Child(g, name))) :
                IF e # "OK" THEN Refuse(g, getRemoveErr(e))
                ELSE /\ DropName(Child(g, name))
                     /\ thread' = [thread EXCEPT ![g].pc = "post",
                                     ![g].st = "OK", ![g].did = TRUE]
        /\ UNCHANGED <<fhandleMap, server>>
     \/ Post(g)

\* syscall.Rmdir.  The guard on the name is a disjunction that is true of
\* every name: "" removes the directory of the call itself, "." is EINVAL, and
\* a name with a slash removes a directory further down.
RmdirAt(g, p, err) ==
  \E e \in Outcomes(err) :
    IF e # "OK" THEN Refuse(g, getRmdirErr(e))
    ELSE /\ DropName(p)
         /\ thread' = [thread EXCEPT ![g].pc = "post", ![g].path = p,
                         ![g].st = "OK", ![g].did = TRUE]

Rmdir(g) ==
  /\ Serving(g, "RMDIR")
  /\ \/ FirstWritable(g)
     \/ /\ At(g, "act")
        /\ \/ RmdirAt(g, thread[g].dir, RmdirErr(thread[g].dir))
           \/ RmdirAt(g, thread[g].dir,
                IF RmdirErr(thread[g].dir) \in {"OK", "ENOTEMPTY"} THEN "EINVAL"
                ELSE RmdirErr(thread[g].dir))
           \/ \E name \in Names :
                RmdirAt(g, Child(g, name), RmdirErr(Child(g, name)))
           \/ \E top, name \in Names :
                LET p == Append(Child(g, top), name)
                IN  RmdirAt(g, p, RmdirErr(p))
        /\ UNCHANGED <<fhandleMap, server>>
     \/ Post(g)

-----------------------------------------------------------------------------
(* The handlers of two handles: RENAME (from, to) and LINK (linkDir, old). *)

\* Look the second handle up.
Second(g, at, found, lost) ==
  /\ At(g, at)
  /\ \/ Go(g, lost, thread[g].st)
     \/ \E h \in DOMAIN fhandleMap :
          thread' = [thread EXCEPT ![g].pc = found, ![g].fh2 = h,
                                   ![g].dir2 = fhandleMap[h]]
  /\ OnlyThread

\* Both objects must be there.  The second is stated even if the first is
\* gone, and the first once more if the second is gone.
Both(g) ==
  LET t == thread[g] IN
  \/ OnStat(g, "stat", t.dir, "get2", "STALE", "dropFirst")
  \/ deleteHandle(g, "dropFirst", t.fh, "alt")
  \/ Second(g, "alt", "statAlt", "reply")
  \/ OnStat(g, "statAlt", t.dir2, "reply", "STALE", "drop2")
  \/ Second(g, "get2", "stat2", "statAgain")
  \/ IF writeaccess
     THEN OnStat(g, "stat2", t.dir2, "act", "STALE", "dropSecond")
     ELSE OnStat(g, "stat2", t.dir2, "reply", "ROFS", "dropSecond")
  \/ deleteHandle(g, "dropSecond", t.fh2, "statAgain")
  \/ OnStat(g, "statAgain", t.dir, "reply", "STALE", "drop")
  \/ deleteHandle(g, "drop", t.fh, "reply")
  \/ deleteHandle(g, "drop2", t.fh2, "reply")

\* Mutant of HasSillyPrefix: every rename is taken for a silly one.
AnyName(toName) == TRUE

\* strings.HasPrefix(toName, ".nfs")
HasSillyPrefix(toName) == toName \in Silly

\* os.Rename; held is the handle a silly rename has to move, if any.
RenameTo(g, from, to, silly) ==
  \E e \in Outcomes(RenameErr(from, to)) :
    IF e # "OK" THEN Refuse(g, getRenameErr(e))
    ELSE /\ Move(from, to)
         /\ LET h == makeFHandle(from, tree[from]) IN
            thread' = [thread EXCEPT
              ![g].pc = IF silly THEN "silly" ELSE "post", ![g].st = "OK",
              ![g].src = from, ![g].path = to, ![g].did = TRUE,
              ![g].held = IF /\ silly /\ h \in DOMAIN fhandleMap
                             /\ fhandleMap[h] = from
                          THEN h ELSE NoHandle]

\* After a rename to a ".nfs" name: the handle of the old path, with the inode
\* now stated at the new one, is made to mean the new path.
SillyRename(g) ==
  LET t == thread[g] IN
  \/ /\ At(g, "silly")
     /\ \E e \in Outcomes(LstatErr(t.path)) :
          IF e = "OK"
          THEN thread' = [thread EXCEPT ![g].pc = "sillyGet",
                            ![g].obj = makeFHandle(t.src, tree[t.path])]
          ELSE Go(g, "post", "OK")
     /\ OnlyThread
  \/ /\ At(g, "sillyGet")
     /\ IF t.obj \notin DOMAIN fhandleMap
        THEN Go(g, "post", "OK") /\ server' = server
        ELSE IF fhandleMap[t.obj] = t.src
        THEN Go(g, "sillySet", "OK") /\ server' = server
        ELSE /\ thread' = [thread EXCEPT ![g].found = fhandleMap[t.obj]]
             /\ server' = "fatal"
     /\ UNCHANGED <<tree, node, fhandleMap>>
  \/ setValueforHandle(g, "sillySet", t.obj, t.path, "post")

Rename(g) ==
  LET t == thread[g] IN
  /\ Serving(g, "RENAME")
  /\ \/ Both(g)
     \/ /\ At(g, "act")
        /\ \/ Refuse(g, "INVAL")
           \/ \E fromName, toName \in Names :
                RenameTo(g, Append(t.dir, fromName), Append(t.dir2, toName),
                         HasSillyPrefix(toName))
        /\ UNCHANGED <<fhandleMap, server>>
     \/ SillyRename(g)
     \/ OnStat(g, "post", t.dir, "post2", t.st, "dropFrom")
     \/ deleteHandle(g, "dropFrom", t.fh, "post2")
     \/ OnStat(g, "post2", t.dir2, "reply", t.st, "drop2")

\* os.Link; the object is stated only if the directory still is there.
Link(g) ==
  LET t == thread[g] IN
  /\ Serving(g, "LINK")
  /\ \/ Both(g)
     \/ /\ At(g, "act")
        /\ \/ Refuse(g, "INVAL")
           \/ \E newName \in Names :
                LET p == Child(g, newName) IN
                \E e \in Outcomes(LinkErr(t.dir2, p)) :
                  IF e # "OK" THEN Refuse(g, getLinkErr(e))
                  ELSE /\ NewName(t.dir2, p)
                       /\ thread' = [thread EXCEPT ![g].pc = "post",
                            ![g].path = p, ![g].st = "OK", ![g].did = TRUE]
        /\ UNCHANGED <<fhandleMap, server>>
     \/ OnStat(g, "post", t.dir, "post2", t.st, "drop")
     \/ OnStat(g, "post2", t.dir2, "reply", t.st, "drop2")

-----------------------------------------------------------------------------
(* The MOUNT program, which calls the same backend. *)

Called(g, op) ==
  server = "up" /\ At(g, "idle") /\ op \in Ops

\* A call of MNT or UMNT has run to pc with status st.
Arrive(g, op, pc, st) ==
  /\ thread' = [thread EXCEPT ![g] = [Idle EXCEPT !.pc = pc, !.op = op,
                                                  !.st = st]]
  /\ OnlyThread

Mount(g) ==
  \/ /\ Called(g, "MNT")
     /\ \/ Arrive(g, "MNT", "reply", "ACCES")
        \/ Arrive(g, "MNT",
             IF ExportHandle \in DOMAIN fhandleMap THEN "reply" ELSE "mntSet",
             "OK")
  \/ /\ Serving(g, "MNT")
     /\ setValueforHandle(g, "mntSet", ExportHandle, <<>>, "reply")

UnMount(g) ==
  \/ /\ Called(g, "UMNT")
     /\ \/ Arrive(g, "UMNT", "reply", "OK")
        \/ /\ ExportHandle \in DOMAIN fhandleMap
           /\ Arrive(g, "UMNT", "umntDel", "OK")
  \/ /\ Serving(g, "UMNT")
     /\ deleteHandle(g, "umntDel", ExportHandle, "reply")

\* The process ends, by log.Fatalf or from outside, and is started again;
\* BackendConfigSetup accepts the export only if it is a directory.
Restart ==
  /\ IsDir(<<>>)
  /\ server' = "up"
  /\ fhandleMap' = <<>>
  /\ thread' = [g \in Threads |-> Idle]
  /\ UNCHANGED <<tree, node>>

-----------------------------------------------------------------------------
Init ==
  /\ tree = InitTree
  /\ node = InitNode
  /\ fhandleMap = <<>>
  /\ server = "up"
  /\ thread = [g \in Threads |-> Idle]

Handler(g) ==
  \/ GetFileAttr(g) \/ Access(g) \/ GetFileSysInfo(g) \/ GetPathConf(g)
  \/ ReadDirPlus(g) \/ GetFileSystemAttr(g) \/ ReadDir(g) \/ Read(g)
  \/ ReadLink(g) \/ Lookup(g) \/ Mkdir(g) \/ SymLink(g) \/ Create(g)
  \/ Setattr(g) \/ Write(g) \/ Commit(g) \/ RemoveFile(g) \/ Rmdir(g)
  \/ Rename(g) \/ Link(g)

\* A step of the call of g once it has arrived; Mount and UnMount are also how
\* such a call arrives.
Serve(g) == Handler(g) \/ Mount(g) \/ UnMount(g) \/ Return(g)

Work == \E g \in Threads : Receive(g) \/ Serve(g)
Next == Work \/ Restart

Spec == Init /\ [][Next]_vars

\* The Go scheduler runs every goroutine, the mutex is never held over a
\* system call, and system calls return.
FairSpec == Spec /\ \A g \in Threads : WF_vars(~At(g, "idle") /\ Serve(g))

-----------------------------------------------------------------------------
(* Properties. *)

Pcs == {"idle", "stat", "act", "io", "chattr", "new", "bind", "check", "set",
        "silly", "sillyGet", "sillySet", "post", "post2", "drop", "drop2",
        "dropFirst", "dropSecond", "dropFrom", "alt", "statAlt", "get2",
        "stat2", "statAgain", "mntSet", "umntDel", "reply"}

Calls ==
  [pc : Pcs, op : Procedures \cup {"none"},
   fh : Handles \cup {NoHandle}, fh2 : Handles \cup {NoHandle},
   dir : Paths, dir2 : Paths, src : Paths, path : Paths, found : Paths,
   st : Statuses, obj : Handles \cup {NoHandle}, fd : Inodes \cup {NoInode},
   how : {"none", "UNCHECKED", "GUARDED", "SIZE"},
   did : BOOLEAN, held : Handles \cup {NoHandle}]

\* Every variable has its type: the table maps handles to paths the host
\* accepts, the tree maps paths to inodes.
TypeOK ==
  /\ DOMAIN tree \subseteq Seq(Names)
  /\ \A p \in DOMAIN tree : tree[p] \in Inodes
  /\ node \in [Inodes -> Kinds]
  /\ DOMAIN fhandleMap \subseteq Handles
  /\ \A h \in DOMAIN fhandleMap : fhandleMap[h] \in Paths
  /\ server \in {"up", "fatal"}
  /\ thread \in [Threads -> Calls]

IsSilly(p) == p # <<>> /\ Last(p) \in Silly
MadeFrom(h, p) == \E i \in Inodes : h = makeFHandle(p, i)

\* makeFHandle and the table: whatever the goroutines interleave, a handle in
\* the table is bound to the very path it was made from, or to the ".nfs"
\* name Rename gave its object.  No race of a get and a set cross-binds two.
HandleOrigin ==
  \A h \in DOMAIN fhandleMap :
    MadeFrom(h, fhandleMap[h]) \/ IsSilly(fhandleMap[h])

\* The messages of log.Fatalf: the process gives up only when two paths have
\* one handle by a collision of the hash, which Bind and SillyRename meet.
FatalOnlyOnCollision ==
  server = "fatal" =>
    \E g \in Threads :
      LET t == thread[g] IN
      /\ \/ t.pc = "check" /\ t.found # t.path
         \/ t.pc = "sillyGet" /\ t.found # t.src
      /\ MadeFrom(t.obj, t.found)

Replying(g) == server = "up" /\ At(g, "reply")

\* LOOKUP, CREATE, MKDIR and SYMLINK, one call at a time: the handle of an OK
\* reply is in the table, bound to the name asked for, and is the handle of
\* the object that has that name.
ReplyNamesObject ==
  \A g \in Threads :
    LET t == thread[g] IN
    Replying(g) /\ t.st = "OK" /\ t.obj # NoHandle /\ t.op # "RENAME" =>
      /\ t.obj \in DOMAIN fhandleMap
      /\ fhandleMap[t.obj] = t.path
      /\ Exists(t.path)
      /\ t.obj = makeFHandle(t.path, tree[t.path])

\* Rename to a ".nfs" name: if the file was known by a handle and the ".nfs"
\* file is there when the reply is sent, that handle means it, so a client
\* that still has the file open goes on using it (the comment in Rename).
SillyHandleKept ==
  \A g \in Threads :
    LET t == thread[g] IN
    /\ Replying(g) /\ t.held # NoHandle
    /\ Exists(t.path) /\ makeFHandle(t.src, tree[t.path]) = t.held
    => /\ t.held \in DOMAIN fhandleMap
       /\ fhandleMap[t.held] = t.path

\* The status of a reply tells what happened: a call that changed the file
\* system answers OK, but for the calls that make an object and cannot state
\* it and for a SETATTR that fails half way; and a call that names its effect
\* OK had it.
ReplyTellsEffect ==
  \A g \in Threads :
    LET t == thread[g] IN
    Replying(g) =>
      /\ t.did /\ t.st # "OK" =>
           t.op \in {"MKDIR", "SYMLINK", "CREATE", "SETATTR"}
      /\ t.st = "OK" /\ t.op \in Mutating \ {"COMMIT", "SETATTR"} => t.did

\* writeaccess = false: no handler changes the export.
ReadOnlyExport == [][writeaccess \/ UNCHANGED <<tree, node>>]_vars

\* O_TRUNC and O_EXCL in Create: what a client wrote to a file is emptied only
\* by a SETATTR of the size or an UNCHECKED create, never by one that loses a
\* race for the name.
DataKept ==
  [][\A i \in Inodes : node[i] = "DATA" /\ node'[i] = "EMPTY" =>
       \E g \in Threads : thread'[g].how \in {"SIZE", "UNCHECKED"}]_vars

\* deleteHandle, one call at a time: a live server drops a handle only when the
\* path it is bound to is gone, or on UMNT of the export.
DropsOnlyDead ==
  [][\A h \in DOMAIN fhandleMap \ DOMAIN fhandleMap' :
       \/ LstatErr(fhandleMap[h]) # "OK"
       \/ \E g \in Threads : thread[g].pc = "umntDel" /\ h = ExportHandle
       \/ fhandleMap' = <<>> /\ \A g \in Threads : thread'[g] = Idle]_vars

\* setValueforHandle, one call at a time: a handle changes its meaning only
\* when its path is gone or becomes a ".nfs" file.
RebindsOnlyDead ==
  [][\A h \in DOMAIN fhandleMap \cap DOMAIN fhandleMap' :
       fhandleMap'[h] # fhandleMap[h] =>
         ~Exists(fhandleMap[h]) \/ IsSilly(fhandleMap'[h])]_vars

\* Every handler: a call that arrived is answered, unless a log.Fatalf or a
\* restart ends all calls.
CallAnswered ==
  \A g \in Threads : ~At(g, "idle") ~> (At(g, "idle") \/ server = "fatal")

=============================================================================
