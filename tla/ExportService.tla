---------------------------- MODULE ExportService ---------------------------
(***************************************************************************)
(* What the backend promises its clients.  The table of handles, the steps *)
(* of a handler, its error tables and what it stats are left out: a call   *)
(* arrives, has at most one effect on the export, is given a status that   *)
(* tells of the effect, and is answered.  The effect of a call is one      *)
(* system call that succeeds, of the kind its procedure asks for.  When    *)
(* the server is started again the calls in progress are lost, with or     *)
(* without their effect.                                                   *)
(***************************************************************************)
EXTENDS Filesystem

CONSTANTS
  Threads,       \* the goroutines net/rpc may run at once
  Ops,           \* the procedures the clients call
  writeaccess    \* whether clients may change the export

VARIABLE call    \* goroutine |-> its call: procedure, effect had, status

vars == <<tree, node, call>>

NoCall == [op |-> "none", did |-> FALSE, st |-> "none"]

\* The procedures that succeed by their effect only, and those that may fail
\* after it: the new object or the rest of the attributes may be out of reach.
ByEffect == {"WRITE", "CREATE", "MKDIR", "SYMLINK", "REMOVE", "RMDIR",
             "RENAME", "LINK"}
HalfWay == {"CREATE", "MKDIR", "SYMLINK", "SETATTR"}

\* The status st may be given to a call of op.
Honest(op, did, st) ==
  /\ st = "OK" /\ op \in ByEffect => did
  /\ st = "error" /\ did => op \in HalfWay

\* A call arrives; it may be answered before anything else is done.
Call(g) ==
  /\ call[g] = NoCall
  /\ \E op \in Ops, st \in {"none", "OK", "error"} :
       /\ Honest(op, FALSE, st)
       /\ call' = [call EXCEPT ![g] = [NoCall EXCEPT !.op = op, !.st = st]]
  /\ UNCHANGED <<tree, node>>

NewOf(p, kind) ==
  /\ NewErr(p, TRUE) = "OK"
  /\ \E i \in Inodes : node[i] = "FREE" /\ NewObject(p, i, kind)
Emptied(p) == WriteOpenErr(p) = "OK" /\ SetKind(tree[p], "EMPTY")
Nothing == UNCHANGED <<tree, node>>

\* One system call for a call of op.
Change(op) ==
  \E p, q \in Paths :
    \/ op = "MKDIR" /\ NewOf(p, "DIR")
    \/ op = "SYMLINK" /\ NewOf(p, "LNK")
    \/ op = "CREATE" /\ (NewOf(p, "EMPTY") \/ Emptied(p))
    \/ op = "SETATTR" /\ (Emptied(p) \/ Nothing)
    \/ op = "WRITE" /\ ( \/ Nothing
                         \/ \E i \in Inodes :
                              node[i] \in Regular /\ SetKind(i, "DATA"))
    \/ op = "REMOVE" /\ UnlinkErr(p) = "OK" /\ DropName(p)
    \/ op = "RMDIR" /\ RmdirErr(p) = "OK" /\ DropName(p)
    \/ op = "RENAME" /\ RenameErr(p, q) = "OK" /\ Move(p, q)
    \/ op = "LINK" /\ LinkErr(p, q) = "OK" /\ NewName(p, q)

\* The effect of a call, which it has once and only before its status.
Effect(g) ==
  /\ writeaccess
  /\ call[g].did = FALSE /\ call[g].st = "none"
  /\ Change(call[g].op)
  /\ call' = [call EXCEPT ![g].did = TRUE]

Decide(g) ==
  /\ call[g].op # "none" /\ call[g].st = "none"
  /\ \E st \in {"OK", "error"} :
       /\ Honest(call[g].op, call[g].did, st)
       /\ call' = [call EXCEPT ![g].st = st]
  /\ UNCHANGED <<tree, node>>

Answer(g) ==
  /\ call[g].st # "none"
  /\ call' = [call EXCEPT ![g] = NoCall]
  /\ UNCHANGED <<tree, node>>

\* All calls in progress are lost at once.
StartAgain ==
  /\ call' = [g \in Threads |-> NoCall]
  /\ UNCHANGED <<tree, node>>

Init ==
  /\ tree = InitTree
  /\ node = InitNode
  /\ call = [g \in Threads |-> NoCall]

Next ==
  \/ \E g \in Threads : Call(g) \/ Effect(g) \/ Decide(g) \/ Answer(g)
  \/ StartAgain

Spec == Init /\ [][Next]_vars
=============================================================================
