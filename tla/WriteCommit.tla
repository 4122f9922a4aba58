---------------------------- MODULE WriteCommit -----------------------------
(***************************************************************************)
(* WRITE and COMMIT of src/nfs3/allunix.go on one open file, the page      *)
(* cache below them and a client above that follows the protocol: it keeps *)
(* a copy of what it wrote until a FILE_SYNC reply, or a COMMIT with the   *)
(* verifier of the WRITE, tells it that the server has it.                 *)
(*                                                                         *)
(* The file is a set of blocks, each of which the client wants written.    *)
(* Handles, types and attributes are those of Backend; here a call may     *)
(* just fail.  Offsets from 2^63 on are left out.                          *)
(***************************************************************************)
EXTENDS Naturals

CONSTANTS
  Threads,     \* the calls the client may have under way at once
  MaxBlock,    \* the blocks of the file are 1 .. MaxBlock
  MaxLife,     \* how often the server is started
  MaxTime,     \* the last second of the clock
  MaxFault     \* how many calls fail, or write or sync less than asked

VARIABLES
  cache,            \* the blocks of the file as reads return them
  disk,             \* those a crash of the host leaves
  now,              \* the clock, in seconds
  ServerStartTime,  \* Backend.ServerStartTime
  life,             \* how often the server has been started
  faults,           \* how many faults there were
  thread,           \* the calls under way
  client            \* block |-> what the client knows of it

server == <<ServerStartTime, life>>
vars == <<cache, disk, now, server, faults, thread, client>>

Blocks == 1 .. MaxBlock
Times == 0 .. MaxTime
Lives == 0 .. MaxLife
Stable_how == {"UNSTABLE", "DATA_SYNC", "FILE_SYNC"}

ASSUME BoundAssumption ==
  /\ MaxBlock \in Nat /\ MaxFault \in Nat
  /\ MaxLife \in Nat \ {0} /\ MaxTime \in Nat \ {0}

\* A call: the blocks it is for, how stable it is to make them, the blocks
\* written, and how stable the reply says they are.
Idle == [pc |-> "idle", op |-> "none", blocks |-> {}, stable |-> "UNSTABLE",
         written |-> {}, Committed |-> "UNSTABLE"]

\* What the client knows: nothing to be relied on, or that the block was
\* written by a server with a verifier, or that it may let its copy go.
Todo == [state |-> "todo", verf |-> 0]
States == {"todo", "kept", "synced", "committed"}

At(g, pc) == thread[g].pc = pc
In(state) == {b \in Blocks : client[b].state = state}
Fault == faults < MaxFault /\ faults' = faults + 1

-----------------------------------------------------------------------------
(* The client calls: WRITE for blocks in a row, COMMIT for the file. *)

SendWrite(g) ==
  /\ At(g, "idle")
  /\ \E first, last \in Blocks, stable \in Stable_how :
       /\ first .. last \subseteq In("todo") /\ first <= last
       /\ thread' = [thread EXCEPT ![g] =
            [Idle EXCEPT !.pc = "write", !.op = "WRITE",
                         !.blocks = first .. last, !.stable = stable]]
  /\ UNCHANGED <<cache, disk, now, server, faults, client>>

\* What is kept now is what the COMMIT is for.
SendCommit(g) ==
  /\ At(g, "idle") /\ In("kept") # {}
  /\ thread' = [thread EXCEPT ![g] =
       [Idle EXCEPT !.pc = "commit", !.op = "COMMIT", !.blocks = In("kept")]]
  /\ UNCHANGED <<cache, disk, now, server, faults, client>>

\* A call fails before it did anything.
Fail(g) ==
  /\ At(g, "write") \/ At(g, "commit")
  /\ Fault
  /\ thread' = [thread EXCEPT ![g] = Idle]
  /\ UNCHANGED <<cache, disk, now, server, client>>

-----------------------------------------------------------------------------
(* Write: WriteAt, then Sync if the client asked for it. *)

\* Mutant of Count: what was asked for, not what was written.
CountAsked(asked, written) == asked

\* reply.Resok.Count
Count(asked, written) == written

\* WriteAt writes all, or less and then gives an error that is not looked at.
WriteAt(g) ==
  LET asked == thread[g].blocks IN
  /\ At(g, "write")
  /\ \E written \in SUBSET asked :
       /\ written # {} /\ \A b \in asked, c \in written : b <= c => b \in written
       /\ IF written = asked THEN UNCHANGED faults ELSE Fault
       /\ cache' = cache \cup written
       /\ thread' = [thread EXCEPT
            ![g].pc = IF thread[g].stable # "UNSTABLE" THEN "sync" ELSE "reply",
            ![g].written = Count(asked, written)]
  /\ UNCHANGED <<disk, now, server, client>>

\* Mutants of Committed: the reply says what was asked for; a failing Sync
\* is taken for a good one.
CommittedAsAsked(stable, err) == IF err = "OK" THEN stable ELSE "UNSTABLE"
CommittedAnyway(stable, err) == "FILE_SYNC"

\* reply.Resok.Committed after a Sync.
Committed(stable, err) == IF err = "OK" THEN "FILE_SYNC" ELSE "UNSTABLE"

\* Sync writes all of the file that is in the cache; an error is ignored.
Sync(g) ==
  /\ At(g, "sync")
  /\ \E err \in {"OK", "EIO"} :
       /\ IF err = "OK" THEN disk' = cache /\ UNCHANGED faults
          ELSE UNCHANGED disk /\ Fault
       /\ thread' = [thread EXCEPT ![g].pc = "reply",
            ![g].Committed = Committed(thread[g].stable, err)]
  /\ UNCHANGED <<cache, now, server, client>>

\* Commit syncs nothing.
Commit(g) ==
  /\ At(g, "commit")
  /\ thread' = [thread EXCEPT ![g].pc = "reply"]
  /\ UNCHANGED <<cache, disk, now, server, faults, client>>

\* Mutant of Verf: the reply to a COMMIT has no verifier.
VerfOfWrite(op) == IF op = "WRITE" THEN ServerStartTime ELSE 0

\* reply.Resok.Verf
Verf(op) == ServerStartTime

-----------------------------------------------------------------------------
(* What the client makes of the reply. *)

AfterWrite(t, b) ==
  IF b \notin t.written \/ client[b].state \in {"synced", "committed"}
  THEN client[b]
  ELSE [state |-> IF t.Committed = "FILE_SYNC" THEN "synced" ELSE "kept",
        verf |-> Verf("WRITE")]

\* A verifier that is not the one of the WRITE: it has to be written again.
AfterCommit(t, b) ==
  IF b \notin t.blocks \/ client[b].state # "kept" THEN client[b]
  ELSE IF client[b].verf = Verf("COMMIT")
  THEN [client[b] EXCEPT !.state = "committed"]
  ELSE Todo

Return(g) ==
  /\ At(g, "reply")
  /\ client' = [b \in Blocks |-> IF thread[g].op = "WRITE"
                                 THEN AfterWrite(thread[g], b)
                                 ELSE AfterCommit(thread[g], b)]
  /\ thread' = [thread EXCEPT ![g] = Idle]
  /\ UNCHANGED <<cache, disk, now, server, faults>>

-----------------------------------------------------------------------------
(* The host. *)

\* The kernel writes a block back when it likes.
WriteBack ==
  /\ \E b \in cache \ disk : disk' = disk \cup {b}
  /\ UNCHANGED <<cache, now, server, faults, thread, client>>

Tick ==
  /\ now < MaxTime
  /\ now' = now + 1
  /\ UNCHANGED <<cache, disk, server, faults, thread, client>>

\* The server goes down and is started again, within a second even, or the
\* host with its cache, which takes longer; the client gets no reply to the
\* calls under way and repeats them.
Restart ==
  /\ life < MaxLife
  /\ ServerStartTime' = now
  /\ life' = life + 1
  /\ \/ UNCHANGED cache
     \/ now > ServerStartTime /\ cache' = disk
  /\ thread' = [g \in Threads |-> Idle]
  /\ UNCHANGED <<disk, now, faults, client>>

-----------------------------------------------------------------------------
Init ==
  /\ cache = {} /\ disk = {}
  /\ now = 1 /\ ServerStartTime = 1 /\ life = 1
  /\ faults = 0
  /\ thread = [g \in Threads |-> Idle]
  /\ client = [b \in Blocks |-> Todo]

Serve(g) == Fail(g) \/ WriteAt(g) \/ Sync(g) \/ Commit(g) \/ Return(g)
Send(g) == SendWrite(g) \/ SendCommit(g)
Next ==
  \/ \E g \in Threads : Send(g) \/ Serve(g)
  \/ WriteBack \/ Tick \/ Restart

Spec == Init /\ [][Next]_vars

\* Every goroutine runs, and the client goes on until all is let go.
FairSpec ==
  Spec /\ \A g \in Threads :
            WF_vars(Serve(g)) /\ WF_vars(SendWrite(g)) /\ WF_vars(SendCommit(g))

-----------------------------------------------------------------------------
(* Properties. *)

Calls ==
  [pc : {"idle", "write", "sync", "commit", "reply"},
   op : {"none", "WRITE", "COMMIT"}, blocks : SUBSET Blocks,
   stable : Stable_how, written : SUBSET Blocks,
   Committed : {"UNSTABLE", "FILE_SYNC"}]

\* Every variable has its type; of the three levels of Stable_how a reply
\* gives the lowest or the highest.
TypeOK ==
  /\ disk \subseteq cache /\ cache \subseteq Blocks
  /\ now \in Times /\ ServerStartTime \in Times
  /\ life \in Lives /\ faults \in 0 .. MaxFault
  /\ thread \in [Threads -> Calls]
  /\ client \in [Blocks -> [state : States, verf : Times]]

\* Write with FILE_SYNC or DATA_SYNC: what a reply says is synced is on the
\* disk, whatever syncs fail and however WRITEs and crashes interleave.
SyncedKept == In("synced") \subseteq disk

\* Count and Verf of a reply, "used to allow a client to detect server state
\* change": what a client lets its copy go of is in the file at that time,
\* after short writes, failing syncs, retries, and restarts of the server and
\* of the host between the WRITE and the COMMIT.
LetGoInFile ==
  [][\A b \in Blocks :
       /\ client[b].state \in {"todo", "kept"}
       /\ client'[b].state \in {"synced", "committed"}
       => b \in cache]_vars

\* Retries of a client that follows the protocol come to an end: once crashes
\* and faults cease, every block is let go of.
AllLetGo == <>[](Blocks = In("synced") \cup In("committed"))
=============================================================================
