------------------------- MODULE WriteCommitProofs --------------------------
(***************************************************************************)
(* Theorems about WRITE and COMMIT, for any number of blocks, calls under  *)
(* way, faults, restarts and seconds.                                      *)
(*                                                                         *)
(* The invariant IInv says why a verifier that only is a time is enough    *)
(* for what the client does with it: verifiers the client holds are no     *)
(* later than the start of the server, which is no later than now, and one *)
(* that is the server's own vouches for the block being in the cache.      *)
(***************************************************************************)
EXTENDS WriteCommit, TLAPS

-----------------------------------------------------------------------------
(* The inductive invariant. *)

\* What a call has written is in the cache, or even on the disk.
CallOK(t, cached, stored) ==
  /\ t.written \subseteq cached
  /\ t.Committed = "FILE_SYNC" => t.pc = "reply" /\ t.written \subseteq stored

\* A kept block with the verifier of the server is in the cache.
KeptOK ==
  \A b \in Blocks :
    client[b].state = "kept" =>
      /\ client[b].verf <= ServerStartTime
      /\ client[b].verf = ServerStartTime => b \in cache

ThreadsOK == \A g \in Threads : CallOK(thread[g], cache, disk)
TimeOK == ServerStartTime <= now

IInv == TypeOK /\ TimeOK /\ ThreadsOK /\ KeptOK /\ SyncedKept

-----------------------------------------------------------------------------
(* Steps. *)

\* A call that goes on as c keeps the types and what calls are worth, if the
\* cache and the disk only grow.
LEMMA ThreadStep ==
  ASSUME IInv, NEW g \in Threads, NEW c \in Calls, CallOK(c, cache', disk'),
         thread' = [thread EXCEPT ![g] = c],
         cache \subseteq cache', disk \subseteq disk'
  PROVE  thread' \in [Threads -> Calls] /\ ThreadsOK'
<1>1. thread' \in [Threads -> Calls]
  BY DEF IInv, TypeOK
<1>2. \A h \in Threads : CallOK(thread'[h], cache', disk')
  <2>1. \A h \in Threads : h # g => thread'[h] = thread[h]
    BY DEF IInv, TypeOK
  <2>2. thread'[g] = c
    BY DEF IInv, TypeOK
  <2>3. QED
    BY <2>1, <2>2 DEF IInv, ThreadsOK, CallOK
<1>3. QED
  BY <1>1, <1>2 DEF ThreadsOK, CallOK

\* The call that ends, or is sent.
LEMMA IdleOK ==
  /\ Idle \in Calls
  /\ CallOK(Idle, cache', disk')
  BY DEF Idle, Calls, CallOK, Stable_how

\* A call is sent or fails: nothing else changes but the count of faults.
LEMMA QuietStep ==
  ASSUME IInv, NEW g \in Threads, NEW c \in Calls, c.written = {},
         c.Committed = "UNSTABLE",
         thread' = [thread EXCEPT ![g] = c],
         UNCHANGED <<cache, disk, now, server, client>>,
         faults' \in 0 .. MaxFault
  PROVE  IInv'
<1>1. CallOK(c, cache', disk')
  BY DEF CallOK
<1>2. thread' \in [Threads -> Calls] /\ ThreadsOK'
  BY <1>1, ThreadStep
<1>3. QED
  BY <1>2 DEF IInv, TypeOK, TimeOK, KeptOK, SyncedKept, In, server

\* A fault is counted.
LEMMA FaultType ==
  ASSUME IInv, Fault \/ UNCHANGED faults
  PROVE  faults' \in 0 .. MaxFault
  BY BoundAssumption DEF Fault, IInv, TypeOK

\* WRITE and COMMIT are sent.
LEMMA SendStep ==
  ASSUME IInv, NEW g \in Threads, Send(g)
  PROVE  IInv'
<1>1. UNCHANGED <<cache, disk, now, server, client>> /\ UNCHANGED faults
  BY DEF Send, SendWrite, SendCommit
<1>2. CASE SendWrite(g)
  <2>1. PICK first \in Blocks, last \in Blocks, stable \in Stable_how :
          /\ first .. last \subseteq In("todo")
          /\ thread' = [thread EXCEPT ![g] =
               [Idle EXCEPT !.pc = "write", !.op = "WRITE",
                            !.blocks = first .. last, !.stable = stable]]
    BY <1>2 DEF SendWrite
  <2> DEFINE bs == first .. last
             c == [Idle EXCEPT !.pc = "write", !.op = "WRITE",
                               !.blocks = bs, !.stable = stable]
  <2>2. bs \subseteq Blocks
    BY <2>1 DEF In
  <2> HIDE DEF bs
  <2>3. c \in Calls /\ c.written = {} /\ c.Committed = "UNSTABLE"
    BY <2>2 DEF Idle, Calls
  <2>4. thread' = [thread EXCEPT ![g] = c]
    BY <2>1 DEF bs
  <2> HIDE DEF c
  <2>5. QED
    BY <1>1, <2>3, <2>4, FaultType, QuietStep
<1>3. CASE SendCommit(g)
  <2> DEFINE bs == In("kept")
             c == [Idle EXCEPT !.pc = "commit", !.op = "COMMIT",
                               !.blocks = bs]
  <2>1. bs \subseteq Blocks
    BY DEF In
  <2>2. thread' = [thread EXCEPT ![g] = c]
    BY <1>3 DEF SendCommit
  <2> HIDE DEF bs
  <2>3. c \in Calls /\ c.written = {} /\ c.Committed = "UNSTABLE"
    BY <2>1 DEF Idle, Calls, Stable_how
  <2> HIDE DEF c
  <2>4. QED
    BY <1>1, <2>2, <2>3, FaultType, QuietStep
<1>4. QED
  BY <1>2, <1>3 DEF Send

\* A call fails before it did anything.
LEMMA FailStep ==
  ASSUME IInv, NEW g \in Threads, Fail(g)
  PROVE  IInv'
<1>1. Idle \in Calls /\ Idle.written = {} /\ Idle.Committed = "UNSTABLE"
  BY IdleOK DEF Idle
<1>2. QED
  BY <1>1, FaultType, QuietStep DEF Fail

\* WriteAt: what it writes is in the cache when the call goes on.
LEMMA WriteAtStep ==
  ASSUME IInv, NEW g \in Threads, WriteAt(g)
  PROVE  IInv'
<1> DEFINE t == thread[g]
           pc == IF t.stable # "UNSTABLE" THEN "sync" ELSE "reply"
<1>1. PICK written \in SUBSET t.blocks :
        /\ Fault \/ UNCHANGED faults
        /\ cache' = cache \cup written
        /\ thread' = [thread EXCEPT ![g].pc = pc, ![g].written = written]
  BY DEF WriteAt, Count
<1> DEFINE c == [t EXCEPT !.pc = pc, !.written = written]
<1>2. UNCHANGED <<disk, now, server, client>>
  BY DEF WriteAt
<1>3. t \in Calls /\ written \subseteq Blocks /\ pc \in {"sync", "reply"}
  BY <1>1 DEF IInv, TypeOK, Calls
<1>4. thread' = [thread EXCEPT ![g] = c]
  BY <1>1
<1> HIDE DEF pc
<1>5. c \in Calls /\ c.written = written /\ c.Committed = t.Committed
  BY <1>3 DEF Calls
<1> HIDE DEF c
<1>6. QED
  <2>1. c.Committed = "UNSTABLE"
    BY <1>5 DEF WriteAt, At, IInv, ThreadsOK, CallOK, Calls
  <2>2. CallOK(c, cache', disk')
    BY <1>1, <1>5, <2>1 DEF CallOK
  <2>3. cache \subseteq cache' /\ cache' \subseteq Blocks /\ disk' = disk
    BY <1>1, <1>2, <1>3 DEF IInv, TypeOK
  <2>4. thread' \in [Threads -> Calls] /\ ThreadsOK'
    BY <1>4, <1>5, <2>2, <2>3, ThreadStep
  <2>5. faults' \in 0 .. MaxFault
    BY <1>1, FaultType
  <2>6. QED
    BY <1>2, <2>3, <2>4, <2>5
       DEF IInv, TypeOK, TimeOK, KeptOK, SyncedKept, In, server

\* Sync: all that is in the cache is on the disk, or the reply does not say so.
LEMMA SyncStep ==
  ASSUME IInv, NEW g \in Threads, Sync(g)
  PROVE  IInv'
<1> DEFINE t == thread[g]
<1>1. PICK err \in {"OK", "EIO"} :
        /\ IF err = "OK" THEN disk' = cache /\ UNCHANGED faults
           ELSE UNCHANGED disk /\ Fault
        /\ thread' = [thread EXCEPT ![g].pc = "reply",
             ![g].Committed = IF err = "OK" THEN "FILE_SYNC" ELSE "UNSTABLE"]
  BY DEF Sync, Committed
<1> DEFINE done == IF err = "OK" THEN "FILE_SYNC" ELSE "UNSTABLE"
           c == [t EXCEPT !.pc = "reply", !.Committed = done]
<1>2. UNCHANGED <<cache, now, server, client>>
  BY DEF Sync
<1>3. t \in Calls /\ t.written \subseteq cache /\ done \in {"UNSTABLE", "FILE_SYNC"}
  BY DEF IInv, TypeOK, ThreadsOK, CallOK
<1>4. thread' = [thread EXCEPT ![g] = c]
  BY <1>1
<1>5. done = "FILE_SYNC" => err = "OK"
  OBVIOUS
<1> HIDE DEF done
<1>6. /\ c \in Calls /\ c.pc = "reply" /\ c.written = t.written
      /\ c.Committed = done
  BY <1>3 DEF Calls
<1> HIDE DEF c
<1>7. /\ disk \subseteq disk' /\ disk' \subseteq cache
      /\ done = "FILE_SYNC" => disk' = cache
      /\ faults' \in 0 .. MaxFault
  BY <1>1, <1>5, FaultType DEF IInv, TypeOK
<1>8. CallOK(c, cache', disk')
  BY <1>2, <1>3, <1>6, <1>7 DEF CallOK
<1>9. thread' \in [Threads -> Calls] /\ ThreadsOK'
  BY <1>2, <1>4, <1>6, <1>7, <1>8, ThreadStep
<1>10. QED
  BY <1>2, <1>7, <1>9
     DEF IInv, TypeOK, TimeOK, KeptOK, SyncedKept, In, server

\* Commit does nothing.
LEMMA CommitStep ==
  ASSUME IInv, NEW g \in Threads, Commit(g)
  PROVE  IInv'
<1> DEFINE t == thread[g]
           c == [t EXCEPT !.pc = "reply"]
<1>1. UNCHANGED <<cache, disk, now, server, faults, client>>
  BY DEF Commit
<1>2. t \in Calls /\ CallOK(t, cache, disk)
  BY DEF IInv, TypeOK, ThreadsOK
<1>3. thread' = [thread EXCEPT ![g] = c]
  BY DEF Commit
<1>4. /\ c \in Calls /\ c.pc = "reply" /\ c.written = t.written
      /\ c.Committed = t.Committed
  BY <1>2 DEF Calls
<1> HIDE DEF c
<1>5. CallOK(c, cache', disk')
  BY <1>1, <1>2, <1>4 DEF CallOK
<1>6. thread' \in [Threads -> Calls] /\ ThreadsOK'
  BY <1>1, <1>3, <1>4, <1>5, ThreadStep
<1>7. QED
  BY <1>1, <1>6 DEF IInv, TypeOK, TimeOK, KeptOK, SyncedKept, In, server

\* What the client makes of a reply, block by block.
LEMMA AfterOK ==
  ASSUME IInv, NEW g \in Threads, At(g, "reply"), NEW b \in Blocks,
         NEW k, k = IF thread[g].op = "WRITE" THEN AfterWrite(thread[g], b)
                    ELSE AfterCommit(thread[g], b)
  PROVE  /\ k \in [state : States, verf : Times]
         /\ k.state = "kept" => /\ k.verf <= ServerStartTime
                                /\ k.verf = ServerStartTime => b \in cache
         /\ k.state = "synced" => b \in disk
         /\ client[b].state \in {"todo", "kept"}
              /\ k.state \in {"synced", "committed"} => b \in cache
<1> DEFINE t == thread[g]
<1>1. /\ client[b] \in [state : States, verf : Times]
      /\ client[b].state = "kept" =>
           /\ client[b].verf <= ServerStartTime
           /\ client[b].verf = ServerStartTime => b \in cache
      /\ client[b].state = "synced" => b \in disk
  BY DEF IInv, TypeOK, KeptOK, SyncedKept, In
<1>2. /\ ServerStartTime \in Times /\ ServerStartTime <= ServerStartTime
      /\ 0 \in Times /\ disk \subseteq cache
  BY BoundAssumption DEF IInv, TypeOK, Times
<1>3. CallOK(t, cache, disk)
  BY DEF IInv, ThreadsOK
<1>4. {"todo", "kept", "synced", "committed"} = States
  BY DEF States
<1>5. CASE k = client[b]
  BY <1>1, <1>2, <1>5
<1>6. CASE /\ b \in t.written
           /\ k = [state |-> IF t.Committed = "FILE_SYNC" THEN "synced"
                             ELSE "kept",
                   verf |-> ServerStartTime]
  BY <1>2, <1>3, <1>4, <1>6 DEF CallOK
<1>7. CASE /\ k = [client[b] EXCEPT !.state = "committed"]
           /\ client[b].state = "kept" /\ client[b].verf = ServerStartTime
  BY <1>1, <1>2, <1>4, <1>7
<1>8. CASE k = Todo
  BY <1>2, <1>4, <1>8 DEF Todo
<1>9. QED
  BY <1>5, <1>6, <1>7, <1>8 DEF AfterWrite, AfterCommit, Verf

LEMMA ReturnStep ==
  ASSUME IInv, NEW g \in Threads, Return(g)
  PROVE  IInv'
<1>1. UNCHANGED <<cache, disk, now, server, faults>>
  BY DEF Return
<1>2. /\ At(g, "reply")
      /\ client' = [b \in Blocks |-> IF thread[g].op = "WRITE"
                                     THEN AfterWrite(thread[g], b)
                                     ELSE AfterCommit(thread[g], b)]
  BY DEF Return
<1>3. \A b \in Blocks :
        /\ client'[b] \in [state : States, verf : Times]
        /\ client'[b].state = "kept" =>
             /\ client'[b].verf <= ServerStartTime
             /\ client'[b].verf = ServerStartTime => b \in cache
        /\ client'[b].state = "synced" => b \in disk
  BY <1>2, AfterOK
<1>4. client' \in [Blocks -> [state : States, verf : Times]]
  BY <1>2, <1>3
<1>5. KeptOK' /\ SyncedKept'
  BY <1>1, <1>3 DEF KeptOK, SyncedKept, In, server
<1>6. thread' \in [Threads -> Calls] /\ ThreadsOK'
  BY <1>1, IdleOK, ThreadStep DEF Return
<1>7. QED
  BY <1>1, <1>4, <1>5, <1>6 DEF IInv, TypeOK, TimeOK, server

\* The kernel writes a block back.
LEMMA WriteBackStep ==
  ASSUME IInv, WriteBack
  PROVE  IInv'
<1>1. UNCHANGED <<cache, now, server, faults, thread, client>>
  BY DEF WriteBack
<1>2. disk \subseteq disk' /\ disk' \subseteq cache
  BY DEF WriteBack, IInv, TypeOK
<1>3. ThreadsOK'
  BY <1>1, <1>2 DEF IInv, ThreadsOK, CallOK
<1>4. QED
  BY <1>1, <1>2, <1>3 DEF IInv, TypeOK, TimeOK, KeptOK, SyncedKept, In, server

LEMMA TickStep ==
  ASSUME IInv, Tick
  PROVE  IInv'
<1>1. UNCHANGED <<cache, disk, server, faults, thread, client>>
  BY DEF Tick
<1>2. now' \in Times /\ ServerStartTime <= now'
  BY BoundAssumption DEF Tick, IInv, TypeOK, TimeOK, Times
<1>3. QED
  BY <1>1, <1>2 DEF IInv, TypeOK, TimeOK, ThreadsOK, CallOK, KeptOK,
                    SyncedKept, In, server

\* A restart of the server alone keeps the cache; one of the host takes longer
\* than the second in which two servers would have one verifier.
LEMMA RestartStep ==
  ASSUME IInv, Restart
  PROVE  IInv'
<1>1. /\ UNCHANGED <<disk, now, faults, client>>
      /\ ServerStartTime' = now /\ life' = life + 1 /\ life < MaxLife
      /\ thread' = [g \in Threads |-> Idle]
      /\ \/ cache' = cache
         \/ now > ServerStartTime /\ cache' = disk
  BY DEF Restart
<1>2. now \in Nat /\ ServerStartTime \in Nat /\ ServerStartTime <= now
  BY DEF IInv, TypeOK, TimeOK, Times
<1>3. disk' \subseteq cache' /\ cache' \subseteq Blocks
  BY <1>1 DEF IInv, TypeOK
<1>4. life' \in Lives
  BY <1>1, BoundAssumption DEF IInv, TypeOK, Lives
<1>5. thread' \in [Threads -> Calls]
  BY <1>1, IdleOK
<1>6. ThreadsOK'
  BY <1>1, IdleOK DEF ThreadsOK, CallOK
<1>7. KeptOK'
  <2> SUFFICES ASSUME NEW b \in Blocks, client[b].state = "kept"
               PROVE  /\ client[b].verf <= now
                      /\ client[b].verf = now => b \in cache'
    BY <1>1 DEF KeptOK
  <2>1. /\ client[b].verf \in Nat
        /\ client[b].verf <= ServerStartTime
        /\ client[b].verf = ServerStartTime => b \in cache
    BY DEF IInv, TypeOK, KeptOK, Times
  <2>2. QED
    BY <1>1, <1>2, <2>1
<1>8. SyncedKept'
  BY <1>1 DEF IInv, SyncedKept, In
<1>9. TypeOK' /\ TimeOK'
  BY <1>1, <1>2, <1>3, <1>4, <1>5 DEF IInv, TypeOK, TimeOK
<1>10. QED
  BY <1>6, <1>7, <1>8, <1>9 DEF IInv

-----------------------------------------------------------------------------
(* The theorems. *)

LEMMA InitIInv == Init => IInv
<1> SUFFICES ASSUME Init PROVE IInv
  OBVIOUS
<1>1. Todo \in [state : States, verf : Times] /\ Todo.state = "todo"
  BY BoundAssumption DEF Todo, States, Times
<1>2. TypeOK
  BY <1>1, IdleOK, BoundAssumption DEF Init, TypeOK, Times, Lives
<1>3. TimeOK
  BY DEF Init, TimeOK
<1>4. ThreadsOK
  BY DEF Init, ThreadsOK, CallOK, Idle
<1>5. KeptOK /\ SyncedKept
  BY <1>1 DEF Init, KeptOK, SyncedKept, In
<1>6. QED
  BY <1>2, <1>3, <1>4, <1>5 DEF IInv

LEMMA NextIInv == IInv /\ [Next]_vars => IInv'
<1> SUFFICES ASSUME IInv, [Next]_vars PROVE IInv'
  OBVIOUS
<1>1. CASE UNCHANGED vars
  BY <1>1 DEF vars, server, IInv, TypeOK, TimeOK, ThreadsOK, CallOK, KeptOK,
              SyncedKept, In
<1>2. ASSUME NEW g \in Threads, Send(g) \/ Serve(g)
      PROVE  IInv'
  BY <1>2, SendStep, FailStep, WriteAtStep, SyncStep, CommitStep, ReturnStep
     DEF Serve
<1>3. QED
  BY <1>1, <1>2, WriteBackStep, TickStep, RestartStep DEF Next

\* The invariant holds through all calls, restarts and losses of the cache.
THEOREM Invariance == Spec => []IInv
<1>1. QED
  BY InitIInv, NextIInv, PTL DEF Spec

\* Types; and that a reply of Write says UNSTABLE or FILE_SYNC, never what the
\* client asked for.
THEOREM TypeCorrect == Spec => []TypeOK
<1>1. IInv => TypeOK
  BY DEF IInv
<1>2. QED
  BY <1>1, Invariance, PTL

\* Write and Sync: what a reply said is synced survives every crash.
THEOREM SyncedStays == Spec => []SyncedKept
<1>1. IInv => SyncedKept
  BY DEF IInv
<1>2. QED
  BY <1>1, Invariance, PTL

\* ServerStartTime as the verifier, Count and Committed: a client never lets
\* its copy go of a block that is not in the file at that time.
THEOREM NothingLetGoEarly == Spec => LetGoInFile
<1> DEFINE A == \A b \in Blocks :
                  /\ client[b].state \in {"todo", "kept"}
                  /\ client'[b].state \in {"synced", "committed"}
                  => b \in cache
<1>1. ASSUME IInv, Next PROVE A
  <2>1. CASE UNCHANGED client
    BY <2>1
  <2>2. ASSUME NEW g \in Threads, Return(g) PROVE A
    <3> SUFFICES ASSUME NEW b \in Blocks,
                        client[b].state \in {"todo", "kept"},
                        client'[b].state \in {"synced", "committed"}
                 PROVE  b \in cache
      OBVIOUS
    <3>1. /\ At(g, "reply")
          /\ client'[b] = IF thread[g].op = "WRITE"
                          THEN AfterWrite(thread[g], b)
                          ELSE AfterCommit(thread[g], b)
      BY <2>2 DEF Return
    <3>2. QED
      BY <1>1, <3>1, AfterOK
  <2>3. QED
    BY <1>1, <2>1, <2>2
       DEF Next, Send, SendWrite, SendCommit, Serve, Fail, WriteAt, Sync,
           Commit, WriteBack, Tick, Restart
<1>2. IInv /\ [Next]_vars => [A]_vars
  BY <1>1
<1>3. QED
  BY <1>2, Invariance, PTL DEF Spec, LetGoInFile
=============================================================================
