----------------------------- MODULE RpcProofs ------------------------------
(***************************************************************************)
(* Theorems about a connection of the RPC server, for every table of       *)
(* programs, every set of headers and any number of calls.                 *)
(***************************************************************************)
EXTENDS RpcServer, TLAPS

-----------------------------------------------------------------------------
(* The method a header is turned into. *)

\* What Method makes of each kind of header.
LEMMA MethodCases ==
  ASSUME NEW h \in Headers
  PROVE  /\ Denied(h) => Method(h) \in {"RPCMismatch", "AuthError"}
         /\ ~Denied(h) /\ ~Known(h) => Method(h) = "ProgUnavail"
         /\ ~Denied(h) /\ Known(h) =>
              IF h.version # procTable[Index(h)].version
              THEN Method(h) = "ProgMismatch"
              ELSE IF h.procedure >= Len(procTable[Index(h)].procs)
              THEN Method(h) = "ProcUnavail"
              ELSE Method(h) = procTable[Index(h)].procs[h.procedure + 1]
<1>1. CASE h.rpcvers # 2
  BY <1>1 DEF Method, Denied
<1>2. CASE h.rpcvers = 2 /\ Denied(h)
  BY <1>2 DEF Method
<1>3. CASE ~Denied(h) /\ ~Known(h)
  BY <1>3 DEF Method, Denied
<1>4. CASE ~Denied(h) /\ Known(h)
  BY <1>4 DEF Method, Denied
<1>5. QED
  BY <1>1, <1>2, <1>3, <1>4

\* The table, taken apart: the entries and their fields have their types.
LEMMA TableTypes ==
  /\ Len(procTable) \in Nat \ {0}
  /\ DOMAIN procTable = 1 .. Len(procTable)
  /\ \A i \in 1 .. Len(procTable) :
       /\ procTable[i].program \in Nat
       /\ procTable[i].version \in Nat
       /\ procTable[i].procs \in Seq(STRING)
<1> DEFINE Entry == [program : Nat, version : Nat, procs : Seq(STRING)]
<1>1. procTable \in Seq(Entry) /\ procTable # <<>>
  BY TableAssumption
<1> HIDE DEF Entry
<1>2. /\ Len(procTable) \in Nat \ {0}
      /\ DOMAIN procTable = 1 .. Len(procTable)
  BY <1>1
<1>3. \A i \in 1 .. Len(procTable) : procTable[i] \in Entry
  BY <1>1
<1>4. \A e \in Entry : /\ e.program \in Nat /\ e.version \in Nat
                       /\ e.procs \in Seq(STRING)
  BY DEF Entry
<1>5. QED
  BY <1>2, <1>3, <1>4

\* The table is in the order of the programs.
LEMMA TableOrdered ==
  ASSUME NEW i \in 1 .. Len(procTable), NEW j \in 1 .. Len(procTable), i <= j
  PROVE  procTable[i].program <= procTable[j].program
<1>1. i < j => procTable[i].program < procTable[j].program
  BY TableTypes, TableAssumption
<1>2. procTable[i].program \in Nat /\ procTable[j].program \in Nat
  BY TableTypes
<1>3. CASE i = j
  BY <1>2, <1>3
<1>4. CASE i # j
  <2>1. i < j
    BY <1>4, TableTypes
  <2>2. QED
    BY <1>1, <1>2, <2>1
<1>5. QED
  BY <1>3, <1>4

\* A known program has an index, and what is found there has its type.
LEMMA IndexFound ==
  ASSUME NEW h \in Headers, Known(h)
  PROVE  /\ Index(h) \in 1 .. Len(procTable)
         /\ Serves(Index(h), h)
         /\ procTable[Index(h)].procs \in Seq(STRING)
         /\ procTable[Index(h)].version \in Nat
<1>1. \E i \in DOMAIN procTable : Serves(i, h)
  BY DEF Known
<1>2. Index(h) \in DOMAIN procTable /\ Serves(Index(h), h)
  BY <1>1 DEF Index
<1>3. QED
  BY <1>2, TableTypes

\* A procedure of the table is no pseudo method.
LEMMA ProcIsMethod ==
  ASSUME NEW h \in Headers, Known(h),
         h.procedure < Len(procTable[Index(h)].procs)
  PROVE  procTable[Index(h)].procs[h.procedure + 1] \notin Errors
<1> DEFINE i == Index(h)
           j == h.procedure + 1
<1>1. i \in DOMAIN procTable /\ procTable[i].procs \in Seq(STRING)
  BY IndexFound, TableAssumption
<1>2. j \in DOMAIN procTable[i].procs
  <2>1. h.procedure \in Nat
    BY HeaderAssumption
  <2>2. Len(procTable[i].procs) \in Nat
        /\ DOMAIN procTable[i].procs = 1 .. Len(procTable[i].procs)
    BY <1>1
  <2>3. QED
    BY <2>1, <2>2
<1> HIDE DEF i, j
<1>3. procTable[i].procs[j] \in Methods
  BY <1>1, <1>2 DEF Methods
<1>4. procTable[i].procs[j] \notin Errors
  BY <1>3, TableAssumption
<1>5. QED
  BY <1>4 DEF i, j

-----------------------------------------------------------------------------
(* The invariant. *)

\* The reply r answers a call with header h.
MadeFor(r, h) ==
  LET m == Method(h) IN
  /\ r.stat = IF m \in {"ProgUnavail", "ProgMismatch", "ProcUnavail"}
              THEN m ELSE "Success"
  /\ r.stat = "ProgMismatch" =>
       \E i \in DOMAIN procTable :
         r.low = procTable[i].version /\ r.high = procTable[i].version
  /\ r.stat = "ProgUnavail" =>
       /\ r.low = procTable[1].program
       /\ r.high = procTable[Len(procTable)].program

\* The calls are read in order, and the last one may still lack its body.
ReadOK ==
  /\ \A n \in Calls : stage[n] # "unread" <=> n <= Len(header)
  /\ \A n \in Calls : stage[n] = "read" => loop = "body" /\ n = Len(header)
  /\ loop = "body" => Len(header) # 0

\* What is known of each call that was read.
CallsOK ==
  \A n \in Calls :
    /\ stage[n] # "unread" /\ ~Denied(header[n]) /\ Known(header[n]) =>
         currentProgIndex # 0
    /\ stage[n] \notin {"unread", "read"} /\ Garbage(n) =>
         conn = "closed" /\ stage[n] # "answered"
    /\ stage[n] \in {"writing", "answered"} => MadeFor(reply[n], header[n])

\* Why a connection is closed or a reply lost.
Excuse ==
  \/ client = "gone"
  \/ \E m \in DOMAIN header : Garbage(m) \/ ServiceMethod(m) \in NoEncoding

CloseOK ==
  /\ conn = "closed" /\ loop # "done" => Excuse
  /\ \A n \in Calls : stage[n] = "lost" => Excuse
  /\ loop = "done" =>
       \A n \in Calls : stage[n] \in {"unread", "answered", "lost"}

RInv == TypeOK /\ ReadOK /\ CallsOK /\ CloseOK

-----------------------------------------------------------------------------
(* Every step keeps it. *)

\* Nothing is known of the calls before the first one.
LEMMA InitRInv == Init => RInv
<1> SUFFICES ASSUME Init PROVE RInv
  OBVIOUS
<1>1. TypeOK
  BY CallsAssumption, TableAssumption
     DEF Init, TypeOK, Calls, Stages, Replies, Accepted, AcceptStats
<1>2. ReadOK /\ CallsOK /\ CloseOK
  BY CallsAssumption DEF Init, ReadOK, CallsOK, CloseOK, Calls
<1>3. QED
  BY <1>1, <1>2 DEF RInv

\* A call that was read stays what it was when another one is.
LEMMA HeaderKept ==
  ASSUME TypeOK, NEW h \in Headers, header' = Append(header, h)
  PROVE  /\ Len(header') = Len(header) + 1
         /\ header'[Len(header) + 1] = h
         /\ \A n \in 1 .. Len(header) : header'[n] = header[n]
         /\ DOMAIN header \subseteq DOMAIN header'
  BY DEF TypeOK

\* The header of a call arrives.
LEMMA ReadRequestHeaderStep ==
  ASSUME RInv, ReadRequestHeader
  PROVE  RInv'
<1> DEFINE k == Len(header) + 1
<1>1. PICK h \in Headers :
        /\ header' = Append(header, h)
        /\ stage' = [stage EXCEPT ![k] = "read"]
        /\ SetIndex(h)
  BY DEF ReadRequestHeader
<1>2. /\ loop = "header" /\ conn = "open" /\ loop' = "body"
      /\ UNCHANGED <<conn, client, process, reply, sending>>
  BY DEF ReadRequestHeader, wire
<1>3. /\ Len(header') = k /\ header'[k] = h
      /\ \A n \in 1 .. Len(header) : header'[n] = header[n]
      /\ DOMAIN header \subseteq DOMAIN header'
  BY <1>1, HeaderKept DEF RInv
<1>4. k \in Calls /\ Len(header) \in Nat
  BY CallsAssumption DEF ReadRequestHeader, RInv, TypeOK, Calls
<1>5. /\ currentProgIndex' \in 0 .. Len(procTable)
      /\ currentProgIndex # 0 => currentProgIndex' # 0
      /\ ~Denied(h) /\ Known(h) => currentProgIndex' # 0
  <2>1. CASE ~Denied(h) /\ Known(h)
    BY <1>1, <2>1, IndexFound DEF SetIndex
  <2>2. CASE ~(~Denied(h) /\ Known(h))
    BY <1>1, <2>2 DEF SetIndex, RInv, TypeOK
  <2>3. QED
    BY <2>1, <2>2
<1>6. TypeOK'
  <2>1. header' \in Seq(Headers) /\ Len(header') <= MaxCalls
    BY <1>1, <1>3, <1>4, CallsAssumption DEF RInv, TypeOK, Calls
  <2>2. stage' \in [Calls -> Stages]
    BY <1>1 DEF RInv, TypeOK, Stages
  <2>3. QED
    BY <1>2, <1>5, <2>1, <2>2 DEF RInv, TypeOK
<1>7. \A n \in Calls : stage'[n] = IF n = k THEN "read" ELSE stage[n]
  BY <1>1 DEF RInv, TypeOK
<1>8. \A n \in Calls : n # k /\ stage[n] # "unread" => n \in 1 .. Len(header)
  BY <1>4, CallsAssumption DEF RInv, ReadOK, Calls
<1> HIDE DEF k
<1>9. ReadOK'
  <2>1. \A n \in Calls : n <= k <=> n = k \/ n <= Len(header)
    BY <1>4, CallsAssumption DEF k, Calls
  <2>2. k # 0
    BY <1>4, CallsAssumption DEF Calls
  <2>3. \A n \in Calls : stage[n] # "read"
    BY <1>2 DEF RInv, ReadOK
  <2>4. QED
    BY <1>2, <1>3, <1>7, <2>1, <2>2, <2>3 DEF RInv, ReadOK
<1>10. CallsOK'
  BY <1>2, <1>3, <1>5, <1>7, <1>8
     DEF RInv, CallsOK, Garbage, ServiceMethod
<1>11. CloseOK'
  <2>1. Excuse => Excuse'
    BY <1>2, <1>3 DEF Excuse, Garbage, ServiceMethod, RInv, TypeOK
  <2>2. QED
    BY <1>2, <1>7, <2>1 DEF RInv, CloseOK
<1>12. QED
  BY <1>6, <1>9, <1>10, <1>11 DEF RInv

\* The loop ends.
LEMMA ReadFailsStep ==
  ASSUME RInv, ReadFails
  PROVE  RInv'
  BY DEF RInv, ReadFails, wire, TypeOK, ReadOK, CallsOK, CloseOK, Excuse,
         Garbage, ServiceMethod

\* The body is read, or closes the connection.
LEMMA ReadRequestBodyStep ==
  ASSUME RInv, ReadRequestBody
  PROVE  RInv'
<1> DEFINE k == Len(header)
<1>1. /\ loop = "body" /\ loop' = "header"
      /\ conn' = IF Garbage(k) THEN "closed" ELSE conn
      /\ stage' = [stage EXCEPT ![k] = "running"]
      /\ UNCHANGED <<client, process, header, reply, sending, currentProgIndex>>
  BY DEF ReadRequestBody, BodyRead
<1>2. k \in Calls /\ k \in DOMAIN header /\ k <= Len(header)
  BY <1>1, CallsAssumption DEF RInv, TypeOK, ReadOK, Calls
<1> HIDE DEF k
<1>3. \A n \in Calls : stage'[n] = IF n = k THEN "running" ELSE stage[n]
  BY <1>1 DEF RInv, TypeOK
<1>4. stage[k] # "unread"
  BY <1>2 DEF RInv, ReadOK
<1>5. TypeOK'
  BY <1>1 DEF RInv, TypeOK, Stages
<1>6. ReadOK'
  BY <1>1, <1>2, <1>3 DEF RInv, ReadOK, k
<1>7. CallsOK'
  BY <1>1, <1>3, <1>4 DEF RInv, CallsOK, Garbage, ServiceMethod
<1>8. CloseOK'
  <2>1. Excuse => Excuse'
    BY <1>1 DEF Excuse, Garbage, ServiceMethod
  <2>2. Garbage(k) => Excuse'
    BY <1>1, <1>2 DEF Excuse, Garbage, ServiceMethod
  <2>3. QED
    BY <1>1, <1>3, <2>1, <2>2 DEF RInv, CloseOK
<1>9. QED
  BY <1>5, <1>6, <1>7, <1>8 DEF RInv

\* A handler returns or panics.
LEMMA HandleStep ==
  ASSUME RInv, NEW n \in Calls, Handle(n)
  PROVE  RInv'
<1>1. /\ stage[n] = "running"
      /\ stage' = [stage EXCEPT ![n] = "ready"] \/ UNCHANGED stage
      /\ process' \in {"up", "down"}
      /\ UNCHANGED <<conn, client, loop, header, reply, sending,
                     currentProgIndex>>
  BY DEF Handle, wire
<1>2. \A m \in Calls : \/ stage'[m] = stage[m]
                       \/ m = n /\ stage'[m] = "ready"
  BY <1>1 DEF RInv, TypeOK
<1>3. TypeOK'
  BY <1>1 DEF RInv, TypeOK, Stages
<1>4. ReadOK'
  BY <1>1, <1>2 DEF RInv, ReadOK
<1>5. CallsOK'
  BY <1>1, <1>2 DEF RInv, CallsOK, Garbage, ServiceMethod
<1>6. CloseOK'
  BY <1>1, <1>2 DEF RInv, CloseOK, Excuse, Garbage, ServiceMethod
<1>7. QED
  BY <1>3, <1>4, <1>5, <1>6 DEF RInv

\* The reply WriteResponse makes is one for the call, because the index is set
\* for every call it is used for.
LEMMA ReplyMade ==
  ASSUME NEW h \in Headers, currentProgIndex \in 0 .. Len(procTable),
         ~Denied(h) /\ Known(h) => currentProgIndex # 0
  PROVE  Reply(Method(h)) \in Replies /\ MadeFor(Reply(Method(h)), h)
<1> DEFINE m == Method(h)
<1>1. procTable[1].program \in Nat /\ procTable[Len(procTable)].program \in Nat
  BY TableTypes
<1>2. m = "ProgMismatch" =>
        /\ currentProgIndex \in DOMAIN procTable
        /\ procTable[currentProgIndex].version \in Nat
  <2>1. m = "ProgMismatch" => ~Denied(h) /\ Known(h)
    BY MethodCases
  <2>2. m = "ProgMismatch" => currentProgIndex \in 1 .. Len(procTable)
    BY <2>1, TableTypes
  <2>3. QED
    BY <2>2, TableTypes
<1> HIDE DEF m
<1>3. CASE m = "ProgUnavail"
  BY <1>1, <1>3
     DEF Reply, Accepted, Replies, AcceptStats, MadeFor, m
<1>4. CASE m = "ProgMismatch"
  BY <1>2, <1>4
     DEF Reply, Accepted, Replies, AcceptStats, MadeFor, m
<1>5. CASE m = "ProcUnavail"
  BY <1>5 DEF Reply, Accepted, Replies, AcceptStats, MadeFor, m
<1>6. CASE m \notin {"ProgUnavail", "ProgMismatch", "ProcUnavail"}
  BY <1>6 DEF Reply, Accepted, Replies, AcceptStats, MadeFor, m
<1>7. QED
  BY <1>3, <1>4, <1>5, <1>6 DEF m

\* The reply is made.
LEMMA WriteResponseStep ==
  ASSUME RInv, NEW n \in Calls, WriteResponse(n)
  PROVE  RInv'
<1>1. /\ stage[n] = "ready" /\ sending' = n
      /\ reply' = [reply EXCEPT ![n] = Reply(Method(header[n]))]
      /\ stage' = [stage EXCEPT ![n] = "writing"]
      /\ UNCHANGED <<conn, client, process, loop, header, currentProgIndex>>
  BY DEF WriteResponse, wire, ServiceMethod
<1>2. header[n] \in Headers
  BY <1>1, CallsAssumption DEF RInv, TypeOK, ReadOK, Calls
<1>3. /\ Reply(Method(header[n])) \in Replies
      /\ MadeFor(Reply(Method(header[n])), header[n])
  BY <1>1, <1>2, ReplyMade DEF RInv, TypeOK, CallsOK
<1> DEFINE r == Reply(Method(header[n]))
<1> HIDE DEF r
<1>4. /\ \A m \in Calls : stage'[m] = IF m = n THEN "writing" ELSE stage[m]
      /\ \A m \in Calls : reply'[m] = IF m = n THEN r ELSE reply[m]
  BY <1>1 DEF RInv, TypeOK, r
<1>5. TypeOK'
  <2>1. reply' \in [Calls -> Replies]
    BY <1>1, <1>3 DEF RInv, TypeOK
  <2>2. stage' \in [Calls -> Stages]
    BY <1>1 DEF RInv, TypeOK, Stages
  <2>3. sending' \in 0 .. MaxCalls
    BY <1>1, CallsAssumption DEF Calls
  <2>4. QED
    BY <1>1, <2>1, <2>2, <2>3 DEF RInv, TypeOK
<1>6. ReadOK'
  BY <1>1, <1>4 DEF RInv, ReadOK
<1>7. CallsOK'
  <2>1. MadeFor(r, header[n])
    BY <1>3 DEF r
  <2>2. QED
    BY <1>1, <1>4, <2>1 DEF RInv, CallsOK, Garbage, ServiceMethod
<1>8. CloseOK'
  BY <1>1, <1>4 DEF RInv, CloseOK, Excuse, Garbage, ServiceMethod
<1>9. QED
  BY <1>5, <1>6, <1>7, <1>8 DEF RInv

\* The record is written, or the connection closed.
LEMMA WriteFullRecordStep ==
  ASSUME RInv, NEW n \in Calls, WriteFullRecord(n)
  PROVE  RInv'
<1>1. /\ stage[n] = "writing" /\ sending' = 0
      /\ UNCHANGED <<client, process, loop, header, reply, currentProgIndex>>
  BY DEF WriteFullRecord
<1>2. n \in DOMAIN header
  BY <1>1, CallsAssumption DEF RInv, TypeOK, ReadOK, Calls
<1>3. CASE /\ CanSend(n) /\ stage' = [stage EXCEPT ![n] = "answered"]
           /\ conn' = conn
  <2>1. \A m \in Calls : stage'[m] = IF m = n THEN "answered" ELSE stage[m]
    BY <1>3 DEF RInv, TypeOK
  <2>2. TypeOK'
    BY <1>1, <1>3, CallsAssumption DEF RInv, TypeOK, Stages
  <2>3. ReadOK'
    BY <1>1, <2>1 DEF RInv, ReadOK
  <2>4. CallsOK'
    BY <1>1, <1>3, <2>1 DEF RInv, CallsOK, Garbage, ServiceMethod, CanSend
  <2>5. CloseOK'
    BY <1>1, <1>3, <2>1 DEF RInv, CloseOK, Excuse, Garbage, ServiceMethod
  <2>6. QED
    BY <2>2, <2>3, <2>4, <2>5 DEF RInv
<1>4. CASE /\ ~CanSend(n) \/ client = "gone"
           /\ stage' = [stage EXCEPT ![n] = "lost"] /\ conn' = "closed"
  <2>1. \A m \in Calls : stage'[m] = IF m = n THEN "lost" ELSE stage[m]
    BY <1>4 DEF RInv, TypeOK
  <2>2. Excuse
    <3>1. loop # "done"
      BY <1>1 DEF RInv, CloseOK
    <3>2. CASE conn = "open"
      BY <1>2, <1>4, <3>2 DEF CanSend, Excuse
    <3>3. CASE conn = "closed"
      BY <3>1, <3>3 DEF RInv, CloseOK
    <3>4. QED
      BY <3>2, <3>3 DEF RInv, TypeOK
  <2>3. Excuse'
    BY <1>1, <2>2 DEF Excuse, Garbage, ServiceMethod
  <2>4. TypeOK'
    BY <1>1, <1>4, CallsAssumption DEF RInv, TypeOK, Stages
  <2>5. ReadOK'
    BY <1>1, <2>1 DEF RInv, ReadOK
  <2>6. CallsOK'
    BY <1>1, <1>4, <2>1 DEF RInv, CallsOK, Garbage, ServiceMethod
  <2>7. CloseOK'
    BY <1>1, <2>1, <2>3 DEF RInv, CloseOK
  <2>8. QED
    BY <2>4, <2>5, <2>6, <2>7 DEF RInv
<1>5. QED
  BY <1>3, <1>4 DEF WriteFullRecord

\* The loop closes the connection after the last call.
LEMMA CloseStep ==
  ASSUME RInv, Close
  PROVE  RInv'
<1>1. /\ loop = "wait" /\ loop' = "done" /\ conn' = "closed"
      /\ \A n \in Calls : stage[n] \in {"unread", "answered", "lost"}
      /\ UNCHANGED <<client, process, header, stage, reply, sending,
                     currentProgIndex>>
  BY DEF Close
<1>2. TypeOK' /\ ReadOK' /\ CallsOK'
  BY <1>1
     DEF RInv, TypeOK, ReadOK, CallsOK, Garbage, ServiceMethod
<1>3. CloseOK'
  BY <1>1 DEF RInv, CloseOK, Excuse, Garbage, ServiceMethod
<1>4. QED
  BY <1>2, <1>3 DEF RInv

\* The client goes, which excuses everything.
LEMMA HangUpStep ==
  ASSUME RInv, HangUp
  PROVE  RInv'
  BY DEF RInv, HangUp, TypeOK, ReadOK, CallsOK, CloseOK, Excuse, Garbage,
         ServiceMethod

-----------------------------------------------------------------------------
(* The theorems. *)

\* The codec and the loop keep the invariant, however the calls interleave.
THEOREM RpcInvariance == Spec => []RInv
<1>1. Init => RInv
  BY InitRInv
<1>2. RInv /\ [Next]_vars => RInv'
  <2> SUFFICES ASSUME RInv, [Next]_vars PROVE RInv'
    OBVIOUS
  <2>1. CASE UNCHANGED vars
    BY <2>1 DEF vars, RInv, TypeOK, ReadOK, CallsOK, CloseOK, Excuse, Garbage,
               ServiceMethod
  <2>2. CASE Loop
    BY <2>2, ReadRequestHeaderStep, ReadFailsStep, ReadRequestBodyStep,
       CloseStep DEF Loop
  <2>3. CASE HangUp
    BY <2>3, HangUpStep
  <2>4. CASE \E n \in Calls : Goroutine(n)
    BY <2>4, HandleStep, WriteResponseStep, WriteFullRecordStep DEF Goroutine
  <2>5. QED
    BY <2>1, <2>2, <2>3, <2>4 DEF Next
<1>3. QED
  BY <1>1, <1>2, PTL DEF Spec

\* Type correctness of the codec, of its table index above all.
THEOREM RpcTypes == Spec => []TypeOK
  BY RpcInvariance, PTL DEF RInv

\* WriteResponse never indexes the table with the -1 it starts from.
THEOREM IndexIsSet == Spec => []IndexSet
<1>1. RInv => IndexSet
  <2> SUFFICES ASSUME RInv, NEW n \in Calls,
                      stage[n] \in {"read", "running", "ready"},
                      ServiceMethod(n) = "ProgMismatch"
               PROVE  currentProgIndex # 0
    BY DEF IndexSet
  <2>1. header[n] \in Headers
    BY CallsAssumption DEF RInv, TypeOK, ReadOK, Calls
  <2>2. ~Denied(header[n]) /\ Known(header[n])
    BY <2>1, MethodCases DEF ServiceMethod
  <2>3. QED
    BY <2>2 DEF RInv, CallsOK
<1>2. QED
  BY <1>1, RpcInvariance, PTL

\* The status of a reply is the one its call deserves.
THEOREM RepliesDeserved == Spec => []ReplyDeserved
<1>1. RInv => ReplyDeserved
  <2> SUFFICES ASSUME RInv, NEW n \in Calls, stage[n] = "answered",
                      ~Denied(header[n])
               PROVE  reply[n].stat = Deserved(n)
    BY DEF ReplyDeserved
  <2> DEFINE h == header[n]
  <2>1. h \in Headers /\ h.procedure \in Nat
    BY CallsAssumption, HeaderAssumption DEF RInv, TypeOK, ReadOK, Calls
  <2>2. MadeFor(reply[n], h) /\ ~Garbage(n)
    BY DEF RInv, CallsOK
  <2> HIDE DEF h
  <2>3. ~Denied(h) /\ h = header[n]
    BY DEF h
  <2>4. CASE ~Known(h)
    BY <2>1, <2>2, <2>3, <2>4, MethodCases DEF MadeFor, Deserved
  <2>5. CASE Known(h) /\ h.version # procTable[Index(h)].version
    BY <2>1, <2>2, <2>3, <2>5, MethodCases DEF MadeFor, Deserved
  <2>6. CASE /\ Known(h) /\ h.version = procTable[Index(h)].version
             /\ h.procedure >= Len(procTable[Index(h)].procs)
    <3>1. h.procedure \notin 0 .. (Len(procTable[Index(h)].procs) - 1)
      BY <2>1, <2>6, IndexFound
    <3>2. Method(h) = "ProcUnavail"
      BY <2>1, <2>3, <2>6, MethodCases
    <3>3. QED
      BY <2>2, <2>3, <2>6, <3>1, <3>2 DEF MadeFor, Deserved
  <2>7. CASE /\ Known(h) /\ h.version = procTable[Index(h)].version
             /\ ~(h.procedure >= Len(procTable[Index(h)].procs))
    <3>0. Len(procTable[Index(h)].procs) \in Nat
      BY <2>1, <2>7, IndexFound
    <3>1. /\ h.procedure \in 0 .. (Len(procTable[Index(h)].procs) - 1)
          /\ h.procedure < Len(procTable[Index(h)].procs)
      BY <2>1, <2>7, <3>0
    <3>2. Method(h) \notin Errors
      BY <2>1, <2>3, <2>7, <3>1, MethodCases, ProcIsMethod
    <3>3. QED
      BY <2>2, <2>3, <2>7, <3>1, <3>2 DEF MadeFor, Deserved, Errors
  <2>8. QED
    BY <2>4, <2>5, <2>6, <2>7
<1>2. QED
  BY <1>1, RpcInvariance, PTL

\* All programs are served in one version, as NFS and MOUNT are.
OneVersion ==
  \A i, j \in DOMAIN procTable : procTable[i].version = procTable[j].version

\* That the index is shared by the calls of a connection does no harm as long
\* as all programs have one version; without that the theorem is false.
THEOREM ErrorInfoRight ==
  ASSUME OneVersion
  PROVE  Spec => []ErrorInfo
<1>1. RInv => ErrorInfo
  <2> SUFFICES ASSUME RInv, NEW n \in Calls, stage[n] = "answered"
               PROVE
      /\ reply[n].stat = "ProgMismatch" =>
           \E i \in DOMAIN procTable :
             /\ Serves(i, header[n])
             /\ reply[n].low = procTable[i].version
             /\ reply[n].high = procTable[i].version
      /\ reply[n].stat = "ProgUnavail" =>
           \A i \in DOMAIN procTable :
             procTable[i].program \in reply[n].low .. reply[n].high
    BY DEF ErrorInfo
  <2>1. header[n] \in Headers /\ MadeFor(reply[n], header[n])
    BY CallsAssumption DEF RInv, TypeOK, ReadOK, CallsOK, Calls
  <2>2. ASSUME reply[n].stat = "ProgMismatch"
        PROVE  \E i \in DOMAIN procTable :
                 /\ Serves(i, header[n])
                 /\ reply[n].low = procTable[i].version
                 /\ reply[n].high = procTable[i].version
    <3>1. Method(header[n]) = "ProgMismatch"
      BY <2>1, <2>2 DEF MadeFor
    <3>2. Known(header[n])
      BY <2>1, <3>1, MethodCases
    <3>3. PICK i \in DOMAIN procTable : Serves(i, header[n])
      BY <3>2 DEF Known
    <3>4. PICK j \in DOMAIN procTable :
            /\ reply[n].low = procTable[j].version
            /\ reply[n].high = procTable[j].version
      BY <2>1, <2>2 DEF MadeFor
    <3>5. QED
      BY <3>3, <3>4 DEF OneVersion
  <2>3. ASSUME reply[n].stat = "ProgUnavail", NEW i \in DOMAIN procTable
        PROVE  procTable[i].program \in reply[n].low .. reply[n].high
    <3> DEFINE last == Len(procTable)
    <3>1. /\ reply[n].low = procTable[1].program
          /\ reply[n].high = procTable[last].program
      BY <2>1, <2>3 DEF MadeFor
    <3>2. /\ 1 \in DOMAIN procTable /\ last \in DOMAIN procTable
          /\ i \in 1 .. last /\ 1 <= i /\ i <= last
          /\ DOMAIN procTable = 1 .. last
          /\ \A j \in DOMAIN procTable : procTable[j].program \in Nat
      BY <2>3, TableTypes
    <3>3. procTable[1].program <= procTable[i].program
      BY <3>2, TableOrdered
    <3>4. procTable[i].program <= procTable[last].program
      BY <3>2, TableOrdered
    <3>5. QED
      BY <3>1, <3>2, <3>3, <3>4
  <2>4. QED
    BY <2>2, <2>3
<1>2. QED
  BY <1>1, RpcInvariance, PTL

\* A reply is lost only with an excuse.
THEOREM NothingLost == Spec => []NoCallLost
<1>1. RInv => NoCallLost
  BY DEF RInv, CloseOK, Excuse, NoCallLost
<1>2. QED
  BY <1>1, RpcInvariance, PTL
=============================================================================
