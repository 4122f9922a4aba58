----------------------------- MODULE RpcServer ------------------------------
(***************************************************************************)
(* One connection of the ONC RPC server: the codec of                      *)
(* src/oncrpc/servercodec.go under the loop of package net/rpc.            *)
(*                                                                         *)
(* ServeCodec reads one request after the other, header then body, and     *)
(* starts a goroutine for each.  A goroutine runs the handler, takes the   *)
(* mutex "sending" of the connection, and has the codec write the reply.   *)
(* Errors of the RPC layer travel as methods: the header names a pseudo    *)
(* method such as "ProgMismatch", whose handler does nothing, and          *)
(* WriteResponse looks at the name.  The loop and the goroutines share the *)
(* connection and currentProgIndex, and no lock protects the latter.       *)
(***************************************************************************)
EXTENDS Naturals, Sequences

CONSTANTS
  procTable,    \* sequence of [program, version, procs]: what is served
  TakesArgs,    \* the methods whose arguments are not Void ...
  TakesHandle,  \* ... and those that read the file handle in them at once
  NoEncoding,   \* the methods whose result xdr.Marshal refuses (a nil pointer)
  Headers,      \* the headers of the calls clients send
  MaxCalls      \* how many requests a connection carries

VARIABLES
  conn,              \* "open", or "closed" by the server
  client,            \* "there", or "gone": it hung up
  process,           \* "up", or "down" after a panic
  loop,              \* ServeCodec: "header", "body", "wait", "done"
  header,            \* the headers of the calls read so far
  stage,             \* call |-> how far it is
  reply,             \* call |-> the reply WriteResponse made for it
  sending,           \* the call that holds the mutex, or 0
  currentProgIndex   \* the index in procTable, 0 for the -1 of the code

vars == <<conn, client, process, loop, header, stage, reply, sending,
          currentProgIndex>>
wire == <<conn, client, process>>

Calls == 1 .. MaxCalls
Errors == {"RPCMismatch", "AuthError", "ProgUnavail", "ProgMismatch",
           "ProcUnavail"}
Methods == UNION {{procTable[i].procs[j] : j \in DOMAIN procTable[i].procs} :
                    i \in DOMAIN procTable}
AcceptStats == {"Success", "ProgUnavail", "ProgMismatch", "ProcUnavail"}
Stages == {"unread", "read", "running", "ready", "writing", "answered", "lost"}

\* The table is in the order of the programs, as the codec asks for.
ASSUME TableAssumption ==
  /\ procTable \in Seq([program : Nat, version : Nat, procs : Seq(STRING)])
  /\ procTable # <<>>
  /\ \A i, j \in DOMAIN procTable :
       i < j => procTable[i].program < procTable[j].program
  /\ Methods \cap Errors = {}
ASSUME MethodAssumption ==
  TakesHandle \subseteq TakesArgs /\ TakesArgs \cap Errors = {}
ASSUME HeaderAssumption ==
  Headers \subseteq [rpcvers : Nat, flavor : STRING, program : Nat,
                     version : Nat, procedure : Nat,
                     args : {"good", "garbage"}]
ASSUME CallsAssumption == MaxCalls \in Nat

-----------------------------------------------------------------------------
(* The header of a request. *)

Denied(h) == h.rpcvers # 2 \/ h.flavor \notin {"AuthNone", "AuthSys"}
Serves(i, h) == procTable[i].program = h.program
Known(h) == \E i \in DOMAIN procTable : Serves(i, h)

\* The entry of the table for the program called: the first, and the only one.
Index(h) == CHOOSE i \in DOMAIN procTable : Serves(i, h)

\* Procedures count from 0.
Method(h) ==
  CASE h.rpcvers # 2 -> "RPCMismatch"
    [] h.rpcvers = 2 /\ Denied(h) -> "AuthError"
    [] ~Denied(h) /\ ~Known(h) -> "ProgUnavail"
    [] OTHER ->
       LET entry == procTable[Index(h)] IN
       IF h.version # entry.version THEN "ProgMismatch"
       ELSE IF h.procedure >= Len(entry.procs) THEN "ProcUnavail"
       ELSE entry.procs[h.procedure + 1]

\* Mutant of SetIndex: only a call that can be served sets the index.
SetIndexLate(h) ==
  currentProgIndex' = IF Method(h) \notin Errors THEN Index(h)
                      ELSE currentProgIndex

\* The index is set as soon as the program is found.
SetIndex(h) ==
  currentProgIndex' = IF ~Denied(h) /\ Known(h) THEN Index(h)
                      ELSE currentProgIndex

ReadRequestHeader ==
  /\ process = "up" /\ loop = "header" /\ conn = "open"
  /\ Len(header) < MaxCalls
  /\ \E h \in Headers :
       /\ header' = Append(header, h)
       /\ stage' = [stage EXCEPT ![Len(header) + 1] = "read"]
       /\ SetIndex(h)
  /\ loop' = "body"
  /\ UNCHANGED <<wire, reply, sending>>

\* Mutants of ReadFails: the loop goes on reading; the connection is closed
\* at once.
ReadOn ==
  /\ process = "up" /\ loop = "header" /\ client = "gone"
  /\ UNCHANGED vars
CloseAtOnce ==
  /\ process = "up" /\ loop = "header"
  /\ loop' = "wait" /\ conn' = "closed"
  /\ UNCHANGED <<client, process, header, stage, reply, sending,
                 currentProgIndex>>

\* No record, one that is no RPC message, or one that is no call: the loop
\* ends and waits for the calls under way.
ReadFails ==
  /\ process = "up" /\ loop = "header"
  /\ loop' = "wait"
  /\ UNCHANGED <<wire, header, stage, reply, sending, currentProgIndex>>

-----------------------------------------------------------------------------
(* The body of a request. *)

ServiceMethod(n) == Method(header[n])
Garbage(n) == header[n].args = "garbage" /\ ServiceMethod(n) \in TakesArgs

\* Mutant of BodyRead: the connection stays open.
BodyReadOn(n) == UNCHANGED wire

\* Arguments that cannot be decoded close the connection ...
BodyRead(n) ==
  /\ conn' = IF Garbage(n) THEN "closed" ELSE conn
  /\ UNCHANGED <<client, process>>

\* ... and the handler is started all the same.
ReadRequestBody ==
  /\ process = "up" /\ loop = "body"
  /\ BodyRead(Len(header))
  /\ stage' = [stage EXCEPT ![Len(header)] = "running"]
  /\ loop' = "header"
  /\ UNCHANGED <<header, reply, sending, currentProgIndex>>

\* The handler returns; one that was given no handle panics when it reads it.
Handle(n) ==
  /\ process = "up" /\ stage[n] = "running"
  /\ \/ /\ stage' = [stage EXCEPT ![n] = "ready"]
        /\ UNCHANGED wire
     \/ /\ Garbage(n) /\ ServiceMethod(n) \in TakesHandle
        /\ process' = "down"
        /\ UNCHANGED <<stage, conn, client>>
  /\ UNCHANGED <<loop, header, reply, sending, currentProgIndex>>

-----------------------------------------------------------------------------
(* The reply. *)

Accepted(stat, low, high) ==
  [msg |-> "MsgAccepted", stat |-> stat, low |-> low, high |-> high]

\* Mutants of Reply: the status is that of the method; the reply to a wrong
\* version is filled like the one to an unknown program.
ReplyRaw(m) == Accepted(IF m \in Errors THEN m ELSE "Success", 0, 0)
ReplyProgram(m) ==
  Accepted(IF m \in AcceptStats THEN m ELSE "Success",
           procTable[1].program, procTable[Len(procTable)].program)

\* What is encoded of the reply to a call.  The two denials set fields of the
\* rejected arm only, and the accepted arm is what is encoded.
Reply(m) ==
  LET first == procTable[1]
      last == procTable[Len(procTable)]
      current == procTable[currentProgIndex]
  IN  CASE m = "ProgUnavail" ->
             Accepted("ProgUnavail", first.program, last.program)
        [] m = "ProgMismatch" ->
             Accepted("ProgMismatch", current.version, current.version)
        [] m = "ProcUnavail" -> Accepted("ProcUnavail", 0, 0)
        [] OTHER -> Accepted("Success", 0, 0)

\* With the mutex, the reply is made.
WriteResponse(n) ==
  /\ process = "up" /\ stage[n] = "ready" /\ sending = 0
  /\ sending' = n
  /\ reply' = [reply EXCEPT ![n] = Reply(ServiceMethod(n))]
  /\ stage' = [stage EXCEPT ![n] = "writing"]
  /\ UNCHANGED <<wire, loop, header, currentProgIndex>>

CanSend(n) == conn = "open" /\ ServiceMethod(n) \notin NoEncoding

\* The result is encoded and the record written; a failure of either closes
\* the connection.  A client that is gone may or may not be noticed.
WriteFullRecord(n) ==
  /\ process = "up" /\ stage[n] = "writing"
  /\ \/ /\ CanSend(n)
        /\ stage' = [stage EXCEPT ![n] = "answered"]
        /\ UNCHANGED conn
     \/ /\ ~CanSend(n) \/ client = "gone"
        /\ stage' = [stage EXCEPT ![n] = "lost"]
        /\ conn' = "closed"
  /\ sending' = 0
  /\ UNCHANGED <<client, process, loop, header, reply, currentProgIndex>>

\* After the last call the loop closes the connection.
Close ==
  /\ process = "up" /\ loop = "wait"
  /\ \A n \in Calls : stage[n] \in {"unread", "answered", "lost"}
  /\ loop' = "done"
  /\ conn' = "closed"
  /\ UNCHANGED <<client, process, header, stage, reply, sending,
                 currentProgIndex>>

\* The client closes its end.
HangUp ==
  /\ client = "there"
  /\ client' = "gone"
  /\ UNCHANGED <<conn, process, loop, header, stage, reply, sending,
                 currentProgIndex>>

-----------------------------------------------------------------------------
Init ==
  /\ conn = "open" /\ client = "there" /\ process = "up"
  /\ loop = "header"
  /\ header = <<>>
  /\ stage = [n \in Calls |-> "unread"]
  /\ reply = [n \in Calls |-> Accepted("Success", 0, 0)]
  /\ sending = 0
  /\ currentProgIndex = 0

Goroutine(n) == Handle(n) \/ WriteResponse(n) \/ WriteFullRecord(n)
Loop == ReadRequestHeader \/ ReadFails \/ ReadRequestBody \/ Close
Next == Loop \/ HangUp \/ \E n \in Calls : Goroutine(n)

Spec == Init /\ [][Next]_vars

\* Goroutines are scheduled and a mutex that is released is had in the end; a
\* read of a connection that either end has closed fails.
FairSpec ==
  /\ Spec
  /\ WF_vars(ReadRequestBody \/ Close)
  /\ WF_vars((conn = "closed" \/ client = "gone") /\ ReadFails)
  /\ \A n \in Calls : WF_vars(Goroutine(n))

-----------------------------------------------------------------------------
(* Properties. *)

Replies == [msg : {"MsgAccepted"}, stat : AcceptStats, low : Nat, high : Nat]

\* Every variable has its type: the replies on the wire are replies of RPC.
TypeOK ==
  /\ conn \in {"open", "closed"} /\ client \in {"there", "gone"}
  /\ process \in {"up", "down"}
  /\ loop \in {"header", "body", "wait", "done"}
  /\ header \in Seq(Headers) /\ Len(header) <= MaxCalls
  /\ stage \in [Calls -> Stages]
  /\ reply \in [Calls -> Replies]
  /\ sending \in 0 .. MaxCalls
  /\ currentProgIndex \in 0 .. Len(procTable)

\* WriteResponse indexes the table with currentProgIndex, whose first value is
\* -1: it is set before any call of a wrong version can get there.
IndexSet ==
  \A n \in Calls :
    /\ stage[n] \in {"read", "running", "ready"}
    /\ ServiceMethod(n) = "ProgMismatch"
    => currentProgIndex # 0

\* What RFC 5531 wants of a call that is not denied.
Deserved(n) ==
  LET h == header[n]
      entry == procTable[Index(h)]
  IN  IF ~Known(h) THEN "ProgUnavail"
      ELSE IF h.version # entry.version THEN "ProgMismatch"
      ELSE IF h.procedure \notin 0 .. (Len(entry.procs) - 1)
      THEN "ProcUnavail"
      ELSE IF Garbage(n) THEN "GarbageArgs"
      ELSE "Success"

\* The calls of a connection share the codec: however they interleave, a reply
\* that is sent has the status its own call deserves, and a call whose
\* arguments were not understood is not answered as if they had been.
ReplyDeserved ==
  \A n \in Calls :
    stage[n] = "answered" /\ ~Denied(header[n]) => reply[n].stat = Deserved(n)

\* currentProgIndex is that of the last call read, not of the call answered:
\* still a reply to a wrong version names the version served of the program
\* called, and a reply to an unknown program the range of those served.
ErrorInfo ==
  \A n \in Calls :
    LET r == reply[n] IN
    stage[n] = "answered" =>
      /\ r.stat = "ProgMismatch" =>
           \E i \in DOMAIN procTable :
             /\ Serves(i, header[n])
             /\ r.low = procTable[i].version /\ r.high = procTable[i].version
      /\ r.stat = "ProgUnavail" =>
           \A i \in DOMAIN procTable : procTable[i].program \in r.low .. r.high

\* WriteResponse and the loop: the server loses the reply to a call it read
\* only if the client went, or if some call of the connection had arguments
\* it could not decode or a result it could not encode.
NoCallLost ==
  \A n \in Calls :
    stage[n] = "lost" =>
      \/ client = "gone"
      \/ \E m \in DOMAIN header :
           Garbage(m) \/ ServiceMethod(m) \in NoEncoding

\* The comment in ReadRequestHeader says that RPC errors are replayed back to
\* the client: the reply to a denied call is a denial.
DeniedIsDenied ==
  \A n \in Calls :
    stage[n] = "answered" /\ Denied(header[n]) => reply[n].msg = "MsgDenied"

\* ServeCodec: once either end has closed the connection, the calls under way
\* end and so does the goroutine of the connection.
ConnectionEnds ==
  (conn = "closed" \/ client = "gone") ~> (loop = "done" \/ process = "down")
=============================================================================
