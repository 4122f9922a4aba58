------------------------------ MODULE Startup -------------------------------
(***************************************************************************)
(* The start of gonfs servers on one host, src/main.go: the flags, four    *)
(* calls to rpcbind (src/portmapper/portmapClient.go) through the client   *)
(* codec (src/oncrpc/clientcodec.go), the log file, the set-up of the      *)
(* backend, the listener, and the loop that accepts connections.           *)
(*                                                                         *)
(* A server that ends may be started again.  What it registered stays.     *)
(* rpcbind is external: it does what it is asked or refuses, its reply may *)
(* be an error or be lost, and it may be down.                             *)
(***************************************************************************)
EXTENDS Naturals, Sequences

CONSTANTS
  Servers,       \* processes
  Port(_),       \* -nfsport of each
  pmapregister,  \* the flag
  MaxStarts,     \* bound: how often servers are started
  MaxFiles,      \* descriptors a server has for connections
  ReplyStats     \* what rpcbind sends; "closed" is a connection that ends

VARIABLES
  starts,   \* how many starts there were
  named,    \* what rpcbind holds: a port or 0 for each program
  server,   \* where main is, and the call of Registration it is at
  call,     \* the connection of a server to rpcbind
  files,    \* how many descriptors its connections have
  told,     \* history: the results of the calls of Registration
  rival     \* history: another server registered since this one began

vars == <<starts, named, server, call, files, told, rival>>

ASSUME StartAssumption ==
  /\ MaxStarts \in Nat /\ MaxFiles \in Nat /\ pmapregister \in BOOLEAN
  /\ \A s \in Servers : Port(s) \in Nat \ {0}

Programs == {"MOUNT", "NFS"}

\* The table of the client codec, from the number 0 on.
PmapProcList == <<"null", "set", "unset", "getport", "dump", "callit">>

\* Mutant of Registration: the old entry is removed after the new one is made.
SetFirst ==
  << <<"set", "MOUNT">>, <<"unset", "MOUNT">>,
     <<"set", "NFS">>, <<"unset", "NFS">> >>

\* The calls main makes.
Registration ==
  << <<"unset", "MOUNT">>, <<"set", "MOUNT">>,
     <<"unset", "NFS">>, <<"set", "NFS">> >>

NoCall ==
  [state |-> "none", proc |-> 0, mapping |-> [program |-> "NFS", port |-> 0],
   reply |-> [stat |-> "none", result |-> FALSE]]
Off == [pc |-> "off", step |-> 1]

Goto(s, pc) == server' = [server EXCEPT ![s].pc = pc]

\* os.Exit, log.Fatal or a panic: all descriptors are closed.
Exit(s) ==
  /\ Goto(s, "exit")
  /\ call' = [call EXCEPT ![s] = NoCall]
  /\ files' = [files EXCEPT ![s] = 0]
  /\ UNCHANGED <<starts, named, told, rival>>

-----------------------------------------------------------------------------
(* Before the server listens. *)

Start(s) ==
  /\ server[s].pc \in {"off", "exit", "killed"} /\ starts < MaxStarts
  /\ server' = [server EXCEPT ![s] = [pc |-> "flags", step |-> 1]]
  /\ starts' = starts + 1
  /\ told' = [told EXCEPT ![s] = <<>>]
  /\ rival' = [rival EXCEPT ![s] = FALSE]
  /\ call' = [call EXCEPT ![s] = NoCall]
  /\ UNCHANGED <<named, files>>

\* exportPath, the working directory and allowAddr are right, or main exits.
Flags(s) ==
  /\ server[s].pc = "flags"
  /\ \/ /\ Goto(s, IF pmapregister THEN "dial" ELSE "log")
        /\ UNCHANGED <<starts, named, call, files, told, rival>>
     \/ Exit(s)

\* getNewPmapRpcClient.
Dial(s) ==
  /\ server[s].pc = "dial"
  /\ \/ /\ Goto(s, "write")
        /\ call' = [call EXCEPT ![s].state = "open"]
        /\ UNCHANGED <<starts, named, files, told, rival>>
     \/ Exit(s)

ProcIndex(method) ==
  (CHOOSE i \in 1 .. Len(PmapProcList) : PmapProcList[i] = method) - 1

\* The argument of PmapSet, and of PmapUnset, which has no port.
Mapping(s, method, program) ==
  [program |-> program, port |-> IF method = "set" THEN Port(s) ELSE 0]

WriteRequest(s) ==
  /\ server[s].pc = "write"
  /\ \/ LET method  == Registration[server[s].step][1]
            program == Registration[server[s].step][2]
        IN  /\ call' = [call EXCEPT ![s] =
                          [NoCall EXCEPT !.state = "sent",
                             !.proc = ProcIndex(method),
                             !.mapping = Mapping(s, method, program)]]
            /\ Goto(s, "read")
            /\ UNCHANGED <<starts, named, files, told, rival>>
     \/ Exit(s)

\* rpcbind: a set of what is set already is refused, and anything may be.
Does(proc, mapping) ==
  IF proc \notin {1, 2} THEN named
  ELSE [named EXCEPT ![mapping.program] = IF proc = 1 THEN mapping.port ELSE 0]

Answer(s) ==
  /\ call[s].state = "sent"
  /\ \E stat \in ReplyStats, done \in BOOLEAN :
       /\ done => stat \in {"Success", "closed"}
       /\ done /\ call[s].proc = 1 => named[call[s].mapping.program] = 0
       /\ named' = IF done THEN Does(call[s].proc, call[s].mapping) ELSE named
       /\ rival' = [t \in Servers |-> rival[t] \/ (done /\ t # s)]
       /\ call' = [call EXCEPT ![s].state = "answered",
                     ![s].reply = [stat |-> stat,
                                   result |-> done /\ stat = "Success"]]
  /\ UNCHANGED <<starts, server, files, told>>

\* ReadResponseHeader and checkReplyForErr: all but success is an error.
checkReplyForErr(reply) ==
  IF reply.stat = "Success" THEN "" ELSE reply.stat

\* Mutant of NextStep: the last call is not known as such.
NextStepOn(s) ==
  [server EXCEPT ![s] = [pc |-> "dial", step |-> @.step + 1]]

NextStep(s) ==
  [server EXCEPT ![s] = IF @.step < Len(Registration)
                        THEN [pc |-> "dial", step |-> @.step + 1]
                        ELSE [pc |-> "log", step |-> @.step]]

\* Mutant of Arrived: a connection that ends is not noticed.
ArrivedWhole(s) ==
  call[s].state = "answered" /\ call[s].reply.stat # "closed"

Arrived(s) == call[s].state = "answered"

\* The call returns: main goes on whatever the result is, and exits on an error.
ReadResponse(s) ==
  /\ server[s].pc = "read" /\ Arrived(s)
  /\ IF checkReplyForErr(call[s].reply) = ""
     THEN /\ server' = NextStep(s)
          /\ call' = [call EXCEPT ![s] = NoCall]
          /\ told' = [told EXCEPT ![s] = Append(@, call[s].reply.result)]
          /\ UNCHANGED <<starts, named, files, rival>>
     ELSE Exit(s)

\* The log file; then BackendConfigSetup.
OpenLog(s) ==
  /\ server[s].pc = "log"
  /\ \/ Goto(s, "setup") /\ UNCHANGED <<starts, named, call, files, told, rival>>
     \/ Exit(s)

BackendConfigSetup(s) ==
  /\ server[s].pc = "setup"
  /\ \/ Goto(s, "listen") /\ UNCHANGED <<starts, named, call, files, told, rival>>
     \/ Exit(s)

Listening(s) == server[s].pc \in {"user", "serve"}

Listen(s) ==
  /\ server[s].pc = "listen"
  /\ \/ /\ \A t \in Servers : Listening(t) => Port(t) # Port(s)
        /\ Goto(s, "user")
        /\ UNCHANGED <<starts, named, call, files, told, rival>>
     \/ Exit(s)

\* An error of user.Current is printed, and then usr is nil: a panic.
CurrentUser(s) ==
  /\ server[s].pc = "user"
  /\ \/ Goto(s, "serve") /\ UNCHANGED <<starts, named, call, files, told, rival>>
     \/ Exit(s)

-----------------------------------------------------------------------------
(* The loop. *)

\* A connection takes a descriptor, served or refused; a refused one is not
\* closed by main, only once its memory is collected.
Accept(s) ==
  /\ server[s].pc = "serve"
  /\ \/ /\ files[s] < MaxFiles
        /\ files' = [files EXCEPT ![s] = @ + 1]
        /\ UNCHANGED <<starts, named, server, call, told, rival>>
     \/ files[s] = MaxFiles /\ Exit(s)

ConnectionGone(s) ==
  /\ server[s].pc = "serve" /\ files[s] > 0
  /\ files' = [files EXCEPT ![s] = @ - 1]
  /\ UNCHANGED <<starts, named, server, call, told, rival>>

\* CTRL+C.  rpcbind may still do what it was asked, before the next start.
Kill(s) ==
  /\ server[s].pc \notin {"off", "exit", "killed"}
  /\ Goto(s, "killed")
  /\ files' = [files EXCEPT ![s] = 0]
  /\ UNCHANGED <<starts, named, call, told, rival>>

-----------------------------------------------------------------------------
\* What an earlier server registered, any port, may still be there.
Init ==
  /\ starts = 0
  /\ named \in [Programs -> {0} \cup {Port(s) : s \in Servers}]
  /\ server = [s \in Servers |-> Off]
  /\ call = [s \in Servers |-> NoCall]
  /\ files = [s \in Servers |-> 0]
  /\ told = [s \in Servers |-> <<>>]
  /\ rival = [s \in Servers |-> FALSE]

Main(s) ==
  \/ Flags(s) \/ Dial(s) \/ WriteRequest(s) \/ ReadResponse(s)
  \/ OpenLog(s) \/ BackendConfigSetup(s) \/ Listen(s) \/ CurrentUser(s)

Next ==
  \E s \in Servers :
    Start(s) \/ Main(s) \/ Answer(s) \/ Accept(s) \/ ConnectionGone(s) \/ Kill(s)

Spec == Init /\ [][Next]_vars

\* main goes on, and rpcbind answers or its connection ends.
FairSpec ==
  Spec /\ \A s \in Servers : WF_vars(Main(s)) /\ WF_vars(Answer(s))

-----------------------------------------------------------------------------
(* Properties. *)

\* The variables have their types.
TypeOK ==
  /\ DOMAIN named = Programs /\ starts \in 0 .. MaxStarts
  /\ \A s \in Servers :
       /\ server[s].step \in 1 .. Len(Registration)
       /\ server[s].pc \in {"off", "flags", "dial", "write", "read", "log",
                            "setup", "listen", "user", "serve", "exit", "killed"}
       /\ call[s].state \in {"none", "open", "sent", "answered"}
       /\ call[s].proc < Len(PmapProcList)
       /\ files[s] \in 0 .. MaxFiles
       /\ Len(told[s]) <= Len(Registration)

Serves(s) == pmapregister /\ server[s].pc = "serve"

\* main 77-94: whatever was registered before, and however other servers
\* failed, a server that serves and was told TRUE twice by PmapSet is the one
\* rpcbind names for both programs, until another one registers.
LastStartNamed ==
  \A s \in Servers :
    Serves(s) /\ ~rival[s] /\ told[s][2] /\ told[s][4]
      => \A program \in Programs : named[program] = Port(s)

\* main: a start ends, in the loop or in an exit, whatever rpcbind does.
StartEnds ==
  \A s \in Servers :
    server[s].pc = "flags" ~> server[s].pc \in {"serve", "exit", "killed"}
=============================================================================
