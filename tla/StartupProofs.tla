---------------------------- MODULE StartupProofs -----------------------------
(***************************************************************************)
(* For any number of servers, starts and descriptors: a server that serves *)
(* and was told twice that it is registered is the one rpcbind names, until *)
(* another server registers.                                               *)
(***************************************************************************)
EXTENDS Startup, TLAPS

Pcs == {"off", "flags", "dial", "write", "read", "log", "setup", "listen",
        "user", "serve", "exit", "killed"}
Registering == {"flags", "dial", "write", "read"}
Registered == {"log", "setup", "listen", "user", "serve"}

Mappings == [program : Programs, port : Nat]
Connections ==
  [state : {"none", "open", "sent", "answered"}, proc : 0 .. 5,
   mapping : Mappings, reply : [stat : {"none"} \cup ReplyStats, result : BOOLEAN]]

Types ==
  /\ named \in [Programs -> Nat] /\ starts \in 0 .. MaxStarts
  /\ server \in [Servers -> [pc : Pcs, step : 1 .. 4]]
  /\ call \in [Servers -> Connections]
  /\ files \in [Servers -> 0 .. MaxFiles]
  /\ told \in [Servers -> Seq(BOOLEAN)]
  /\ rival \in [Servers -> BOOLEAN]

\* How far main is, by the results it was told: one for each call made.
Counted(sv, tl) ==
  /\ Len(tl) <= 4
  /\ sv.pc \in Registering => Len(tl) = sv.step - 1
  /\ sv.pc \in Registered /\ pmapregister => Len(tl) = 4

\* A request under way is the one of the step main is at, unless main is gone.
Asking(s, sv, c) ==
  /\ c.state = "sent" => sv.pc \in {"read", "killed"}
  /\ sv.pc = "read" /\ c.state \in {"sent", "answered"} =>
       /\ c.proc = ProcIndex(Registration[sv.step][1])
       /\ c.mapping = Mapping(s, Registration[sv.step][1],
                                 Registration[sv.step][2])

\* What was set, as main was told or is about to be told, is still named.
Holds(s, sv, c, tl, nm) ==
  /\ sv.pc = "read" /\ c.state = "answered" /\ c.reply.result /\ c.proc = 1
       => nm[c.mapping.program] = Port(s)
  /\ sv.pc \in Registering \cup Registered /\ Len(tl) >= 2 /\ tl[2]
       => nm["MOUNT"] = Port(s)
  /\ sv.pc \in Registering \cup Registered /\ Len(tl) >= 4 /\ tl[4]
       => nm["NFS"] = Port(s)

Fine(s) ==
  /\ Counted(server[s], told[s])
  /\ Asking(s, server[s], call[s])
  /\ ~rival[s] => Holds(s, server[s], call[s], told[s], named)

IInv == Types /\ \A s \in Servers : Fine(s)

-----------------------------------------------------------------------------
(* The table of the client codec and the calls of main. *)

LEMMA ProcNumbers == ProcIndex("set") = 1 /\ ProcIndex("unset") = 2
<1>1. \A i \in 1 .. Len(PmapProcList) : PmapProcList[i] = "set" <=> i = 2
  BY DEF PmapProcList
<1>2. \A i \in 1 .. Len(PmapProcList) : PmapProcList[i] = "unset" <=> i = 3
  BY DEF PmapProcList
<1>3. 2 \in 1 .. Len(PmapProcList) /\ 3 \in 1 .. Len(PmapProcList)
  BY DEF PmapProcList
<1>4. (CHOOSE i \in 1 .. Len(PmapProcList) : PmapProcList[i] = "set") = 2
  BY <1>1, <1>3
<1>5. (CHOOSE i \in 1 .. Len(PmapProcList) : PmapProcList[i] = "unset") = 3
  BY <1>2, <1>3
<1>6. QED
  BY <1>4, <1>5 DEF ProcIndex

\* Steps 2 and 4 set, steps 1 and 3 unset; the first two are for MOUNT.
LEMMA TheCalls ==
  ASSUME NEW k \in 1 .. 4
  PROVE  /\ Registration[k][1] = IF k \in {2, 4} THEN "set" ELSE "unset"
         /\ Registration[k][2] = IF k \in {1, 2} THEN "MOUNT" ELSE "NFS"
  BY DEF Registration


-----------------------------------------------------------------------------
(* Steps. *)

\* A step of s that leaves rpcbind alone and the other servers.
OthersKept(s) ==
  \A t \in Servers \ {s} :
    /\ server'[t] = server[t] /\ call'[t] = call[t]
    /\ told'[t] = told[t] /\ rival'[t] = rival[t]

LEMMA OwnStep ==
  ASSUME IInv, NEW s \in Servers, UNCHANGED named, OthersKept(s), Types',
         Counted(server'[s], told'[s]), Asking(s, server'[s], call'[s]),
         ~rival'[s] => Holds(s, server'[s], call'[s], told'[s], named)
  PROVE  IInv'
<1>1. ASSUME NEW t \in Servers, t # s PROVE Fine(t)'
  <2>1. Fine(t)
    BY DEF IInv
  <2>2. QED
    BY <1>1, <2>1 DEF Fine, OthersKept
<1>2. Fine(s)'
  BY DEF Fine
<1>3. QED
  BY <1>1, <1>2 DEF IInv

\* main goes on at pc without a word of rpcbind.
LEMMA GotoStep ==
  ASSUME IInv, NEW s \in Servers, NEW pc \in Pcs \ {"read"},
         server[s].pc \in Registering \cup Registered,
         \/ server[s].pc \in {"flags", "dial"} /\ pc \in Registering
         \/ server[s].pc \in Registered \cup {"flags"} /\ pc \in Registered
         \/ pc \in {"exit", "killed"},
         server[s].pc = "flags" /\ pc \in Registered => ~pmapregister,
         Goto(s, pc), NEW c \in Connections, c.state # "sent",
         \/ call' = [call EXCEPT ![s] = c]
         \/ UNCHANGED call /\ (pc = "killed" \/ server[s].pc # "read"),
         files' \in [Servers -> 0 .. MaxFiles],
         UNCHANGED <<starts, named, told, rival>>
  PROVE  IInv'
<1>1. server'[s].pc = pc /\ server'[s].step = server[s].step
  BY DEF IInv, Types, Goto
<1>2. Types'
  BY DEF IInv, Types, Goto
<1>3. OthersKept(s)
  BY DEF OthersKept, IInv, Types, Goto
<1>4. Fine(s)
  BY DEF IInv
<1>5. Counted(server'[s], told'[s])
  BY <1>1, <1>4 DEF Fine, Counted, Registering, Registered
<1>6. Asking(s, server'[s], call'[s])
  <2>1. CASE call' = [call EXCEPT ![s] = c]
    BY <1>1, <2>1 DEF Asking, IInv, Types
  <2>2. CASE UNCHANGED call /\ pc = "killed"
    BY <1>1, <2>2 DEF Asking
  <2>3. CASE UNCHANGED call /\ server[s].pc # "read"
    <3>1. server[s].pc # "killed"
      BY DEF Registering, Registered
    <3>2. QED
      BY <1>1, <1>4, <2>3, <3>1 DEF Fine, Asking
  <2>4. QED
    BY <2>1, <2>2, <2>3
<1>7. ~rival'[s] => Holds(s, server'[s], call'[s], told'[s], named)
  BY <1>1, <1>4 DEF Fine, Holds, Registering, Registered
<1>8. QED
  BY <1>2, <1>3, <1>5, <1>6, <1>7, OwnStep

LEMMA NoCallType == NoCall \in Connections /\ NoCall.state = "none"
  BY DEF NoCall, Connections, Mappings, Programs

LEMMA ExitStep ==
  ASSUME IInv, NEW s \in Servers, Exit(s),
         server[s].pc \in Registering \cup Registered
  PROVE  IInv'
<1>1. files' \in [Servers -> 0 .. MaxFiles]
  BY StartAssumption DEF Exit, IInv, Types
<1>2. "exit" \in Pcs \ {"read"} /\ "exit" \notin Registered
  BY DEF Pcs, Registered
<1>3. QED
  BY <1>1, <1>2, NoCallType, GotoStep DEF Exit

LEMMA KillStep ==
  ASSUME IInv, NEW s \in Servers, Kill(s)
  PROVE  IInv'
<1>1. files' \in [Servers -> 0 .. MaxFiles]
  BY StartAssumption DEF Kill, IInv, Types
<1>2. /\ "killed" \in Pcs \ {"read"} /\ "killed" \notin Registered
      /\ server[s].pc \in Registering \cup Registered
  BY DEF Pcs, Registering, Registered, Kill, IInv, Types
<1>3. QED
  BY <1>1, <1>2, NoCallType, GotoStep DEF Kill

\* The steps of main that only go on or exit.
LEMMA FlagsStep ==
  ASSUME IInv, NEW s \in Servers, Flags(s)
  PROVE  IInv'
<1>1. CASE Exit(s)
  BY <1>1, ExitStep DEF Flags, Registering
<1>2. CASE /\ Goto(s, IF pmapregister THEN "dial" ELSE "log")
           /\ UNCHANGED <<starts, named, call, files, told, rival>>
  <2>1. server[s].pc = "flags" /\ files' \in [Servers -> 0 .. MaxFiles]
    BY <1>2 DEF Flags, IInv, Types
  <2>2. CASE pmapregister
    <3>1. Goto(s, "dial")
      BY <1>2, <2>2
    <3>2. "dial" \in Pcs \ {"read"} /\ "dial" \in Registering
          /\ "dial" \notin Registered
      BY DEF Pcs, Registering, Registered
    <3>3. QED
      BY <1>2, <2>1, <2>2, <3>1, <3>2, NoCallType, GotoStep DEF Registering
  <2>3. CASE ~pmapregister
    <3>1. Goto(s, "log")
      BY <1>2, <2>3
    <3>2. "log" \in Pcs \ {"read"} /\ "log" \in Registered
      BY DEF Pcs, Registered
    <3>3. QED
      BY <1>2, <2>1, <2>3, <3>1, <3>2, NoCallType, GotoStep DEF Registering
  <2>4. QED
    BY <2>2, <2>3
<1>3. QED
  BY <1>1, <1>2 DEF Flags

LEMMA DialStep ==
  ASSUME IInv, NEW s \in Servers, Dial(s)
  PROVE  IInv'
<1>1. CASE Exit(s)
  BY <1>1, ExitStep DEF Dial, Registering
<1>2. CASE /\ Goto(s, "write")
           /\ call' = [call EXCEPT ![s].state = "open"]
           /\ UNCHANGED <<starts, named, files, told, rival>>
  <2> DEFINE c == [call[s] EXCEPT !.state = "open"]
  <2>1. /\ c \in Connections /\ c.state = "open"
        /\ call' = [call EXCEPT ![s] = c]
    BY <1>2 DEF IInv, Types, Connections
  <2>2. server[s].pc = "dial" /\ files' \in [Servers -> 0 .. MaxFiles]
    BY <1>2 DEF Dial, IInv, Types
  <2>3. "write" \in Pcs \ {"read"} /\ "write" \in Registering
        /\ "dial" \in Registering
    BY DEF Pcs, Registering
  <2> HIDE DEF c
  <2>4. QED
    BY <1>2, <2>1, <2>2, <2>3, GotoStep
<1>3. QED
  BY <1>1, <1>2 DEF Dial

\* OpenLog, BackendConfigSetup, Listen and CurrentUser.
LEMMA AfterRegistrationStep ==
  ASSUME IInv, NEW s \in Servers,
         OpenLog(s) \/ BackendConfigSetup(s) \/ Listen(s) \/ CurrentUser(s)
  PROVE  IInv'
<1>1. server[s].pc \in Registered
  BY DEF OpenLog, BackendConfigSetup, Listen, CurrentUser, Registered
<1>2. CASE Exit(s)
  BY <1>1, <1>2, ExitStep
<1>3. ASSUME NEW pc \in {"setup", "listen", "user", "serve"}, Goto(s, pc),
             UNCHANGED <<starts, named, call, files, told, rival>>
      PROVE  IInv'
  <2>1. /\ pc \in Pcs \ {"read"} /\ pc \in Registered
        /\ server[s].pc \notin {"flags", "read"}
    BY <1>1 DEF Pcs, Registered
  <2>2. files' \in [Servers -> 0 .. MaxFiles]
    BY <1>3 DEF IInv, Types
  <2>3. QED
    BY <1>1, <1>3, <2>1, <2>2, NoCallType, GotoStep
<1>4. QED
  BY <1>2, <1>3 DEF OpenLog, BackendConfigSetup, Listen, CurrentUser

\* The accept loop touches its descriptors only, but for the exit.
LEMMA LoopStep ==
  ASSUME IInv, NEW s \in Servers, Accept(s) \/ ConnectionGone(s)
  PROVE  IInv'
<1>1. CASE Exit(s)
  BY <1>1, ExitStep DEF Accept, ConnectionGone, Registered
<1>2. CASE /\ UNCHANGED <<starts, named, server, call, told, rival>>
           /\ files' \in [Servers -> 0 .. MaxFiles]
  BY <1>2 DEF IInv, Types, Fine
<1>3. files[s] \in Nat /\ MaxFiles \in Nat /\ files[s] <= MaxFiles
  BY StartAssumption DEF IInv, Types
<1>4. ASSUME files' = [files EXCEPT ![s] = files[s] + 1], files[s] < MaxFiles
      PROVE  files' \in [Servers -> 0 .. MaxFiles]
  <2>1. files[s] + 1 \in 0 .. MaxFiles
    BY <1>3, <1>4
  <2>2. QED
    BY <1>4, <2>1 DEF IInv, Types
<1>5. ASSUME files' = [files EXCEPT ![s] = files[s] - 1], files[s] > 0
      PROVE  files' \in [Servers -> 0 .. MaxFiles]
  <2>1. files[s] - 1 \in 0 .. MaxFiles
    BY <1>3, <1>5
  <2>2. QED
    BY <1>5, <2>1 DEF IInv, Types
<1>6. QED
  BY <1>1, <1>2, <1>4, <1>5 DEF Accept, ConnectionGone

\* A new life: nothing told yet, and no rival.
LEMMA StartStep ==
  ASSUME IInv, NEW s \in Servers, Start(s)
  PROVE  IInv'
<1> DEFINE sv == [pc |-> "flags", step |-> 1]
<1>1. sv \in [pc : Pcs, step : 1 .. 4] /\ sv.pc = "flags" /\ sv.step = 1
  BY DEF Pcs
<1>2. /\ server' = [server EXCEPT ![s] = sv]
      /\ told' = [told EXCEPT ![s] = <<>>]
      /\ rival' = [rival EXCEPT ![s] = FALSE]
      /\ call' = [call EXCEPT ![s] = NoCall]
      /\ starts' = starts + 1 /\ starts < MaxStarts
      /\ UNCHANGED <<named, files>>
  BY DEF Start
<1> HIDE DEF sv
<1>3. starts' \in 0 .. MaxStarts
  BY <1>2, StartAssumption DEF IInv, Types
<1>4. <<>> \in Seq(BOOLEAN) /\ Len(<<>>) = 0
  OBVIOUS
<1>5. Types'
  BY <1>1, <1>2, <1>3, <1>4, NoCallType DEF IInv, Types
<1>6. OthersKept(s)
  BY <1>2 DEF OthersKept, IInv, Types
<1>7. server'[s] = sv /\ told'[s] = <<>>
  BY <1>2 DEF IInv, Types
<1>8. Counted(server'[s], told'[s])
  BY <1>1, <1>4, <1>7 DEF Counted, Registered
<1>9. Asking(s, server'[s], call'[s])
  BY <1>1, <1>2, <1>7, NoCallType DEF Asking, IInv, Types
<1>10. Holds(s, server'[s], call'[s], told'[s], named)
  BY <1>1, <1>4, <1>7 DEF Holds
<1>11. QED
  BY <1>2, <1>5, <1>6, <1>8, <1>9, <1>10, OwnStep

\* The request of a step.
LEMMA MappingType ==
  ASSUME NEW s \in Servers, NEW k \in 1 .. 4
  PROVE  /\ Mapping(s, Registration[k][1], Registration[k][2]) \in Mappings
         /\ ProcIndex(Registration[k][1]) \in {1, 2}
<1>1. Port(s) \in Nat
  BY StartAssumption
<1>2. Registration[k][1] \in {"set", "unset"} /\ Registration[k][2] \in Programs
  BY TheCalls DEF Programs
<1>3. QED
  BY <1>1, <1>2, ProcNumbers DEF Mapping, Mappings

LEMMA WriteRequestStep ==
  ASSUME IInv, NEW s \in Servers, WriteRequest(s)
  PROVE  IInv'
<1>1. CASE Exit(s)
  BY <1>1, ExitStep DEF WriteRequest, Registering
<1>2. CASE ~Exit(s)
  <2> DEFINE k == server[s].step
             n == ProcIndex(Registration[k][1])
             m == Mapping(s, Registration[k][1], Registration[k][2])
             c == [NoCall EXCEPT !.state = "sent", !.proc = n, !.mapping = m]
  <2>1. /\ call' = [call EXCEPT ![s] = c] /\ Goto(s, "read")
        /\ UNCHANGED <<starts, named, files, told, rival>>
        /\ server[s].pc = "write"
    BY <1>2 DEF WriteRequest
  <2>2. k \in 1 .. 4
    BY DEF IInv, Types
  <2>3. m \in Mappings /\ n \in 0 .. 5
    BY <2>2, MappingType
  <2>4. /\ n = ProcIndex(Registration[k][1])
        /\ m = Mapping(s, Registration[k][1], Registration[k][2])
    OBVIOUS
  <2> HIDE DEF m, n
  <2>5. c.state = "sent" /\ c.proc = n /\ c.mapping = m /\ c \in Connections
    BY <2>3 DEF NoCall, Connections
  <2> HIDE DEF c
  <2>6. /\ server' = [server EXCEPT ![s].pc = "read"]
        /\ server'[s].pc = "read" /\ server'[s].step = k /\ call'[s] = c
    BY <2>1 DEF Goto, IInv, Types
  <2>7. Types'
    BY <2>1, <2>5, <2>6 DEF IInv, Types, Pcs
  <2>8. OthersKept(s)
    BY <2>1, <2>6 DEF OthersKept, IInv, Types
  <2>9. Fine(s)
    BY DEF IInv
  <2>10. Counted(server'[s], told'[s])
    BY <2>1, <2>6, <2>9 DEF Fine, Counted, Registering, Registered
  <2>11. Asking(s, server'[s], call'[s])
    BY <2>4, <2>5, <2>6 DEF Asking
  <2>12. ~rival'[s] => Holds(s, server'[s], call'[s], told'[s], named)
    BY <2>1, <2>5, <2>6, <2>9 DEF Fine, Holds, Registering, Registered
  <2>13. QED
    BY <2>1, <2>7, <2>8, <2>10, <2>11, <2>12, OwnStep
<1>3. QED
  BY <1>1, <1>2

\* The result of the call under way, and the next call or the log file.
LEMMA ReadResponseStep ==
  ASSUME IInv, NEW s \in Servers, ReadResponse(s)
  PROVE  IInv'
<1>1. CASE checkReplyForErr(call[s].reply) # ""
  BY <1>1, ExitStep DEF ReadResponse, Registering
<1>2. CASE checkReplyForErr(call[s].reply) = ""
  <2> DEFINE k == server[s].step
             sv == IF k < 4 THEN [pc |-> "dial", step |-> k + 1]
                   ELSE [pc |-> "log", step |-> k]
             result == call[s].reply.result
             tl == Append(told[s], result)
  <2>1. /\ server[s].pc = "read" /\ call[s].state = "answered"
        /\ server' = NextStep(s)
        /\ call' = [call EXCEPT ![s] = NoCall]
        /\ told' = [told EXCEPT ![s] = tl]
        /\ UNCHANGED <<starts, named, files, rival>>
    BY <1>2 DEF ReadResponse, Arrived
  <2>2. k \in 1 .. 4 /\ result \in BOOLEAN /\ told[s] \in Seq(BOOLEAN)
    BY DEF IInv, Types, Connections
  <2>3. /\ Fine(s) /\ Len(told[s]) = k - 1
        /\ "read" \in Registering
    BY <2>1 DEF IInv, Fine, Counted, Registering
  <2>4. /\ tl \in Seq(BOOLEAN) /\ Len(tl) = k
        /\ tl[k] = result /\ \A i \in 1 .. k - 1 : tl[i] = told[s][i]
    BY <2>2, <2>3
  <2>5. server' = [server EXCEPT ![s] = sv]
    BY <2>1 DEF NextStep, Registration, IInv, Types
  <2>6. /\ sv \in [pc : Pcs, step : 1 .. 4] /\ sv.pc \in {"dial", "log"}
        /\ sv.pc = "dial" => sv.step = k + 1
        /\ sv.pc = "log" => k = 4
    BY <2>2 DEF Pcs
  <2> HIDE DEF sv, tl, result
  <2>7. Types'
    BY <2>1, <2>4, <2>5, <2>6, NoCallType DEF IInv, Types
  <2>8. OthersKept(s)
    BY <2>1, <2>5 DEF OthersKept, IInv, Types
  <2>9. server'[s] = sv /\ call'[s] = NoCall /\ told'[s] = tl
    BY <2>1, <2>5 DEF IInv, Types
  <2>10. Counted(server'[s], told'[s])
    <3>1. Len(tl) <= 4
      BY <2>2, <2>4
    <3>2. sv.pc = "dial" => Len(tl) = sv.step - 1
      BY <2>2, <2>4, <2>6
    <3>3. sv.pc = "log" => Len(tl) = 4
      BY <2>4, <2>6
    <3>4. QED
      BY <2>6, <2>9, <3>1, <3>2, <3>3 DEF Counted, Registering, Registered
  <2>11. Asking(s, server'[s], call'[s])
    BY <2>6, <2>9, NoCallType DEF Asking
  <2>12. ASSUME ~rival'[s] PROVE Holds(s, server'[s], call'[s], told'[s], named)
    <3>1. /\ ~rival[s]
          /\ Holds(s, server[s], call[s], told[s], named)
      BY <2>1, <2>3, <2>12 DEF Fine
    <3>2. ASSUME k \in {2, 4}, result
          PROVE  named[IF k = 2 THEN "MOUNT" ELSE "NFS"] = Port(s)
      <4>1. call[s].proc = 1
            /\ call[s].mapping.program = Registration[k][2]
        BY <2>1, <2>2, <2>3, <3>2, TheCalls, ProcNumbers
           DEF Fine, Asking, Mapping
      <4>2. Registration[k][2] = IF k = 2 THEN "MOUNT" ELSE "NFS"
        BY <2>2, <3>2, TheCalls
      <4>3. QED
        BY <2>1, <3>1, <3>2, <4>1, <4>2 DEF Holds, result
    <3>3. ASSUME Len(tl) >= 2, tl[2] PROVE named["MOUNT"] = Port(s)
      <4>1. CASE k = 2
        BY <2>4, <3>2, <3>3, <4>1
      <4>2. CASE k > 2
        <5>1. tl[2] = told[s][2] /\ Len(told[s]) >= 2
          BY <2>2, <2>3, <2>4, <4>2
        <5>2. QED
          BY <2>1, <2>3, <3>1, <3>3, <5>1 DEF Holds
      <4>3. QED
        BY <2>2, <2>4, <3>3, <4>1, <4>2
    <3>4. Len(tl) >= 4 /\ tl[4] => named["NFS"] = Port(s)
      BY <2>2, <2>4, <3>2
    <3>5. QED
      BY <2>6, <2>9, <3>3, <3>4 DEF Holds
  <2>13. QED
    BY <2>1, <2>7, <2>8, <2>10, <2>11, <2>12, OwnStep
<1>3. QED
  BY <1>1, <1>2

\* rpcbind does what it was asked, or not.
LEMMA AnswerStep ==
  ASSUME IInv, NEW s \in Servers, Answer(s)
  PROVE  IInv'
<1> DEFINE asked == call[s].mapping
<1>1. PICK stat \in ReplyStats, done \in BOOLEAN :
        /\ named' = IF done THEN Does(call[s].proc, asked) ELSE named
        /\ rival' = [t \in Servers |-> rival[t] \/ (done /\ t # s)]
        /\ call' = [call EXCEPT ![s].state = "answered",
                      ![s].reply = [stat |-> stat,
                                    result |-> done /\ stat = "Success"]]
  BY DEF Answer
<1> DEFINE c == [call[s] EXCEPT !.state = "answered",
                   !.reply = [stat |-> stat,
                              result |-> done /\ stat = "Success"]]
<1>2. call[s] \in Connections /\ call[s].state = "sent"
  BY DEF Answer, IInv, Types
<1>3. /\ c \in Connections /\ c.state = "answered" /\ c.proc = call[s].proc
      /\ c.mapping = asked /\ (c.reply.result => done)
  BY <1>2 DEF Connections
<1>4. call' = [call EXCEPT ![s] = c]
  BY <1>1 DEF IInv, Types
<1> HIDE DEF c
<1>5. UNCHANGED <<starts, server, files, told>>
  BY DEF Answer
<1>6. named' \in [Programs -> Nat]
  BY <1>1, <1>2 DEF Does, IInv, Types, Connections, Mappings
<1>7. rival' \in [Servers -> BOOLEAN]
  BY <1>1 DEF IInv, Types
<1>8. Types'
  BY <1>3, <1>4, <1>5, <1>6, <1>7 DEF IInv, Types
<1>9. ASSUME NEW t \in Servers, t # s PROVE Fine(t)'
  <2>1. Fine(t) /\ call'[t] = call[t]
    BY <1>4, <1>9 DEF IInv, Types
  <2>2. ~rival'[t] => ~rival[t] /\ named' = named
    BY <1>1, <1>9 DEF IInv, Types
  <2>3. QED
    BY <1>5, <2>1, <2>2 DEF Fine
<1>10. Fine(s)'
  <2>1. call'[s] = c /\ rival'[s] = rival[s]
    BY <1>1, <1>4 DEF IInv, Types
  <2>2. Fine(s) /\ server[s].step \in 1 .. 4
    BY DEF IInv, Types
  <2>3. Counted(server[s], told[s])'
    BY <1>5, <2>2 DEF Fine
  <2>4. Asking(s, server'[s], call'[s])
    BY <1>2, <1>3, <1>5, <2>1, <2>2 DEF Fine, Asking
  <2>5. ASSUME ~rival[s] PROVE Holds(s, server'[s], call'[s], told'[s], named')
    <3>1. Holds(s, server[s], call[s], told[s], named)
      BY <2>2, <2>5 DEF Fine
    <3>2. CASE server[s].pc = "read"
      <4> DEFINE k == server[s].step
      <4>1. /\ call[s].proc = IF k \in {2, 4} THEN 1 ELSE 2
            /\ asked.program = IF k \in {1, 2} THEN "MOUNT" ELSE "NFS"
            /\ asked.port = IF k \in {2, 4} THEN Port(s) ELSE 0
        BY <1>2, <2>2, <3>2, TheCalls, ProcNumbers DEF Fine, Asking, Mapping
      <4>2. done => named' = [named EXCEPT ![asked.program] = asked.port]
        BY <1>1, <2>2, <4>1 DEF Does
      <4>3. Len(told[s]) = k - 1
        BY <2>2, <3>2 DEF Fine, Counted, Registering
      <4>4. named \in [Programs -> Nat] /\ asked.program \in Programs
        BY <4>1 DEF IInv, Types, Programs
      <4>5. done => named'[asked.program] = asked.port
        BY <4>2, <4>4
      <4>6. k <= 2 \/ named'["MOUNT"] = named["MOUNT"]
        <5>1. CASE ~done
          BY <1>1, <5>1
        <5>2. CASE done /\ k > 2
          <6>1. asked.program = "NFS"
            BY <4>1, <5>2
          <6>2. QED
            BY <4>2, <4>4, <5>2, <6>1 DEF Programs
        <5>3. QED
          BY <2>2, <5>1, <5>2
      <4>7. QED
        BY <1>3, <1>5, <2>1, <2>2, <3>1, <3>2, <4>1, <4>3, <4>5, <4>6 DEF Holds
    <3>3. CASE server[s].pc # "read"
      <4>1. server[s].pc = "killed"
        BY <1>2, <2>2, <3>3 DEF Fine, Asking
      <4>2. QED
        BY <1>5, <4>1 DEF Holds, Registering, Registered
    <3>4. QED
      BY <3>2, <3>3
  <2>6. QED
    BY <2>1, <2>3, <2>4, <2>5 DEF Fine
<1>11. QED
  BY <1>8, <1>9, <1>10 DEF IInv

-----------------------------------------------------------------------------
(* The theorems. *)

LEMMA InitIInv == Init => IInv
<1> SUFFICES ASSUME Init PROVE IInv
  OBVIOUS
<1>1. Off \in [pc : Pcs, step : 1 .. 4] /\ Off.pc = "off"
  BY DEF Off, Pcs
<1>2. <<>> \in Seq(BOOLEAN) /\ Len(<<>>) = 0
  OBVIOUS
<1>3. Types
  BY <1>1, <1>2, NoCallType, StartAssumption DEF Init, Types
<1>4. ASSUME NEW s \in Servers PROVE Fine(s)
  BY <1>1, <1>2, NoCallType
     DEF Init, Fine, Counted, Asking, Holds, Registering, Registered
<1>5. QED
  BY <1>3, <1>4 DEF IInv

LEMMA NextIInv == IInv /\ [Next]_vars => IInv'
<1> SUFFICES ASSUME IInv, [Next]_vars PROVE IInv'
  OBVIOUS
<1>1. CASE UNCHANGED vars
  BY <1>1 DEF vars, IInv, Types, Fine
<1>2. ASSUME NEW s \in Servers,
             \/ Start(s) \/ Main(s) \/ Answer(s)
             \/ Accept(s) \/ ConnectionGone(s) \/ Kill(s)
      PROVE  IInv'
  BY <1>2, StartStep, FlagsStep, DialStep, WriteRequestStep, ReadResponseStep,
     AfterRegistrationStep, AnswerStep, LoopStep, KillStep DEF Main
<1>3. QED
  BY <1>1, <1>2 DEF Next

\* The invariant holds through all starts, refusals, lost replies and kills.
THEOREM Invariance == Spec => []IInv
<1>1. QED
  BY InitIInv, NextIInv, PTL DEF Spec

\* main makes its four calls and no fifth: types and the count of results.
THEOREM TypeCorrect == Spec => []TypeOK
<1>1. IInv => TypeOK
  <2> SUFFICES ASSUME IInv PROVE TypeOK
    OBVIOUS
  <2>1. Len(PmapProcList) = 6 /\ Len(Registration) = 4
    BY DEF PmapProcList, Registration
  <2>2. DOMAIN named = Programs /\ starts \in 0 .. MaxStarts
    BY DEF IInv, Types
  <2>3. ASSUME NEW s \in Servers
        PROVE  /\ server[s] \in [pc : Pcs, step : 1 .. 4]
               /\ call[s] \in Connections
               /\ files[s] \in 0 .. MaxFiles
               /\ Len(told[s]) <= 4
    BY DEF IInv, Types, Fine, Counted
  <2>4. QED
    BY <2>1, <2>2, <2>3 DEF TypeOK, Pcs, Connections
<1>2. QED
  BY <1>1, Invariance, PTL

\* main 77-94: a server that serves and was told TRUE twice by PmapSet is the
\* one rpcbind names, whatever was registered before it, whichever calls of
\* other servers failed, and until another one registers.
THEOREM LastNamed == Spec => []LastStartNamed
<1>1. IInv => LastStartNamed
  <2> SUFFICES ASSUME IInv, NEW s \in Servers, Serves(s), ~rival[s],
                      told[s][2], told[s][4], NEW program \in Programs
               PROVE  named[program] = Port(s)
    BY DEF LastStartNamed
  <2>1. Fine(s) /\ server[s].pc \in Registered /\ pmapregister
    BY DEF IInv, Serves, Registered
  <2>2. Len(told[s]) = 4
    BY <2>1 DEF Fine, Counted
  <2>3. QED
    BY <2>1, <2>2 DEF Fine, Holds, Programs
<1>2. QED
  BY <1>1, Invariance, PTL
=============================================================================
