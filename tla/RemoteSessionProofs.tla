------------------------ MODULE RemoteSessionProofs ------------------------
(***************************************************************************)
(* Proofs about module RemoteSession: whatever the client process and the  *)
(* network do, the data handler keeps the contract of ClientHandler, no    *)
(* thread is left when the VM ends, and a client in step with the server   *)
(* neither fails nor shows a wrong state.                                  *)
(***************************************************************************)
EXTENDS RemoteSession, ServerAppProofs

-----------------------------------------------------------------------------
(* The network thread.                                                     *)

Requests == Commands \cup {Req(ty, NoArg) : ty \in {"CONNECT", "CHECK_STOPPED", "STOP"}}

Udp == [stopped : BOOLEAN, vm : {NoArg, "READY"} \cup Finished,
        addr : Addr \cup {NotSet}, stack : Seq(CallInfos)]

Responses == [ty : {"ERR", "CONNECT", "CHECK_STOPPED", "STOP", "QUERY", "ADD_BKPS",
                    "DEL_BKPS", "RESUME"},
              udp : Udp]

(* The program counter of the thread determines _state, up to the change   *)
(* the VM's thread makes while it waits, and which buffers are in use.     *)
ThreadInv ==
    /\ rpc \in {"off", "bind", "accept", "recv", "wait", "send", "end"}
    /\ rpc \in {"off", "bind", "accept"} => rstate = "CONNECTING"
    /\ rpc = "recv" => rstate = "NO_REQ"
    /\ rpc = "wait" => rstate \in {"HAS_REQ", "SENDING_RES"}
    /\ rpc = "send" => rstate = "SENDING_RES"
    /\ rpc = "end"  => rstate = "ERROR"
    /\ serving => rstate = "HAS_REQ"

BufferInv ==
    /\ Len(inBuf)  = IF rstate = "HAS_REQ" THEN 1 ELSE 0
    /\ rpc # "end" => Len(outBuf) = IF rstate = "SENDING_RES" THEN 1 ELSE 0

(* The requests on their way are ones the client really sends, the answers *)
(* ones the handler gives.                                                 *)
RequestInv ==
    /\ toServ \in Seq(Requests) /\ inBuf \in Seq(Requests)
    /\ outBuf \in Seq(Responses) /\ toCli \in Seq(Responses)

(* The connection is there between the client's connect and its end, and   *)
(* the thread that serves it ends only with it.                            *)
LinkInv ==
    /\ cpc \in {"start", "prompt", "await", "poll"} \cup ClientEnded
    /\ link = "none" <=> cpc = "start"
    /\ link = "closed" <=> cpc \in ClientEnded
    /\ link \in {"none", "pending", "open", "closed"}
    /\ rpc \in {"off", "bind"} => link = "none"
    /\ rpc \in {"recv", "wait", "send"} => link \in {"open", "closed"}
    /\ client = "CONNECTED" =>
          rpc \in {"recv", "wait", "send"} \/ (rpc = "end" /\ link = "closed")
    /\ client = "DISCONNECTED" => rpc = "end"

(* The VM's thread leaves the last loop() only when the client is gone.    *)
EndInv ==
    /\ enabled /\ hasHandler
    /\ state = "NOT_STARTED" => vmUpd \notin Finished
    /\ vmUpd \in Finished /\ pc # "loop" => state \in Finished
    /\ pc = "done" => client = "DISCONNECTED"

-----------------------------------------------------------------------------
(* A client in step.                                                       *)

InFlight == Len(toServ) + Len(inBuf) + Len(outBuf) + Len(toCli)

(* No message is lost while the client lives: one that waits has at least  *)
(* one message to wait for.                                                *)
FlightInv ==
    /\ cpc = "start" => InFlight = 0
    /\ cpc = "await" => InFlight >= 1

(* The server holds the program for the client, and u is its state.        *)
Held == client = "CONNECTED" /\ pc \in {"top", "run"} /\ db_is_stopped

Knows(u) == Held /\ u = check_stopped_udp

(* What is true while the request m of the current call is on its way ...  *)
AskOK(m) ==
    /\ m.ty = creq
    /\ ccall = "connect" => (client = "CONNECTED" => Held)
    /\ ccall = "cmd"     => Knows(udp)
    /\ ccall = "stop2"   => Held

(* ... and while its answer m is.                                          *)
ReplyOK(m) ==
    /\ m.ty \in {creq, "ERR"}
    /\ ccall = "connect" => m.ty = creq /\ Knows(m.udp)
    /\ ccall = "cmd"     => (m.ty # "RESUME" => Knows(udp))
    /\ ccall = "poll"    => m.ty = creq /\ (m.udp.stopped => Knows(m.udp))
    /\ ccall = "stop1"   => (m.ty = creq => Held)
    /\ ccall = "stop2"   => m.ty = creq /\ Knows(m.udp)

CallInv ==
    /\ ccall \in {"connect", "cmd", "poll", "stop1", "stop2"}
    /\ ccall = "connect" => creq = "CONNECT"
    /\ ccall = "cmd" => /\ creq \in {"QUERY", "ADD_BKPS", "DEL_BKPS", "RESUME"}
                        /\ cst = "VM_STOPPED"
    /\ ccall = "poll" => creq = "CHECK_STOPPED"
    /\ ccall = "stop1" => creq = "STOP"
    /\ ccall = "stop2" => creq = "CHECK_STOPPED" /\ cst = "VM_STOPPED"

MessageInv ==
    /\ toServ # <<>> => AskOK(Head(toServ))
    /\ inBuf  # <<>> => AskOK(Head(inBuf))
    /\ outBuf # <<>> => ReplyOK(Head(outBuf))
    /\ toCli  # <<>> => ReplyOK(Head(toCli))

StepInv ==
    InStep =>
    /\ cpc = "prompt" => cst = "VM_STOPPED" /\ Knows(udp)
    /\ cpc = "await" => CallInv /\ MessageInv

SessionInv == ThreadInv /\ BufferInv /\ RequestInv /\ LinkInv /\ EndInv
              /\ FlightInv /\ StepInv

-----------------------------------------------------------------------------
(* Queues of messages: what appending, concatenating and taking the first  *)
(* one do to their type and length.                                        *)
LEMMA QueueGrows ==
    ASSUME NEW S, NEW q \in Seq(S), NEW m \in S
    PROVE  /\ Append(q, m) \in Seq(S) /\ Len(Append(q, m)) = Len(q) + 1
           /\ <<m>> \in Seq(S) /\ Len(<<m>>) = 1
           /\ Head(<<m>>) = m
           /\ Len(q) = 0 => Head(Append(q, m)) = m
           /\ Len(q) > 0 => Head(Append(q, m)) = Head(q)
OBVIOUS

(* Two queues in a row.                                                    *)
LEMMA QueuesJoin ==
    ASSUME NEW S, NEW q \in Seq(S), NEW r \in Seq(S)
    PROVE  /\ q \o r \in Seq(S) /\ Len(q \o r) = Len(q) + Len(r)
           /\ Len(q) = 0 /\ Len(r) > 0 => Head(q \o r) = Head(r)
OBVIOUS

(* A queue whose first message is taken.                                   *)
LEMMA QueueShrinks ==
    ASSUME NEW S, NEW q \in Seq(S), q # <<>>
    PROVE  /\ Tail(q) \in Seq(S) /\ Len(Tail(q)) = Len(q) - 1
           /\ Head(q) \in S /\ Len(q) > 0
OBVIOUS

(* A queue is empty or has a length of one at least.                       *)
LEMMA QueueLength ==
    ASSUME NEW S, NEW q \in Seq(S)
    PROVE  Len(q) \in Nat /\ (q = <<>> <=> Len(q) = 0)
OBVIOUS

-----------------------------------------------------------------------------
(* What the arguments of a request can be, as the commands of the client   *)
(* fill them in.                                                           *)
LEMMA RequestArgs ==
    ASSUME NEW m \in Requests
    PROVE  /\ m.ty \in {"CONNECT", "CHECK_STOPPED", "STOP", "QUERY", "ADD_BKPS",
                        "DEL_BKPS", "RESUME"}
           /\ m.ty \in {"ADD_BKPS", "DEL_BKPS"} => m.arg \in 0 .. MemSize
           /\ m.ty = "RESUME" => m.arg \in ResumeType
<1>1. CASE m \in {Req(ty, addr) : ty \in {"ADD_BKPS", "DEL_BKPS"}, addr \in BkpAddr}
    <2>1. PICK ty \in {"ADD_BKPS", "DEL_BKPS"}, addr \in BkpAddr : m = Req(ty, addr)
        BY <1>1
    <2>2. m.ty = ty /\ m.arg = addr
        BY <2>1 DEF Req
    <2> QED
        BY <2>2, RemoteSessionAssumption
<1>2. CASE m \in {Req("RESUME", type) : type \in ResumeCmd}
    <2>1. PICK type \in ResumeCmd : m = Req("RESUME", type)
        BY <1>2
    <2>2. m.ty = "RESUME" /\ m.arg = type
        BY <2>1 DEF Req
    <2> QED
        BY <2>2, RemoteSessionAssumption
<1>3. CASE m = Req("QUERY", NoArg)
    BY <1>3 DEF Req
<1>4. CASE m \in {Req(ty, NoArg) : ty \in {"CONNECT", "CHECK_STOPPED", "STOP"}}
    BY <1>4 DEF Req
<1> QED
    BY <1>1, <1>2, <1>3, <1>4 DEF Requests, Commands

(* Every call the data handler makes is one that class ClientHandler       *)
(* allows; the network thread and the client do not touch the VM's thread. *)
LEMMA RemoteStepIsAppStep ==
    ASSUME RequestInv, BufferInv, ThreadInv, [RemoteNext]_rsVars
    PROVE  [AppNext]_appVars
<1>1. CASE AppStep
    BY <1>1 DEF AppStep, AppNext
<1>2. CASE Setup
    BY <1>2 DEF Setup, ClientFound, AppNext, HandlerSetup
<1>3. CASE CheckNothing
    BY <1>3 DEF CheckNothing, AppNext, HandlerCheck
<1>4. CASE AnswerRunning
    BY <1>4 DEF AnswerRunning, AppNext, HandlerCheck
<1>5. CASE RunLost
    BY <1>5 DEF RunLost, AppNext, HandlerRun, LoseClient
<1>6. CASE AnswerStopped
    <2>1. serving /\ UNCHANGED client /\ AfterRun
        BY <1>6 DEF AnswerStopped
    <2>2. inBuf[1] \in Requests
        <3>1. Len(inBuf) = 1 /\ inBuf \in Seq(Requests)
            BY <2>1 DEF RequestInv, BufferInv, ThreadInv
        <3> QED
            BY <3>1
    <2>3. \/ UNCHANGED dbVars
          \/ inBuf[1].ty = "ADD_BKPS" /\ add_breakpoint(inBuf[1].arg)
          \/ inBuf[1].ty = "DEL_BKPS" /\ del_breakpoint(inBuf[1].arg)
          \/ inBuf[1].ty = "RESUME" /\ resume(inBuf[1].arg)
        BY <1>6 DEF AnswerStopped
    <2> QED
        BY <2>1, <2>2, <2>3, RequestArgs DEF AppNext, HandlerRun
<1>7. CASE \/ StartRunner \/ HandlerTake \/ NetworkStep \/ ClientStep \/ RemoteDone
           \/ UNCHANGED rsVars
    BY <1>7 DEF StartRunner, HandlerTake, NetworkStep, ClientStep, CliConnect,
                CliCommand, ClientAnswer, CliReceive, CliPoll, CliCtrlC,
                CliInterrupted, CliLeaves, RemoteDone, rsVars
<1> QED
    BY <1>1, <1>2, <1>3, <1>4, <1>5, <1>6, <1>7
    DEF RemoteNext, MainStep, HandlerStep

(* What the server reports has the type of a DBClientUpdate.               *)
LEMMA UdpTyped ==
    ASSUME AppTypeOK
    PROVE  Unset \in Udp /\ check_stopped_udp \in Udp
<1>1. <<>> \in Seq(CallInfos) /\ callStack \in Seq(CallInfos) /\ insAddr \in Addr
    BY DEF AppTypeOK, DebuggerTypeOK
<1>2. Unset \in Udp
    BY <1>1 DEF Unset, Udp
<1>3. CASE state \in Running
    BY <1>2, <1>3 DEF check_stopped_udp
<1>4. CASE state \notin Running
    BY <1>1, <1>2, <1>4 DEF check_stopped_udp, Udp
<1> QED
    BY <1>2, <1>3, <1>4

(* The answers of the VM's thread are responses.                           *)
LEMMA AnswersTyped ==
    ASSUME AppTypeOK, RequestInv, BufferInv, ThreadInv,
           AnswerRunning \/ AnswerStopped
    PROVE  \E res \in Responses : SignalRes(res)
<1>1. /\ Err \in Responses
      /\ \A ty \in {"CONNECT", "CHECK_STOPPED", "STOP", "QUERY", "ADD_BKPS",
                      "DEL_BKPS", "RESUME"} :
            {Res(ty, Unset), Res(ty, check_stopped_udp)} \subseteq Responses
    BY UdpTyped DEF Err, Res, Responses
<1>2. CASE AnswerRunning
    BY <1>1, <1>2 DEF AnswerRunning
<1>3. CASE AnswerStopped
    BY <1>1, <1>3 DEF AnswerStopped
<1> QED
    BY <1>2, <1>3

(* What the client does to the connection.                                 *)
ClientSends ==
    /\ \/ UNCHANGED toServ
       \/ \E req \in Requests : toServ' \in {<<req>>, Append(toServ, req)}
    /\ UNCHANGED toCli \/ (toCli # <<>> /\ toCli' = Tail(toCli))
    /\ UNCHANGED <<threadVars, bufVars, serving>>

(* A client process sends only requests there are, and takes one answer at *)
(* a time.                                                                 *)
LEMMA ClientView ==
    ASSUME ClientStep
    PROVE  ClientSends
<1> USE DEF ClientSends
<1>1. ASSUME NEW req, NEW call, SendReq(req, call)
      PROVE  toServ' = Append(toServ, req)
    BY <1>1 DEF SendReq, NetSend
<1>2. ASSUME NEW ty \in {"CONNECT", "CHECK_STOPPED", "STOP"}
      PROVE  Req(ty, NoArg) \in Requests
    BY DEF Requests
<1>3. ASSUME NEW how, EndsWith(how) \/ GoesTo(how)
      PROVE  UNCHANGED toServ
    BY <1>3 DEF EndsWith, GoesTo
<1>4. ASSUME StillRunning
      PROVE  \/ UNCHANGED toServ
             \/ \E req \in Requests : toServ' \in {<<req>>, Append(toServ, req)}
    BY <1>1, <1>2, <1>3, <1>4 DEF StillRunning
<1>5. ASSUME CallFailed
      PROVE  \/ UNCHANGED toServ
             \/ \E req \in Requests : toServ' \in {<<req>>, Append(toServ, req)}
    BY <1>3, <1>4, <1>5 DEF CallFailed
<1>6. CASE CliConnect
    BY <1>2, <1>6 DEF CliConnect
<1>7. CASE CliCommand
    BY <1>1, <1>7 DEF CliCommand, Requests
<1>8. CASE CliPoll
    BY <1>1, <1>2, <1>8 DEF CliPoll
<1>9. CASE CliReceive
    <2>1. /\ toCli # <<>> /\ toCli' = Tail(toCli)
          /\ UNCHANGED <<threadVars, bufVars, serving>>
        BY <1>9 DEF CliReceive
    <2>2. \/ UNCHANGED toServ
          \/ \E req \in Requests : toServ' \in {<<req>>, Append(toServ, req)}
        BY <1>1, <1>2, <1>3, <1>4, <1>5, <1>9
        DEF CliReceive, ConnectAnswered, CmdAnswered, PollAnswered, StopAnswered,
            StopChecked, EnterPrompt
    <2> QED
        BY <2>1, <2>2
<1>10. CASE CliCtrlC
    BY <1>10 DEF CliCtrlC, runnerVars, netVars
<1>11. CASE CliInterrupted
    BY <1>5, <1>11 DEF CliInterrupted
<1>12. CASE CliLeaves
    BY <1>3, <1>12 DEF CliLeaves
<1> QED
    BY <1>6, <1>7, <1>8, <1>9, <1>10, <1>11, <1>12 DEF ClientStep, ClientAnswer

(* Every step as the network thread, its buffers and the connection see    *)
(* it.                                                                     *)
LEMMA RunnerView ==
    ASSUME AppTypeOK, RequestInv, BufferInv, ThreadInv, [RemoteNext]_rsVars
    PROVE  \/ UNCHANGED runnerVars
           \/ RunnerStart /\ UNCHANGED <<bufVars, serving, netVars>>
           \/ TakeRequest
           \/ \E res \in Responses : SignalRes(res)
           \/ RunnerStep
           \/ ClientSends
<1>1. CASE AppStep \/ Setup \/ CheckNothing \/ RunLost \/ RemoteDone \/ UNCHANGED rsVars
    BY <1>1 DEF AppStep, Setup, CheckNothing, RunLost, RemoteDone, rsVars
<1>2. CASE StartRunner \/ HandlerTake \/ NetworkStep
    BY <1>2 DEF StartRunner, HandlerTake, NetworkStep
<1>3. CASE AnswerRunning \/ AnswerStopped
    BY <1>3, AnswersTyped
<1>4. CASE ClientStep
    BY <1>4, ClientView
<1> QED
    BY <1>1, <1>2, <1>3, <1>4 DEF RemoteNext, MainStep, HandlerStep

(* The control points of the thread, the use of the two buffers and the    *)
(* types of the messages are kept by every step.                           *)
LEMMA RunnerInvStep ==
    ASSUME AppTypeOK, RequestInv, BufferInv, ThreadInv, [RemoteNext]_rsVars
    PROVE  ThreadInv' /\ BufferInv' /\ RequestInv'
<1> USE DEF ThreadInv, BufferInv, RequestInv
<1>1. CASE UNCHANGED runnerVars
    BY <1>1 DEF runnerVars, threadVars, bufVars, netVars
<1>2. CASE RunnerStart /\ UNCHANGED <<bufVars, serving, netVars>>
    BY <1>2 DEF RunnerStart, bufVars, netVars
<1>3. CASE TakeRequest
    BY <1>3 DEF TakeRequest, threadVars, bufVars, netVars
<1>4. ASSUME NEW res \in Responses, SignalRes(res)
      PROVE  ThreadInv' /\ BufferInv' /\ RequestInv'
    <2>1. inBuf' = <<>> /\ outBuf' = <<res>> /\ rstate = "HAS_REQ"
        BY <1>4 DEF SignalRes
    <2>2. /\ Len(inBuf') = 0 /\ inBuf' \in Seq(Requests)
          /\ Len(outBuf') = 1 /\ outBuf' \in Seq(Responses)
        BY <2>1
    <2> QED
        BY <1>4, <2>1, <2>2 DEF SignalRes, netVars
<1>5. CASE RunnerListen \/ RunnerListenFails \/ RunnerAccept \/ RunnerAcceptFails
           \/ RunnerRecvFails \/ RunnerSeesAnswer \/ RunnerSendFails
    BY <1>5 DEF RunnerListen, RunnerListenFails, RunnerAccept, RunnerAcceptFails,
                RunnerRecvFails, RunnerSeesAnswer, RunnerSendFails, RunnerFails,
                bufVars, netVars
<1>6. CASE RunnerRecv
    <2>1. toServ # <<>> /\ inBuf' = <<Head(toServ)>> /\ toServ' = Tail(toServ)
        BY <1>6 DEF RunnerRecv
    <2>2. /\ inBuf' \in Seq(Requests) /\ Len(inBuf') = 1
          /\ toServ' \in Seq(Requests)
        BY <2>1
    <2> QED
        BY <1>6, <2>2 DEF RunnerRecv
<1>7. CASE RunnerSend
    <2>1. outBuf' = <<>> /\ toCli' \in {toCli, toCli \o outBuf}
        BY <1>7 DEF RunnerSend
    <2>2. Len(outBuf') = 0 /\ outBuf' \in Seq(Responses)
        BY <2>1
    <2>3. toCli' \in Seq(Responses)
        BY <2>1, QueuesJoin
    <2> QED
        BY <1>7, <2>2, <2>3 DEF RunnerSend
<1>8. CASE ClientSends
    <2>1. UNCHANGED <<threadVars, bufVars, serving>>
        BY <1>8 DEF ClientSends
    <2>2. toServ' \in Seq(Requests)
        <3>1. ASSUME NEW req \in Requests, toServ' \in {<<req>>, Append(toServ, req)}
              PROVE  toServ' \in Seq(Requests)
            BY <3>1, QueueGrows
        <3> QED
            BY <1>8, <3>1 DEF ClientSends
    <2>3. toCli' \in Seq(Responses)
        BY <1>8, QueueShrinks DEF ClientSends
    <2> QED
        BY <2>1, <2>2, <2>3 DEF threadVars, bufVars
<1> QED
    BY <1>1, <1>2, <1>3, <1>4, <1>5, <1>6, <1>7, <1>8, RunnerView DEF RunnerStep

-----------------------------------------------------------------------------
(* Once the VM reported the end of its program, and the debugger was told, *)
(* only a lost client lets the VM's thread leave loop()                    *)
(* (server-app.cc:88-115).                                                 *)
LEMMA EndInvStep ==
    ASSUME AppInv, EndInv, [AppNext]_appVars
    PROVE  EndInv'
<1> USE DEF EndInv
<1>1. CASE VMExec
    <2>1. /\ pc = "vm" /\ pc' = "loop"
          /\ UNCHANGED <<enabled, hasHandler, state>>
        BY <1>1 DEF VMExec, confVars, dbVars
    <2>2. state \in Running
        BY <2>1 DEF AppInv, LoopInv, RunsOnlyWhenResumed
    <2> QED
        BY <2>1, <2>2 DEF Running
<1>2. CASE LoopDisabled \/ Shutdown
    BY <1>2 DEF LoopDisabled, Shutdown
<1>3. CASE LoopFirst
    BY <1>3 DEF LoopFirst, on_init, confVars, vmVars
<1>4. CASE LoopUpdate
    <2>1. /\ UNCHANGED <<enabled, hasHandler, client, vmUpd>>
          /\ pc' \in {"setup", "top"} /\ on_update(vmUpd, vmPc)
        BY <1>4 DEF LoopUpdate, confVars, vmVars
    <2>2. /\ state \in Running
          /\ vmUpd \in Finished => state' = vmUpd
          /\ vmUpd \notin Finished => state' \in {state, "STOPPED"}
        BY <2>1, OnUpdateState DEF AppInv, AppTypeOK
    <2> QED
        BY <2>1, <2>2 DEF Running, Finished
<1>5. CASE \/ InitHandlers \/ LoopTop \/ LoopEnd
           \/ HandlerSetup \/ HandlerCheck \/ HandlerRun
    <2>1. pc # "loop" /\ (state \in Finished => state' = state)
        BY <1>5, QuietStep DEF AppInv
    <2>2. UNCHANGED <<enabled, hasHandler, vmUpd>>
        BY <1>5 DEF InitHandlers, LoopTop, LoopEnd, HandlerSetup, SetupConnection,
                    Connect, HandlerCheck, AfterCheck, HandlerRun, AfterRun,
                    confVars, vmVars
    <2>3. pc' = "done" => client' = "DISCONNECTED"
        <3>1. CASE LoopEnd
            <4>1. pc = "end" /\ pc' = Return /\ UNCHANGED client
                BY <3>1 DEF LoopEnd
            <4>2. pc' = "done" => state \in Finished
                BY <4>1 DEF Return
            <4>3. client = "DISCONNECTED" \/ state \in Running
                BY <4>1 DEF AppInv, LoopInv
            <4> QED
                BY <4>1, <4>2, <4>3 DEF Running, Finished
        <3>2. CASE InitHandlers \/ LoopTop \/ HandlerSetup \/ HandlerCheck \/ HandlerRun
            BY <3>2 DEF InitHandlers, LoopTop, HandlerSetup, SetupConnection, Connect,
                        HandlerCheck, AfterCheck, HandlerRun, AfterRun, AppInv,
                        LoopInv, ClientState
        <3> QED
            BY <1>5, <3>1, <3>2
    <2> QED
        BY <2>1, <2>2, <2>3 DEF AppInv, LoopInv
<1>6. CASE UNCHANGED appVars
    BY <1>6 DEF appVars, confVars, vmVars, dbVars
<1> QED
    BY <1>1, <1>2, <1>3, <1>4, <1>5, <1>6 DEF AppNext, LoopSteps, AppDone

Alive == {"prompt", "await", "poll"}

(* The client process: it connects once, goes on with the connection it    *)
(* has, or ends and closes it.                                             *)
LEMMA ClientMoves ==
    ASSUME ClientStep
    PROVE  /\ UNCHANGED <<client, rpc>>
           /\ \/ CliConnect
              \/ cpc \in Alive /\ cpc' \in Alive /\ UNCHANGED link
              \/ cpc \in Alive /\ cpc' \in ClientEnded /\ link' = "closed"
<1> USE DEF Alive
<1>1. UNCHANGED <<client, rpc>>
    BY DEF ClientStep, CliConnect, CliCommand, ClientAnswer, CliReceive, CliPoll,
           CliCtrlC, CliInterrupted, CliLeaves, runnerVars, threadVars, appVars
<1>2. ASSUME NEW req, NEW call, SendReq(req, call)
      PROVE  cpc' \in Alive /\ UNCHANGED link
    BY <1>2 DEF SendReq
<1>3. ASSUME NEW where \in Alive, GoesTo(where)
      PROVE  cpc' \in Alive /\ UNCHANGED link
    BY <1>3 DEF GoesTo
<1>4. ASSUME NEW how \in ClientEnded, EndsWith(how)
      PROVE  cpc' \in ClientEnded /\ link' = "closed"
    BY <1>4 DEF EndsWith, NetClose
<1>5. {"quit", "uncaught", "abort"} \subseteq ClientEnded
    BY DEF ClientEnded
<1>6. ASSUME StillRunning
      PROVE  cpc' \in Alive /\ UNCHANGED link
    BY <1>2, <1>3, <1>6 DEF StillRunning
<1>7. ASSUME CallFailed
      PROVE  \/ cpc' \in Alive /\ UNCHANGED link
             \/ cpc' \in ClientEnded /\ link' = "closed"
    BY <1>3, <1>4, <1>5, <1>6, <1>7 DEF CallFailed
<1>8. CASE CliCommand
    BY <1>1, <1>2, <1>8 DEF CliCommand
<1>9. CASE CliPoll
    BY <1>1, <1>2, <1>9 DEF CliPoll
<1>10. CASE CliReceive
    <2>1. ASSUME NEW st, EnterPrompt(st)
          PROVE  cpc' \in Alive /\ UNCHANGED link
        BY <1>3, <2>1 DEF EnterPrompt
    <2>2. \/ cpc' \in Alive /\ UNCHANGED link
          \/ cpc' \in ClientEnded /\ link' = "closed"
        BY <1>2, <1>3, <1>4, <1>5, <1>6, <1>7, <1>10, <2>1
        DEF CliReceive, ConnectAnswered, CmdAnswered, PollAnswered, StopAnswered,
            StopChecked
    <2>3. cpc \in Alive
        BY <1>10 DEF CliReceive
    <2> QED
        BY <1>1, <2>2, <2>3
<1>11. CASE CliCtrlC
    BY <1>1, <1>11 DEF CliCtrlC, runnerVars, netVars
<1>12. CASE CliInterrupted
    BY <1>1, <1>7, <1>12 DEF CliInterrupted
<1>13. CASE CliLeaves
    BY <1>1, <1>4, <1>5, <1>13 DEF CliLeaves
<1> QED
    BY <1>1, <1>8, <1>9, <1>10, <1>11, <1>12, <1>13 DEF ClientStep, ClientAnswer

(* The steps of the VM's thread that do not call the handler do not change *)
(* what it thinks of its client.                                           *)
LEMMA AppStepClient ==
    ASSUME VMExec \/ LoopSteps
    PROVE  UNCHANGED client
BY DEF VMExec, LoopSteps, LoopDisabled, LoopFirst, InitHandlers, Shutdown,
       LoopUpdate, LoopTop, LoopEnd

(* The connection, the thread that serves it and what the VM's thread      *)
(* knows of the client stay together.                                      *)
LEMMA LinkInvStep ==
    ASSUME ThreadInv, LinkInv, [RemoteNext]_rsVars
    PROVE  LinkInv'
<1> USE DEF LinkInv
<1>1. CASE AppStep
    BY <1>1, AppStepClient DEF AppStep, runnerVars, threadVars, netVars, cliVars
<1>2. CASE Setup
    <2>1. UNCHANGED <<rpc, link, cpc>> /\ client' \in {client, "CONNECTED"}
        BY <1>2 DEF Setup, SetupConnection, Connect, runnerVars, threadVars, netVars,
                    cliVars
    <2>2. client' # client => rstate \notin {"CONNECTING", "ERROR"}
        BY <1>2 DEF Setup, SetupConnection, Connect, ClientFound
    <2>3. client' # client => rpc \in {"recv", "wait", "send"}
        BY <2>2 DEF ThreadInv
    <2> QED
        BY <2>1, <2>3
<1>3. CASE StartRunner
    BY <1>3 DEF StartRunner, RunnerStart, netVars, cliVars, appVars, ThreadInv
<1>4. CASE CheckNothing \/ HandlerTake \/ AnswerRunning \/ AnswerStopped \/ RemoteDone
           \/ UNCHANGED rsVars
    BY <1>4 DEF CheckNothing, HandlerTake, TakeRequest, AnswerRunning, AnswerStopped,
                SignalRes, RemoteDone, rsVars, runnerVars, threadVars, netVars,
                cliVars, appVars
<1>5. CASE RunLost
    BY <1>5 DEF RunLost, runnerVars, threadVars, netVars, cliVars, ThreadInv
<1>6. CASE NetworkStep
    <2>1. UNCHANGED <<client, cpc>>
        BY <1>6 DEF NetworkStep, appVars, cliVars
    <2>2. CASE RunnerListen \/ RunnerListenFails \/ RunnerAcceptFails
        BY <2>1, <2>2 DEF RunnerListen, RunnerListenFails, RunnerAcceptFails,
                          RunnerFails, netVars
    <2>3. CASE RunnerAccept
        BY <2>1, <2>3 DEF RunnerAccept, ThreadInv
    <2>4. CASE RunnerRecv \/ RunnerRecvFails \/ RunnerSeesAnswer \/ RunnerSend
               \/ RunnerSendFails
        BY <2>1, <2>4 DEF RunnerRecv, RunnerRecvFails, RunnerSeesAnswer, RunnerSend,
                          RunnerSendFails, RunnerFails, netVars
    <2> QED
        BY <1>6, <2>2, <2>3, <2>4 DEF NetworkStep, RunnerStep
<1>7. CASE ClientStep
    <2>1. CASE CliConnect
        BY <1>7, <2>1, ClientMoves DEF CliConnect, NetConnect, ClientEnded
    <2>2. CASE ~CliConnect
        BY <1>7, <2>2, ClientMoves DEF Alive, ClientEnded
    <2> QED
        BY <2>1, <2>2
<1> QED
    BY <1>1, <1>2, <1>3, <1>4, <1>5, <1>6, <1>7
    DEF RemoteNext, MainStep, HandlerStep

-----------------------------------------------------------------------------
(* The steps of the server's two threads, one by one.                      *)
ServerStep == AppStep \/ HandlerStep \/ NetworkStep \/ RemoteDone \/ UNCHANGED rsVars

(* The server does not touch the variables of the client.                  *)
LEMMA ServerLeavesClient ==
    ASSUME ServerStep
    PROVE  UNCHANGED cliVars
BY DEF ServerStep, AppStep, HandlerStep, StartRunner, Setup, CheckNothing,
       HandlerTake, AnswerRunning, RunLost, AnswerStopped, NetworkStep, RemoteDone,
       rsVars

(* The server loses and adds no message while the connection is open: a    *)
(* request becomes an answer where it is executed.                         *)
LEMMA ServerKeepsFlight ==
    ASSUME AppTypeOK, RequestInv, BufferInv, ThreadInv, LinkInv, ServerStep,
           cpc \notin ClientEnded
    PROVE  InFlight' = InFlight /\ UNCHANGED cliVars
<1> USE DEF InFlight
<1>1. UNCHANGED cliVars
    BY ServerLeavesClient
<1>2. /\ Len(toServ) \in Nat /\ Len(inBuf) \in Nat
      /\ Len(outBuf) \in Nat /\ Len(toCli) \in Nat
    BY DEF RequestInv
<1>3. CASE AppStep \/ Setup \/ CheckNothing \/ RunLost \/ RemoteDone \/ UNCHANGED rsVars
    BY <1>1, <1>3 DEF AppStep, Setup, CheckNothing, RunLost, RemoteDone, rsVars,
                      runnerVars, bufVars, netVars
<1>4. CASE StartRunner \/ HandlerTake
    BY <1>1, <1>4 DEF StartRunner, HandlerTake, TakeRequest, bufVars, netVars
<1>5. CASE AnswerRunning \/ AnswerStopped
    <2>1. PICK res \in Responses : SignalRes(res)
        BY <1>5, AnswersTyped
    <2>2. /\ serving /\ inBuf' = <<>> /\ outBuf' = <<res>>
          /\ UNCHANGED <<toServ, toCli>>
        BY <2>1 DEF SignalRes, netVars
    <2>3. Len(inBuf) = 1 /\ Len(outBuf) = 0
        BY <2>2 DEF ThreadInv, BufferInv
    <2>4. Len(inBuf') = 0 /\ Len(outBuf') = 1
        BY <2>2
    <2> QED
        BY <1>1, <1>2, <2>2, <2>3, <2>4
<1>6. CASE RunnerRecv
    <2>1. /\ toServ # <<>> /\ inBuf' = <<Head(toServ)>> /\ toServ' = Tail(toServ)
          /\ rpc = "recv" /\ UNCHANGED <<outBuf, toCli>>
        BY <1>6 DEF RunnerRecv
    <2>2. Len(inBuf) = 0
        BY <2>1 DEF ThreadInv, BufferInv
    <2>3. Len(toServ') = Len(toServ) - 1
        BY <2>1, QueueShrinks DEF RequestInv
    <2>4. Len(inBuf') = 1
        BY <2>1
    <2> QED
        BY <1>1, <1>2, <2>1, <2>2, <2>3, <2>4
<1>7. CASE RunnerSend
    <2>1. /\ rpc = "send" /\ outBuf' = <<>> /\ UNCHANGED <<toServ, inBuf>>
          /\ toCli' = IF link = "open" THEN toCli \o outBuf ELSE toCli
        BY <1>7 DEF RunnerSend
    <2>2. link = "open"
        BY <2>1 DEF LinkInv
    <2>3. Len(toCli') = Len(toCli) + Len(outBuf)
        BY <2>1, <2>2, QueuesJoin DEF RequestInv
    <2>4. Len(outBuf') = 0 /\ Len(toServ') = Len(toServ) /\ Len(inBuf') = Len(inBuf)
        BY <2>1
    <2> QED
        BY <1>1, <1>2, <2>3, <2>4
<1>8. CASE RunnerListen \/ RunnerListenFails \/ RunnerAccept \/ RunnerAcceptFails
           \/ RunnerRecvFails \/ RunnerSeesAnswer \/ RunnerSendFails
    BY <1>1, <1>8 DEF RunnerListen, RunnerListenFails, RunnerAccept, RunnerAcceptFails,
                      RunnerRecvFails, RunnerSeesAnswer, RunnerSendFails, RunnerFails,
                      bufVars, netVars
<1> QED
    BY <1>3, <1>4, <1>5, <1>6, <1>7, <1>8
    DEF ServerStep, HandlerStep, NetworkStep, RunnerStep

(* A program held for a client that is still there stays as it is until    *)
(* the VM's thread answers a request; and a client that is found finds the *)
(* program held, or stopped for it (server-app.cc:81-108).                 *)
LEMMA HeldUntilAnswer ==
    ASSUME AppInv, ThreadInv, LinkInv, ServerStep, cpc \notin ClientEnded,
           ~AnswerRunning, ~AnswerStopped
    PROVE  /\ Held => Held' /\ UNCHANGED <<state, insAddr, callStack>>
           /\ client # "CONNECTED" /\ client' = "CONNECTED" => Held'
<1> USE DEF Held
<1>1. CASE AppStep
    <2>1. UNCHANGED client
        BY <1>1, AppStepClient DEF AppStep
    <2>2. ASSUME Held
          PROVE  Held' /\ UNCHANGED <<state, insAddr, callStack>>
        <3>1. LoopTop
            BY <1>1, <2>2 DEF AppStep, VMExec, LoopSteps, LoopDisabled, LoopFirst,
                              InitHandlers, Shutdown, LoopUpdate, LoopEnd
        <3>2. UNCHANGED <<state, insAddr, callStack, client>>
            BY <3>1 DEF LoopTop, dbVars
        <3>3. pc' = "run"
            BY <2>2, <3>1 DEF LoopTop
        <3> QED
            BY <2>2, <3>2, <3>3 DEF db_is_stopped
    <2> QED
        BY <2>1, <2>2
<1>2. CASE Setup
    <2>1. pc \in {"setup", "connect"}
        BY <1>2 DEF Setup, SetupConnection, Connect
    <2>2. ASSUME client # "CONNECTED", client' = "CONNECTED"
          PROVE  Held'
        <3>1. CASE SetupConnection(ClientFound)
            <4>1. pc = "setup" /\ pc' = "top" /\ ClientFound
                BY <2>2, <3>1 DEF SetupConnection
            <4>2. CASE db_is_stopped
                <5>1. UNCHANGED state
                    BY <3>1, <4>2 DEF SetupConnection, dbVars
                <5> QED
                    BY <2>2, <4>1, <4>2, <5>1 DEF db_is_stopped
            <4>3. CASE ~db_is_stopped
                <5>1. state \in Running
                    BY <4>1, <4>3 DEF AppInv, LoopInv, InsideLoop, State, db_is_stopped
                <5>2. stop
                    BY <3>1, <4>1, <4>3 DEF SetupConnection
                <5>3. state' = "STOPPED"
                    BY <5>1, <5>2 DEF stop
                <5> QED
                    BY <2>2, <4>1, <5>3 DEF db_is_stopped
            <4> QED
                BY <4>2, <4>3
        <3>2. CASE Connect(ClientFound)
            <4>1. pc = "connect" /\ pc' = "run" /\ UNCHANGED state
                BY <2>2, <3>2 DEF Connect, dbVars
            <4>2. db_is_stopped
                BY <4>1 DEF AppInv, LoopInv
            <4> QED
                BY <2>2, <4>1, <4>2 DEF db_is_stopped
        <3> QED
            BY <1>2, <3>1, <3>2 DEF Setup
    <2> QED
        BY <2>1, <2>2
<1>3. CASE CheckNothing
    BY <1>3 DEF CheckNothing
<1>4. CASE RunLost
    <2>1. rpc = "end" /\ client' # "CONNECTED" /\ pc = "run"
        BY <1>4 DEF RunLost, ThreadInv
    <2>2. client = "CONNECTED"
        BY <2>1 DEF AppInv, LoopInv, HandlerCalledInState
    <2>3. link = "closed"
        BY <2>1, <2>2 DEF LinkInv
    <2> QED
        BY <2>3 DEF LinkInv
<1>5. CASE StartRunner \/ HandlerTake \/ NetworkStep \/ RemoteDone \/ UNCHANGED rsVars
    <2>1. UNCHANGED appVars
        BY <1>5 DEF StartRunner, HandlerTake, NetworkStep, RemoteDone, rsVars
    <2> QED
        BY <2>1 DEF appVars, dbVars, db_is_stopped
<1> QED
    BY <1>1, <1>2, <1>3, <1>4, <1>5 DEF ServerStep, HandlerStep

(* Until then nothing that is known of the messages on their way changes.  *)
LEMMA KnownUntilAnswer ==
    ASSUME AppInv, ThreadInv, LinkInv, ServerStep, cpc \notin ClientEnded,
           ~AnswerRunning, ~AnswerStopped, UNCHANGED cliVars, NEW m
    PROVE  /\ AskOK(m) => AskOK(m)'
           /\ ReplyOK(m) => ReplyOK(m)'
           /\ Knows(udp) => Knows(udp)'
<1>1. UNCHANGED <<creq, ccall, udp>>
    BY DEF cliVars
<1>2. /\ Held => Held' /\ check_stopped_udp' = check_stopped_udp
      /\ client # "CONNECTED" /\ client' = "CONNECTED" => Held'
    BY HeldUntilAnswer, SameUdp
<1>3. \A u : Knows(u) => Held' /\ u = check_stopped_udp'
    BY <1>2 DEF Knows
<1>4. AskOK(m) => AskOK(m)'
    BY <1>1, <1>2, <1>3 DEF AskOK, Knows
<1>5. ReplyOK(m) => ReplyOK(m)'
    BY <1>1, <1>2, <1>3 DEF ReplyOK, Knows
<1> QED
    BY <1>1, <1>3, <1>4, <1>5 DEF Knows

(* A client in step that waits has its one message in one place.           *)
LEMMA OneInFlight ==
    ASSUME RequestInv, InFlight = 1
    PROVE  /\ toServ # <<>> => Len(toServ) = 1 /\ Len(toCli) = 0
                               /\ inBuf = <<>> /\ outBuf = <<>> /\ toCli = <<>>
           /\ inBuf  # <<>> => Len(inBuf) = 1 /\ Len(toCli) = 0
                               /\ toServ = <<>> /\ outBuf = <<>> /\ toCli = <<>>
           /\ outBuf # <<>> => Len(outBuf) = 1 /\ Len(toCli) = 0
                               /\ toServ = <<>> /\ inBuf = <<>> /\ toCli = <<>>
           /\ toCli  # <<>> => Len(toCli) = 1
                               /\ toServ = <<>> /\ inBuf = <<>> /\ outBuf = <<>>
<1>1. /\ Len(toServ) \in Nat /\ Len(inBuf) \in Nat
      /\ Len(outBuf) \in Nat /\ Len(toCli) \in Nat
    BY QueueLength DEF RequestInv
<1>2. /\ toServ = <<>> <=> Len(toServ) = 0
      /\ inBuf = <<>> <=> Len(inBuf) = 0
      /\ outBuf = <<>> <=> Len(outBuf) = 0
      /\ toCli = <<>> <=> Len(toCli) = 0
    BY QueueLength DEF RequestInv
<1> DEFINE a == Len(toServ)  b == Len(inBuf)  c == Len(outBuf)  d == Len(toCli)
<1>3. a + b + c + d = 1 /\ a \in Nat /\ b \in Nat /\ c \in Nat /\ d \in Nat
    BY <1>1 DEF InFlight
<1> HIDE DEF a, b, c, d
<1>4. /\ a # 0 => a = 1 /\ b = 0 /\ c = 0 /\ d = 0
      /\ b # 0 => b = 1 /\ a = 0 /\ c = 0 /\ d = 0
      /\ c # 0 => c = 1 /\ a = 0 /\ b = 0 /\ d = 0
      /\ d # 0 => d = 1 /\ a = 0 /\ b = 0 /\ c = 0
    BY <1>3
<1> QED
    BY <1>2, <1>4, Zenon DEF a, b, c, d

(* The message moves on, from the connection to the buffer or from the     *)
(* buffer to the connection, and stays what it is.                         *)
LEMMA MessagesMove ==
    ASSUME AppInv, RequestInv, BufferInv, ThreadInv, LinkInv, ServerStep,
           cpc \notin ClientEnded, ~AnswerRunning, ~AnswerStopped,
           UNCHANGED cliVars, InFlight = 1, MessageInv
    PROVE  MessageInv'
<1> USE DEF MessageInv
<1>1. \A m : (AskOK(m) => AskOK(m)') /\ (ReplyOK(m) => ReplyOK(m)')
    BY KnownUntilAnswer
<1>2. CASE UNCHANGED <<toServ, inBuf, outBuf, toCli>>
    BY <1>1, <1>2
<1>3. CASE RunnerRecv
    <2>1. /\ toServ # <<>> /\ inBuf' = <<Head(toServ)>> /\ toServ' = Tail(toServ)
          /\ UNCHANGED <<outBuf, toCli>>
        BY <1>3 DEF RunnerRecv
    <2>2. Len(toServ) = 1 /\ outBuf = <<>> /\ toCli = <<>>
        BY <2>1, OneInFlight
    <2>3. toServ' = <<>>
        BY <2>1, <2>2 DEF RequestInv
    <2>4. Head(inBuf') = Head(toServ)
        BY <2>1
    <2> QED
        BY <1>1, <2>1, <2>2, <2>3, <2>4
<1>4. CASE RunnerSend
    <2>1. /\ rpc = "send" /\ outBuf' = <<>> /\ UNCHANGED <<toServ, inBuf>>
          /\ toCli' = IF link = "open" THEN toCli \o outBuf ELSE toCli
        BY <1>4 DEF RunnerSend
    <2>2. link = "open" /\ Len(outBuf) = 1
        BY <2>1 DEF LinkInv, BufferInv, ThreadInv
    <2>3. outBuf # <<>> /\ toServ = <<>> /\ inBuf = <<>> /\ Len(toCli) = 0
        <3>1. outBuf # <<>>
            BY <2>2
        <3> QED
            BY <3>1, OneInFlight
    <2>4. Head(toCli') = Head(outBuf)
        BY <2>1, <2>2, <2>3, QueuesJoin DEF RequestInv
    <2>5. ReplyOK(Head(outBuf))
        BY <2>3
    <2>6. (ReplyOK(Head(toCli)))'
        BY <1>1, <2>4, <2>5
    <2>7. toServ' = <<>> /\ inBuf' = <<>> /\ outBuf' = <<>>
        BY <2>1, <2>3
    <2> QED
        BY <2>6, <2>7, Zenon
<1> QED
    <2>1. CASE NetworkStep
        BY <1>2, <1>3, <1>4, <2>1
        DEF NetworkStep, RunnerStep, RunnerListen, RunnerListenFails, RunnerAccept,
            RunnerAcceptFails, RunnerRecvFails, RunnerSeesAnswer, RunnerSendFails,
            RunnerFails, bufVars, netVars
    <2>2. CASE ~NetworkStep
        BY <1>2, <2>2
        DEF ServerStep, AppStep, HandlerStep, StartRunner, Setup, CheckNothing,
            HandlerTake, TakeRequest, RunLost, RemoteDone, rsVars, runnerVars,
            bufVars, netVars
    <2> QED
        BY <2>1, <2>2

(* The fields of a response.                                               *)
LEMMA ResFields ==
    ASSUME NEW ty, NEW u
    PROVE  Res(ty, u).ty = ty /\ Res(ty, u).udp = u /\ Err.ty = "ERR"
BY DEF Res, Err

(* Only polls and stops are answered while the program runs: a client in   *)
(* step asks for nothing else then, because the program is held from the   *)
(* moment the client was found (data-client-handler.cc:372-395).           *)
LEMMA AnswerRunningOK ==
    ASSUME AppInv, CallInv, AskOK(inBuf[1]), AnswerRunning, UNCHANGED cliVars
    PROVE  \E res : SignalRes(res) /\ ReplyOK(res)'
<1> DEFINE ty == inBuf[1].ty
<1>1. /\ pc = "check" /\ UNCHANGED <<client, creq, ccall, udp>>
      /\ pc' = IF state' \in Running THEN "end" ELSE "run"
    BY DEF AnswerRunning, AfterCheck, cliVars
<1>2. client = "CONNECTED" /\ state \in Running
    BY <1>1 DEF AppInv, LoopInv, HandlerCalledInState, db_is_stopped, State, InsideLoop
<1>3. ~Held /\ ty = creq /\ ccall \in {"poll", "stop1"}
    BY <1>1, <1>2 DEF Held, Knows, AskOK, CallInv
<1>4. CASE ccall = "poll"
    <2>1. ty = "CHECK_STOPPED" /\ creq = "CHECK_STOPPED"
        BY <1>3, <1>4 DEF CallInv
    <2> DEFINE res == Res(ty, check_stopped_udp)
    <2>2. SignalRes(res)
        BY <2>1 DEF AnswerRunning
    <2>3. res.ty = creq' /\ ~res.udp.stopped
        BY <1>1, <1>2, <1>3, ResFields, UdpStopped
    <2>4. ASSUME NEW r, r = res
          PROVE  ReplyOK(r)'
        BY <1>1, <1>4, <2>3, <2>4 DEF ReplyOK
    <2> HIDE DEF res
    <2> QED
        BY <2>2, <2>4
<1>5. CASE ccall = "stop1"
    <2>1. ty = "STOP" /\ creq = "STOP"
        BY <1>3, <1>5 DEF CallInv
    <2> DEFINE res == Res(ty, Unset)
    <2>2. SignalRes(res) /\ stop
        BY <2>1 DEF AnswerRunning
    <2>3. state' = "STOPPED"
        BY <1>2, <2>2 DEF stop
    <2>4. Held'
        BY <1>1, <1>2, <2>3 DEF Held, db_is_stopped, Running
    <2>5. res.ty = creq'
        BY <1>1, <1>3, ResFields
    <2>6. ASSUME NEW r, r = res
          PROVE  ReplyOK(r)'
        BY <1>1, <1>5, <2>4, <2>5, <2>6 DEF ReplyOK
    <2> HIDE DEF res
    <2> QED
        BY <2>2, <2>6
<1> QED
    BY <1>3, <1>4, <1>5

(* With the program stopped every request of a client in step is executed, *)
(* refused by the debugger with nothing changed, or a STOP that came too   *)
(* late; and only a resume lets the program go.                            *)
LEMMA AnswerStoppedOK ==
    ASSUME AppInv, CallInv, AskOK(inBuf[1]), AnswerStopped, UNCHANGED cliVars
    PROVE  \E res : SignalRes(res) /\ ReplyOK(res)'
<1> DEFINE ty == inBuf[1].ty
           arg == inBuf[1].arg
<1>1. pc = "run" /\ pc' = "top" /\ UNCHANGED <<client, creq, ccall, udp>>
    BY DEF AnswerStopped, AfterRun, cliVars
<1>2. Held /\ ty = creq
    BY <1>1 DEF AppInv, LoopInv, HandlerCalledInState, Held, AskOK
<1>3. ASSUME UNCHANGED <<state, insAddr, callStack>>
      PROVE  Held' /\ check_stopped_udp' = check_stopped_udp
    BY <1>1, <1>2, <1>3, SameUdp DEF Held
<1>4. CASE ty \in {"CONNECT", "CHECK_STOPPED"}
    <2> DEFINE res == Res(ty, check_stopped_udp)
    <2>1. SignalRes(res) /\ UNCHANGED dbVars
        BY <1>4 DEF AnswerStopped
    <2>2. Held' /\ check_stopped_udp' = check_stopped_udp
        BY <1>3, <2>1 DEF dbVars
    <2>3. res.ty = creq' /\ res.udp = check_stopped_udp'
        BY <1>1, <1>2, <2>2, ResFields
    <2>4. ccall \in {"connect", "poll", "stop2"}
        BY <1>2, <1>4 DEF CallInv
    <2>5. ASSUME NEW r, r = res
          PROVE  ReplyOK(r)'
        BY <1>1, <2>2, <2>3, <2>4, <2>5 DEF ReplyOK, Knows
    <2> HIDE DEF res
    <2> QED
        BY <2>1, <2>5
<1>5. CASE ty = "STOP"
    <2>1. SignalRes(Err)
        BY <1>5 DEF AnswerStopped
    <2>2. ccall = "stop1" /\ creq = "STOP"
        BY <1>2, <1>5 DEF CallInv
    <2>3. ASSUME NEW r, r = Err
          PROVE  ReplyOK(r)'
        BY <1>1, <2>2, <2>3, ResFields DEF ReplyOK
    <2> QED
        BY <2>1, <2>3
<1>6. CASE ty \notin {"CONNECT", "CHECK_STOPPED", "STOP"}
    <2>1. ccall = "cmd" /\ Knows(udp)
        BY <1>2, <1>6 DEF CallInv, AskOK
    <2>2. \E res \in {Res(ty, Unset), Err} :
            /\ SignalRes(res)
            /\ UNCHANGED <<state, insAddr, callStack>> \/ (ty = "RESUME" /\ res = Res(ty, Unset))
        BY <1>6 DEF AnswerStopped, add_breakpoint, del_breakpoint, resume, Throws,
                    dbVars
    <2>3. PICK res \in {Res(ty, Unset), Err} :
            /\ SignalRes(res)
            /\ UNCHANGED <<state, insAddr, callStack>> \/ (ty = "RESUME" /\ res = Res(ty, Unset))
        BY <2>2
    <2>4. res.ty \in {creq, "ERR"} /\ (res = Res(ty, Unset) => res.ty = ty)
        BY <1>2, <2>3, ResFields
    <2>5. res.ty # "RESUME" => Knows(udp)'
        BY <1>1, <1>3, <2>1, <2>3, <2>4 DEF Knows
    <2>6. ReplyOK(res)'
        BY <1>1, <2>1, <2>4, <2>5 DEF ReplyOK
    <2> QED
        BY <2>3, <2>6
<1> QED
    BY <1>4, <1>5, <1>6

(* A request that is executed becomes the only message, its answer.        *)
LEMMA MessagesAnswered ==
    ASSUME AppInv, RequestInv, BufferInv, ThreadInv, AnswerRunning \/ AnswerStopped,
           UNCHANGED cliVars, InFlight = 1, CallInv, MessageInv
    PROVE  MessageInv'
<1>1. serving
    BY DEF AnswerRunning, AnswerStopped
<1>2. Len(inBuf) = 1
    BY <1>1 DEF ThreadInv, BufferInv
<1>3. inBuf # <<>> /\ Head(inBuf) = inBuf[1]
    <2>1. inBuf \in Seq(Requests)
        BY DEF RequestInv
    <2> QED
        BY <1>2, <2>1
<1>4. toServ = <<>> /\ outBuf = <<>> /\ toCli = <<>>
    BY <1>3, OneInFlight
<1>5. AskOK(inBuf[1])
    BY <1>3 DEF MessageInv
<1>6. PICK res : SignalRes(res) /\ ReplyOK(res)'
    BY <1>5, AnswerRunningOK, AnswerStoppedOK
<1>7. inBuf' = <<>> /\ outBuf' = <<res>> /\ UNCHANGED <<toServ, toCli>>
    BY <1>6 DEF SignalRes, netVars
<1>8. Head(outBuf') = res
    BY <1>7
<1> QED
    BY <1>4, <1>6, <1>7, <1>8 DEF MessageInv

(* The server keeps a client that is in step in step.                      *)
LEMMA ServerStepInv ==
    ASSUME AppInv, RequestInv, BufferInv, ThreadInv, LinkInv, FlightInv, StepInv,
           ServerStep
    PROVE  FlightInv' /\ StepInv'
<1>1. UNCHANGED cliVars /\ UNCHANGED <<cpc, cst, creq, ccall, udp>>
    BY ServerLeavesClient DEF cliVars
<1>2. CASE cpc \in ClientEnded
    BY <1>1, <1>2 DEF FlightInv, StepInv, ClientEnded
<1>3. CASE cpc \notin ClientEnded
    <2>1. InFlight' = InFlight
        BY <1>3, ServerKeepsFlight DEF AppInv
    <2>2. FlightInv'
        BY <1>1, <2>1 DEF FlightInv
    <2>3. (InStep <=> InFlight = IF cpc = "await" THEN 1 ELSE 0)
          /\ (InStep' <=> InFlight' = IF cpc' = "await" THEN 1 ELSE 0)
        BY DEF InStep, InFlight
    <2> SUFFICES ASSUME InStep
                 PROVE  /\ cpc = "prompt" => cst' = "VM_STOPPED" /\ Knows(udp)'
                        /\ cpc = "await" => CallInv' /\ MessageInv'
        BY <1>1, <2>1, <2>2, <2>3 DEF StepInv
    <2>4. CASE cpc = "prompt"
        <3>1. cst = "VM_STOPPED" /\ Knows(udp) /\ InFlight = 0
            BY <2>3, <2>4 DEF StepInv
        <3>2. ~serving
            <4>1. /\ Len(toServ) \in Nat /\ Len(inBuf) \in Nat
                  /\ Len(outBuf) \in Nat /\ Len(toCli) \in Nat
                BY QueueLength DEF RequestInv
            <4>2. Len(inBuf) = 0
                BY <3>1, <4>1 DEF InFlight
            <4> QED
                BY <4>2 DEF ThreadInv, BufferInv
        <3>3. Knows(udp)'
            BY <1>1, <1>3, <3>1, <3>2, KnownUntilAnswer DEF AnswerRunning, AnswerStopped
        <3> QED
            BY <1>1, <2>4, <3>1, <3>3
    <2>5. CASE cpc = "await"
        <3>1. CallInv /\ MessageInv /\ InFlight = 1
            BY <2>3, <2>5 DEF StepInv
        <3>2. CallInv'
            BY <1>1, <3>1 DEF CallInv
        <3>3. MessageInv'
            BY <1>1, <1>3, <3>1, MessagesMove, MessagesAnswered
        <3> QED
            BY <2>5, <3>2, <3>3
    <2> QED
        BY <2>4, <2>5
<1> QED
    BY <1>2, <1>3

-----------------------------------------------------------------------------
(* The steps of the client process.                                        *)

(* The client does not move the program.                                   *)
LEMMA ClientLeavesServer ==
    ASSUME ClientStep
    PROVE  /\ UNCHANGED client /\ Held' = Held
           /\ check_stopped_udp' = check_stopped_udp
           /\ toCli' = toCli \/ (toCli # <<>> /\ toCli' = Tail(toCli))
           /\ UNCHANGED <<inBuf, outBuf>>
<1>1. UNCHANGED appVars
    BY DEF ClientStep, CliConnect, CliCommand, ClientAnswer, CliReceive, CliPoll,
           CliCtrlC, CliInterrupted, CliLeaves
<1>2. UNCHANGED <<client, pc, state, insAddr, callStack>>
    BY <1>1 DEF appVars, dbVars
<1>3. check_stopped_udp' = check_stopped_udp /\ db_is_stopped' = db_is_stopped
    BY <1>2, SameUdp
<1>4. Held' = Held
    BY <1>2, <1>3 DEF Held
<1> QED
    BY <1>2, <1>3, <1>4, ClientView DEF ClientSends, bufVars

(* A request that leaves a client in step is the only message on its way.  *)
LEMMA RequestSent ==
    ASSUME RequestInv, RequestInv', UNCHANGED <<inBuf, outBuf>>,
           NEW req \in Requests, NEW call, SendReq(req, call)
    PROVE  /\ cpc' = "await" /\ creq' = req.ty /\ ccall' = call
           /\ InFlight' = Len(toServ) + 1 + Len(inBuf) + Len(outBuf) + Len(toCli')
           /\ InFlight' >= 1
           /\ InStep' => Len(toServ) + Len(inBuf) + Len(outBuf) + Len(toCli') = 0
           /\ InStep' => (AskOK(req)' => MessageInv')
<1>1. /\ toServ' = Append(toServ, req)
      /\ cpc' = "await" /\ creq' = req.ty /\ ccall' = call
    BY DEF SendReq, NetSend
<1>2. /\ Len(toServ') = Len(toServ) + 1
      /\ Len(toServ) = 0 => Head(toServ') = req
    BY <1>1, QueueGrows DEF RequestInv
<1>3. /\ Len(toServ) \in Nat /\ Len(inBuf) \in Nat
      /\ Len(outBuf) \in Nat /\ Len(toCli') \in Nat
    BY QueueLength DEF RequestInv
<1>4. Len(inBuf') = Len(inBuf) /\ Len(outBuf') = Len(outBuf)
    OBVIOUS
<1>5. InFlight' = Len(toServ) + 1 + Len(inBuf) + Len(outBuf) + Len(toCli')
    BY <1>2, <1>4 DEF InFlight
<1>6. InStep' => InFlight' = 1
    BY <1>1 DEF InStep, InFlight
<1> DEFINE a == Len(toServ)  b == Len(inBuf)  c == Len(outBuf)  d == Len(toCli')
           n == InFlight'
<1>7. a \in Nat /\ b \in Nat /\ c \in Nat /\ d \in Nat /\ n = a + 1 + b + c + d
    BY <1>3, <1>5
<1> HIDE DEF a, b, c, d, n
<1>8. /\ n >= 1
      /\ n = 1 => a + b + c + d = 0 /\ a = 0 /\ b = 0 /\ c = 0 /\ d = 0
    BY <1>7
<1>9. ASSUME InStep'
      PROVE  /\ Len(toServ) = 0 /\ Len(inBuf) = 0 /\ Len(outBuf) = 0 /\ Len(toCli') = 0
             /\ Len(toServ) + Len(inBuf) + Len(outBuf) + Len(toCli') = 0
    BY <1>6, <1>8, <1>9, Zenon DEF a, b, c, d, n
<1>10. ASSUME InStep', AskOK(req)'
       PROVE  MessageInv'
    <2>1. inBuf' = <<>> /\ outBuf' = <<>> /\ toCli' = <<>>
        BY <1>9, <1>10, QueueLength DEF RequestInv
    <2>2. Head(toServ') = req
        BY <1>2, <1>9, <1>10
    <2>3. AskOK(Head(toServ))'
        BY <1>1, <1>10, <2>2 DEF AskOK
    <2> QED
        BY <2>1, <2>3 DEF MessageInv
<1>11. InFlight' >= 1
    BY <1>8 DEF n
<1> QED
    BY <1>1, <1>5, <1>9, <1>10, <1>11

(* What the client does with an answer, or with a read() that failed.      *)
LEMMA CallEnds ==
    ASSUME CliReceive \/ CliInterrupted
    PROVE  /\ cpc = "await"
           /\ \/ cpc' \in {"prompt", "poll"} /\ UNCHANGED toServ
              \/ \E req \in Requests, call \in {"stop1", "stop2"} : SendReq(req, call)
              \/ cpc' \in ClientEnded /\ UNCHANGED toServ
<1>1. ASSUME NEW where \in {"prompt", "poll"}, GoesTo(where)
      PROVE  cpc' \in {"prompt", "poll"} /\ UNCHANGED toServ
    BY <1>1 DEF GoesTo
<1>2. ASSUME NEW how \in ClientEnded, EndsWith(how)
      PROVE  cpc' \in ClientEnded /\ UNCHANGED toServ
    BY <1>2 DEF EndsWith
<1>3. {"quit", "uncaught", "abort"} \subseteq ClientEnded
    BY DEF ClientEnded
<1>4. Req("STOP", NoArg) \in Requests /\ Req("CHECK_STOPPED", NoArg) \in Requests
    BY DEF Requests
<1>5. ASSUME StillRunning
      PROVE  \/ cpc' \in {"prompt", "poll"} /\ UNCHANGED toServ
             \/ \E req \in Requests, call \in {"stop1", "stop2"} : SendReq(req, call)
    BY <1>1, <1>4, <1>5 DEF StillRunning
<1>6. ASSUME CallFailed
      PROVE  \/ cpc' \in {"prompt", "poll"} /\ UNCHANGED toServ
             \/ \E req \in Requests, call \in {"stop1", "stop2"} : SendReq(req, call)
             \/ cpc' \in ClientEnded /\ UNCHANGED toServ
    BY <1>1, <1>2, <1>3, <1>5, <1>6 DEF CallFailed
<1>7. ASSUME NEW st, EnterPrompt(st)
      PROVE  cpc' \in {"prompt", "poll"} /\ UNCHANGED toServ
    BY <1>1, <1>7 DEF EnterPrompt
<1>8. ASSUME StopAnswered
      PROVE  \E req \in Requests, call \in {"stop1", "stop2"} : SendReq(req, call)
    BY <1>4, <1>8 DEF StopAnswered
<1>9. CASE CliReceive
    BY <1>1, <1>2, <1>3, <1>5, <1>6, <1>7, <1>8, <1>9
    DEF CliReceive, ConnectAnswered, CmdAnswered, PollAnswered, StopChecked
<1>10. CASE CliInterrupted
    BY <1>6, <1>10 DEF CliInterrupted
<1> QED
    BY <1>9, <1>10

(* A client that is in step after it took an answer was in step before,    *)
(* and the answer was that to its call.                                    *)
LEMMA AnswerInStep ==
    ASSUME RequestInv, RequestInv', StepInv, CliReceive,
           InStep', cpc' \notin ClientEnded
    PROVE  CallInv /\ ReplyOK(Head(toCli))
<1>1. /\ cpc = "await" /\ toCli # <<>> /\ toCli' = Tail(toCli)
      /\ UNCHANGED <<inBuf, outBuf>>
    BY DEF CliReceive, bufVars
<1>2. Len(toCli') = Len(toCli) - 1 /\ Len(toCli) > 0
    BY <1>1, QueueShrinks DEF RequestInv
<1>3. /\ Len(toServ) \in Nat /\ Len(inBuf) \in Nat
      /\ Len(outBuf) \in Nat /\ Len(toCli) \in Nat
    BY QueueLength DEF RequestInv
<1>4. Len(toServ) + Len(inBuf) + Len(outBuf) + Len(toCli') = 0
    <2>1. CASE cpc' \in {"prompt", "poll"} /\ UNCHANGED toServ
        BY <1>1, <2>1 DEF InStep
    <2>2. CASE \E req \in Requests, call \in {"stop1", "stop2"} : SendReq(req, call)
        BY <1>1, <2>2, RequestSent
    <2> QED
        BY <2>1, <2>2, CallEnds
<1>5. Len(toServ) + Len(inBuf) + Len(outBuf) + Len(toCli) = 1
    BY <1>2, <1>3, <1>4
<1>6. InStep
    BY <1>1, <1>5 DEF InStep
<1> QED
    BY <1>1, <1>6 DEF StepInv, MessageInv

(* A client in step understands every answer, and is at the prompt only    *)
(* with the state of the program as the server holds it.                   *)
LEMMA ReceiveStepInv ==
    ASSUME RequestInv, RequestInv', StepInv, CliReceive, InStep',
           cpc' \notin ClientEnded
    PROVE  /\ cpc' = "prompt" => cst' = "VM_STOPPED" /\ Knows(udp)'
           /\ cpc' = "await" => CallInv' /\ MessageInv'
<1> DEFINE res == Head(toCli)
<1>1. CallInv /\ ReplyOK(res)
    BY AnswerInStep
<1>2. /\ UNCHANGED client /\ Held' = Held /\ check_stopped_udp' = check_stopped_udp
      /\ UNCHANGED <<inBuf, outBuf>>
    BY ClientLeavesServer DEF ClientStep, ClientAnswer
<1>3. \A u : Knows(u) => u.stopped
    BY UdpStopped DEF Knows, Held, db_is_stopped, Running, Finished
<1>4. \A u : Knows(u) => Held' /\ u = check_stopped_udp'
    BY <1>2 DEF Knows
<1>5. ASSUME NEW where, GoesTo(where)
      PROVE  cpc' = where
    BY <1>5 DEF GoesTo
<1>6. ASSUME NEW how \in ClientEnded, EndsWith(how)
      PROVE  FALSE
    BY <1>6 DEF EndsWith
<1>7. CASE res.ty = "ERR"
    <2>1. CallFailed
        <3>1. "ERR" # creq
            BY <1>1 DEF CallInv
        <3> QED
            BY <1>6, <1>7, <3>1 DEF CliReceive, ClientEnded
    <2>2. ccall \in {"cmd", "stop1"}
        BY <1>1, <1>7 DEF CallInv, ReplyOK
    <2>3. ccall = "cmd" /\ GoesTo("prompt") /\ UNCHANGED <<udp, cst>>
        BY <1>6, <2>1, <2>2 DEF CallFailed, ClientEnded
    <2>4. cst = "VM_STOPPED" /\ Knows(udp)
        BY <1>1, <1>7, <2>3 DEF CallInv, ReplyOK
    <2> QED
        BY <1>4, <1>5, <2>3, <2>4 DEF Knows
<1>8. CASE res.ty # "ERR"
    <2>1. res.ty = creq
        BY <1>1, <1>8 DEF ReplyOK
    <2>2. \/ ccall = "connect" /\ ConnectAnswered(res)
          \/ ccall = "cmd" /\ CmdAnswered(res)
          \/ ccall = "poll" /\ PollAnswered(res)
          \/ ccall = "stop1" /\ StopAnswered
          \/ ccall = "stop2" /\ StopChecked(res)
        BY <1>8, <2>1 DEF CliReceive
    <2>3. ASSUME EnterPrompt("VM_STOPPED"), Knows(udp')
          PROVE  cpc' = "prompt" /\ cst' = "VM_STOPPED" /\ Knows(udp)'
        BY <1>2, <1>5, <2>3 DEF EnterPrompt, Knows
    <2>4. CASE ccall = "connect" /\ ConnectAnswered(res)
        <3>1. Knows(res.udp) /\ udp' = res.udp
            BY <1>1, <2>4 DEF ReplyOK, ConnectAnswered
        <3>2. EnterPrompt("VM_STOPPED")
            BY <1>3, <2>4, <3>1 DEF ConnectAnswered
        <3> QED
            BY <2>3, <3>1, <3>2
    <2>5. CASE ccall = "cmd" /\ CmdAnswered(res)
        <3>1. cst = "VM_STOPPED" /\ UNCHANGED udp
            BY <1>1, <2>5 DEF CallInv, CmdAnswered
        <3>2. CASE res.ty = "RESUME"
            BY <1>5, <2>5, <3>2 DEF CmdAnswered, EnterPrompt
        <3>3. CASE res.ty # "RESUME"
            <4>1. Knows(udp)
                BY <1>1, <2>5, <3>3 DEF ReplyOK
            <4> QED
                BY <2>3, <2>5, <3>1, <3>3, <4>1 DEF CmdAnswered
        <3> QED
            BY <3>2, <3>3
    <2>6. CASE ccall = "poll" /\ PollAnswered(res)
        <3>1. CASE res.udp.stopped
            <4>1. Knows(res.udp) /\ udp' = res.udp /\ EnterPrompt("VM_STOPPED")
                BY <1>1, <2>6, <3>1 DEF ReplyOK, PollAnswered
            <4> QED
                BY <2>3, <4>1
        <3>2. CASE ~res.udp.stopped
            <4>1. SendReq(Req("STOP", NoArg), "stop1") \/ GoesTo("poll")
                BY <2>6, <3>2 DEF PollAnswered, StillRunning
            <4>2. CASE GoesTo("poll")
                BY <1>5, <4>2
            <4>3. CASE SendReq(Req("STOP", NoArg), "stop1")
                <5>1. PICK req \in Requests : req = Req("STOP", NoArg)
                    BY DEF Requests
                <5>2. req.ty = "STOP"
                    BY <5>1 DEF Req
                <5>3. /\ cpc' = "await" /\ creq' = "STOP" /\ ccall' = "stop1"
                      /\ AskOK(req)' => MessageInv'
                    BY <1>2, <4>3, <5>1, <5>2, RequestSent
                <5>4. CallInv' /\ AskOK(req)'
                    BY <5>2, <5>3 DEF CallInv, AskOK
                <5> QED
                    BY <5>3, <5>4
            <4> QED
                BY <4>1, <4>2, <4>3
        <3> QED
            BY <3>1, <3>2
    <2>7. CASE ccall = "stop1" /\ StopAnswered
        <3>1. Held' /\ cst' = "VM_STOPPED" /\ SendReq(Req("CHECK_STOPPED", NoArg), "stop2")
            BY <1>1, <1>2, <2>1, <2>7 DEF ReplyOK, StopAnswered
        <3>2. PICK req \in Requests : req = Req("CHECK_STOPPED", NoArg)
            BY DEF Requests
        <3>3. req.ty = "CHECK_STOPPED"
            BY <3>2 DEF Req
        <3>4. /\ cpc' = "await" /\ creq' = "CHECK_STOPPED" /\ ccall' = "stop2"
              /\ AskOK(req)' => MessageInv'
            BY <1>2, <3>1, <3>2, <3>3, RequestSent
        <3>5. CallInv' /\ AskOK(req)'
            BY <3>1, <3>3, <3>4 DEF CallInv, AskOK
        <3> QED
            BY <3>4, <3>5
    <2>8. CASE ccall = "stop2" /\ StopChecked(res)
        <3>1. Knows(res.udp) /\ udp' = res.udp /\ cst' = "VM_STOPPED"
            BY <1>1, <2>8 DEF ReplyOK, CallInv, StopChecked
        <3>2. GoesTo("prompt")
            BY <1>3, <2>8, <3>1 DEF StopChecked
        <3> QED
            BY <1>4, <1>5, <3>1, <3>2 DEF Knows
    <2> QED
        BY <2>2, <2>4, <2>5, <2>6, <2>7, <2>8
<1> QED
    BY <1>7, <1>8

(* A client at the prompt sends one of the commands it has.                *)
LEMMA CommandStepInv ==
    ASSUME RequestInv, RequestInv', StepInv, CliCommand
    PROVE  FlightInv' /\ StepInv'
<1>1. PICK req \in Commands : SendReq(req, "cmd")
    BY DEF CliCommand
<1>2. /\ cpc = "prompt" /\ UNCHANGED <<cst, udp, toCli, inBuf, outBuf>>
    BY DEF CliCommand, bufVars
<1>3. req \in Requests
    BY DEF Requests
<1>4. /\ cpc' = "await" /\ creq' = req.ty /\ ccall' = "cmd" /\ InFlight' >= 1
      /\ InStep' => Len(toServ) + Len(inBuf) + Len(outBuf) + Len(toCli) = 0
      /\ InStep' => (AskOK(req)' => MessageInv')
    BY <1>1, <1>2, <1>3, RequestSent
<1>5. ASSUME InStep'
      PROVE  CallInv' /\ MessageInv'
    <2>1. cst = "VM_STOPPED" /\ Knows(udp)
        BY <1>2, <1>4, <1>5 DEF InStep, StepInv
    <2>2. Knows(udp)'
        BY <1>2, <2>1, ClientLeavesServer DEF ClientStep, Knows
    <2>3. AskOK(req)'
        BY <1>4, <2>2 DEF AskOK
    <2>4. req.ty \in {"QUERY", "ADD_BKPS", "DEL_BKPS", "RESUME"}
        BY DEF Commands, Req
    <2> QED
        BY <1>2, <1>4, <1>5, <2>1, <2>3, <2>4 DEF CallInv
<1> QED
    BY <1>4, <1>5 DEF FlightInv, StepInv

(* The connection is there for the first request of the session.           *)
LEMMA ConnectStepInv ==
    ASSUME RequestInv, FlightInv, LinkInv, CliConnect
    PROVE  FlightInv' /\ StepInv'
<1>1. /\ cpc = "start" /\ cpc' = "await" /\ creq' = "CONNECT" /\ ccall' = "connect"
      /\ toServ' = <<Req("CONNECT", NoArg)>>
      /\ UNCHANGED <<inBuf, outBuf, toCli, client>>
    BY DEF CliConnect, bufVars, appVars
<1>2. /\ Len(toServ) \in Nat /\ Len(inBuf) \in Nat
      /\ Len(outBuf) \in Nat /\ Len(toCli) \in Nat
    BY QueueLength DEF RequestInv
<1>3. Len(inBuf) = 0 /\ Len(outBuf) = 0 /\ Len(toCli) = 0
    BY <1>1, <1>2 DEF FlightInv, InFlight
<1>4. inBuf' = <<>> /\ outBuf' = <<>> /\ toCli' = <<>>
    BY <1>1, <1>3, QueueLength DEF RequestInv
<1>5. PICK req : req = Req("CONNECT", NoArg)
    OBVIOUS
<1>6. Len(toServ') = 1 /\ Head(toServ') = req /\ req.ty = "CONNECT"
    BY <1>1, <1>5 DEF Req
<1>7. client' # "CONNECTED"
    BY <1>1 DEF LinkInv, ClientEnded
<1>8. AskOK(req)' /\ CallInv'
    BY <1>1, <1>6, <1>7 DEF AskOK, CallInv
<1>9. AskOK(Head(toServ))'
    BY <1>6, <1>8 DEF AskOK
<1>10. MessageInv'
    BY <1>4, <1>9 DEF MessageInv
<1>11. InFlight' >= 1
    BY <1>1, <1>3, <1>6 DEF InFlight
<1> QED
    BY <1>1, <1>8, <1>10, <1>11 DEF FlightInv, StepInv

(* The next poll.                                                          *)
LEMMA PollStepInv ==
    ASSUME RequestInv, RequestInv', CliPoll
    PROVE  FlightInv' /\ StepInv'
<1>1. /\ SendReq(Req("CHECK_STOPPED", NoArg), "poll")
      /\ UNCHANGED <<inBuf, outBuf>>
    BY DEF CliPoll, bufVars
<1>2. PICK req \in Requests : req = Req("CHECK_STOPPED", NoArg)
    BY DEF Requests
<1>3. req.ty = "CHECK_STOPPED"
    BY <1>2 DEF Req
<1>4. /\ cpc' = "await" /\ creq' = req.ty /\ ccall' = "poll" /\ InFlight' >= 1
      /\ InStep' => (AskOK(req)' => MessageInv')
    BY <1>1, <1>2, RequestSent
<1>5. AskOK(req)' /\ CallInv'
    BY <1>3, <1>4 DEF AskOK, CallInv
<1> QED
    BY <1>4, <1>5 DEF FlightInv, StepInv

(* The answer to an interrupted read() is still on its way: the client is  *)
(* out of step.                                                            *)
LEMMA InterruptedStepInv ==
    ASSUME RequestInv, RequestInv', FlightInv, CliInterrupted
    PROVE  FlightInv' /\ ~InStep'
<1>1. cpc = "await" /\ UNCHANGED <<inBuf, outBuf, toCli>>
    BY DEF CliInterrupted, bufVars
<1>2. /\ Len(toServ) \in Nat /\ Len(inBuf) \in Nat
      /\ Len(outBuf) \in Nat /\ Len(toCli) \in Nat
    BY QueueLength DEF RequestInv
<1>3. InFlight >= 1
    BY <1>1 DEF FlightInv
<1>4. CASE cpc' \in {"prompt", "poll"} \cup ClientEnded /\ UNCHANGED toServ
    <2>1. InFlight' = InFlight
        BY <1>1, <1>4 DEF InFlight
    <2>2. ~InStep'
        BY <1>3, <1>4, <2>1 DEF InStep, InFlight, ClientEnded
    <2> QED
        BY <1>4, <2>2 DEF FlightInv, ClientEnded
<1>5. CASE \E req \in Requests, call \in {"stop1", "stop2"} : SendReq(req, call)
    <2>1. /\ cpc' = "await" /\ InFlight' >= 1
          /\ InFlight' = Len(toServ) + 1 + Len(inBuf) + Len(outBuf) + Len(toCli)
        BY <1>1, <1>5, RequestSent
    <2>2. InFlight' = InFlight + 1
        BY <1>2, <2>1 DEF InFlight
    <2>3. InFlight \in Nat
        BY <1>2 DEF InFlight
    <2>4. InFlight' # 1
        BY <1>3, <2>2, <2>3
    <2>5. ~InStep'
        BY <2>1, <2>4 DEF InStep, InFlight
    <2> QED
        BY <2>1, <2>5 DEF FlightInv
<1> QED
    BY <1>4, <1>5, CallEnds

(* The client keeps itself in step.                                        *)
LEMMA ClientStepInv ==
    ASSUME RequestInv, RequestInv', LinkInv, FlightInv, StepInv, ClientStep
    PROVE  FlightInv' /\ StepInv'
<1>1. ASSUME cpc' \in ClientEnded
      PROVE  FlightInv' /\ StepInv'
    BY <1>1 DEF FlightInv, StepInv, ClientEnded
<1>2. CASE CliConnect
    BY <1>2, ConnectStepInv
<1>3. CASE CliCommand
    BY <1>3, CommandStepInv
<1>4. CASE CliPoll
    BY <1>4, PollStepInv
<1>5. CASE CliReceive
    <2>1. UNCHANGED <<inBuf, outBuf>>
        BY <1>5 DEF CliReceive, bufVars
    <2>2. FlightInv'
        <3>1. CASE \E req \in Requests, call \in {"stop1", "stop2"} : SendReq(req, call)
            BY <2>1, <3>1, RequestSent DEF FlightInv
        <3>2. CASE cpc' \in {"prompt", "poll"}
            BY <3>2 DEF FlightInv
        <3> QED
            BY <1>1, <1>5, <3>1, <3>2, CallEnds
    <2>3. StepInv'
        BY <1>1, <1>5, ReceiveStepInv DEF StepInv
    <2> QED
        BY <2>2, <2>3
<1>6. CASE CliCtrlC
    <2>1. UNCHANGED <<cpc, cst, creq, ccall, udp, toServ, inBuf, outBuf, toCli>>
        BY <1>6 DEF CliCtrlC, runnerVars, bufVars, netVars
    <2>2. Held' = Held /\ check_stopped_udp' = check_stopped_udp /\ UNCHANGED client
        BY ClientLeavesServer
    <2>3. InStep' = InStep /\ InFlight' = InFlight
        BY <2>1 DEF InStep, InFlight
    <2>4. CallInv' = CallInv
        BY <2>1 DEF CallInv
    <2>5. Knows(udp) => Knows(udp)'
        BY <2>1, <2>2 DEF Knows
    <2>6. \A m : (AskOK(m) => AskOK(m)') /\ (ReplyOK(m) => ReplyOK(m)')
        BY <2>1, <2>2 DEF AskOK, ReplyOK, Knows
    <2>7. MessageInv => MessageInv'
        BY <2>1, <2>6 DEF MessageInv
    <2> QED
        BY <2>1, <2>3, <2>4, <2>5, <2>7 DEF FlightInv, StepInv
<1>7. CASE CliInterrupted
    BY <1>7, InterruptedStepInv DEF StepInv
<1>8. CASE CliLeaves
    BY <1>1, <1>8 DEF CliLeaves, EndsWith, ClientEnded
<1> QED
    BY <1>2, <1>3, <1>4, <1>5, <1>6, <1>7, <1>8 DEF ClientStep, ClientAnswer

-----------------------------------------------------------------------------
(* Every step is one of the server or one of the client.                   *)
LEMMA SessionInvStep ==
    ASSUME AppInv, SessionInv, [RemoteNext]_rsVars
    PROVE  AppInv' /\ SessionInv'
<1> USE DEF SessionInv
<1>1. [AppNext]_appVars
    BY RemoteStepIsAppStep
<1>2. AppInv' /\ EndInv'
    BY <1>1, AppInvStep, EndInvStep
<1>3. ThreadInv' /\ BufferInv' /\ RequestInv'
    BY RunnerInvStep DEF AppInv
<1>4. LinkInv'
    BY LinkInvStep
<1>5. ServerStep \/ ClientStep
    BY DEF RemoteNext, MainStep, ServerStep
<1>6. FlightInv' /\ StepInv'
    BY <1>3, <1>5, ServerStepInv, ClientStepInv
<1> QED
    BY <1>2, <1>3, <1>4, <1>6

(* The invariants of the session hold before its first step.               *)
LEMMA SessionInvInit ==
    ASSUME RemoteInit
    PROVE  AppInv /\ SessionInv
<1>1. AppInv
    BY AppInvInit DEF RemoteInit
<1>2. /\ Len(toServ) = 0 /\ Len(inBuf) = 0 /\ Len(outBuf) = 0 /\ Len(toCli) = 0
      /\ toServ \in Seq(Requests) /\ inBuf \in Seq(Requests)
    BY DEF RemoteInit, RunnerInit
<1>3. outBuf \in Seq(Responses) /\ toCli \in Seq(Responses)
    BY DEF RemoteInit, RunnerInit
<1>4. ThreadInv /\ BufferInv /\ RequestInv
    BY <1>2, <1>3 DEF RemoteInit, RunnerInit, ThreadInv, BufferInv, RequestInv
<1>5. LinkInv /\ EndInv
    BY DEF RemoteInit, RunnerInit, AppInit, LinkInv, EndInv, ClientEnded, Finished
<1>6. FlightInv /\ StepInv
    BY <1>2 DEF RemoteInit, FlightInv, InFlight, StepInv
<1> QED
    BY <1>1, <1>4, <1>5, <1>6 DEF SessionInv

(* They hold in every state of every session.                              *)
LEMMA SessionInvariant == RemoteSafety => [](AppInv /\ SessionInv)
<1>1. RemoteInit => AppInv /\ SessionInv
    BY SessionInvInit
<1>2. AppInv /\ SessionInv /\ [RemoteNext]_rsVars => AppInv' /\ SessionInv'
    BY SessionInvStep
<1> QED
    BY <1>1, <1>2, PTL DEF RemoteSafety

-----------------------------------------------------------------------------
(* The data handler implements the abstract handler of ServerApp, whatever *)
(* the network and the client process do: its network thread, the requests *)
(* it executes between two checks and the client it loses                  *)
(* (data-client-handler.cc:361-402) leave the VM's thread a thread of      *)
(* ServerApp, so that everything proved of AppSafety holds of the session. *)
THEOREM RemoteImplementsApp == RemoteSafety => ImplementsServerApp
<1>1. RemoteInit => AppInit
    BY DEF RemoteInit
<1>2. SessionInv /\ [RemoteNext]_rsVars => [AppNext]_appVars
    BY RemoteStepIsAppStep DEF SessionInv
<1> QED
    BY <1>1, <1>2, SessionInvariant, PTL DEF RemoteSafety, ImplementsServerApp, AppSafety

(* The VM ends only after its network thread did, so that the join of the  *)
(* runner's destructor (data-client-handler.cc:31-34) does not block.      *)
THEOREM RemoteNoThreadLeft == RemoteSafety => []NoThreadLeft
<1>1. SessionInv => NoThreadLeft
    BY DEF SessionInv, EndInv, LinkInv, NoThreadLeft
<1> QED
    BY <1>1, SessionInvariant, PTL

(* A client in step that shows its prompt holds the program and has its    *)
(* state, for every program, every sequence of commands and every          *)
(* interleaving of the two threads, the connection and the client.         *)
THEOREM RemotePromptShowsTruth == RemoteSafety => []PromptShowsTruth
<1>1. SessionInv => PromptShowsTruth
    BY DEF SessionInv, StepInv, Knows, PromptShowsTruth
<1> QED
    BY <1>1, SessionInvariant, PTL

(* How the process of a client in step can end by itself.                  *)
LEMMA AnswerSurvived ==
    ASSUME StepInv, InStep, CliReceive
    PROVE  cpc' # "abort" /\ (cpc' = "uncaught" => ccall = "stop1")
<1> DEFINE res == Head(toCli)
<1>1. CallInv /\ ReplyOK(res)
    BY DEF CliReceive, StepInv, MessageInv
<1>2. \A u : Knows(u) => u.stopped
    BY UdpStopped DEF Knows, Held, db_is_stopped, Running, Finished
<1>3. ASSUME NEW where \in Alive, GoesTo(where)
      PROVE  cpc' \in Alive
    BY <1>3 DEF GoesTo
<1>4. ASSUME NEW req, NEW call, SendReq(req, call)
      PROVE  cpc' \in Alive
    BY <1>4 DEF SendReq, Alive
<1>5. ASSUME StillRunning
      PROVE  cpc' \in Alive
    BY <1>3, <1>4, <1>5 DEF StillRunning, Alive
<1>6. ASSUME NEW st, EnterPrompt(st)
      PROVE  cpc' \in Alive
    BY <1>3, <1>6 DEF EnterPrompt, Alive
<1>7. CASE res.ty = "ERR"
    <2>1. ccall \in {"cmd", "stop1"} /\ creq # "ERR"
        BY <1>1, <1>7 DEF CallInv, ReplyOK
    <2>2. CallFailed
        BY <1>7, <2>1 DEF CliReceive
    <2> QED
        BY <1>3, <2>1, <2>2 DEF CallFailed, EndsWith, Alive
<1>8. CASE res.ty # "ERR"
    <2>1. res.ty = creq
        BY <1>1, <1>8 DEF ReplyOK
    <2>2. ASSUME ccall = "stop2" /\ StopChecked(res)
          PROVE  cpc' \in Alive
        <3>1. res.udp.stopped
            BY <1>1, <1>2, <2>2 DEF ReplyOK
        <3> QED
            BY <1>3, <2>2, <3>1 DEF StopChecked, Alive
    <2>3. cpc' \in Alive
        BY <1>4, <1>5, <1>6, <1>8, <2>1, <2>2
        DEF CliReceive, ConnectAnswered, CmdAnswered, PollAnswered, StopAnswered
    <2> QED
        BY <2>3 DEF Alive
<1> QED
    BY <1>7, <1>8

(* No answer makes a client in step abort, and no exception leaves its     *)
(* main but that of a STOP refused because the program had just stopped    *)
(* (db-client-impl-data.cc:42, db-client.cc:34).                           *)
THEOREM RemoteClientSurvives == RemoteSafety => ClientSurvives
<1> DEFINE Survives == InStep /\ InStep' =>
                       /\ cpc' = "abort" => cpc = "abort"
                       /\ cpc' = "uncaught" => cpc = "uncaught" \/ ccall = "stop1"
<1>1. ASSUME SessionInv, SessionInv', [RemoteNext]_rsVars, InStep, InStep'
      PROVE  Survives
    <2>1. CASE ServerStep
        BY <2>1, ServerLeavesClient DEF cliVars
    <2>2. CASE CliReceive
        BY <1>1, <2>2, AnswerSurvived DEF SessionInv
    <2>3. CASE CliInterrupted
        BY <1>1, <2>3, InterruptedStepInv DEF SessionInv
    <2>4. CASE CliConnect \/ CliCommand \/ CliPoll \/ CliCtrlC \/ CliLeaves
        BY <2>4 DEF CliConnect, CliCommand, CliPoll, CliCtrlC, CliLeaves, SendReq,
                    EndsWith
    <2> QED
        BY <1>1, <2>1, <2>2, <2>3, <2>4
        DEF RemoteNext, MainStep, ServerStep, ClientStep, ClientAnswer
<1>2. SessionInv /\ SessionInv' /\ [RemoteNext]_rsVars => [Survives]_rsVars
    BY <1>1
<1> QED
    BY <1>2, SessionInvariant, PTL DEF RemoteSafety, ClientSurvives

-----------------------------------------------------------------------------
(* What the prompt of a client in step shows is the VM's own state, at the *)
(* far end of the connection: the VM's next instruction and its frames.    *)
THEOREM RemotePromptShowsVM ==
    RemoteSafety => [](InStep /\ cpc = "prompt" => ShowsVM(udp))
<1>1. AppInv /\ SessionInv => (InStep /\ cpc = "prompt" => ShowsVM(udp))
    BY ReportShowsVM DEF SessionInv, StepInv, Knows, Held
<1> QED
    BY <1>1, SessionInvariant, PTL

(* The remote session drives the debugger as module Debugger says: what is *)
(* proved of DebuggerSpec (breakpoints stop, a step over ends where it     *)
(* must, a finished program stays so) holds with a client on the network.  *)
THEOREM RemoteDrivesDebugger == RemoteSafety => DebuggerSpec
<1>1. RemoteSafety => AppSafety /\ hasHandler
    BY RemoteImplementsApp, PTL DEF RemoteSafety, RemoteInit, ImplementsServerApp
<1> QED
    BY <1>1, ServerImplementsDebugger, PTL

(* The asserts of the runner hold, and _in and _out have one owner at a    *)
(* time, in a session whose client may leave, be interrupted or fall out   *)
(* of step, which module RequestCycle leaves out                           *)
(* (data-client-handler.cc:72-116).                                        *)
THEOREM RemoteBuffersExclusive == RemoteSafety => [](RunnerAsserts /\ BuffersExclusive)
<1>1. ASSUME SessionInv
      PROVE  RunnerAsserts /\ BuffersExclusive
    <2>1. rpc = "send" => Len(outBuf) = 1
        BY <1>1 DEF SessionInv, ThreadInv, BufferInv
    <2>2. rpc = "send" => outBuf # <<>>
        BY <2>1
    <2> QED
        BY <1>1, <2>2 DEF SessionInv, ThreadInv, RunnerAsserts, BuffersExclusive
<1> QED
    BY <1>1, SessionInvariant, PTL
=============================================================================
