--------------------------- MODULE RemoteSession ---------------------------
(***************************************************************************)
(* A debugging session over TCP: the VM's thread of ServerApp with the     *)
(* DataClientHandler as its client handler, the network thread of          *)
(* DataRunner, and the odb-cli process with its DBClient, its command      *)
(* prompt, its polling loop and its Ctrl-C handler.                        *)
(*                                                                         *)
(* Requests that neither read nor change the execution state of the        *)
(* debugger (registers, memory, symbols, code) are one kind, QUERY.        *)
(***************************************************************************)
EXTENDS ServerApp, DataRunner

CONSTANTS
    BkpAddr,   \* what the user types: addresses of breakpoints
    ResumeCmd, \* and ways to resume the program
    MaxBehind  \* bound: messages in flight when the signal interrupts a read()
               \* of the client; 0 if it never does

ASSUME RemoteSessionAssumption ==
    /\ BkpAddr \subseteq 0 .. MemSize
    /\ ResumeCmd \subseteq ResumeType \ {"ToFinish"}
    /\ MaxBehind \in Nat

VARIABLES
    cpc,      \* the client: "start", "prompt", "await" (in send_req), "poll"
              \* (between two polls), or how it ended: "quit", "uncaught"
              \* (an exception left main), "abort" (an assert failed)
    cst,      \* DBClient::_state
    creq,     \* type of the request send_req waits for
    ccall,    \* what called it: "connect", "cmd", "poll", "stop1", "stop2"
    udp,      \* DBClient::_udp
    forceStop \* g_force_stop

cliVars == <<cpc, cst, creq, ccall, udp, forceStop>>
rsVars  == <<appVars, runnerVars, cliVars>>

ClientEnded == {"quit", "uncaught", "abort"}

-----------------------------------------------------------------------------
(* Messages.                                                               *)

Req(ty, arg) == [ty |-> ty, arg |-> arg]

Commands ==
    {Req("QUERY", NoArg)}
    \cup {Req(ty, addr) : ty \in {"ADD_BKPS", "DEL_BKPS"}, addr \in BkpAddr}
    \cup {Req("RESUME", type) : type \in ResumeCmd}

Res(ty, upd) == [ty |-> ty, udp |-> upd]
Err == Res("ERR", Unset)

-----------------------------------------------------------------------------
(* DataClientHandler on the VM's thread.                                   *)

(* MultiClientHandler::setup_connection notices only a child that became   *)
(* CONNECTED: a runner that already failed is a child that is never found. *)
StartRunner ==
    /\ pc \in {"setup", "connect"}
    /\ RunnerStart
    /\ UNCHANGED <<bufVars, serving, netVars, appVars, cliVars>>

ClientFound == rstate \notin {"CONNECTING", "ERROR"}

Setup ==
    /\ rpc # "off"
    /\ SetupConnection(ClientFound) \/ Connect(ClientFound)
    /\ UNCHANGED <<runnerVars, cliVars>>

(* check_stopped tests _state # HAS_REQ first, so that the test for ERROR  *)
(* behind it never succeeds (lines 372-377).                               *)
CheckNothing ==
    /\ pc = "check" /\ ~serving /\ rstate # "HAS_REQ"
    /\ UNCHANGED <<client, dbVars, runnerVars, cliVars>>
    /\ AfterCheck

HandlerTake ==
    /\ pc \in {"check", "run"}
    /\ TakeRequest
    /\ UNCHANGED <<appVars, cliVars>>

(* While the program runs only two requests are served.                    *)
AnswerRunning ==
    /\ pc = "check" /\ serving
    /\ LET ty == inBuf[1].ty IN
       \/ ty = "STOP" /\ stop /\ SignalRes(Res(ty, Unset))
       \/ /\ ty = "CHECK_STOPPED"
          /\ SignalRes(Res(ty, check_stopped_udp))
          /\ UNCHANGED dbVars
       \/ /\ ty \notin {"STOP", "CHECK_STOPPED"}
          /\ SignalRes(Err)
          /\ UNCHANGED dbVars
    /\ UNCHANGED <<client, cliVars>>
    /\ AfterCheck

(* Mutants of RunLost: the lost client is not reported; it is reported as  *)
(* one that never was there.                                               *)
MutRunLostNot ==
    /\ pc = "run" /\ ~serving /\ rstate = "ERROR"
    /\ UNCHANGED <<client, dbVars, runnerVars, cliVars>>
    /\ AfterRun

MutRunLostReset ==
    /\ pc = "run" /\ ~serving /\ rstate = "ERROR"
    /\ client' = "NOT_CONNECTED"
    /\ UNCHANGED <<dbVars, runnerVars, cliVars>>
    /\ AfterRun

(* run_command: a lost client ends the session ...                         *)
RunLost ==
    /\ pc = "run" /\ ~serving /\ rstate = "ERROR"
    /\ client' = "DISCONNECTED"
    /\ UNCHANGED <<dbVars, runnerVars, cliVars>>
    /\ AfterRun

(* ... and a request is executed, an exception of the debugger or of the   *)
(* VM becoming an ERR response.                                            *)
AnswerStopped ==
    /\ pc = "run" /\ serving
    /\ LET ty == inBuf[1].ty
           arg == inBuf[1].arg
       IN
       \/ /\ ty \in {"CONNECT", "CHECK_STOPPED"}
          /\ SignalRes(Res(ty, check_stopped_udp))
          /\ UNCHANGED dbVars
       \/ /\ ty = "STOP"
          /\ SignalRes(Err)
          /\ UNCHANGED dbVars
       \/ /\ ty = "QUERY"
          /\ SignalRes(Res(ty, Unset)) \/ SignalRes(Err)
          /\ UNCHANGED dbVars
       \/ /\ ty = "ADD_BKPS"
          /\ add_breakpoint(arg)
          /\ SignalRes(IF CanAdd(arg) THEN Res(ty, Unset) ELSE Err)
       \/ /\ ty = "DEL_BKPS"
          /\ del_breakpoint(arg)
          /\ SignalRes(IF CanDel(arg) THEN Res(ty, Unset) ELSE Err)
       \/ /\ ty = "RESUME"
          /\ resume(arg)
          /\ SignalRes(IF CanResume THEN Res(ty, Unset) ELSE Err)
    /\ UNCHANGED <<client, cliVars>>
    /\ AfterRun

HandlerStep == \/ StartRunner \/ Setup \/ CheckNothing \/ HandlerTake
               \/ AnswerRunning \/ RunLost \/ AnswerStopped

AppStep == (VMExec \/ LoopSteps) /\ UNCHANGED <<runnerVars, cliVars>>

NetworkStep == RunnerStep /\ UNCHANGED <<appVars, cliVars>>

-----------------------------------------------------------------------------
(* The odb-cli process.  send_req sends a request and blocks for the next  *)
(* message, whatever it is.                                                *)

SendReq(req, call) ==
    /\ NetSend(req)
    /\ creq' = req.ty
    /\ ccall' = call
    /\ cpc' = "await"
    /\ UNCHANGED link

EndsWith(how) ==
    /\ cpc' = how /\ creq' = NoArg /\ ccall' = NoArg
    /\ NetClose
    /\ UNCHANGED toServ

GoesTo(where) ==
    /\ cpc' = where /\ creq' = NoArg /\ ccall' = NoArg
    /\ UNCHANGED <<link, toServ>>

(* DBClient::connect: the connection, then the CONNECT request.            *)
CliConnect ==
    /\ cpc = "start"
    /\ NetConnect
    /\ toServ' = <<Req("CONNECT", NoArg)>>
    /\ creq' = "CONNECT" /\ ccall' = "connect" /\ cpc' = "await"
    /\ UNCHANGED <<cst, udp, forceStop, toCli, threadVars, bufVars, serving,
                   appVars>>

(* A command of the user; resume, the breakpoints and the queries all      *)
(* assert VM_STOPPED.                                                      *)
CliCommand ==
    /\ cpc = "prompt"
    /\ \E req \in Commands : SendReq(req, "cmd")
    /\ UNCHANGED <<cst, udp, forceStop, toCli, threadVars, bufVars, serving,
                   appVars>>

(* The next turn of _wait_stop's loop.                                     *)
CliPoll ==
    /\ cpc = "poll"
    /\ SendReq(Req("CHECK_STOPPED", NoArg), "poll")
    /\ UNCHANGED <<cst, udp, forceStop, toCli, threadVars, bufVars, serving,
                   appVars>>

(* _wait_stop is entered with g_force_stop = false, from next().           *)
EnterPrompt(st) ==
    /\ cst' = st
    /\ GoesTo(IF st = "VM_STOPPED" THEN "prompt" ELSE "poll")
    /\ forceStop' = FALSE

(* The end of a turn of _wait_stop: the program still runs, and Ctrl-C is  *)
(* turned into DBClient::stop.                                             *)
StillRunning ==
    /\ IF forceStop' THEN SendReq(Req("STOP", NoArg), "stop1") ELSE GoesTo("poll")
    /\ UNCHANGED cst

(* The answer to each caller of send_req.                                  *)
ConnectAnswered(res) ==
    /\ udp' = res.udp
    /\ EnterPrompt(IF res.udp.stopped THEN "VM_STOPPED" ELSE "VM_RUNNING")

CmdAnswered(res) ==
    /\ EnterPrompt(IF res.ty = "RESUME" THEN "VM_RUNNING" ELSE cst)
    /\ UNCHANGED udp

(* Mutant of PollAnswered: the update of the last stop is kept.            *)
MutPollAnswered(res) ==
    /\ UNCHANGED udp
    /\ \/ res.udp.stopped /\ EnterPrompt("VM_STOPPED")
       \/ ~res.udp.stopped /\ UNCHANGED forceStop /\ StillRunning

PollAnswered(res) ==
    /\ udp' = res.udp
    /\ \/ res.udp.stopped /\ EnterPrompt("VM_STOPPED")
       \/ ~res.udp.stopped /\ UNCHANGED forceStop /\ StillRunning

StopAnswered ==
    /\ cst' = "VM_STOPPED"
    /\ SendReq(Req("CHECK_STOPPED", NoArg), "stop2")
    /\ UNCHANGED <<udp, forceStop>>

StopChecked(res) ==
    /\ udp' = res.udp
    /\ UNCHANGED <<cst, forceStop>>
    /\ IF res.udp.stopped THEN GoesTo("prompt") ELSE EndsWith("abort")

(* A VMApi::Error thrown by send_req: SimpleCLIClient::exec prints it,     *)
(* _wait_stop drops it if Ctrl-C was pressed meanwhile, and everywhere     *)
(* else it leaves main.                                                    *)
CallFailed ==
    /\ UNCHANGED <<udp, cst>>
    /\ \/ ccall = "cmd" /\ GoesTo("prompt")
       \/ ccall = "poll" /\ forceStop' /\ StillRunning
       \/ /\ ccall \notin {"cmd", "poll"} \/ (ccall = "poll" /\ ~forceStop')
          /\ EndsWith("uncaught")

CliReceive ==
    /\ cpc = "await" /\ toCli # <<>>
    /\ toCli' = Tail(toCli)
    /\ LET res == Head(toCli) IN
       \/ res.ty = "ERR" /\ UNCHANGED forceStop /\ CallFailed
       \/ /\ res.ty \notin {"ERR", creq}          \* assert of line 42
          /\ EndsWith("abort")
          /\ UNCHANGED <<cst, udp, forceStop>>
       \/ /\ res.ty = creq
          /\ \/ ccall = "connect" /\ ConnectAnswered(res)
             \/ ccall = "cmd" /\ CmdAnswered(res)
             \/ ccall = "poll" /\ PollAnswered(res)
             \/ ccall = "stop1" /\ StopAnswered
             \/ ccall = "stop2" /\ StopChecked(res)
    /\ UNCHANGED <<threadVars, bufVars, serving, appVars>>

(* Ctrl-C.  While the client is in read() the call fails with EINTR, which *)
(* read_mult takes for a broken connection, and the response stays unread. *)
CliCtrlC ==
    /\ cpc \in {"await", "poll"} /\ ~forceStop
    /\ forceStop' = TRUE
    /\ UNCHANGED <<cpc, cst, creq, ccall, udp, runnerVars, appVars>>

CliInterrupted ==
    /\ cpc = "await"
    /\ Len(toServ) + Len(inBuf) + Len(outBuf) + Len(toCli) <= MaxBehind
    /\ forceStop' = TRUE
    /\ CallFailed
    /\ UNCHANGED <<toCli, threadVars, bufVars, serving, appVars>>

(* End of input at the prompt, or the process is killed.                   *)
CliLeaves ==
    /\ cpc \in {"prompt", "await", "poll"}
    /\ EndsWith("quit")
    /\ UNCHANGED <<cst, udp, forceStop, toCli, threadVars, bufVars, serving,
                   appVars>>

ClientAnswer == CliReceive \/ CliPoll
ClientStep == \/ CliConnect \/ CliCommand \/ ClientAnswer
              \/ CliCtrlC \/ CliInterrupted \/ CliLeaves

-----------------------------------------------------------------------------
RemoteInit ==
    /\ AppInit /\ enabled /\ hasHandler
    /\ RunnerInit
    /\ cpc = "start" /\ cst = "NOT_CONNECTED"
    /\ creq = NoArg /\ ccall = NoArg
    /\ udp = Unset /\ forceStop = FALSE

RemoteDone == pc = "done" /\ cpc \in ClientEnded /\ UNCHANGED rsVars

MainStep == AppStep \/ HandlerStep

RemoteNext == MainStep \/ NetworkStep \/ ClientStep \/ RemoteDone

RemoteSafety == RemoteInit /\ [][RemoteNext]_rsVars

(* The two threads of the server run, and a client that waits takes the    *)
(* answer that is there and polls on.  What the user does is not forced.   *)
RemoteSpec == /\ RemoteSafety
              /\ WF_rsVars(MainStep) /\ WF_rsVars(NetworkStep)
              /\ WF_rsVars(ClientAnswer)

-----------------------------------------------------------------------------
(* Properties.                                                             *)

(* The client is in step with the server: the only message on its way is   *)
(* the request it waits on or the answer to it.  A read() interrupted by   *)
(* Ctrl-C leaves an answer behind, and from then on the client takes every *)
(* answer for that to its next request.                                    *)
InStep == Len(toServ) + Len(inBuf) + Len(outBuf) + Len(toCli)
          = IF cpc = "await" THEN 1 ELSE 0

(* With the prompt on the screen the program is stopped, and the execution *)
(* point, the stopped state and the backtrace that DBClient keeps are the  *)
(* debugger's: nothing moves behind the back of a client in step           *)
(* (db-client.cc:16-46, server-app.cc:88-108).                             *)
PromptShowsTruth ==
    InStep /\ cpc = "prompt" => cst = "VM_STOPPED" /\ udp = check_stopped_udp

(* No request makes a client in step fail: none of its asserts fails       *)
(* (db-client-impl-data.cc:42, db-client.cc:34), and no exception leaves   *)
(* its main but that of a STOP, which a program that stopped by itself     *)
(* since the last poll refuses.  This rests on the server: CONNECT, which  *)
(* a running program refuses, must find the program stopped although the   *)
(* connection may be made while it runs (server-app.cc:81-86), and polls   *)
(* must never be refused.                                                  *)
ClientSurvives ==
    [][InStep /\ InStep' =>
       /\ cpc' = "abort" => cpc = "abort"
       /\ cpc' = "uncaught" => cpc = "uncaught" \/ ccall = "stop1"]_rsVars

(* When the VM's program ends, the network thread ended too, so that the   *)
(* join of the runner's destructor (data-client-handler.cc:31-34) cannot   *)
(* block the exit of the VM.                                               *)
NoThreadLeft == pc = "done" => rpc = "end"

(* The data handler keeps the contract of ClientHandler: whatever client   *)
(* and network do, the VM's thread behaves as ServerApp says.              *)
ImplementsServerApp == AppSafety

(* A request is answered, whether the program runs or is stopped, unless   *)
(* the network thread gave the connection up.                              *)
RequestAnswered == (cpc = "await") ~> (cpc # "await" \/ rstate = "ERROR")

(* A client that leaves after the server noticed it does not leave the     *)
(* program stopped (client-handler.hh:30-31).                              *)
LeavingReleases ==
    (cpc \in ClientEnded /\ client = "CONNECTED") ~> (pc \in {"vm", "done"})

(* client-handler.hh:30-31: "When the client get disconnected, the debug   *)
(* session is aborted and the program run until completion", for every     *)
(* client that leaves.                                                     *)
AnyLeavingReleases == (cpc \in ClientEnded) ~> (pc \in {"vm", "done"})
=============================================================================
