----------------------------- MODULE ServerApp -----------------------------
(***************************************************************************)
(* The thread of the VM: ServerApp::loop of src/server/server-app.cc, the  *)
(* Debugger it drives and the VM that calls it.                            *)
(*                                                                         *)
(* The VM calls loop() before its first instruction and after every        *)
(* instruction.  The client handler is known here only by the contract of  *)
(* class ClientHandler: setup_connection may connect, run_command may make *)
(* any call of the Debugger or lose the client, check_stopped may stop the *)
(* program or lose the client.  Module RemoteSession puts the handler of   *)
(* remote clients in its place.                                            *)
(*                                                                         *)
(* pc is where the thread is:                                              *)
(*   "vm"      the VM executes an instruction                              *)
(*   "loop"    loop() is entered          "init"    inside _init()         *)
(*   "setup"   the first setup_connection "top"     head of the for(;;)    *)
(*   "check"   check_stopped              "connect" spinning in _connect() *)
(*   "run"     run_command                "end"     after the for(;;)      *)
(*   "done"    the VM stopped and its last loop() returned                 *)
(***************************************************************************)
EXTENDS Debugger

VARIABLES
    pc,
    enabled,    \* _conf.enabled
    nostart,    \* _conf.nostart
    hasHandler, \* do mode_server_cli and mode_tcp create a handler?
    client,     \* _client->get_state()
    vmPc,       \* the VM's next instruction
    vmFrames,   \* the VM's own frames: records [start, from]
    vmUpd       \* what its last instruction reported

vmVars   == <<vmPc, vmFrames, vmUpd>>
confVars == <<enabled, nostart, hasHandler>>
appVars  == <<pc, confVars, client, vmVars, dbVars>>

ClientState == {"NOT_CONNECTED", "CONNECTED", "DISCONNECTED"}

db_is_stopped == state \in Finished \cup {"STOPPED"}

(* Where loop() returns to: VMs call it once more after their last         *)
(* instruction and then end.                                               *)
Return == IF vmUpd \in Finished THEN "done" ELSE "vm"

-----------------------------------------------------------------------------
(* The VM, from how loop() is called.                                      *)

VMFramesAfter(upd, addr) ==
    CASE upd = "CALL_SUB" -> Append(vmFrames, [start |-> addr, from |-> vmPc])
      [] upd = "RET_SUB"  -> SubSeq(vmFrames, 1, Len(vmFrames) - 1)
      [] OTHER            -> vmFrames

VMExec ==
    /\ pc = "vm"
    /\ \E upd \in UpdateState, addr \in Addr :
        /\ VMReports(upd, Len(vmFrames))
        /\ vmUpd' = upd
        /\ vmPc' = addr
        /\ vmFrames' = VMFramesAfter(upd, addr)
    /\ pc' = "loop"
    /\ UNCHANGED <<confVars, client, dbVars>>

-----------------------------------------------------------------------------
(* ServerApp::loop().                                                      *)

(* The environment variables of the constructor may set every option.      *)
AppInit ==
    /\ DebuggerInit
    /\ pc = "loop"
    /\ enabled \in BOOLEAN
    /\ nostart \in BOOLEAN
    /\ hasHandler \in BOOLEAN
    /\ client = "NOT_CONNECTED"
    /\ vmPc \in Addr
    /\ vmFrames = <<[start |-> vmPc, from |-> NotSet]>>
    /\ vmUpd = "OK"

LoopDisabled ==
    /\ pc = "loop" /\ ~enabled
    /\ pc' = Return
    /\ UNCHANGED <<confVars, client, vmVars, dbVars>>

(* First call: _init() creates the debugger ...                            *)
LoopFirst ==
    /\ pc = "loop" /\ enabled /\ state = "NOT_STARTED"
    /\ on_init(vmPc)
    /\ pc' = "init"
    /\ UNCHANGED <<confVars, client, vmVars>>

(* ... stops it if so configured, and creates the handlers; with none,     *)
(* _shutdown() drops the debugger and disables the application.            *)
InitHandlers ==
    /\ pc = "init" /\ hasHandler
    /\ IF nostart THEN stop ELSE UNCHANGED dbVars
    /\ pc' = "setup"
    /\ UNCHANGED <<confVars, client, vmVars>>

Shutdown ==
    /\ pc = "init" /\ ~hasHandler
    /\ state' = "NOT_STARTED"
    /\ insAddr' = 0
    /\ callStack' = <<>>
    /\ enabled' = FALSE
    /\ pc' = Return
    /\ UNCHANGED <<nostart, hasHandler, client, vmVars, breakpts, stepOverDepth,
                   resumeDepth>>

(* Later calls: the debugger learns what the last instruction did.         *)
LoopUpdate ==
    /\ pc = "loop" /\ enabled /\ state # "NOT_STARTED"
    /\ on_update(vmUpd, vmPc)
    /\ pc' = IF client = "NOT_CONNECTED" THEN "setup" ELSE "top"
    /\ UNCHANGED <<confVars, client, vmVars>>

(* Mutant of SetupConnection: a new client does not stop the program.      *)
MutSetupConnection(found) ==
    /\ pc = "setup"
    /\ client' = IF found THEN "CONNECTED" ELSE client
    /\ UNCHANGED dbVars
    /\ pc' = "top"
    /\ UNCHANGED <<confVars, vmVars>>

(* setup_connection found a client or not.  A new client stops the program *)
(* it finds running (_stop_db).                                            *)
SetupConnection(found) ==
    /\ pc = "setup"
    /\ client' = IF found THEN "CONNECTED" ELSE client
    /\ IF found /\ ~db_is_stopped THEN stop ELSE UNCHANGED dbVars
    /\ pc' = "top"
    /\ UNCHANGED <<confVars, vmVars>>

(* Mutants of LoopTop: a lost client is waited for again; _connect() is    *)
(* called with a client already there; a finished program is not shown.    *)
MutLoopTopLost ==
    /\ pc = "top"
    /\ pc' = CASE client = "CONNECTED" /\ ~db_is_stopped -> "check"
               [] client = "CONNECTED" /\ db_is_stopped -> "run"
               [] client # "CONNECTED" /\ ~db_is_stopped -> "end"
               [] client # "CONNECTED" /\ db_is_stopped -> "connect"
    /\ UNCHANGED <<confVars, client, vmVars, dbVars>>

MutLoopTopConnect ==
    /\ pc = "top"
    /\ pc' = CASE client = "DISCONNECTED" -> "end"
               [] client = "CONNECTED" /\ ~db_is_stopped -> "check"
               [] client = "NOT_CONNECTED" /\ ~db_is_stopped -> "end"
               [] client # "DISCONNECTED" /\ db_is_stopped -> "connect"
    /\ UNCHANGED <<confVars, client, vmVars, dbVars>>

MutLoopTopFinished ==
    /\ pc = "top"
    /\ pc' = CASE client = "DISCONNECTED" \/ state \in Finished -> "end"
               [] client = "CONNECTED" /\ ~db_is_stopped -> "check"
               [] client = "CONNECTED" /\ state = "STOPPED" -> "run"
               [] client = "NOT_CONNECTED" /\ ~db_is_stopped -> "end"
               [] client = "NOT_CONNECTED" /\ state = "STOPPED" -> "connect"
    /\ UNCHANGED <<confVars, client, vmVars, dbVars>>

(* The tests at the head of the for(;;): with no client left, or running   *)
(* without one, loop() returns.                                            *)
LoopTop ==
    /\ pc = "top"
    /\ pc' = CASE client = "DISCONNECTED" -> "end"
               [] client = "CONNECTED" /\ ~db_is_stopped -> "check"
               [] client = "CONNECTED" /\ db_is_stopped -> "run"
               [] client = "NOT_CONNECTED" /\ ~db_is_stopped -> "end"
               [] client = "NOT_CONNECTED" /\ db_is_stopped -> "connect"
    /\ UNCHANGED <<confVars, client, vmVars, dbVars>>

(* One turn of the loop of _connect(), which waits for a client for ever.  *)
Connect(found) ==
    /\ pc = "connect"
    /\ client' = IF found THEN "CONNECTED" ELSE client
    /\ pc' = IF found THEN "run" ELSE "connect"
    /\ UNCHANGED <<confVars, vmVars, dbVars>>

(* Mutant of AfterCheck: run_command is called without another test.       *)
MutAfterCheck ==
    /\ pc = "check"
    /\ pc' = "run"
    /\ UNCHANGED <<confVars, vmVars>>

(* The part of check_stopped and run_command that is loop()'s: where it    *)
(* goes on once they return.                                               *)
AfterCheck ==
    /\ pc = "check"
    /\ pc' = IF state' \in Running THEN "end" ELSE "run"
    /\ UNCHANGED <<confVars, vmVars>>

AfterRun ==
    /\ pc = "run"
    /\ pc' = "top"
    /\ UNCHANGED <<confVars, vmVars>>

(* Mutant of LoopEnd: the resume at the end of loop() is missing.          *)
MutLoopEnd ==
    /\ pc = "end"
    /\ pc' = Return
    /\ UNCHANGED <<confVars, client, vmVars, dbVars>>

(* A program that lost its client must not stay stopped.                   *)
LoopEnd ==
    /\ pc = "end"
    /\ IF client = "DISCONNECTED" /\ state = "STOPPED"
       THEN resume("ToFinish")
       ELSE UNCHANGED dbVars
    /\ pc' = Return
    /\ UNCHANGED <<confVars, client, vmVars>>

-----------------------------------------------------------------------------
(* What clients are told about the program: DBClientUpdate as              *)
(* DBClientImplVMSide::check_stopped fills it.  While the program runs     *)
(* nothing but stopped is set.                                             *)

NoArg == "-"
Unset == [stopped |-> FALSE, vm |-> NoArg, addr |-> NotSet, stack |-> <<>>]

check_stopped_udp ==
    IF state \in Running
    THEN Unset
    ELSE [stopped |-> TRUE,
          vm |-> IF state \in Finished THEN state ELSE "READY",
          addr |-> insAddr, stack |-> callStack]

-----------------------------------------------------------------------------
(* Any client handler: the contract of class ClientHandler.                *)

HandlerSetup == \E found \in BOOLEAN : SetupConnection(found) \/ Connect(found)

LoseClient == client' = "DISCONNECTED" /\ UNCHANGED dbVars

HandlerCheck ==
    /\ \/ stop /\ UNCHANGED client
       \/ UNCHANGED <<dbVars, client>>
       \/ LoseClient
    /\ AfterCheck

(* Commands that only read are steps that change nothing but pc.           *)
HandlerRun ==
    /\ AfterRun
    /\ \/ /\ \/ \E addr \in 0 .. MemSize :
                   add_breakpoint(addr) \/ del_breakpoint(addr)
             \/ \E type \in ResumeType : resume(type)
          /\ UNCHANGED client
       \/ UNCHANGED <<dbVars, client>>
       \/ LoseClient

LoopSteps == \/ LoopDisabled \/ LoopFirst \/ InitHandlers \/ Shutdown
             \/ LoopUpdate \/ LoopTop \/ LoopEnd

AppDone == pc = "done" /\ UNCHANGED appVars

AppNext == VMExec \/ LoopSteps \/ HandlerSetup \/ HandlerCheck \/ HandlerRun
           \/ AppDone

AppSafety == AppInit /\ [][AppNext]_appVars

(* One thread runs all of this and takes a step whenever it can, but       *)
(* nothing makes a client come while _connect() waits for one.             *)
AppFair == \/ VMExec \/ LoopSteps \/ HandlerCheck \/ HandlerRun
           \/ \E found \in BOOLEAN : SetupConnection(found)

AppSpec == AppSafety /\ WF_appVars(AppFair)

-----------------------------------------------------------------------------
(* Properties.                                                             *)

(* Type invariant of the server: the debugger's own, for every order in    *)
(* which ServerApp::loop calls it (server-app.cc:68-115), the control      *)
(* point of loop and the ClientHandler::State it switches on.              *)
AppTypeOK ==
    /\ DebuggerTypeOK
    /\ pc \in {"vm", "loop", "init", "setup", "top", "check", "connect", "run",
               "end", "done"}
    /\ enabled \in BOOLEAN /\ nostart \in BOOLEAN /\ hasHandler \in BOOLEAN
    /\ client \in ClientState
    /\ vmPc \in Addr /\ vmUpd \in UpdateState
    /\ vmFrames \in Seq([start : Addr, from : Addr \cup {NotSet}])

(* The VM executes no instruction while the debugger is stopped, and       *)
(* on_update is never reached in a state its assert forbids                *)
(* (debugger.cc:155; server-app.cc:88-114 must guarantee both).            *)
RunsOnlyWhenResumed ==
    enabled => /\ pc = "vm" => state \in Running
               /\ pc = "loop" => state \in Running \cup {"NOT_STARTED"}

(* run_command is only called with a client and a stopped program (the     *)
(* assert of server-app.cc:104 and the contract of client-handler.hh), and *)
(* check_stopped only with a client and a running one.                     *)
HandlerCalledInState ==
    /\ pc = "run" => client = "CONNECTED" /\ db_is_stopped
    /\ pc = "check" => client = "CONNECTED" /\ ~db_is_stopped

(* What a client is shown is the truth: the execution point is the VM's    *)
(* next instruction and the backtrace has the VM's frames with the very    *)
(* instructions that called them, except that a finished program keeps the *)
(* last point it reached (debugger.cc:174-185, db-client-impl-vmside.cc).  *)
ShownStateIsVMState ==
    pc = "run" =>
        /\ state = "STOPPED" => insAddr = vmPc
        /\ Depth = Len(vmFrames)
        /\ \A i \in 1 .. Depth : callStack[i].start = vmFrames[i].start
        /\ \A i \in 1 .. Depth - 1 : callStack[i].call = vmFrames[i + 1].from

(* A client that connects gets hold of the program before it executes      *)
(* another instruction (comment of server-app.cc:81).                      *)
NewClientStops ==
    [][client = "NOT_CONNECTED" /\ client' = "CONNECTED"
       => state' \notin Running]_appVars

(* The program goes on after it lost its client (client-handler.hh: "the   *)
(* program run until completion").                                         *)
LostClientReleases == (client = "DISCONNECTED") ~> (pc \in {"vm", "done"})

(* A stop is not missed: when the debugger stops for a connected client    *)
(* the handler gets its turn.                                              *)
StopReachesClient ==
    (state = "STOPPED" /\ client = "CONNECTED")
        ~> (pc = "run" \/ client = "DISCONNECTED")
=============================================================================
