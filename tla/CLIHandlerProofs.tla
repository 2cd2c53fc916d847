-------------------------- MODULE CLIHandlerProofs --------------------------
(***************************************************************************)
(* Proofs about module CLIHandler: the handler of the VM's own terminal    *)
(* keeps the contract of ClientHandler, and what it tells its user is      *)
(* right whenever Ctrl-C comes.                                            *)
(***************************************************************************)
EXTENDS CLIHandler, ServerAppProofs

(* Each call of the handler is one that class ClientHandler allows, or     *)
(* does not touch the VM's thread.                                         *)
LEMMA CLIStepIsAppStep ==
    ASSUME [CLINext]_cliHVars
    PROVE  [AppNext]_appVars
<1>1. CASE (VMExec \/ LoopSteps) /\ UNCHANGED <<promptVars, sigVars>>
    BY <1>1 DEF AppNext
<1>2. CASE setup_connection
    BY <1>2 DEF setup_connection, AppNext, HandlerSetup
<1>3. CASE CheckSignal
    BY <1>3 DEF CheckSignal, AppNext, HandlerCheck
<1>4. CASE ReadCommand
    BY <1>4 DEF ReadCommand, AppNext, HandlerRun
<1>5. CASE EndOfInput
    BY <1>5 DEF EndOfInput, AppNext, HandlerRun
<1>6. CASE ShowPrompt \/ sigint_handler_fn \/ CLIDone \/ UNCHANGED cliHVars
    BY <1>6 DEF ShowPrompt, sigint_handler_fn, CLIDone, cliHVars
<1> QED
    BY <1>1, <1>2, <1>3, <1>4, <1>5, <1>6 DEF CLINext, ThreadStep

(* The terminal handler implements the abstract handler of ServerApp: its  *)
(* setup_connection, check_stopped and run_command                         *)
(* (cli-client-handler.cc) do nothing to the program that loop() is not    *)
(* written for.                                                            *)
THEOREM CLIImplementsApp == CLISpec => CLIImplementsServerApp
<1>1. CLIInit => AppInit
    BY DEF CLIInit
<1>2. [CLINext]_cliHVars => [AppNext]_appVars
    BY CLIStepIsAppStep
<1> QED
    BY <1>1, <1>2, PTL DEF CLISpec, CLIImplementsServerApp, AppSafety

-----------------------------------------------------------------------------
(* What the handler's DBClient knows.  Without a client there is no        *)
(* prompt.  A client in VM_STOPPED has the state of a program that really  *)
(* is stopped, inside the for(;;) of loop(), and the user was shown that   *)
(* state unless g_manual_stop says it is still to be shown.  In VM_RUNNING *)
(* nothing is known: the program may have stopped since.                   *)
StoppedIsKnown ==
    /\ pc \in {"top", "run"}
    /\ db_is_stopped
    /\ dbcUdp = check_stopped_udp
    /\ ~manualStop => shown \in {Unset, dbcUdp}

CLIInv ==
    /\ atPrompt \in BOOLEAN
    /\ dbc \in {"NOT_CONNECTED", "VM_RUNNING", "VM_STOPPED"}
    /\ client = "NOT_CONNECTED" <=> dbc = "NOT_CONNECTED"
    /\ client = "NOT_CONNECTED" => shown = Unset
    /\ atPrompt => /\ client = "CONNECTED" /\ pc = "run"
                   /\ dbc = "VM_STOPPED" /\ ~manualStop
    /\ client = "CONNECTED" /\ dbc = "VM_STOPPED" => StoppedIsKnown
    /\ pc = "check" => dbc = "VM_RUNNING"

(* Steps of loop() and of the VM: they find the client in VM_STOPPED only  *)
(* inside the for(;;), and then go on to run_command.                      *)
LEMMA CLILoopStep ==
    ASSUME LoopInv, CLIInv, VMExec \/ LoopSteps, UNCHANGED <<promptVars, sigVars>>
    PROVE  CLIInv'
<1> USE DEF CLIInv
<1>1. UNCHANGED <<dbc, dbcUdp, atPrompt, shown, manualStop>>
    BY DEF promptVars, sigVars
<1>2. UNCHANGED client
    BY DEF VMExec, LoopSteps, LoopDisabled, LoopFirst, InitHandlers, Shutdown,
           LoopUpdate, LoopTop, LoopEnd
<1>3. CASE LoopTop
    <2>1. pc = "top" /\ UNCHANGED <<state, insAddr, callStack>>
        BY <1>3 DEF LoopTop, dbVars
    <2>2. pc' = "check" => client = "CONNECTED" /\ ~db_is_stopped
        BY <1>3 DEF LoopTop, LoopInv, ClientState
    <2>3. client = "CONNECTED" /\ db_is_stopped => pc' = "run"
        BY <1>3 DEF LoopTop
    <2>4. client = "CONNECTED" /\ dbc = "VM_STOPPED" => StoppedIsKnown'
        BY <1>1, <2>1, <2>3, SameUdp DEF StoppedIsKnown
    <2>5. pc' = "check" => dbc = "VM_RUNNING"
        BY <2>2 DEF StoppedIsKnown
    <2> QED
        BY <1>1, <1>2, <2>1, <2>4, <2>5
<1>4. CASE ~LoopTop
    <2>1. pc \notin {"top", "run"}
        BY <1>4 DEF VMExec, LoopSteps, LoopDisabled, LoopFirst, InitHandlers,
                    Shutdown, LoopUpdate, LoopEnd
    <2>2. pc' # "check"
        BY <1>4 DEF VMExec, LoopSteps, LoopDisabled, LoopFirst, InitHandlers,
                    Shutdown, LoopUpdate, LoopEnd, Return
    <2> QED
        BY <1>1, <1>2, <2>1, <2>2 DEF StoppedIsKnown
<1> QED
    BY <1>3, <1>4

(* The invariant holds whatever the order of stops, resumes and signals.   *)
LEMMA CLIInvStep ==
    ASSUME LoopInv, LoopInv', CLIInv, [CLINext]_cliHVars
    PROVE  CLIInv'
<1> USE DEF CLIInv
<1>1. CASE (VMExec \/ LoopSteps) /\ UNCHANGED <<promptVars, sigVars>>
    BY <1>1, CLILoopStep
<1>2. CASE setup_connection
    <2>1. /\ pc = "setup" /\ pc' = "top" /\ client' = "CONNECTED"
          /\ UNCHANGED <<atPrompt, shown, manualStop>>
          /\ dbcUdp' = check_stopped_udp
          /\ dbc' = IF dbcUdp'.stopped THEN "VM_STOPPED" ELSE "VM_RUNNING"
        BY <1>2 DEF setup_connection, SetupConnection
    <2>2. client = "NOT_CONNECTED" /\ state # "NOT_STARTED" /\ state \in State
        BY <2>1 DEF LoopInv, InsideLoop
    <2>3. ~atPrompt
        BY <2>1
    <2>4. ASSUME dbc' = "VM_STOPPED"
          PROVE  StoppedIsKnown'
        <3>1. state \notin Running
            BY <2>1, <2>4, UdpStopped
        <3>2. db_is_stopped
            BY <2>2, <3>1 DEF db_is_stopped, State
        <3>3. UNCHANGED <<state, insAddr, callStack>>
            BY <1>2, <3>2 DEF setup_connection, SetupConnection, dbVars
        <3>4. shown' \in {Unset, dbcUdp'} \/ manualStop'
            BY <2>1, <2>2
        <3> QED
            BY <2>1, <3>2, <3>3, <3>4, SameUdp DEF StoppedIsKnown
    <2> QED
        BY <2>1, <2>3, <2>4
<1>3. CASE CheckSignal
    <2>1. /\ pc = "check" /\ client = "CONNECTED" /\ state \in Running
          /\ UNCHANGED <<client, atPrompt, shown>>
          /\ pc' = IF state' \in Running THEN "end" ELSE "run"
        BY <1>3 DEF CheckSignal, AfterCheck, LoopInv, HandlerCalledInState,
                    db_is_stopped, State, InsideLoop
    <2>2. ~atPrompt /\ dbc = "VM_RUNNING"
        BY <2>1
    <2>3. CASE sigStop
        <3>1. /\ dbc' = "VM_STOPPED" /\ dbcUdp' = check_stopped_udp'
              /\ manualStop' = TRUE /\ stop
            BY <1>3, <2>3 DEF CheckSignal
        <3>2. state' = "STOPPED" /\ pc' = "run"
            BY <2>1, <3>1 DEF stop, Running
        <3> QED
            BY <2>1, <2>2, <3>1, <3>2 DEF StoppedIsKnown, db_is_stopped
    <2>4. CASE ~sigStop
        <3>1. UNCHANGED <<state, dbc>>
            BY <1>3, <2>4 DEF CheckSignal, dbVars
        <3> QED
            BY <2>1, <2>2, <3>1
    <2> QED
        BY <2>3, <2>4
<1>4. CASE ShowPrompt
    <2>1. /\ pc = "run" /\ client = "CONNECTED" /\ db_is_stopped
          /\ UNCHANGED <<pc, client, state, insAddr, callStack>>
          /\ atPrompt' = TRUE /\ manualStop' = FALSE
        BY <1>4 DEF ShowPrompt, LoopInv, HandlerCalledInState, appVars, dbVars
    <2>2. CASE dbc = "VM_RUNNING"
        <3>1. /\ dbcUdp' = check_stopped_udp /\ shown' = dbcUdp'
              /\ dbc' = IF dbcUdp'.stopped THEN "VM_STOPPED" ELSE "VM_RUNNING"
            BY <1>4, <2>2 DEF ShowPrompt
        <3>2. dbc' = "VM_STOPPED"
            BY <2>1, <3>1, UdpStopped DEF db_is_stopped, Running, Finished
        <3> QED
            BY <2>1, <3>1, <3>2, SameUdp DEF StoppedIsKnown
    <2>3. CASE dbc = "VM_STOPPED"
        <3>1. /\ UNCHANGED <<dbc, dbcUdp>>
              /\ shown' = IF manualStop THEN dbcUdp ELSE shown
            BY <1>4, <2>3 DEF ShowPrompt
        <3> QED
            BY <2>1, <2>3, <3>1, SameUdp DEF StoppedIsKnown
    <2> QED
        BY <1>4, <2>2, <2>3 DEF ShowPrompt
<1>5. CASE ReadCommand
    <2>1. /\ pc = "run" /\ pc' = "top" /\ atPrompt /\ atPrompt' = FALSE
          /\ UNCHANGED <<client, dbcUdp, shown, manualStop>>
        BY <1>5 DEF ReadCommand, AfterRun, sigVars
    <2>2. dbc' = "VM_RUNNING" \/ (dbc' = dbc /\ UNCHANGED <<state, insAddr, callStack>>)
        BY <1>5 DEF ReadCommand, add_breakpoint, del_breakpoint, resume, Throws, dbVars
    <2> QED
        BY <2>1, <2>2, SameUdp DEF StoppedIsKnown
<1>6. CASE EndOfInput
    BY <1>6 DEF EndOfInput, AfterRun, LoseClient
<1>7. CASE sigint_handler_fn \/ CLIDone \/ UNCHANGED cliHVars
    <2>1. /\ UNCHANGED <<pc, client, state, insAddr, callStack>>
          /\ UNCHANGED <<dbc, dbcUdp, atPrompt, shown, manualStop>>
        BY <1>7 DEF sigint_handler_fn, CLIDone, cliHVars, appVars, dbVars,
                    promptVars, sigVars
    <2> QED
        BY <2>1, SameUdp DEF StoppedIsKnown
<1> QED
    BY <1>1, <1>2, <1>3, <1>4, <1>5, <1>6, <1>7 DEF CLINext, ThreadStep

(* CLIInv holds in every state of a session on the terminal.               *)
LEMMA CLIInvariant == CLISpec => [](CLIInv /\ LoopInv)
<1>1. CLIInit => CLIInv
    BY DEF CLIInit, AppInit, CLIInv
<1>2. LoopInv /\ LoopInv' /\ CLIInv /\ [CLINext]_cliHVars => CLIInv'
    BY CLIInvStep
<1>3. CLISpec => []LoopInv
    BY CLIImplementsApp, LoopInvariant, PTL DEF CLIImplementsServerApp
<1> QED
    BY <1>1, <1>2, <1>3, PTL DEF CLISpec

(* None of the asserts of DBClient and of run_command fails, whatever the  *)
(* order in which stops, resumes and signals come.                         *)
THEOREM CLIAssertsHold == CLISpec => []CLIAsserts
<1>1. CLIInv => CLIAsserts
    BY DEF CLIInv, CLIAsserts
<1> QED
    BY <1>1, CLIInvariant, PTL

(* At the prompt the client's copy of the program's state, and the state   *)
(* the user was last shown, are those of the debugger.                     *)
THEOREM CLIShowsStops == CLISpec => []StopsAreShown
<1>1. CLIInv => StopsAreShown
    BY DEF CLIInv, StoppedIsKnown, StopsAreShown
<1> QED
    BY <1>1, CLIInvariant, PTL

(* So with the prompt on the terminal the client holds the VM's own next   *)
(* instruction and frames: the chain from the VM over on_update, the       *)
(* debugger and check_stopped to the DBClient breaks nowhere.              *)
THEOREM CLIPromptShowsVM == CLISpec => [](atPrompt => ShowsVM(dbcUdp))
<1>1. CLIInv /\ AppInv => (atPrompt => ShowsVM(dbcUdp))
    BY ReportShowsVM DEF CLIInv, StoppedIsKnown
<1>2. CLISpec => []AppInv
    BY CLIImplementsApp, AppInvariant, PTL DEF CLIImplementsServerApp
<1> QED
    BY <1>1, <1>2, CLIInvariant, PTL

(* The terminal session drives the debugger as module Debugger says.       *)
THEOREM CLIDrivesDebugger == CLISpec => DebuggerSpec
<1>1. CLISpec => AppSafety /\ hasHandler
    BY CLIImplementsApp, PTL DEF CLISpec, CLIInit, CLIImplementsServerApp
<1> QED
    BY <1>1, ServerImplementsDebugger, PTL
=============================================================================
