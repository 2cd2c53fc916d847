----------------------------- MODULE CLIHandler -----------------------------
(***************************************************************************)
(* A debugging session on the terminal of the VM: CLIClientHandler of      *)
(* src/server/cli-client-handler.cc in the place of the client handler of  *)
(* ServerApp, with its DBClient, its prompt and the SIGINT handler that    *)
(* sets g_sig_stop at any time.                                            *)
(*                                                                         *)
(* run_command is two steps, as the user, and a signal, take their time at *)
(* the prompt between them.                                                *)
(***************************************************************************)
EXTENDS ServerApp

VARIABLES
    dbc,         \* state of the handler's DBClient
    dbcUdp,      \* its _udp
    atPrompt,    \* is run_command waiting for a line?
    catchSigint, \* _catch_sigint: is the signal handler installed?
    sigStop,     \* g_sig_stop
    manualStop,  \* g_manual_stop
    shown        \* what the last "state" command printed

promptVars == <<dbc, dbcUdp, atPrompt, shown>>
sigVars    == <<catchSigint, sigStop, manualStop>>
cliHVars   == <<appVars, promptVars, sigVars>>

CLIInit ==
    /\ AppInit /\ enabled /\ hasHandler
    /\ dbc = "NOT_CONNECTED" /\ dbcUdp = Unset /\ atPrompt = FALSE
    /\ shown = Unset
    /\ catchSigint = FALSE /\ sigStop = FALSE /\ manualStop = FALSE

-----------------------------------------------------------------------------
(* The calls of ServerApp::loop().                                         *)

(* setup_connection always connects, and before the loop stops the program *)
(* for the new client.  The signal handler is an option.                   *)
setup_connection ==
    /\ SetupConnection(TRUE)
    /\ dbcUdp' = check_stopped_udp
    /\ dbc' = IF dbcUdp'.stopped THEN "VM_STOPPED" ELSE "VM_RUNNING"
    /\ catchSigint' \in BOOLEAN
    /\ UNCHANGED <<atPrompt, shown, sigStop, manualStop>>

(* Mutant of CheckSignal: the request to stop is forgotten.                *)
MutCheckSignal ==
    /\ pc = "check"
    /\ sigStop' = FALSE
    /\ UNCHANGED <<dbVars, client, promptVars, catchSigint, manualStop>>
    /\ AfterCheck

(* check_stopped: DBClient::stop asserts VM_RUNNING, and asks again what   *)
(* the state is after the stop.                                            *)
CheckSignal ==
    /\ pc = "check"
    /\ \/ /\ sigStop /\ dbc = "VM_RUNNING"
          /\ stop
          /\ dbc' = "VM_STOPPED"
          /\ dbcUdp' = check_stopped_udp'
          /\ sigStop' = FALSE /\ manualStop' = TRUE
       \/ /\ ~sigStop
          /\ UNCHANGED <<dbVars, dbc, dbcUdp, sigStop, manualStop>>
    /\ UNCHANGED <<client, atPrompt, shown, catchSigint>>
    /\ AfterCheck

(* Mutant of ShowPrompt: only a stop by Ctrl-C is announced.               *)
MutShowPrompt ==
    /\ pc = "run" /\ ~atPrompt
    /\ dbc' = "VM_STOPPED"
    /\ dbcUdp' = IF dbc = "VM_RUNNING" THEN check_stopped_udp ELSE dbcUdp
    /\ shown' = IF manualStop THEN dbcUdp' ELSE shown
    /\ manualStop' = FALSE
    /\ atPrompt' = TRUE
    /\ UNCHANGED <<appVars, catchSigint, sigStop>>

(* run_command: the client learns that the program stopped, the user is    *)
(* told where.                                                             *)
ShowPrompt ==
    /\ pc = "run" /\ ~atPrompt
    /\ \/ /\ dbc = "VM_RUNNING"
          /\ dbcUdp' = check_stopped_udp
          /\ dbc' = IF dbcUdp'.stopped THEN "VM_STOPPED" ELSE "VM_RUNNING"
          /\ shown' = dbcUdp'
       \/ /\ dbc = "VM_STOPPED"
          /\ shown' = IF manualStop THEN dbcUdp ELSE shown
          /\ UNCHANGED <<dbc, dbcUdp>>
    /\ manualStop' = FALSE
    /\ atPrompt' = TRUE
    /\ UNCHANGED <<appVars, catchSigint, sigStop>>

(* Mutant of ReadCommand: resume does not change the client's state.       *)
MutReadCommand ==
    /\ pc = "run" /\ atPrompt
    /\ \E type \in ResumeType \ {"ToFinish"} : resume(type)
    /\ atPrompt' = FALSE
    /\ UNCHANGED <<client, dbc, dbcUdp, shown, sigVars>>
    /\ AfterRun

(* A line of input: a command that only reads or is refused, one on        *)
(* breakpoints, or one that resumes the program.                           *)
ReadCommand ==
    /\ pc = "run" /\ atPrompt
    /\ \/ UNCHANGED <<dbVars, dbc>>
       \/ /\ \E addr \in 0 .. MemSize : add_breakpoint(addr) \/ del_breakpoint(addr)
          /\ UNCHANGED dbc
       \/ /\ \E type \in ResumeType \ {"ToFinish"} : resume(type)
          /\ dbc' = IF CanResume THEN "VM_RUNNING" ELSE dbc
    /\ atPrompt' = FALSE
    /\ UNCHANGED <<client, dbcUdp, shown, sigVars>>
    /\ AfterRun

(* Mutant of EndOfInput: the handler itself resumes the program.           *)
MutEndOfInput ==
    /\ pc = "run" /\ atPrompt
    /\ resume("ToFinish")
    /\ client' = "DISCONNECTED"
    /\ atPrompt' = FALSE
    /\ catchSigint' = FALSE
    /\ UNCHANGED <<dbc, dbcUdp, shown, sigStop, manualStop>>
    /\ AfterRun

(* End of input, or a read that the signal interrupted: the client is gone *)
(* and the signal handler with it.                                         *)
EndOfInput ==
    /\ pc = "run" /\ atPrompt
    /\ LoseClient
    /\ atPrompt' = FALSE
    /\ catchSigint' = FALSE
    /\ UNCHANGED <<dbc, dbcUdp, shown, sigStop, manualStop>>
    /\ AfterRun

(* Ctrl-C.                                                                 *)
sigint_handler_fn ==
    /\ catchSigint
    /\ sigStop' = TRUE
    /\ UNCHANGED <<appVars, promptVars, catchSigint, manualStop>>

CLIDone == pc = "done" /\ UNCHANGED cliHVars

ThreadStep == \/ (VMExec \/ LoopSteps) /\ UNCHANGED <<promptVars, sigVars>>
              \/ setup_connection \/ CheckSignal \/ ShowPrompt

CLINext == ThreadStep \/ ReadCommand \/ EndOfInput \/ sigint_handler_fn \/ CLIDone

(* The thread runs on; nothing makes the user type or press Ctrl-C.        *)
CLISpec == CLIInit /\ [][CLINext]_cliHVars /\ WF_cliHVars(ThreadStep)

-----------------------------------------------------------------------------
(* Properties.                                                             *)

(* The asserts of DBClient and of run_command hold whatever order stops,   *)
(* resumes and signals come in: a command runs with the client in          *)
(* VM_STOPPED (cli-client-handler.cc:57) and stop() is called in           *)
(* VM_RUNNING (line 93, db-client.cc:28).                                  *)
CLIAsserts ==
    /\ atPrompt => dbc = "VM_STOPPED"
    /\ pc = "check" => dbc = "VM_RUNNING"

(* At the prompt the state the user was last shown is the program's, once  *)
(* one was shown: every stop is announced, by g_manual_stop when DBClient  *)
(* itself made it (lines 48-60, 93-95), and what "bt" and "state" print is *)
(* never that of an earlier stop.                                          *)
StopsAreShown ==
    atPrompt => /\ dbcUdp = check_stopped_udp
                /\ shown \in {Unset, check_stopped_udp}

(* The terminal handler keeps the contract of ClientHandler.               *)
CLIImplementsServerApp == AppSafety

(* Ctrl-C stops a running program (comment of line 35), or it ended.       *)
CtrlCStops ==
    (sigStop /\ state \in Running /\ client = "CONNECTED")
        ~> (state \notin Running)
=============================================================================
