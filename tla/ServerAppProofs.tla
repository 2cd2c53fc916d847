-------------------------- MODULE ServerAppProofs --------------------------
(***************************************************************************)
(* Proofs about modules Debugger and ServerApp, for every memory size,     *)
(* call depth and client handler.                                          *)
(***************************************************************************)
EXTENDS ServerApp, TLAPS

-----------------------------------------------------------------------------
(* The debugger.                                                           *)

(* What on_update does to the call stack, by what the VM reports: it keeps *)
(* the types, changes the depth by one at most, and after a call the       *)
(* caller's frame knows where it called from while all below it are as     *)
(* they were (debugger.cc:174-185).                                        *)
LEMMA StackAfterKeepsType ==
    ASSUME callStack \in Seq(CallInfos), NEW upd \in UpdateState,
           NEW oldAddr \in Addr, NEW addr \in Addr,
           upd \in {"CALL_SUB", "RET_SUB"} => callStack # <<>>
    PROVE  StackAfter(upd, oldAddr, addr) \in Seq(CallInfos)
<1>1. CASE upd = "CALL_SUB"
    <2> DEFINE caller == [callStack EXCEPT ![Len(callStack)].call = oldAddr]
    <2>1. Len(callStack) \in DOMAIN callStack
        BY <1>1
    <2>2. [callStack[Len(callStack)] EXCEPT !.call = oldAddr] \in CallInfos
        <3>1. callStack[Len(callStack)] \in CallInfos
            BY <2>1
        <3> QED
            BY <3>1 DEF CallInfos
    <2>3. caller \in Seq(CallInfos)
        BY <2>1, <2>2
    <2>4. [start |-> addr, call |-> NotSet] \in CallInfos
        BY DEF CallInfos
    <2>5. Append(caller, [start |-> addr, call |-> NotSet]) \in Seq(CallInfos)
        BY <2>3, <2>4
    <2> QED
        BY <1>1, <2>5 DEF StackAfter
<1>2. CASE upd = "RET_SUB"
    <2>1. Len(callStack) - 1 \in 0 .. Len(callStack)
        BY <1>2
    <2>2. SubSeq(callStack, 1, Len(callStack) - 1) \in Seq(CallInfos)
        BY <2>1
    <2> QED
        BY <1>2, <2>2 DEF StackAfter
<1>3. CASE upd \notin {"CALL_SUB", "RET_SUB"}
    BY <1>3 DEF StackAfter
<1> QED
    BY <1>1, <1>2, <1>3

(* The three shapes of the call stack after an instruction.                *)
LEMMA CallPushes ==
    ASSUME callStack \in Seq(CallInfos), callStack # <<>>,
           NEW oldAddr \in Addr, NEW addr \in Addr,
           NEW s, s = StackAfter("CALL_SUB", oldAddr, addr)
    PROVE  /\ Len(s) = Len(callStack) + 1
           /\ s[Len(callStack) + 1].start = addr
           /\ s[Len(callStack)].call = oldAddr
           /\ s[Len(callStack)].start = callStack[Len(callStack)].start
           /\ \A i \in 1 .. Len(callStack) - 1 : s[i] = callStack[i]
<1> DEFINE caller == [callStack EXCEPT ![Len(callStack)].call = oldAddr]
           new == [start |-> addr, call |-> NotSet]
<1>1. Len(callStack) \in DOMAIN callStack /\ callStack[Len(callStack)] \in CallInfos
    OBVIOUS
<1>2. [callStack[Len(callStack)] EXCEPT !.call = oldAddr] \in CallInfos
    BY <1>1 DEF CallInfos
<1>3. /\ caller \in Seq(CallInfos)
      /\ Len(caller) = Len(callStack)
      /\ \A i \in 1 .. Len(callStack) - 1 : caller[i] = callStack[i]
    BY <1>1, <1>2
<1>4. /\ caller[Len(callStack)].call = oldAddr
      /\ caller[Len(callStack)].start = callStack[Len(callStack)].start
    BY <1>1 DEF CallInfos
<1>5. s = Append(caller, new)
    BY DEF StackAfter
<1>6. Len(callStack) \in Nat \ {0}
    OBVIOUS
<1> HIDE DEF caller
<1>7. /\ Len(s) = Len(caller) + 1
      /\ s[Len(caller) + 1].start = addr
      /\ \A i \in 1 .. Len(caller) : s[i] = caller[i]
    BY <1>3, <1>5
<1> QED
    BY <1>3, <1>4, <1>6, <1>7

(* A RET_SUB drops the innermost frame and leaves the others as they are   *)
(* (debugger.cc:182-185).                                                  *)
LEMMA ReturnPops ==
    ASSUME callStack \in Seq(CallInfos), callStack # <<>>,
           NEW oldAddr, NEW addr,
           NEW s, s = StackAfter("RET_SUB", oldAddr, addr)
    PROVE  /\ Len(s) = Len(callStack) - 1
           /\ \A i \in 1 .. Len(callStack) - 1 : s[i] = callStack[i]
<1>1. s = SubSeq(callStack, 1, Len(callStack) - 1)
    BY DEF StackAfter
<1>2. Len(callStack) \in Nat \ {0}
    OBVIOUS
<1> QED
    BY <1>1, <1>2

-----------------------------------------------------------------------------
(* Every call of the debugger keeps the type invariant: debugger.cc never  *)
(* leaves the address range of the VM, nor its set of states, whatever the *)
(* VM reports and the clients ask.                                         *)
LEMMA TypeStep ==
    ASSUME DebuggerTypeOK, [DebuggerNext]_dbVars
    PROVE  DebuggerTypeOK'
<1> USE DebuggerAssumption
<1>1. CASE \E entry \in Addr : on_init(entry)
    <2> PICK entry \in Addr : on_init(entry)
        BY <1>1
    <2>1. [start |-> entry, call |-> NotSet] \in CallInfos
        BY DEF CallInfos
    <2>2. callStack' \in Seq(CallInfos)
        BY <2>1 DEF on_init
    <2> QED
        BY <2>2 DEF on_init, DebuggerTypeOK, State, Running
<1>2. CASE Update
    <2> PICK upd \in UpdateState, addr \in Addr :
            VMReports(upd, Depth) /\ on_update(upd, addr)
        BY <1>2 DEF Update
    <2>1. CASE UpdateFinished(upd)
        BY <2>1 DEF UpdateFinished, on_update, DebuggerTypeOK, State, Finished
    <2>2. CASE UpdateContinues(upd, addr)
        <3>1. upd \in {"CALL_SUB", "RET_SUB"} => callStack # <<>>
            BY <2>2 DEF VMReports, Depth, UpdateContinues
        <3>2. callStack' \in Seq(CallInfos)
            BY <2>2, <3>1, StackAfterKeepsType DEF UpdateContinues, DebuggerTypeOK
        <3>3. state' \in State
            BY <2>2 DEF UpdateContinues, DebuggerTypeOK, State
        <3> QED
            BY <2>2, <3>2, <3>3 DEF UpdateContinues, on_update, DebuggerTypeOK
    <2> QED
        BY <2>1, <2>2 DEF on_update
<1>3. CASE ClientCall
    <2>1. ASSUME NEW addr \in 0 .. MemSize, add_breakpoint(addr)
          PROVE  DebuggerTypeOK'
        BY <2>1 DEF add_breakpoint, CanAdd, Throws, dbVars, DebuggerTypeOK
    <2>2. ASSUME NEW addr \in 0 .. MemSize, del_breakpoint(addr)
          PROVE  DebuggerTypeOK'
        BY <2>2 DEF del_breakpoint, CanDel, Throws, dbVars, DebuggerTypeOK
    <2>3. ASSUME NEW type \in ResumeType, resume(type)
          PROVE  DebuggerTypeOK'
        <3>1. Depth \in Nat
            BY DEF Depth, DebuggerTypeOK
        <3>2. RunningState(type) \in State
            BY DEF RunningState, ResumeType, State, Running
        <3> QED
            BY <2>3, <3>1, <3>2 DEF resume, CanResume, Throws, dbVars, DebuggerTypeOK
    <2>4. CASE stop
        BY <2>4 DEF stop, Throws, dbVars, DebuggerTypeOK, State
    <2> QED
        BY <1>3, <2>1, <2>2, <2>3, <2>4 DEF ClientCall
<1>4. CASE UNCHANGED dbVars
    BY <1>4 DEF dbVars, DebuggerTypeOK
<1> QED
    BY <1>1, <1>2, <1>3, <1>4 DEF DebuggerNext

(* A debugger that nothing was asked of yet has its types.                 *)
LEMMA DebuggerInitType ==
    ASSUME DebuggerInit
    PROVE  DebuggerTypeOK
<1>1. 0 \in Addr
    BY DebuggerAssumption DEF Addr
<1>2. <<>> \in Seq(CallInfos)
    OBVIOUS
<1>3. "NOT_STARTED" \in State
    BY DEF State
<1>4. callStack \in Seq(CallInfos)
    BY <1>2, Zenon DEF DebuggerInit
<1>5. state \in State /\ insAddr \in Addr /\ breakpts \in SUBSET Addr
    BY <1>1, <1>3 DEF DebuggerInit
<1>6. stepOverDepth \in Nat /\ resumeDepth \in Nat
    BY DEF DebuggerInit
<1> QED
    BY <1>4, <1>5, <1>6 DEF DebuggerTypeOK

(* The debugger's state has its types in every behaviour.                  *)
THEOREM DebuggerTypeCorrect == DebuggerSpec => []DebuggerTypeOK
<1>1. DebuggerInit => DebuggerTypeOK
    BY DebuggerInitType
<1>2. DebuggerTypeOK /\ [DebuggerNext]_dbVars => DebuggerTypeOK'
    BY TypeStep
<1> QED
    BY <1>1, <1>2, PTL DEF DebuggerSpec

-----------------------------------------------------------------------------
(* CallChain is inductive together with the types, for VMs that do not     *)
(* report the return of their main function: then no return empties the    *)
(* stack.                                                                  *)
LEMMA CallChainStep ==
    ASSUME ~TopReturns, DebuggerTypeOK, CallChain, [DebuggerNext]_dbVars
    PROVE  CallChain'
<1> USE DebuggerAssumption
<1>1. CASE \E entry \in Addr : on_init(entry)
    BY <1>1 DEF on_init, CallChain, Depth
<1>2. CASE Update
    <2> PICK upd \in UpdateState, addr \in Addr :
            VMReports(upd, Depth) /\ on_update(upd, addr)
        BY <1>2 DEF Update
    <2>1. /\ callStack \in Seq(CallInfos)
          /\ callStack # <<>>
          /\ \A i \in 1 .. Len(callStack) - 1 : callStack[i].call # NotSet
        BY DEF on_update, Running, CallChain, Depth, DebuggerTypeOK
    <2>2. Len(callStack) \in Nat \ {0}
        BY <2>1
    <2>3. CASE UNCHANGED callStack
        BY <2>1, <2>3 DEF CallChain, Depth
    <2>4. CASE upd = "CALL_SUB" /\ callStack' = StackAfter(upd, insAddr, addr)
        <3>1. insAddr \in Addr /\ insAddr # NotSet
            BY DEF DebuggerTypeOK, Addr, NotSet
        <3>2. /\ Len(callStack') = Len(callStack) + 1
              /\ callStack'[Len(callStack)].call = insAddr
              /\ \A i \in 1 .. Len(callStack) - 1 : callStack'[i] = callStack[i]
            BY <2>1, <2>4, <3>1, CallPushes
        <3>3. ASSUME NEW i \in 1 .. Len(callStack') - 1
              PROVE  callStack'[i].call # NotSet
            BY <2>1, <2>2, <3>1, <3>2
        <3>4. callStack' # <<>>
            BY <2>2, <3>2
        <3> QED
            BY <3>3, <3>4 DEF CallChain, Depth
    <2>5. CASE upd = "RET_SUB" /\ callStack' = StackAfter(upd, insAddr, addr)
        <3>1. Len(callStack) > 1
            BY <2>5 DEF VMReports, Depth
        <3>2. /\ Len(callStack') = Len(callStack) - 1
              /\ \A i \in 1 .. Len(callStack) - 1 : callStack'[i] = callStack[i]
            BY <2>1, <2>5, ReturnPops
        <3>3. ASSUME NEW i \in 1 .. Len(callStack') - 1
              PROVE  callStack'[i].call # NotSet
            BY <2>1, <2>2, <3>2
        <3>4. callStack' # <<>>
            BY <2>2, <3>1, <3>2
        <3> QED
            BY <3>3, <3>4 DEF CallChain, Depth
    <2> QED
        BY <2>3, <2>4, <2>5
        DEF on_update, UpdateFinished, UpdateContinues, StackAfter
<1>3. CASE ClientCall
    <2>1. state # "NOT_STARTED" /\ UNCHANGED callStack
        BY <1>3 DEF ClientCall, add_breakpoint, del_breakpoint, resume, stop, CanResume, Throws, dbVars
    <2> QED
        BY <2>1 DEF CallChain, Depth
<1>4. CASE UNCHANGED dbVars
    BY <1>4 DEF dbVars, CallChain, Depth
<1> QED
    BY <1>1, <1>2, <1>3, <1>4 DEF DebuggerNext

(* Of a VM that does not report the return of its main function, the       *)
(* backtrace is complete at every moment: there is a current frame, and    *)
(* every caller's frame knows the instruction that called.                 *)
THEOREM CallChainHolds == ~TopReturns => (DebuggerSpec => []CallChain)
<1> SUFFICES ASSUME ~TopReturns PROVE DebuggerSpec => []CallChain
    OBVIOUS
<1>1. DebuggerInit => CallChain
    BY DEF DebuggerInit, CallChain
<1>2. DebuggerTypeOK /\ CallChain /\ [DebuggerNext]_dbVars => CallChain'
    BY CallChainStep
<1> QED
    BY <1>1, <1>2, DebuggerTypeCorrect, PTL DEF DebuggerSpec

-----------------------------------------------------------------------------
(* Only resume enters RUNNING_STEP_OVER, and it notes the depth as it does *)
(* (debugger.cc:371-373).                                                  *)
LEMMA StepOverDepthStep ==
    ASSUME StepOverDepthFresh, [DebuggerNext]_dbVars
    PROVE  StepOverDepthFresh'
<1>1. CASE \E entry \in Addr : on_init(entry)
    BY <1>1 DEF on_init, StepOverDepthFresh
<1>2. CASE Update
    BY <1>2 DEF Update, on_update, UpdateFinished, UpdateContinues, Finished,
                StepOverDepthFresh
<1>3. CASE ClientCall
    <2>1. ASSUME NEW type \in ResumeType, resume(type)
          PROVE  StepOverDepthFresh'
        <3>1. type # "StepOver" => RunningState(type) # "RUNNING_STEP_OVER"
            BY DEF RunningState, ResumeType
        <3> QED
            BY <2>1, <3>1 DEF resume, CanResume, Throws, dbVars, StepOverDepthFresh
    <2> QED
        BY <1>3, <2>1 DEF ClientCall, add_breakpoint, del_breakpoint, stop,
                          CanResume, Throws, dbVars, StepOverDepthFresh
<1>4. CASE UNCHANGED dbVars
    BY <1>4 DEF dbVars, StepOverDepthFresh
<1> QED
    BY <1>1, <1>2, <1>3, <1>4 DEF DebuggerNext

(* A step over always compares with the depth it was started at.           *)
THEOREM StepOverDepthIsFresh == DebuggerSpec => []StepOverDepthFresh
<1>1. DebuggerInit => StepOverDepthFresh
    BY DEF DebuggerInit, StepOverDepthFresh
<1>2. StepOverDepthFresh /\ [DebuggerNext]_dbVars => StepOverDepthFresh'
    BY StepOverDepthStep
<1> QED
    BY <1>1, <1>2, PTL DEF DebuggerSpec

(* With a fresh depth to compare with, on_update ends a step over in the   *)
(* right place (debugger.cc:198-203).                                      *)
LEMMA StepOverUpdate ==
    ASSUME StepOverDepthFresh, DebuggerTypeOK, DebuggerTypeOK',
           state = "RUNNING_STEP_OVER", Update, state' \notin Finished
    PROVE  state' = "STOPPED" <=>
               Len(callStack') <= resumeDepth \/ insAddr' \in breakpts
<1> PICK upd \in UpdateState, addr \in Addr : on_update(upd, addr)
    BY DEF Update
<1>1. UpdateContinues(upd, addr)
    BY DEF on_update, UpdateFinished
<1>2. stepOverDepth = resumeDepth
    BY DEF StepOverDepthFresh
<1>3. Len(callStack') \in Nat /\ resumeDepth \in Nat
    BY DEF DebuggerTypeOK
<1>4. StopsAt(upd, addr, Len(callStack')) <=>
          Len(callStack') <= resumeDepth \/ addr \in breakpts
    BY <1>2, <1>3 DEF StopsAt
<1> QED
    BY <1>1, <1>4 DEF UpdateContinues

(* A step over ends exactly at the first instruction that is back in its   *)
(* frame or a caller's, or at a breakpoint: the action property follows    *)
(* from the freshness of the depth, for call stacks of any height.         *)
THEOREM StepOverIsExact == DebuggerSpec => StepOverExact
<1>1. StepOverDepthFresh /\ DebuggerTypeOK /\ DebuggerTypeOK'
      => [state = "RUNNING_STEP_OVER" /\ Update /\ state' \notin Finished
          => (state' = "STOPPED" <=>
                 Len(callStack') <= resumeDepth \/ insAddr' \in breakpts)]_dbVars
    BY StepOverUpdate
<1> QED
    BY <1>1, StepOverDepthIsFresh, DebuggerTypeCorrect, PTL
    DEF DebuggerSpec, StepOverExact

(* No mode but RUNNING_TOFINISH runs through a breakpoint.                 *)
THEOREM BreakpointsStop == DebuggerSpec => BreakpointStops
<1>1. [DebuggerNext]_dbVars
      => [state # "RUNNING_TOFINISH" /\ Update /\ state' \notin Finished
          /\ insAddr' \in breakpts => state' = "STOPPED"]_dbVars
    BY DEF Update, on_update, UpdateFinished, UpdateContinues, StopsAt
<1> QED
    BY <1>1, PTL DEF DebuggerSpec, BreakpointStops

(* A finished program is neither running nor unstarted, so that only       *)
(* client calls are left, and those throw (debugger.cc:361-362, 380-381).  *)
LEMMA FinishedStep ==
    ASSUME state \in Finished, [DebuggerNext]_dbVars
    PROVE  UNCHANGED <<state, insAddr, callStack>>
<1>1. state \notin Running /\ state # "NOT_STARTED"
    BY DEF Finished, Running
<1>2. ClientCall \/ UNCHANGED dbVars
    BY <1>1 DEF DebuggerNext, on_init, Update, on_update
<1> QED
    BY <1>1, <1>2 DEF ClientCall, add_breakpoint, del_breakpoint, resume, stop,
                      CanResume, Throws, dbVars

(* No call of the VM or of a client brings a finished program back or      *)
(* moves the point it ended at.                                            *)
THEOREM FinishedStaysFinal == DebuggerSpec => FinishedIsFinal
<1>1. [DebuggerNext]_dbVars
      => [(state \in Finished) => UNCHANGED <<state, insAddr, callStack>>]_dbVars
    BY FinishedStep DEF dbVars
<1> QED
    BY <1>1, PTL DEF DebuggerSpec, FinishedIsFinal

-----------------------------------------------------------------------------
(* ServerApp.                                                              *)

(* What ServerApp::loop knows at each of its points.                       *)
InsideLoop == {"init", "setup", "top", "check", "connect", "run", "end"}

LoopInv ==
    /\ RunsOnlyWhenResumed
    /\ HandlerCalledInState
    /\ state \in State
    /\ client \in ClientState
    /\ pc \in InsideLoop => enabled /\ state # "NOT_STARTED"
    /\ state = "NOT_STARTED" \/ pc \in {"init", "setup", "connect"}
          => client = "NOT_CONNECTED"
    /\ pc = "connect" => db_is_stopped
    /\ pc = "end" => client = "DISCONNECTED" \/ state \in Running
    /\ pc = "init" => state \in Running
    /\ pc = "vm" => vmUpd \notin Finished
    /\ enabled /\ state \in Finished => vmUpd \in Finished

(* The calls of the debugger that a handler or the loop makes, by what     *)
(* they do to the state: only the VM's report can finish a program.        *)
LEMMA ResumeState ==
    ASSUME NEW type \in ResumeType, resume(type), state \in State
    PROVE  /\ state' \in State
           /\ state \notin Finished => state' \in Running
           /\ state \in Finished => state' = state
<1>1. RunningState(type) \in Running
    BY DEF RunningState, ResumeType, Running
<1> QED
    BY <1>1 DEF resume, CanResume, Throws, dbVars, State

(* Debugger::stop (debugger.cc:377-385) stops what runs and nothing else.  *)
LEMMA StopState ==
    ASSUME stop, state \in State
    PROVE  /\ state' \in State
           /\ state \in Running => state' = "STOPPED"
           /\ state \notin Running => state' = state
BY DEF stop, Throws, dbVars, State

(* Breakpoint calls leave the state alone (debugger.cc:332-357).           *)
LEMMA BreakpointState ==
    ASSUME NEW addr, add_breakpoint(addr) \/ del_breakpoint(addr)
    PROVE  state' = state
BY DEF add_breakpoint, del_breakpoint, Throws, dbVars

(* on_update (debugger.cc:154-218) runs with the program running; it       *)
(* finishes it exactly when the VM reports so, and stops it otherwise or   *)
(* leaves it as it is.                                                     *)
LEMMA OnUpdateState ==
    ASSUME NEW upd \in UpdateState, NEW addr, on_update(upd, addr)
    PROVE  /\ state \in Running
           /\ upd \in Finished => state' = upd
           /\ upd \notin Finished => state' \in {state, "STOPPED"}
BY DEF on_update, UpdateFinished, UpdateContinues

(* What check_stopped reports depends on the state, the execution point    *)
(* and the call stack only (db-client-impl-vmside.cc).                     *)
LEMMA SameUdp ==
    ASSUME UNCHANGED <<state, insAddr, callStack>>
    PROVE  check_stopped_udp' = check_stopped_udp /\ db_is_stopped' = db_is_stopped
BY DEF check_stopped_udp, db_is_stopped

(* It reports a stop exactly when the program does not run.                *)
LEMMA UdpStopped == check_stopped_udp.stopped <=> state \notin Running
<1>1. CASE state \in Running
    BY <1>1 DEF check_stopped_udp, Unset
<1>2. CASE state \notin Running
    BY <1>2 DEF check_stopped_udp
<1> QED
    BY <1>1, <1>2

(* LoopInv is inductive.  Without its conjuncts on "end" and on vmUpd it   *)
(* would not be: that loop() returns to the VM only with the debugger      *)
(* running rests on why the for(;;) was left, and on a finished debugger   *)
(* never seeing another instruction.                                       *)
LEMMA LoopStep ==
    ASSUME LoopInv, vmUpd \in UpdateState, [AppNext]_appVars
    PROVE  LoopInv'
<1> USE DEF LoopInv, RunsOnlyWhenResumed, HandlerCalledInState, db_is_stopped,
            InsideLoop
<1>1. CASE VMExec
    BY <1>1 DEF VMExec, confVars, dbVars, Running, Finished
<1>2. CASE LoopDisabled
    BY <1>2 DEF LoopDisabled, Return, confVars, vmVars, dbVars
<1>3. CASE LoopFirst
    BY <1>3 DEF LoopFirst, on_init, confVars, vmVars, Running, Finished, State
<1>4. CASE InitHandlers
    <2>1. /\ UNCHANGED <<enabled, client, vmUpd>>
          /\ pc = "init" /\ pc' = "setup"
        BY <1>4 DEF InitHandlers, confVars, vmVars
    <2>2. state' \in {state, "STOPPED"} /\ state' \in State
        BY <1>4, StopState DEF InitHandlers, dbVars
    <2> QED
        BY <2>1, <2>2 DEF Running, Finished
<1>5. CASE Shutdown
    BY <1>5 DEF Shutdown, Return, vmVars, Finished, State
<1>6. CASE LoopUpdate
    <2>1. /\ UNCHANGED <<enabled, client, vmUpd>>
          /\ pc = "loop" /\ enabled
          /\ pc' = IF client = "NOT_CONNECTED" THEN "setup" ELSE "top"
        BY <1>6 DEF LoopUpdate, confVars, vmVars
    <2>2. /\ state \in Running
          /\ vmUpd \in Finished => state' = vmUpd
          /\ vmUpd \notin Finished => state' \in {state, "STOPPED"}
        BY <1>6, OnUpdateState DEF LoopUpdate
    <2> QED
        BY <2>1, <2>2 DEF Running, Finished, State
<1>7. CASE LoopTop
    BY <1>7 DEF LoopTop, confVars, vmVars, dbVars, ClientState, State, Running,
                Finished
<1>8. CASE LoopEnd
    <2>1. /\ UNCHANGED <<enabled, client, vmUpd>>
          /\ pc = "end" /\ enabled /\ state # "NOT_STARTED"
          /\ pc' = Return
        BY <1>8 DEF LoopEnd, confVars, vmVars
    <2>2. CASE client = "DISCONNECTED" /\ state = "STOPPED"
        <3>1. state' \in Running /\ state' \in State
            BY <1>8, <2>2, ResumeState DEF LoopEnd, ResumeType, Finished
        <3> QED
            BY <2>1, <2>2, <3>1 DEF Return, Running, Finished
    <2>3. CASE ~(client = "DISCONNECTED" /\ state = "STOPPED")
        <3>1. state' = state
            BY <1>8, <2>3 DEF LoopEnd, dbVars
        <3>2. state \in Running \/ vmUpd \in Finished
            BY <2>1, <2>3 DEF State
        <3> QED
            BY <2>1, <3>1, <3>2 DEF Return
    <2> QED
        BY <2>2, <2>3
<1>9. CASE HandlerSetup
    <2>1. ASSUME NEW found \in BOOLEAN, SetupConnection(found)
          PROVE  LoopInv'
        <3>1. /\ UNCHANGED <<enabled, vmUpd>>
              /\ pc = "setup" /\ pc' = "top"
              /\ client' \in {"CONNECTED", client}
            BY <2>1 DEF SetupConnection, confVars, vmVars
        <3>2. state' \in {state, "STOPPED"} /\ state' \in State
            BY <2>1, StopState DEF SetupConnection, dbVars
        <3> QED
            BY <3>1, <3>2 DEF ClientState, Finished
    <2>2. ASSUME NEW found \in BOOLEAN, Connect(found)
          PROVE  LoopInv'
        BY <2>2 DEF Connect, confVars, vmVars, dbVars, ClientState
    <2> QED
        BY <1>9, <2>1, <2>2 DEF HandlerSetup
<1>10. CASE HandlerCheck
    <2>1. /\ UNCHANGED <<enabled, vmUpd>>
          /\ pc = "check" /\ enabled /\ state # "NOT_STARTED"
          /\ pc' = IF state' \in Running THEN "end" ELSE "run"
        BY <1>10 DEF HandlerCheck, AfterCheck, confVars, vmVars
    <2>2. state \in Running
        BY <2>1 DEF State
    <2>3. CASE stop /\ UNCHANGED client
        <3>1. state' = "STOPPED"
            BY <2>2, <2>3, StopState
        <3> QED
            BY <2>1, <2>3, <3>1 DEF Running, Finished, State
    <2>4. CASE UNCHANGED dbVars /\ client' \in {client, "DISCONNECTED"}
        BY <2>1, <2>2, <2>4 DEF dbVars, ClientState
    <2> QED
        BY <1>10, <2>3, <2>4 DEF HandlerCheck, LoseClient
<1>11. CASE HandlerRun
    <2>1. /\ UNCHANGED <<enabled, vmUpd>>
          /\ pc = "run" /\ enabled /\ state # "NOT_STARTED"
          /\ pc' = "top"
        BY <1>11 DEF HandlerRun, AfterRun, confVars, vmVars
    <2>2. client' \in {client, "DISCONNECTED"}
        BY <1>11 DEF HandlerRun, LoseClient
    <2>3. state' \in State /\ (state' = state \/ state' \in Running)
        <3>1. CASE UNCHANGED dbVars
            BY <3>1 DEF dbVars
        <3>2. CASE \E type \in ResumeType : resume(type)
            BY <3>2, ResumeState
        <3>3. CASE \E addr \in 0 .. MemSize :
                      add_breakpoint(addr) \/ del_breakpoint(addr)
            BY <3>3, BreakpointState
        <3> QED
            BY <1>11, <3>1, <3>2, <3>3 DEF HandlerRun, LoseClient
    <2> QED
        BY <2>1, <2>2, <2>3 DEF ClientState, Running, Finished
<1>12. CASE UNCHANGED appVars
    BY <1>12 DEF appVars, confVars, vmVars, dbVars
<1> QED
    BY <1>1, <1>2, <1>3, <1>4, <1>5, <1>6, <1>7, <1>8, <1>9, <1>10, <1>11, <1>12
    DEF AppNext, LoopSteps, AppDone

(* Only the VM moves the VM: loop() and the handlers leave it alone.       *)
LEMMA VMAlone ==
    ASSUME [AppNext]_appVars
    PROVE  VMExec \/ UNCHANGED vmVars
BY DEF AppNext, appVars, vmVars, LoopSteps, LoopDisabled, LoopFirst, InitHandlers,
       Shutdown, LoopUpdate, LoopTop, LoopEnd, HandlerSetup, SetupConnection,
       Connect, HandlerCheck, AfterCheck, HandlerRun, AfterRun, AppDone

(* LoopInv holds in every state of the server.                             *)
LEMMA LoopInvariant == AppSafety => [](LoopInv /\ vmUpd \in UpdateState)
<1>1. AppInit => LoopInv /\ vmUpd \in UpdateState
    BY DEF AppInit, DebuggerInit, LoopInv, RunsOnlyWhenResumed,
           HandlerCalledInState, InsideLoop, State, ClientState, Finished,
           UpdateState
<1>2. LoopInv /\ vmUpd \in UpdateState /\ [AppNext]_appVars
      => (LoopInv /\ vmUpd \in UpdateState)'
    BY LoopStep, VMAlone DEF VMExec, vmVars
<1> QED
    BY <1>1, <1>2, PTL DEF AppSafety

-----------------------------------------------------------------------------
(* The VM executes no instruction while the debugger is stopped, and       *)
(* on_update is only reached in the states its assert allows, for any      *)
(* client handler that keeps the contract of class ClientHandler.          *)
THEOREM ProgramRunsOnlyWhenResumed == AppSafety => []RunsOnlyWhenResumed
BY LoopInvariant, PTL DEF LoopInv

(* Handlers are only called in the states they are written for.            *)
THEOREM HandlersCalledInState == AppSafety => []HandlerCalledInState
BY LoopInvariant, PTL DEF LoopInv

(* A client that connects gets hold of the program before it executes      *)
(* another instruction.                                                    *)
THEOREM NewClientsStop == AppSafety => NewClientStops
<1>1. ASSUME LoopInv, [AppNext]_appVars,
             client = "NOT_CONNECTED", client' = "CONNECTED"
      PROVE  state' \notin Running
    <2>1. PICK found \in BOOLEAN : SetupConnection(found) \/ Connect(found)
        BY <1>1 DEF AppNext, appVars, VMExec, LoopSteps, LoopDisabled, LoopFirst,
                InitHandlers, Shutdown, LoopUpdate, LoopTop, LoopEnd, HandlerSetup,
                HandlerCheck, HandlerRun, LoseClient, AppDone
    <2>2. CASE SetupConnection(found)
        <3>1. state' = "STOPPED" \/ (db_is_stopped /\ state' = state)
            BY <1>1, <2>2, StopState
            DEF SetupConnection, dbVars, LoopInv, db_is_stopped, InsideLoop, State
        <3> QED
            BY <3>1 DEF db_is_stopped, Running, Finished
    <2>3. CASE Connect(found)
        BY <1>1, <2>3 DEF Connect, dbVars, LoopInv, db_is_stopped, Running, Finished
    <2> QED
        BY <2>1, <2>2, <2>3
<1>2. LoopInv /\ [AppNext]_appVars
      => [client = "NOT_CONNECTED" /\ client' = "CONNECTED"
          => state' \notin Running]_appVars
    BY <1>1
<1> QED
    BY <1>2, LoopInvariant, PTL DEF AppSafety, NewClientStops

-----------------------------------------------------------------------------
(* The call stack of the debugger and the frames of the VM.  The first n   *)
(* of them agree: the functions they are in, and where each but the last   *)
(* called from.                                                            *)
MirrorsUpTo(n) ==
    /\ \A i \in 1 .. n : callStack[i].start = vmFrames[i].start
    /\ \A i \in 1 .. n - 1 : callStack[i].call = vmFrames[i + 1].from

SameFrames == Depth = Len(vmFrames) /\ MirrorsUpTo(Depth)

(* Between an instruction and the on_update for it the debugger is one     *)
(* instruction behind: a frame more or less, and it still holds the        *)
(* address the call was made from.                                         *)
OneBehind ==
    /\ VMReports(vmUpd, Depth)
    /\ vmUpd \notin {"CALL_SUB", "RET_SUB"} => SameFrames
    /\ vmUpd = "CALL_SUB" =>
          /\ Len(vmFrames) = Depth + 1
          /\ MirrorsUpTo(Depth)
          /\ vmFrames[Depth + 1].start = vmPc
          /\ vmFrames[Depth + 1].from = insAddr
    /\ vmUpd = "RET_SUB" =>
          Depth = Len(vmFrames) + 1 /\ MirrorsUpTo(Len(vmFrames))

(* What makes ShownStateIsVMState inductive: the two stacks are compared   *)
(* at every control point, not only where the client looks.                *)
MirrorInv ==
    enabled =>
    /\ pc = "loop" /\ state = "NOT_STARTED" =>
          Len(vmFrames) = 1 /\ vmFrames[1].start = vmPc
    /\ pc = "loop" /\ state # "NOT_STARTED" => OneBehind
    /\ pc # "loop" => SameFrames /\ (state \notin Finished => insAddr = vmPc)

FrameInfos == [start : Addr, from : Addr \cup {NotSet}]

(* The frames of the VM keep their type.                                   *)
LEMMA VMFramesType ==
    ASSUME vmFrames \in Seq(FrameInfos), vmPc \in Addr,
           NEW upd \in UpdateState, NEW addr \in Addr,
           VMReports(upd, Len(vmFrames))
    PROVE  VMFramesAfter(upd, addr) \in Seq(FrameInfos)
<1>1. CASE upd = "CALL_SUB"
    <2>1. [start |-> addr, from |-> vmPc] \in FrameInfos
        BY DEF FrameInfos
    <2> QED
        BY <1>1, <2>1 DEF VMFramesAfter
<1>2. CASE upd = "RET_SUB"
    <2>1. Len(vmFrames) - 1 \in 0 .. Len(vmFrames)
        BY <1>2, DebuggerAssumption DEF VMReports
    <2>2. SubSeq(vmFrames, 1, Len(vmFrames) - 1) \in Seq(FrameInfos)
        BY <2>1
    <2> QED
        BY <1>2, <2>2 DEF VMFramesAfter
<1>3. CASE upd \notin {"CALL_SUB", "RET_SUB"}
    BY <1>3 DEF VMFramesAfter
<1> QED
    BY <1>1, <1>2, <1>3

(* To the debugger every step of the server is one of its own, for which   *)
(* the VM's report fits the debugger's own depth, or the _shutdown() of a  *)
(* server without handlers (server-app.cc:63-66).                          *)
LEMMA DebuggerStep ==
    ASSUME LoopInv, AppTypeOK, MirrorInv, [AppNext]_appVars
    PROVE  [DebuggerNext]_dbVars \/ Shutdown
<1>1. CASE VMExec \/ LoopDisabled \/ LoopTop \/ UNCHANGED appVars
    BY <1>1 DEF VMExec, LoopDisabled, LoopTop, appVars
<1>2. CASE LoopFirst
    BY <1>2 DEF LoopFirst, DebuggerNext, AppTypeOK
<1>3. CASE LoopUpdate
    <2>1. VMReports(vmUpd, Depth) /\ on_update(vmUpd, vmPc)
        BY <1>3 DEF LoopUpdate, MirrorInv, OneBehind
    <2> QED
        BY <2>1 DEF Update, DebuggerNext, AppTypeOK
<1>4. ASSUME pc \in InsideLoop, stop
      PROVE  DebuggerNext
    BY <1>4 DEF LoopInv, DebuggerNext, ClientCall
<1>5. ASSUME pc \in InsideLoop, NEW type \in ResumeType, resume(type)
      PROVE  DebuggerNext
    BY <1>5 DEF LoopInv, DebuggerNext, ClientCall
<1>6. CASE InitHandlers \/ HandlerSetup \/ HandlerCheck
    BY <1>4, <1>6 DEF InitHandlers, HandlerSetup, SetupConnection, Connect,
                      HandlerCheck, AfterCheck, LoseClient, InsideLoop
<1>7. CASE LoopEnd
    BY <1>5, <1>7 DEF LoopEnd, InsideLoop, ResumeType
<1>8. CASE HandlerRun
    <2>1. pc \in InsideLoop /\ state # "NOT_STARTED"
        BY <1>8 DEF HandlerRun, AfterRun, InsideLoop, LoopInv
    <2>2. ASSUME NEW addr \in 0 .. MemSize,
                 add_breakpoint(addr) \/ del_breakpoint(addr)
          PROVE  DebuggerNext
        BY <2>1, <2>2 DEF DebuggerNext, ClientCall
    <2> QED
        BY <1>5, <1>8, <2>1, <2>2 DEF HandlerRun, LoseClient
<1> QED
    BY <1>1, <1>2, <1>3, <1>6, <1>7, <1>8 DEF AppNext, LoopSteps, AppDone

(* The types of the server are kept by every step.                         *)
LEMMA AppTypeStep ==
    ASSUME LoopInv, LoopInv', AppTypeOK, MirrorInv, [AppNext]_appVars
    PROVE  AppTypeOK'
<1>1. DebuggerTypeOK'
    <2>1. CASE Shutdown
        <3>1. 0 \in Addr /\ "NOT_STARTED" \in State
            BY DebuggerAssumption DEF Addr, State
        <3>2. <<>> \in Seq(CallInfos)
            OBVIOUS
        <3>3. callStack' \in Seq(CallInfos)
            BY <2>1, <3>2, Zenon DEF Shutdown
        <3> QED
            BY <2>1, <3>1, <3>3 DEF Shutdown, AppTypeOK, DebuggerTypeOK
    <2> QED
        BY <2>1, DebuggerStep, TypeStep DEF AppTypeOK
<1>2. vmPc' \in Addr /\ vmUpd' \in UpdateState /\ vmFrames' \in Seq(FrameInfos)
    <2>1. CASE VMExec
        BY <2>1, VMFramesType DEF VMExec, AppTypeOK, FrameInfos
    <2>2. CASE UNCHANGED vmVars
        BY <2>2 DEF vmVars, AppTypeOK, FrameInfos
    <2> QED
        BY <2>1, <2>2, VMAlone
<1>3. pc' \in {"vm", "loop", "init", "setup", "top", "check", "connect", "run",
               "end", "done"}
    BY DEF AppNext, appVars, VMExec, LoopSteps, LoopDisabled, LoopFirst,
           InitHandlers, Shutdown, LoopUpdate, LoopTop, LoopEnd, Return,
           HandlerSetup, SetupConnection, Connect, HandlerCheck, AfterCheck,
           HandlerRun, AfterRun, AppDone, AppTypeOK, ClientState
<1>4. enabled' \in BOOLEAN /\ nostart' \in BOOLEAN /\ hasHandler' \in BOOLEAN
    BY DEF AppNext, appVars, confVars, VMExec, LoopSteps, LoopDisabled, LoopFirst,
           InitHandlers, Shutdown, LoopUpdate, LoopTop, LoopEnd,
           HandlerSetup, SetupConnection, Connect, HandlerCheck, AfterCheck,
           HandlerRun, AfterRun, AppDone, AppTypeOK
<1> QED
    BY <1>1, <1>2, <1>3, <1>4 DEF LoopInv, AppTypeOK, FrameInfos

(* Steps that are none of the VM's and no report to the debugger leave     *)
(* both stacks and the execution points alone, and no finished program     *)
(* comes back.                                                             *)
LEMMA QuietStep ==
    ASSUME LoopInv,
           \/ InitHandlers \/ LoopTop \/ LoopEnd
           \/ HandlerSetup \/ HandlerCheck \/ HandlerRun
    PROVE  /\ UNCHANGED <<enabled, insAddr, callStack, vmPc, vmFrames>>
           /\ pc # "loop" /\ pc' # "loop"
           /\ state \in Finished => state' = state
<1>1. ASSUME stop
      PROVE  /\ UNCHANGED <<insAddr, callStack>>
             /\ state \in Finished => state' = state
    BY <1>1 DEF stop, Throws, dbVars, Running, Finished
<1>2. ASSUME NEW type \in ResumeType, resume(type)
      PROVE  /\ UNCHANGED <<insAddr, callStack>>
             /\ state \in Finished => state' = state
    BY <1>2 DEF resume, CanResume, Throws, dbVars
<1>3. ASSUME NEW addr \in 0 .. MemSize, add_breakpoint(addr) \/ del_breakpoint(addr)
      PROVE  UNCHANGED <<state, insAddr, callStack>>
    BY <1>3 DEF add_breakpoint, del_breakpoint, Throws, dbVars
<1>4. CASE InitHandlers
    BY <1>1, <1>4 DEF InitHandlers, confVars, vmVars, dbVars
<1>5. CASE LoopTop
    BY <1>5 DEF LoopTop, confVars, vmVars, dbVars, LoopInv, ClientState
<1>6. CASE LoopEnd
    BY <1>2, <1>6 DEF LoopEnd, Return, ResumeType, confVars, vmVars, dbVars
<1>7. CASE HandlerSetup
    BY <1>1, <1>7 DEF HandlerSetup, SetupConnection, Connect, confVars, vmVars, dbVars
<1>8. CASE HandlerCheck
    BY <1>1, <1>8 DEF HandlerCheck, AfterCheck, LoseClient, confVars, vmVars, dbVars
<1>9. CASE HandlerRun
    <2>1. /\ UNCHANGED <<enabled, vmPc, vmFrames>>
          /\ pc = "run" /\ pc' = "top"
        BY <1>9 DEF HandlerRun, AfterRun, confVars, vmVars
    <2>2. /\ UNCHANGED <<insAddr, callStack>>
          /\ state \in Finished => state' = state
        BY <1>2, <1>3, <1>9 DEF HandlerRun, LoseClient, dbVars
    <2> QED
        BY <2>1, <2>2
<1> QED
    BY <1>4, <1>5, <1>6, <1>7, <1>8, <1>9

(* The VM executes an instruction: the debugger falls one behind.          *)
LEMMA VMExecFallsBehind ==
    ASSUME AppTypeOK, SameFrames, insAddr = vmPc, VMExec
    PROVE  OneBehind'
<1> USE DebuggerAssumption
<1> PICK upd \in UpdateState, addr \in Addr :
        /\ VMReports(upd, Len(vmFrames))
        /\ vmUpd' = upd
        /\ vmPc' = addr
        /\ vmFrames' = VMFramesAfter(upd, addr)
    BY DEF VMExec
<1>1. UNCHANGED <<callStack, insAddr>>
    BY DEF VMExec, dbVars
<1>2. Depth' = Depth /\ Depth = Len(vmFrames) /\ Len(vmFrames) \in Nat
    BY <1>1 DEF Depth, SameFrames, AppTypeOK
<1>3. VMReports(vmUpd, Depth)'
    BY <1>2 DEF VMReports
<1>4. vmFrames \in Seq(FrameInfos)
    BY DEF AppTypeOK, FrameInfos
<1>5. CASE upd = "CALL_SUB"
    <2> DEFINE new == [start |-> addr, from |-> vmPc]
    <2>1. vmFrames' = Append(vmFrames, new) /\ new.start = addr /\ new.from = vmPc
        BY <1>5 DEF VMFramesAfter
    <2>2. new \in FrameInfos
        BY DEF AppTypeOK, FrameInfos
    <2> HIDE DEF new
    <2>3. /\ Len(vmFrames') = Len(vmFrames) + 1
          /\ vmFrames'[Len(vmFrames) + 1] = new
          /\ \A i \in 1 .. Len(vmFrames) : vmFrames'[i] = vmFrames[i]
        BY <1>4, <2>1, <2>2
    <2>4. MirrorsUpTo(Depth)'
        BY <1>1, <1>2, <2>3 DEF SameFrames, MirrorsUpTo
    <2> QED
        BY <1>1, <1>2, <1>3, <1>5, <2>1, <2>3, <2>4 DEF OneBehind
<1>6. CASE upd = "RET_SUB"
    <2>1. vmFrames' = SubSeq(vmFrames, 1, Len(vmFrames) - 1) /\ Len(vmFrames) > 0
        BY <1>2, <1>6 DEF VMFramesAfter, VMReports
    <2>2. /\ Len(vmFrames') = Len(vmFrames) - 1
          /\ \A i \in 1 .. Len(vmFrames) - 1 : vmFrames'[i] = vmFrames[i]
        BY <1>2, <1>4, <2>1
    <2>3. MirrorsUpTo(Len(vmFrames))'
        BY <1>1, <1>2, <2>2 DEF SameFrames, MirrorsUpTo
    <2> QED
        BY <1>1, <1>2, <1>3, <1>6, <2>2, <2>3 DEF OneBehind
<1>7. CASE upd \notin {"CALL_SUB", "RET_SUB"}
    <2>1. UNCHANGED vmFrames
        BY <1>7 DEF VMFramesAfter
    <2>2. SameFrames'
        BY <1>1, <1>2, <2>1 DEF SameFrames, MirrorsUpTo
    <2> QED
        BY <1>3, <1>7, <2>2 DEF OneBehind
<1> QED
    BY <1>5, <1>6, <1>7

(* on_update catches up with the VM (debugger.cc:174-185): the call it     *)
(* notes in the caller's frame is the one the VM made.                     *)
LEMMA OnUpdateCatchesUp ==
    ASSUME AppTypeOK, OneBehind, on_update(vmUpd, vmPc), UNCHANGED vmVars
    PROVE  SameFrames' /\ (state' \notin Finished => insAddr' = vmPc')
<1> USE DebuggerAssumption
<1>1. UNCHANGED <<vmPc, vmFrames, vmUpd>>
    BY DEF vmVars
<1>2. /\ callStack \in Seq(CallInfos) /\ insAddr \in Addr /\ vmPc \in Addr
      /\ Len(callStack) \in Nat /\ Len(vmFrames) \in Nat
    BY DEF AppTypeOK, DebuggerTypeOK
<1>3. CASE UpdateFinished(vmUpd)
    <2>1. SameFrames
        BY <1>3 DEF UpdateFinished, OneBehind, Finished
    <2>2. SameFrames'
        BY <1>1, <1>3, <2>1 DEF UpdateFinished, SameFrames, MirrorsUpTo, Depth
    <2> QED
        BY <1>3, <2>2 DEF UpdateFinished
<1>4. CASE UpdateContinues(vmUpd, vmPc)
    <2>1. insAddr' = vmPc' /\ callStack' = StackAfter(vmUpd, insAddr, vmPc)
        BY <1>1, <1>4 DEF UpdateContinues
    <2>2. CASE vmUpd = "CALL_SUB"
        <3>1. /\ Len(vmFrames) = Len(callStack) + 1 /\ MirrorsUpTo(Len(callStack))
              /\ vmFrames[Len(callStack) + 1].start = vmPc
              /\ vmFrames[Len(callStack) + 1].from = insAddr
              /\ Len(callStack) > 0
            BY <1>2, <2>2 DEF OneBehind, Depth, VMReports
        <3>2. callStack # <<>>
            BY <3>1
        <3>3. /\ Len(callStack') = Len(callStack) + 1
              /\ callStack'[Len(callStack) + 1].start = vmPc
              /\ callStack'[Len(callStack)].call = insAddr
              /\ callStack'[Len(callStack)].start = callStack[Len(callStack)].start
              /\ \A i \in 1 .. Len(callStack) - 1 : callStack'[i] = callStack[i]
            BY <1>2, <2>1, <2>2, <3>2, CallPushes
        <3>4. ASSUME NEW i \in 1 .. Len(callStack) + 1
              PROVE  callStack'[i].start = vmFrames[i].start
            BY <1>2, <3>1, <3>3 DEF MirrorsUpTo
        <3>5. ASSUME NEW i \in 1 .. Len(callStack)
              PROVE  callStack'[i].call = vmFrames[i + 1].from
            BY <1>2, <3>1, <3>3 DEF MirrorsUpTo
        <3>6. SameFrames'
            BY <1>1, <1>2, <3>1, <3>3, <3>4, <3>5 DEF SameFrames, MirrorsUpTo, Depth
        <3> QED
            BY <2>1, <3>6
    <2>3. CASE vmUpd = "RET_SUB"
        <3>1. Len(callStack) = Len(vmFrames) + 1 /\ MirrorsUpTo(Len(vmFrames))
            BY <2>3 DEF OneBehind, Depth
        <3>2. callStack # <<>>
            BY <1>2, <3>1
        <3>3. /\ Len(callStack') = Len(callStack) - 1
              /\ \A i \in 1 .. Len(callStack) - 1 : callStack'[i] = callStack[i]
            BY <1>2, <2>1, <2>3, <3>2, ReturnPops
        <3>4. SameFrames'
            BY <1>1, <1>2, <3>1, <3>3 DEF SameFrames, MirrorsUpTo, Depth
        <3> QED
            BY <2>1, <3>4
    <2>4. CASE vmUpd \notin {"CALL_SUB", "RET_SUB"}
        <3>1. callStack' = callStack
            BY <2>1, <2>4 DEF StackAfter
        <3>2. SameFrames'
            BY <1>1, <2>4, <3>1 DEF OneBehind, SameFrames, MirrorsUpTo, Depth
        <3> QED
            BY <2>1, <3>2
    <2> QED
        BY <2>2, <2>3, <2>4
<1> QED
    BY <1>3, <1>4 DEF on_update

(* MirrorInv is kept by every step of the server.                          *)
LEMMA MirrorStep ==
    ASSUME LoopInv, LoopInv', AppTypeOK, MirrorInv, [AppNext]_appVars
    PROVE  MirrorInv'
<1>1. CASE VMExec
    <2>1. /\ UNCHANGED <<enabled, state>>
          /\ pc = "vm" /\ pc' = "loop"
        BY <1>1 DEF VMExec, confVars, dbVars
    <2>2. ASSUME enabled
          PROVE  OneBehind' /\ state # "NOT_STARTED"
        <3>1. state \in Running
            BY <2>1, <2>2 DEF LoopInv, RunsOnlyWhenResumed
        <3>2. SameFrames /\ insAddr = vmPc
            BY <2>1, <2>2, <3>1 DEF MirrorInv, Running, Finished
        <3> QED
            BY <1>1, <3>1, <3>2, VMExecFallsBehind DEF Running
    <2> QED
        BY <2>1, <2>2 DEF MirrorInv
<1>2. CASE LoopDisabled
    BY <1>2 DEF LoopDisabled, MirrorInv, confVars
<1>3. CASE LoopFirst
    <2>1. /\ enabled /\ pc' = "init"
          /\ Len(vmFrames) = 1 /\ vmFrames[1].start = vmPc
          /\ UNCHANGED <<vmPc, vmFrames>>
        BY <1>3 DEF LoopFirst, MirrorInv, vmVars
    <2>2. insAddr' = vmPc /\ callStack' = <<[start |-> vmPc, call |-> NotSet]>>
        BY <1>3 DEF LoopFirst, on_init
    <2>3. Len(callStack') = 1 /\ callStack'[1].start = vmPc
        BY <2>2
    <2>4. SameFrames'
        BY <2>1, <2>3 DEF SameFrames, MirrorsUpTo, Depth
    <2> QED
        BY <2>1, <2>2, <2>4 DEF MirrorInv
<1>4. CASE Shutdown
    BY <1>4 DEF Shutdown, MirrorInv
<1>5. CASE LoopUpdate
    <2>1. /\ OneBehind /\ on_update(vmUpd, vmPc) /\ UNCHANGED vmVars
          /\ pc' # "loop"
        BY <1>5 DEF LoopUpdate, MirrorInv
    <2> QED
        BY <2>1, OnUpdateCatchesUp DEF MirrorInv
<1>6. CASE \/ InitHandlers \/ LoopTop \/ LoopEnd
           \/ HandlerSetup \/ HandlerCheck \/ HandlerRun
    <2>1. /\ UNCHANGED <<enabled, insAddr, callStack, vmPc, vmFrames>>
          /\ pc # "loop" /\ pc' # "loop"
          /\ state' \notin Finished => state \notin Finished
        BY <1>6, QuietStep
    <2> QED
        BY <2>1 DEF MirrorInv, SameFrames, MirrorsUpTo, Depth
<1>7. CASE UNCHANGED appVars
    BY <1>7 DEF appVars, confVars, vmVars, dbVars, MirrorInv, OneBehind, SameFrames,
                MirrorsUpTo, Depth, VMReports
<1> QED
    BY <1>1, <1>2, <1>3, <1>4, <1>5, <1>6, <1>7 DEF AppNext, LoopSteps, AppDone

AppInv == LoopInv /\ AppTypeOK /\ MirrorInv

(* The three invariants together are kept by every step of the server.     *)
LEMMA AppInvStep ==
    ASSUME AppInv, [AppNext]_appVars
    PROVE  AppInv'
<1>1. LoopInv'
    BY LoopStep DEF AppInv, AppTypeOK
<1> QED
    BY <1>1, AppTypeStep, MirrorStep DEF AppInv

(* They hold of the state the VM makes its first call of loop() in.        *)
LEMMA AppInvInit ==
    ASSUME AppInit
    PROVE  AppInv
<1> USE DebuggerAssumption
<1>1. LoopInv
    BY DEF AppInit, DebuggerInit, LoopInv, RunsOnlyWhenResumed, HandlerCalledInState,
           InsideLoop, State, ClientState, Finished, UpdateState
<1>2. vmPc \in Addr /\ vmFrames = <<[start |-> vmPc, from |-> NotSet]>>
    BY DEF AppInit
<1>3. vmFrames \in Seq(FrameInfos)
    <2>1. [start |-> vmPc, from |-> NotSet] \in FrameInfos
        BY <1>2 DEF FrameInfos
    <2> QED
        BY <1>2, <2>1
<1>4. DebuggerTypeOK
    BY DebuggerInitType DEF AppInit
<1>5. AppTypeOK
    BY <1>3, <1>4 DEF AppInit, AppTypeOK, ClientState, UpdateState, FrameInfos
<1>6. Len(vmFrames) = 1 /\ vmFrames[1].start = vmPc
    BY <1>2
<1>7. MirrorInv
    BY <1>6 DEF AppInit, DebuggerInit, MirrorInv
<1> QED
    BY <1>1, <1>5, <1>7 DEF AppInv

(* So in every state of the server.                                        *)
LEMMA AppInvariant == AppSafety => []AppInv
<1>1. AppInit => AppInv
    BY AppInvInit
<1>2. AppInv /\ [AppNext]_appVars => AppInv'
    BY AppInvStep
<1> QED
    BY <1>1, <1>2, PTL DEF AppSafety

-----------------------------------------------------------------------------
(* The state of the server has its types in every behaviour.               *)
THEOREM AppTypeCorrect == AppSafety => []AppTypeOK
BY AppInvariant, PTL DEF AppInv

(* What a client is shown is the truth, for every program, call depth and  *)
(* handler: whenever run_command is called, the debugger's execution point *)
(* and backtrace are the VM's, although on_update only learns after each   *)
(* instruction what it did (server-app.cc:79, debugger.cc:174-185).        *)
THEOREM ClientsAreShownTheTruth == AppSafety => []ShownStateIsVMState
<1>1. AppInv => ShownStateIsVMState
    <2> SUFFICES ASSUME AppInv, pc = "run" PROVE ShownStateIsVMState
        BY DEF ShownStateIsVMState
    <2>1. SameFrames /\ (state \notin Finished => insAddr = vmPc)
        BY DEF AppInv, MirrorInv, LoopInv, InsideLoop
    <2> QED
        BY <2>1 DEF SameFrames, MirrorsUpTo, ShownStateIsVMState, Finished
<1> QED
    BY <1>1, AppInvariant, PTL

(* Driven by loop() the debugger keeps every caller's address, for VMs     *)
(* that do not report the return of their main function.                   *)
THEOREM ServerKeepsCallChain == ~TopReturns => (AppSafety => []CallChain)
<1> SUFFICES ASSUME ~TopReturns PROVE AppSafety => []CallChain
    OBVIOUS
<1>1. AppInit => CallChain
    BY DEF AppInit, DebuggerInit, CallChain
<1>2. ASSUME AppInv, CallChain, [AppNext]_appVars
      PROVE  CallChain'
    <2>1. CASE Shutdown
        BY <2>1 DEF Shutdown, CallChain
    <2>2. CASE [DebuggerNext]_dbVars
        BY <1>2, <2>2, CallChainStep DEF AppInv, AppTypeOK
    <2> QED
        BY <1>2, <2>1, <2>2, DebuggerStep DEF AppInv
<1> QED
    BY <1>1, <1>2, AppInvariant, PTL DEF AppSafety

(* The depth a step over compares with stays the one it was started at.    *)
LEMMA ServerStepOverDepth == AppSafety => []StepOverDepthFresh
<1>1. AppInit => StepOverDepthFresh
    BY DEF AppInit, DebuggerInit, StepOverDepthFresh
<1>2. ASSUME AppInv, StepOverDepthFresh, [AppNext]_appVars
      PROVE  StepOverDepthFresh'
    <2>1. CASE Shutdown
        BY <2>1 DEF Shutdown, StepOverDepthFresh
    <2>2. CASE [DebuggerNext]_dbVars
        BY <1>2, <2>2, StepOverDepthStep
    <2> QED
        BY <1>2, <2>1, <2>2, DebuggerStep DEF AppInv
<1> QED
    BY <1>1, <1>2, AppInvariant, PTL DEF AppSafety

(* A step over that a client asks for ends exactly where control is back   *)
(* in its frame or a caller's, or at a breakpoint, whatever the handlers   *)
(* do in between (server-app.cc:79, debugger.cc:198-203).                  *)
THEOREM ServerStepOverIsExact == AppSafety => StepOverExact
<1>1. StepOverDepthFresh /\ AppInv /\ AppInv'
      => [state = "RUNNING_STEP_OVER" /\ Update /\ state' \notin Finished
          => (state' = "STOPPED" <=>
                 Len(callStack') <= resumeDepth \/ insAddr' \in breakpts)]_dbVars
    BY StepOverUpdate DEF AppInv, AppTypeOK
<1> QED
    BY <1>1, ServerStepOverDepth, AppInvariant, PTL DEF StepOverExact

(* A finished program stays finished for every client, the lost ones       *)
(* included, whose program loop() resumes only if it is STOPPED            *)
(* (server-app.cc:110-114).                                                *)
THEOREM ServerFinishedStaysFinal == AppSafety => FinishedIsFinal
<1>1. ASSUME AppInv, [AppNext]_appVars, state \in Finished
      PROVE  UNCHANGED <<state, insAddr, callStack>>
    <2>1. ~Shutdown
        BY <1>1 DEF Shutdown, AppInv, LoopInv, Running, Finished
    <2>2. [DebuggerNext]_dbVars
        BY <1>1, <2>1, DebuggerStep DEF AppInv
    <2> QED
        BY <1>1, <2>2, FinishedStep
<1>2. AppInv /\ [AppNext]_appVars
      => [(state \in Finished) => UNCHANGED <<state, insAddr, callStack>>]_dbVars
    BY <1>1 DEF dbVars
<1> QED
    BY <1>2, AppInvariant, PTL DEF AppSafety, FinishedIsFinal

(* A server with a handler drives the debugger as module Debugger says: it *)
(* never reports an update a debugger of that depth could not get, calls   *)
(* on_update only while the program runs and client functions only once it *)
(* started.  What is proved of DebuggerSpec holds of the server.           *)
THEOREM ServerImplementsDebugger == AppSafety /\ hasHandler => DebuggerSpec
<1>1. AppInit => DebuggerInit
    BY DEF AppInit
<1>2. hasHandler /\ [AppNext]_appVars => hasHandler'
    BY DEF AppNext, appVars, confVars, VMExec, LoopSteps, LoopDisabled, LoopFirst,
           InitHandlers, Shutdown, LoopUpdate, LoopTop, LoopEnd,
           HandlerSetup, SetupConnection, Connect, HandlerCheck, AfterCheck,
           HandlerRun, AfterRun, AppDone
<1>3. AppInv /\ hasHandler /\ [AppNext]_appVars => [DebuggerNext]_dbVars
    BY DebuggerStep DEF AppInv, Shutdown
<1> QED
    BY <1>1, <1>2, <1>3, AppInvariant, PTL DEF AppSafety, DebuggerSpec

-----------------------------------------------------------------------------
(* An update shows the state of the VM: its next instruction, unless the   *)
(* program finished, and its frames with the instructions that called them.*)
ShowsVM(upd) ==
    /\ upd.stopped
    /\ upd.vm = "READY" => upd.addr = vmPc
    /\ Len(upd.stack) = Len(vmFrames)
    /\ \A i \in 1 .. Len(vmFrames) : upd.stack[i].start = vmFrames[i].start
    /\ \A i \in 1 .. Len(vmFrames) - 1 : upd.stack[i].call = vmFrames[i + 1].from

(* The update that DBClientImplVMSide makes of a stopped debugger inside   *)
(* the for(;;) of loop() shows the state of the VM                         *)
(* (db-client-impl-vmside.cc).                                             *)
LEMMA ReportShowsVM ==
    ASSUME AppInv, pc \in {"top", "run"}, db_is_stopped
    PROVE  ShowsVM(check_stopped_udp)
<1>1. SameFrames /\ (state \notin Finished => insAddr = vmPc)
    BY DEF AppInv, MirrorInv, LoopInv, InsideLoop
<1>2. /\ check_stopped_udp.stopped
      /\ check_stopped_udp.vm = IF state \in Finished THEN state ELSE "READY"
      /\ check_stopped_udp.addr = insAddr /\ check_stopped_udp.stack = callStack
    BY DEF db_is_stopped, check_stopped_udp, Running, Finished
<1> QED
    BY <1>1, <1>2 DEF ShowsVM, SameFrames, MirrorsUpTo, Depth, Finished
=============================================================================
