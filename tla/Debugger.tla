------------------------------ MODULE Debugger ------------------------------
(***************************************************************************)
(* The execution core of odb: class Debugger of src/server/debugger.cc.    *)
(*                                                                         *)
(* The VM calls on_init before its first instruction and on_update after   *)
(* every instruction; the client handlers call resume, stop and the        *)
(* breakpoint functions in between.  All calls come from the VM's thread,  *)
(* so each call is one step.  What an instruction did is the VM's choice:  *)
(* an update state and the address of the next instruction, which are the  *)
(* parameters of on_update.                                                *)
(*                                                                         *)
(* The caches of register and symbol descriptions that the same class      *)
(* keeps are in module SymbolCache.                                        *)
(***************************************************************************)
EXTENDS Naturals, Sequences

CONSTANTS
    MemSize,    \* VMInfos::memory_size
    MaxDepth,   \* bound: deepest call stack the VM builds
    TopReturns  \* does the VM report RET_SUB when its main function returns?

ASSUME DebuggerAssumption ==
    /\ MemSize \in Nat \ {0}
    /\ MaxDepth \in Nat \ {0}
    /\ TopReturns \in BOOLEAN

VARIABLES
    state,          \* _state
    insAddr,        \* _ins_addr: the next instruction to execute
    callStack,      \* _call_stack: records [start, call]
    breakpts,       \* _breakpts
    stepOverDepth,  \* _step_over_depth
    resumeDepth     \* history: the call depth at the last resume

dbVars == <<state, insAddr, callStack, breakpts, stepOverDepth, resumeDepth>>

-----------------------------------------------------------------------------
(* enum class Debugger::State, and the values the VM and clients pass in.  *)

Running  == {"RUNNING_TOFINISH", "RUNNING_BKP", "RUNNING_STEP",
             "RUNNING_STEP_OVER", "RUNNING_STEP_OUT"}
Finished == {"ERROR", "EXIT"}
State    == Running \cup Finished \cup {"NOT_STARTED", "STOPPED"}

UpdateState == {"OK", "CALL_SUB", "RET_SUB", "ERROR", "EXIT"}
ResumeType  == {"ToFinish", "Continue", "Step", "StepOver", "StepOut"}

Addr    == 0 .. MemSize - 1
NotSet  == MemSize           \* a CallInfos::call_addr nobody wrote yet
CallInfos == [start : Addr, call : Addr \cup {NotSet}]

Depth   == Len(callStack)

(* The state resume(type) switches to.                                     *)
RunningState(type) ==
    CASE type = "ToFinish" -> "RUNNING_TOFINISH"
      [] type = "Continue" -> "RUNNING_BKP"
      [] type = "Step"     -> "RUNNING_STEP"
      [] type = "StepOver" -> "RUNNING_STEP_OVER"
      [] type = "StepOut"  -> "RUNNING_STEP_OUT"

-----------------------------------------------------------------------------
(* Driving the debugger: on_init and on_update.                            *)

DebuggerInit ==
    /\ state = "NOT_STARTED"
    /\ insAddr = 0
    /\ callStack = <<>>
    /\ breakpts = {}
    /\ stepOverDepth = 0
    /\ resumeDepth = 1

(* The frame of the main function is pushed and the program runs freely    *)
(* until a client asks otherwise.                                          *)
on_init(entry) ==
    /\ state = "NOT_STARTED"
    /\ state' = "RUNNING_TOFINISH"
    /\ insAddr' = entry
    /\ callStack' = <<[start |-> entry, call |-> NotSet]>>
    /\ UNCHANGED <<breakpts, stepOverDepth, resumeDepth>>

(* Mutant of StackAfter: the caller's frame does not note the call.        *)
MutStackAfter(upd, oldAddr, addr) ==
    CASE upd = "CALL_SUB" -> Append(callStack, [start |-> addr, call |-> NotSet])
      [] upd = "RET_SUB"  -> SubSeq(callStack, 1, Len(callStack) - 1)
      [] OTHER            -> callStack

(* The call stack after an instruction at oldAddr that reported upd and    *)
(* continues at addr.                                                      *)
StackAfter(upd, oldAddr, addr) ==
    CASE upd = "CALL_SUB" ->
            Append([callStack EXCEPT ![Len(callStack)].call = oldAddr],
                   [start |-> addr, call |-> NotSet])
      [] upd = "RET_SUB" -> SubSeq(callStack, 1, Len(callStack) - 1)
      [] OTHER -> callStack

(* Mutant of StopsAt: a step over is not interrupted by breakpoints.       *)
MutStopsAt(upd, addr, depth) ==
    /\ state # "RUNNING_TOFINISH"
    /\ \/ state = "RUNNING_STEP"
       \/ state = "RUNNING_STEP_OVER" /\ stepOverDepth >= depth
       \/ state = "RUNNING_STEP_OUT" /\ upd = "RET_SUB"
       \/ state = "RUNNING_BKP" /\ addr \in breakpts

(* Does on_update stop at addr, with the call stack already updated to     *)
(* depth?  The order of the tests in the code does not matter, as each     *)
(* mode has at most one test of its own besides the breakpoints.           *)
StopsAt(upd, addr, depth) ==
    /\ state # "RUNNING_TOFINISH"
    /\ \/ state = "RUNNING_STEP"
       \/ state = "RUNNING_STEP_OVER" /\ stepOverDepth >= depth
       \/ state = "RUNNING_STEP_OUT" /\ upd = "RET_SUB"
       \/ addr \in breakpts

(* An instruction that ended the program leaves the execution point and    *)
(* the call stack as they were.                                            *)
UpdateFinished(upd) ==
    /\ upd \in Finished
    /\ state' = upd
    /\ UNCHANGED <<insAddr, callStack>>

UpdateContinues(upd, addr) ==
    /\ upd \notin Finished
    /\ upd = "RET_SUB" => callStack # <<>>     \* assert, debugger.cc:183
    /\ insAddr' = addr
    /\ callStack' = StackAfter(upd, insAddr, addr)
    /\ state' = IF StopsAt(upd, addr, Len(callStack')) THEN "STOPPED" ELSE state

on_update(upd, addr) ==
    /\ state \in Running                       \* assert, debugger.cc:155
    /\ UpdateFinished(upd) \/ UpdateContinues(upd, addr)
    /\ UNCHANGED <<breakpts, stepOverDepth, resumeDepth>>

-----------------------------------------------------------------------------
(* The calls of the client handlers.  A call that throws a VMApi::Error    *)
(* changes nothing.                                                        *)

Throws == UNCHANGED dbVars

(* When the calls do not throw.                                            *)
CanAdd(addr) == addr \in Addr /\ addr \notin breakpts
CanDel(addr) == addr \in breakpts
CanResume    == state \notin Finished

add_breakpoint(addr) ==
    IF CanAdd(addr)
    THEN /\ breakpts' = breakpts \cup {addr}
         /\ UNCHANGED <<state, insAddr, callStack, stepOverDepth, resumeDepth>>
    ELSE Throws

del_breakpoint(addr) ==
    IF CanDel(addr)
    THEN /\ breakpts' = breakpts \ {addr}
         /\ UNCHANGED <<state, insAddr, callStack, stepOverDepth, resumeDepth>>
    ELSE Throws

(* Mutants of resume: the depth of an earlier step over is kept; a         *)
(* finished program is resumed too.                                        *)
MutResume(type) ==
    IF CanResume
    THEN /\ state' = RunningState(type)
         /\ resumeDepth' = Depth
         /\ UNCHANGED <<insAddr, callStack, breakpts, stepOverDepth>>
    ELSE Throws

MutResumeFinished(type) ==
    /\ state' = RunningState(type)
    /\ stepOverDepth' = IF type = "StepOver" THEN Depth ELSE stepOverDepth
    /\ resumeDepth' = Depth
    /\ UNCHANGED <<insAddr, callStack, breakpts>>

(* Only StepOver records the call depth.  resumeDepth is history: it is    *)
(* what the properties compare a later stop with.                          *)
resume(type) ==
    IF CanResume
    THEN /\ state' = RunningState(type)
         /\ stepOverDepth' = IF type = "StepOver" THEN Depth ELSE stepOverDepth
         /\ resumeDepth' = Depth
         /\ UNCHANGED <<insAddr, callStack, breakpts>>
    ELSE Throws

stop ==
    IF state \in Running
    THEN /\ state' = "STOPPED"
         /\ UNCHANGED <<insAddr, callStack, breakpts, stepOverDepth, resumeDepth>>
    ELSE Throws

-----------------------------------------------------------------------------
(* What an instruction executed at the given call depth may report: calls  *)
(* up to the bound, and a return from the main function only if this VM    *)
(* reports that one too.  A call made with no frame left would write to    *)
(* the missing last element of callStack, which has no defined outcome, so *)
(* behaviours end before it.                                               *)
VMReports(upd, depth) ==
    /\ upd = "CALL_SUB" => depth \in 1 .. MaxDepth - 1
    /\ upd = "RET_SUB"  => depth > (IF TopReturns THEN 0 ELSE 1)

Update == \E upd \in UpdateState, addr \in Addr :
              VMReports(upd, Depth) /\ on_update(upd, addr)

(* Any call a client handler may make between two instructions.            *)
ClientCall ==
    /\ state # "NOT_STARTED"
    /\ \/ \E addr \in 0 .. MemSize : add_breakpoint(addr) \/ del_breakpoint(addr)
       \/ \E type \in ResumeType : resume(type)
       \/ stop

DebuggerNext == (\E entry \in Addr : on_init(entry)) \/ Update \/ ClientCall

DebuggerSpec == DebuggerInit /\ [][DebuggerNext]_dbVars

-----------------------------------------------------------------------------
(* Properties.                                                             *)

(* Type invariant of class Debugger (debugger.hh:189-226): breakpoints and *)
(* the execution point stay addresses of the VM's memory, which            *)
(* add_breakpoint checks (debugger.cc:333) and on_update takes from the    *)
(* VM.                                                                     *)
DebuggerTypeOK ==
    /\ state \in State
    /\ insAddr \in Addr
    /\ callStack \in Seq(CallInfos)
    /\ breakpts \in SUBSET Addr
    /\ stepOverDepth \in Nat
    /\ resumeDepth \in Nat

(* The call stack is a chain: once the program started there is a current  *)
(* frame, and every frame below it knows the instruction it called from    *)
(* (the backtrace the "bt" and "state" commands print: debugger.cc:178-184,*)
(* debugger.hh:185-187).                                                   *)
CallChain ==
    state # "NOT_STARTED" =>
        /\ callStack # <<>>
        /\ \A i \in 1 .. Depth - 1 : callStack[i].call # NotSet

(* The depth that RUNNING_STEP_OVER compares with is the one of the        *)
(* instruction the step started at, never one of an earlier step           *)
(* (debugger.cc:199, 372).                                                 *)
StepOverDepthFresh == state = "RUNNING_STEP_OVER" => stepOverDepth = resumeDepth

(* A step over ends exactly when control is back in the frame it started   *)
(* in or in a caller of it: it neither stops inside the callee, unless at  *)
(* a breakpoint, nor runs past the return (debugger.cc:198-203).           *)
StepOverExact ==
    [][state = "RUNNING_STEP_OVER" /\ Update /\ state' \notin Finished
       => (state' = "STOPPED" <=>
              Len(callStack') <= resumeDepth \/ insAddr' \in breakpts)]_dbVars

(* No mode but RUNNING_TOFINISH runs through a breakpoint, whatever the    *)
(* instruction that reaches it did to the call stack (debugger.cc:212-215, *)
(* the comments of debugger.hh:45-51).                                     *)
BreakpointStops ==
    [][state # "RUNNING_TOFINISH" /\ Update /\ state' \notin Finished
       /\ insAddr' \in breakpts => state' = "STOPPED"]_dbVars

(* A finished program stays finished, and the execution point and the call *)
(* stack keep showing where it ended, whatever the client asks             *)
(* (debugger.cc:163-172, 361-362, 380-381).                                *)
FinishedIsFinal ==
    [][(state \in Finished) => UNCHANGED <<state, insAddr, callStack>>]_dbVars

(* debugger.hh:50-51 of RUNNING_STEP_OUT: "Stop when returning from        *)
(* current subroutine, or at a breakpoint".  The current subroutine is the *)
(* one the program was stopped in when StepOut was asked for.              *)
StepOutLeavesFrame ==
    [][state = "RUNNING_STEP_OUT" /\ Update /\ state' = "STOPPED"
       => Len(callStack') < resumeDepth \/ insAddr' \in breakpts]_dbVars

=============================================================================
