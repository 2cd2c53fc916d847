------------------------------ MODULE DBClient ------------------------------
(***************************************************************************)
(* DBClient of src/mess/db-client.cc: the state machine every client       *)
(* program drives and its cache of registers.  Static register infos are   *)
(* kept for ever, values until the program may have changed them.          *)
(*                                                                         *)
(* The debugger behind it is reduced to whether it runs and what the VM's  *)
(* registers hold; module RemoteSession has the exchange of messages.  A   *)
(* call of DBClient is one step: nothing changes while the program is      *)
(* stopped, and a failed call leaves what it did before the exception.     *)
(***************************************************************************)
EXTENDS Naturals, FiniteSets

CONSTANTS
    Reg,     \* register ids of the VM
    Val,     \* values a register can hold
    NoVal    \* an empty RegInfos::val

ASSUME DBClientAssumption == NoVal \notin Val

VARIABLES
    clientState,  \* _state
    regKnown,     \* registers with infos: domain of _regi_idx_map
    regVal,       \* their cached values: RegInfos::val of _regi_arr
    running,      \* does the debugged program run?
    vmReg,        \* the VM's registers
    lapses        \* history: the calls since the values were last discarded
                  \* after which cache and VM may differ, "stop" and "set_regs"

clientVars == <<clientState, regKnown, regVal>>
serverVars == <<running, vmReg>>
dbcVars    == <<clientVars, serverVars, lapses>>

Merge(old, new) == [r \in Reg |-> IF r \in DOMAIN new THEN new[r] ELSE old[r]]

-----------------------------------------------------------------------------
(* The debugged program: it changes registers while it runs, and stops or  *)
(* finishes by itself.                                                     *)

ProgramRuns ==
    /\ running
    /\ vmReg' \in [Reg -> Val]
    /\ running' \in BOOLEAN
    /\ UNCHANGED <<clientVars, lapses>>

-----------------------------------------------------------------------------
(* State changes of the client.                                            *)

DBClientInit ==
    /\ clientState = "NOT_CONNECTED"
    /\ regKnown = {}
    /\ regVal = [r \in Reg |-> NoVal]
    /\ running \in BOOLEAN
    /\ vmReg \in [Reg -> Val]
    /\ lapses = {}

connect ==
    /\ clientState = "NOT_CONNECTED"
    /\ clientState' = IF running THEN "VM_RUNNING" ELSE "VM_STOPPED"
    /\ UNCHANGED <<regKnown, regVal, serverVars, lapses>>

resumeProgram ==
    /\ clientState = "VM_STOPPED"
    /\ clientState' = "VM_RUNNING"
    /\ running' = TRUE
    /\ UNCHANGED <<regKnown, regVal, vmReg, lapses>>

discard_tmp_cache == regVal' = [r \in Reg |-> NoVal] /\ lapses' = {}

(* Mutants of check_stopped: the answer is not looked at; values are kept  *)
(* over a run of the program.                                              *)
MutCheckStoppedBlind ==
    /\ clientState = "VM_RUNNING"
    /\ clientState' = "VM_STOPPED"
    /\ discard_tmp_cache
    /\ UNCHANGED <<regKnown, serverVars>>

MutCheckStoppedKeeps ==
    /\ clientState = "VM_RUNNING"
    /\ clientState' = IF running THEN "VM_RUNNING" ELSE "VM_STOPPED"
    /\ UNCHANGED <<regKnown, regVal, serverVars, lapses>>

check_stopped ==
    /\ clientState = "VM_RUNNING"
    /\ IF running THEN UNCHANGED <<clientState, regVal, lapses>>
       ELSE clientState' = "VM_STOPPED" /\ discard_tmp_cache
    /\ UNCHANGED <<regKnown, serverVars>>

(* stop() is refused by a program that already stopped.  It does not       *)
(* discard the values.                                                     *)
stopProgram ==
    /\ clientState = "VM_RUNNING" /\ running
    /\ clientState' = "VM_STOPPED"
    /\ running' = FALSE
    /\ lapses' = lapses \cup {"stop"}
    /\ UNCHANGED <<regKnown, regVal, vmReg>>

-----------------------------------------------------------------------------
(* Registers.                                                              *)

(* _fetch_reg_infos_by_id, _fetch_reg_infos_by_name: what is missing is    *)
(* loaded by one request, which adds all of it or fails.                   *)
fetch_reg_infos(ids) == regKnown' = regKnown \cup ids

get_regs_infos(ids) ==
    /\ clientState = "VM_STOPPED"
    /\ fetch_reg_infos(ids)
    /\ UNCHANGED <<clientState, regVal, serverVars, lapses>>

(* _fetch_reg_vals_by_id: only the values that are missing are asked for.  *)
fetch_reg_vals(ids) ==
    regVal' = [r \in Reg |-> IF r \in ids /\ regVal[r] = NoVal THEN vmReg[r]
                             ELSE regVal[r]]

(* The request for the values may fail after the one for the infos.        *)
get_regs(ids) ==
    /\ clientState = "VM_STOPPED"
    /\ fetch_reg_infos(ids)
    /\ fetch_reg_vals(ids) \/ UNCHANGED regVal
    /\ UNCHANGED <<clientState, serverVars, lapses>>

(* The server writes one register after the other, then the cache follows. *)
set_regs(vals) ==
    /\ clientState = "VM_STOPPED"
    /\ fetch_reg_infos(DOMAIN vals)
    /\ vmReg' = Merge(vmReg, vals)
    /\ regVal' = Merge(regVal, vals)
    /\ UNCHANGED <<clientState, running, lapses>>

(* If the VM throws at one of them, those before it are written and the    *)
(* cache is left alone; so it is when all are written and one has another  *)
(* size than its register (the assert of line 80, after the write).        *)
set_regs_fails(vals) ==
    /\ clientState = "VM_STOPPED"
    /\ fetch_reg_infos(DOMAIN vals)
    /\ \E done \in SUBSET DOMAIN vals :
          /\ vmReg' = Merge(vmReg, [r \in done |-> vals[r]])
          /\ lapses' = IF done = {} THEN lapses ELSE lapses \cup {"set_regs"}
    /\ UNCHANGED <<clientState, regVal, running>>

RegSets == (SUBSET Reg) \ {{}}

DBClientNext ==
    \/ ProgramRuns \/ connect \/ resumeProgram \/ check_stopped \/ stopProgram
    \/ \E ids \in RegSets : get_regs_infos(ids) \/ get_regs(ids)
    \/ \E ids \in RegSets : \E vals \in [ids -> Val] :
          set_regs(vals) \/ set_regs_fails(vals)

DBClientSpec == DBClientInit /\ [][DBClientNext]_dbcVars

-----------------------------------------------------------------------------
(* Properties.                                                             *)

(* Type invariant of class DBClient (db-client.hh:51-56, 240-258): connect *)
(* leaves VM_STOPPED or VM_RUNNING, and a cached register has a value of   *)
(* its own size or none.                                                   *)
DBClientTypeOK ==
    /\ clientState \in {"NOT_CONNECTED", "VM_STOPPED", "VM_RUNNING"}
                                  \* nothing ever sets DISCONNECTED
    /\ regKnown \in SUBSET Reg
    /\ regVal \in [Reg -> Val \cup {NoVal}]
    /\ running \in BOOLEAN
    /\ vmReg \in [Reg -> Val]
    /\ lapses \subseteq {"stop", "set_regs"}

Coherent == \A r \in Reg : regVal[r] # NoVal => regVal[r] = vmReg[r]

(* Whenever the client may read registers, a value it takes from its cache *)
(* is the one the VM's register holds, whatever ran, failed or was written *)
(* before (db-client.cc:37-84, 226-320), with two exceptions: the program  *)
(* was stopped by stop(), which keeps the values, or the VM refused one of *)
(* the registers of a set_regs after it took others.                       *)
CacheCoherent == clientState = "VM_STOPPED" /\ lapses = {} => Coherent

(* db-client.hh:240-242, of the cached registers: "value cleared after     *)
(* each instruction", also when the program was stopped by stop().         *)
StopDiscardsValues ==
    clientState = "VM_STOPPED" /\ "set_regs" \notin lapses => Coherent

(* While the client believes the program stopped, it is: the client's      *)
(* state lags behind the server's in one direction only                    *)
(* (db-client.cc:18-45, 157-161).                                          *)
StoppedIsStopped == clientState = "VM_STOPPED" => ~running

(* A value is only cached for a register whose infos, and so its size, are *)
(* known (the asserts of db-client.cc:57, 80, 287, 312).                   *)
ValuesHaveInfos == \A r \in Reg : regVal[r] # NoVal => r \in regKnown
=============================================================================
