--------------------------- MODULE DBClientProofs ---------------------------
(***************************************************************************)
(* Proofs about module DBClient, for any registers and values, and about   *)
(* module Commands, which drives its cache from the words of a user.       *)
(***************************************************************************)
EXTENDS Commands, RangeMapProofs

(* Every call of DBClient, and every step of the program, keeps the types, *)
(* knows the infos of what it caches, and takes the program for stopped    *)
(* only when it is.                                                        *)
ClientInv == DBClientTypeOK /\ StoppedIsStopped /\ ValuesHaveInfos

(* ClientInv is inductive: one case per call of DBClient and one for the   *)
(* program's own steps.                                                    *)
LEMMA ClientStep ==
    ASSUME ClientInv, [DBClientNext]_dbcVars
    PROVE  ClientInv'
<1> USE DBClientAssumption
    DEF ClientInv, DBClientTypeOK, StoppedIsStopped, ValuesHaveInfos
<1>1. CASE ProgramRuns
    BY <1>1 DEF ProgramRuns, clientVars
<1>2. CASE connect
    BY <1>2 DEF connect, serverVars
<1>3. CASE resumeProgram
    BY <1>3 DEF resumeProgram
<1>4. CASE check_stopped
    BY <1>4 DEF check_stopped, discard_tmp_cache, serverVars
<1>5. CASE stopProgram
    BY <1>5 DEF stopProgram
<1>6. ASSUME NEW ids \in RegSets, get_regs_infos(ids)
      PROVE  ClientInv'
    BY <1>6 DEF get_regs_infos, fetch_reg_infos, serverVars, RegSets
<1>7. ASSUME NEW ids \in RegSets, get_regs(ids)
      PROVE  ClientInv'
    BY <1>7 DEF get_regs, fetch_reg_infos, fetch_reg_vals, serverVars, RegSets
<1>8. ASSUME NEW ids \in RegSets, NEW vals \in [ids -> Val], set_regs(vals)
      PROVE  ClientInv'
    BY <1>8 DEF set_regs, fetch_reg_infos, Merge, RegSets
<1>9. ASSUME NEW ids \in RegSets, NEW vals \in [ids -> Val], set_regs_fails(vals)
      PROVE  ClientInv'
    BY <1>9 DEF set_regs_fails, fetch_reg_infos, Merge, RegSets
<1>10. CASE UNCHANGED dbcVars
    BY <1>10 DEF dbcVars, clientVars, serverVars
<1> QED
    BY <1>1, <1>2, <1>3, <1>4, <1>5, <1>6, <1>7, <1>8, <1>9, <1>10 DEF DBClientNext

(* ClientInv holds in every state, whatever calls the commands make (db-   *)
(* client.cc).                                                             *)
LEMMA ClientInvariant == DBClientSpec => []ClientInv
<1>1. DBClientInit => ClientInv
    BY DBClientAssumption
    DEF DBClientInit, ClientInv, DBClientTypeOK, StoppedIsStopped, ValuesHaveInfos
<1>2. ClientInv /\ [DBClientNext]_dbcVars => ClientInv'
    BY ClientStep
<1> QED
    BY <1>1, <1>2, PTL DEF DBClientSpec

(* A cached value is a value of its register, or none.                     *)
THEOREM ClientTypeCorrect == DBClientSpec => []DBClientTypeOK
BY ClientInvariant, PTL DEF ClientInv

(* The client takes the program for stopped only when it is, however it    *)
(* learns of the stop.                                                     *)
THEOREM ClientStoppedIsStopped == DBClientSpec => []StoppedIsStopped
BY ClientInvariant, PTL DEF ClientInv

(* A register value is only cached with the infos of its register.         *)
THEOREM ClientValuesHaveInfos == DBClientSpec => []ValuesHaveInfos
BY ClientInvariant, PTL DEF ClientInv

-----------------------------------------------------------------------------
(* Coherence alone says nothing of a client that is not connected yet, so  *)
(* it is not inductive: the cache is also empty until then.                *)
CacheInv == /\ CacheCoherent
            /\ clientState = "NOT_CONNECTED" => \A r \in Reg : regVal[r] = NoVal

(* Unless stop() kept the values of before the run, or a set_regs was done *)
(* in part, the client reads from its cache what the VM's registers hold.  *)
THEOREM CacheIsCoherent == DBClientSpec => []CacheCoherent
<1> USE DBClientAssumption DEF CacheInv, CacheCoherent, Coherent
<1>1. DBClientInit => CacheInv
    BY DEF DBClientInit
<1>2. ASSUME CacheInv, ClientInv, [DBClientNext]_dbcVars
      PROVE  CacheInv'
    <2> USE DEF ClientInv, DBClientTypeOK, StoppedIsStopped
    <2>1. CASE ProgramRuns
        BY <1>2, <2>1 DEF ProgramRuns, clientVars
    <2>2. CASE connect
        BY <1>2, <2>2 DEF connect, serverVars
    <2>3. CASE resumeProgram
        BY <2>3 DEF resumeProgram
    <2>4. CASE check_stopped
        BY <1>2, <2>4 DEF check_stopped, discard_tmp_cache, serverVars
    <2>5. ASSUME NEW ids \in RegSets, get_regs_infos(ids)
          PROVE  CacheInv'
        BY <1>2, <2>5 DEF get_regs_infos, serverVars
    <2>6. ASSUME NEW ids \in RegSets, get_regs(ids)
          PROVE  CacheInv'
        BY <1>2, <2>6 DEF get_regs, fetch_reg_vals, serverVars
    <2>7. ASSUME NEW ids \in RegSets, NEW vals \in [ids -> Val], set_regs(vals)
          PROVE  CacheInv'
        BY <1>2, <2>7 DEF set_regs, Merge
    <2>8. CASE UNCHANGED dbcVars
        BY <1>2, <2>8 DEF dbcVars, clientVars, serverVars
    <2>9. CASE stopProgram
        BY <2>9 DEF stopProgram
    <2>10. ASSUME NEW ids \in RegSets, NEW vals \in [ids -> Val],
                  set_regs_fails(vals)
           PROVE  CacheInv'
        <3>1. PICK done \in SUBSET DOMAIN vals :
                 /\ vmReg' = Merge(vmReg, [r \in done |-> vals[r]])
                 /\ lapses' = IF done = {} THEN lapses ELSE lapses \cup {"set_regs"}
            BY <2>10 DEF set_regs_fails
        <3>2. CASE done = {}
            <4>1. \A r \in Reg : vmReg'[r] = vmReg[r]
                BY <1>2, <3>1, <3>2 DEF Merge
            <4> QED
                BY <1>2, <2>10, <3>1, <3>2, <4>1 DEF set_regs_fails
        <3>3. CASE done # {}
            BY <2>10, <3>1, <3>3 DEF set_regs_fails
        <3> QED
            BY <3>2, <3>3
    <2> QED
        BY <1>2, <2>1, <2>2, <2>3, <2>4, <2>5, <2>6, <2>7, <2>8, <2>9, <2>10
        DEF DBClientNext
<1> QED
    BY <1>1, <1>2, ClientInvariant, PTL DEF DBClientSpec

-----------------------------------------------------------------------------
(* The commands.  While a command is shown the program is stopped, so that *)
(* nothing moves under what was printed.                                   *)
CommandInv ==
    /\ StoppedIsStopped
    /\ CacheInv
    /\ vmReg = [r \in Reg |-> vmReg[r]]
    /\ out # Quiet => clientState = "VM_STOPPED"

(* The fields of what is shown.                                            *)
LEMMA Shown == Quiet.cmd = "none" /\ Error.cmd = "error" /\ Error # Quiet
BY DEF Quiet, Error

(* A command that fails before its own work leaves the VM, the client's    *)
(* state and its values alone.                                             *)
FailsEarly ==
    /\ out' \in {Quiet, Error}
    /\ UNCHANGED <<clientState, regVal, running, vmReg, lapses, mem, bkps>>

(* The ways to fail early.                                                 *)
LEMMA EarlyFailures ==
    /\ Throws => FailsEarly
    /\ \A known : ThrowsKnowing(known) => FailsEarly
    /\ \A args : RegistersFail(args) => FailsEarly
<1>1. Throws => FailsEarly
    BY DEF Throws, FailsEarly, serverUnchanged, serverVars, clientVars
<1>2. \A known : ThrowsKnowing(known) => FailsEarly
    BY DEF ThrowsKnowing, FailsEarly, serverUnchanged, serverVars
<1>3. \A known : Aborts(known) => FailsEarly
    BY DEF Aborts, FailsEarly, serverUnchanged, serverVars
<1> QED
    BY <1>1, <1>2, <1>3 DEF RegistersFail

(* Registers that are resolved are registers of the VM.                    *)
LEMMA ResolvedIds ==
    ASSUME NEW args, NEW known \in SUBSET Reg, Resolved(args, known)
    PROVE  Ids(args) \subseteq known
<1> DEFINE ok == Outcome("ok", known)
<1>1. ok.how = "ok" /\ ok.known = known
    BY DEF Outcome
<1>2. \A k : Outcome("error", k).how = "error"
    BY DEF Outcome
<1>3. \A k : Outcome("ok", k).known = k
    BY DEF Outcome
<1>4. PICK o \in resolve_regs(args) :
         ok \in IF o.how # "ok" \/ Ids(args) \subseteq o.known THEN {o}
               ELSE {Outcome("error", o.known)} \cup
                    (IF NoReg \in Ids(args) THEN {}
                     ELSE {Outcome("ok", o.known \cup Ids(args))})
    BY DEF Resolved, RegOutcomes
<1> HIDE DEF ok
<1>5. CASE o.how # "ok" \/ Ids(args) \subseteq o.known
    BY <1>1, <1>4, <1>5
<1>6. CASE ~(o.how # "ok" \/ Ids(args) \subseteq o.known)
    <2>1. ok \in {Outcome("error", o.known), Outcome("ok", o.known \cup Ids(args))}
        BY <1>4, <1>6
    <2>2. ok.known = o.known \cup Ids(args)
        BY <1>1, <1>2, <1>3, <2>1
    <2> QED
        BY <1>1, <2>2
<1> QED
    BY <1>5, <1>6

(* What the steps of preg, sreg and the others that reach the VM do.       *)
PregReads(ty, args) ==
    /\ Prompt /\ Ids(args) \subseteq Reg
    /\ fetch_reg_vals(Ids(args))
    /\ \E junk \in [RegSize + 1 .. type_desc_size(ty) -> Byte] :
          out' = [cmd |-> "preg", ty |-> ty, at |-> args,
                  vals |-> [i \in DOMAIN args |->
                     print_val(Copied(regVal'[args[i].reg], junk,
                                      type_desc_size(ty)), ty)]]
    /\ UNCHANGED <<clientState, running, vmReg, lapses, mem, bkps>>

SregWrites(ty, args, words) ==
    /\ Prompt /\ Ids(args) \subseteq Reg /\ SymbolsKnown(words)
    /\ \E bufs \in Buffers(words, ty),
          junk \in [type_desc_size(ty) + 1 .. RegSize -> Byte] :
             StoreRegs(ty, args, words, bufs, junk)
    /\ UNCHANGED <<clientState, running, mem, bkps>>

(* Every step of the client is one of these.                               *)
LEMMA CommandSteps ==
    ASSUME [Next]_cmdVars
    PROVE  \/ Prompt /\ FailsEarly
           \/ Shows \/ Between \/ UNCHANGED cmdVars
           \/ Prompt /\ resumeProgram /\ out' = Quiet /\ UNCHANGED <<mem, bkps>>
           \/ \E ty \in TypeArgs, args \in RegArgs : PregReads(ty, args)
           \/ \E ty \in TypeArgs, st \in StoreArgs : SregWrites(ty, st[1], st[2])
           \/ \E ty \in TypeArgs, at \in AddrArgs, items \in 1 .. 2 :
                 cmd_pmem(ty, at, items) /\ ~Throws
           \/ \E ty \in TypeArgs, at \in AddrArgs, st \in StoreArgs :
                 cmd_smem(ty, at, st[2]) /\ ~Throws
           \/ /\ Prompt /\ out' = Quiet
              /\ UNCHANGED <<clientVars, serverVars, lapses, mem>>
<1> USE EarlyFailures
<1>1. ASSUME NEW args \in RegArgs, cmd_pregi(args)
      PROVE  Prompt /\ FailsEarly
    BY <1>1 DEF cmd_pregi, FailsEarly, serverUnchanged, serverVars
<1>2. ASSUME NEW ty \in TypeArgs, NEW args \in RegArgs, cmd_preg(ty, args)
      PROVE  (Prompt /\ FailsEarly) \/ PregReads(ty, args)
    <2>1. CASE ~r_reg(args) \/ RegistersFail(args)
        BY <1>2, <2>1 DEF cmd_preg
    <2>2. ASSUME NEW known \in SUBSET Reg, Resolved(args, known),
                 fetch_reg_vals(Ids(args)),
                 \E junk \in [RegSize + 1 .. type_desc_size(ty) -> Byte] :
                    out' = [cmd |-> "preg", ty |-> ty, at |-> args,
                            vals |-> [i \in DOMAIN args |->
                               print_val(Copied(regVal'[args[i].reg], junk,
                                                type_desc_size(ty)), ty)]],
                 serverUnchanged, UNCHANGED <<clientState, lapses>>
          PROVE  PregReads(ty, args)
        BY <1>2, <2>2, ResolvedIds DEF cmd_preg, PregReads, serverUnchanged, serverVars
    <2> QED
        BY <1>2, <2>1, <2>2 DEF cmd_preg
<1>3. ASSUME NEW ty \in TypeArgs, NEW st \in StoreArgs, cmd_sreg(ty, st[1], st[2])
      PROVE  (Prompt /\ FailsEarly) \/ SregWrites(ty, st[1], st[2])
    BY <1>3, ResolvedIds DEF cmd_sreg, SregWrites
<1>4. ASSUME NEW word \in AddrArgs, cmd_b(word) \/ cmd_delb(word)
      PROVE  Prompt /\ (\/ FailsEarly
                        \/ out' = Quiet /\ UNCHANGED <<clientVars, serverVars, lapses, mem>>)
    BY <1>4 DEF cmd_b, cmd_delb
<1>5. CASE cmd_resume \/ BadCommand
    BY <1>5 DEF cmd_resume, BadCommand
<1>6. ASSUME NEW ty \in TypeArgs, NEW at \in AddrArgs, NEW items \in 1 .. 2,
             cmd_pmem(ty, at, items)
      PROVE  (Prompt /\ FailsEarly) \/ ~Throws
    BY <1>6 DEF cmd_pmem
<1>7. ASSUME NEW ty \in TypeArgs, NEW at \in AddrArgs, NEW st \in StoreArgs,
             cmd_smem(ty, at, st[2])
      PROVE  (Prompt /\ FailsEarly) \/ ~Throws
    BY <1>7 DEF cmd_smem
<1> QED
    BY <1>1, <1>2, <1>3, <1>4, <1>5, <1>6, <1>7 DEF Next

(* Registers written and cached one after the other.                       *)
LEMMA SregKeepsCoherent ==
    ASSUME CommandInv, NEW ty, NEW args, NEW words, SregWrites(ty, args, words)
    PROVE  CommandInv'
<1>1. /\ clientState = "VM_STOPPED" /\ clientState' = "VM_STOPPED"
      /\ UNCHANGED running
    BY DEF SregWrites, Prompt
<1>2. PICK bufs, junk : StoreRegs(ty, args, words, bufs, junk)
    BY DEF SregWrites
<1> DEFINE Vals(n) == Assigned(args, bufs, ty, junk, n)
           Done(n) == n = Len(args) /\ type_desc_size(ty) = RegSize
<1>3. PICK n \in 0 .. Len(args) :
         /\ vmReg' = Merge(vmReg, Vals(n))
         /\ regVal' = IF Done(n) THEN Merge(regVal, Vals(n)) ELSE regVal
         /\ lapses' = IF Done(n) \/ n = 0 THEN lapses ELSE lapses \cup {"set_regs"}
    BY <1>2, Zenon DEF StoreRegs
<1> DEFINE vals == Vals(n)
           done == Done(n)
<1>4. DOMAIN vals = {args[i].reg : i \in 1 .. n}
    BY DEF Assigned
<1>5. /\ vmReg' = Merge(vmReg, vals)
      /\ regVal' = IF done THEN Merge(regVal, vals) ELSE regVal
      /\ lapses' = IF done \/ n = 0 THEN lapses ELSE lapses \cup {"set_regs"}
    BY <1>3
<1> HIDE DEF vals, done
<1>6. vmReg' = [r \in Reg |-> vmReg'[r]]
    BY <1>4, <1>5 DEF Merge
<1>7. CacheCoherent'
    <2> SUFFICES ASSUME lapses' = {}
                 PROVE  \A r \in Reg : regVal'[r] # NoVal => regVal'[r] = vmReg'[r]
        BY DEF CacheCoherent, Coherent
    <2>1. lapses = {} /\ (done \/ n = 0)
        BY <1>4, <1>5
    <2>2. \A r \in Reg : regVal[r] # NoVal => regVal[r] = vmReg[r]
        BY <1>1, <2>1 DEF CommandInv, CacheInv, CacheCoherent, Coherent
    <2>3. CASE done
        BY <1>4, <1>5, <2>2, <2>3 DEF Merge
    <2>4. CASE ~done
        <3>1. DOMAIN vals = {}
            BY <1>4, <1>5, <2>1, <2>4
        <3> QED
            BY <1>4, <1>5, <2>2, <2>4, <3>1 DEF Merge
    <2> QED
        BY <2>3, <2>4
<1> QED
    BY <1>1, <1>6, <1>7 DEF CommandInv, CacheInv, StoppedIsStopped

(* What a smem that gets through does to anything but the memory: it is    *)
(* shown, and nothing else changes.                                        *)
LEMMA SmemStores ==
    ASSUME NEW ty, NEW at, NEW words, cmd_smem(ty, at, words), ~Throws
    PROVE  /\ Prompt /\ out'.cmd = "smem"
           /\ UNCHANGED <<clientVars, serverVars, lapses, bkps, aborted>>
<1>1. /\ Prompt
      /\ out' = [cmd |-> "smem", ty |-> ty, at |-> <<resolve_val(at).val>>, vals |-> words]
      /\ UNCHANGED <<clientVars, serverVars, lapses, bkps, aborted>>
    BY Zenon DEF cmd_smem
<1>2. out'.cmd = "smem"
    BY <1>1
<1> QED
    BY <1>1, <1>2

(* CommandInv is inductive: one case per kind of step.                     *)
LEMMA CommandStep ==
    ASSUME CommandInv, [Next]_cmdVars
    PROVE  CommandInv'
<1> USE DEF CommandInv, CacheInv, CacheCoherent, Coherent, StoppedIsStopped
<1>1. CASE \/ Prompt /\ FailsEarly
           \/ Prompt /\ out' = Quiet /\ UNCHANGED <<clientVars, serverVars, lapses, mem>>
    BY <1>1 DEF Prompt, FailsEarly, clientVars, serverVars
<1>2. CASE Shows \/ UNCHANGED cmdVars
    BY <1>2 DEF Shows, serverUnchanged, cmdVars, dbcVars, clientVars, serverVars
<1>3. CASE Between
    <2>1. UNCHANGED out
        BY <1>3 DEF Between
    <2>2. CASE ProgramRuns
        BY <2>1, <2>2 DEF ProgramRuns, clientVars
    <2>3. CASE connect
        BY <2>1, <2>3 DEF connect, serverVars
    <2>4. CASE check_stopped
        BY <2>1, <2>4 DEF check_stopped, discard_tmp_cache, serverVars
    <2> QED
        BY <1>3, <2>2, <2>3, <2>4 DEF Between
<1>4. CASE resumeProgram /\ out' = Quiet
    BY <1>4 DEF resumeProgram
<1>5. ASSUME NEW ty \in TypeArgs, NEW args \in RegArgs, PregReads(ty, args)
      PROVE  CommandInv'
    BY <1>5 DEF PregReads, Prompt, fetch_reg_vals
<1>6. ASSUME NEW ty \in TypeArgs, NEW st \in StoreArgs, SregWrites(ty, st[1], st[2])
      PROVE  CommandInv'
    BY <1>6, SregKeepsCoherent
<1>7. ASSUME NEW ty \in TypeArgs, NEW at \in AddrArgs, NEW items \in 1 .. 2,
             cmd_pmem(ty, at, items), ~Throws
      PROVE  CommandInv'
    BY <1>7 DEF cmd_pmem, Prompt, serverUnchanged, serverVars, clientVars
<1>8. ASSUME NEW ty \in TypeArgs, NEW at \in AddrArgs, NEW st \in StoreArgs,
             cmd_smem(ty, at, st[2]), ~Throws
      PROVE  CommandInv'
    BY <1>8, SmemStores DEF Prompt, serverVars, clientVars
<1> QED
    BY <1>1, <1>2, <1>3, <1>4, <1>5, <1>6, <1>7, <1>8, CommandSteps

(* It holds in every state of a client that runs commands.                 *)
LEMMA CommandInvariant == Spec => []CommandInv
<1>1. Init => CommandInv
    BY DEF Init, DBClientInit, CommandInv, CacheInv, CacheCoherent, StoppedIsStopped
<1>2. CommandInv /\ [Next]_cmdVars => CommandInv'
    BY CommandStep
<1> QED
    BY <1>1, <1>2, PTL DEF Spec

(* Commands are only run on a program that is stopped, and read registers  *)
(* from a cache that agrees with the VM, whatever commands failed, aborted *)
(* or were cut short before (simple-cli-client.cc:375-446).                *)
THEOREM CommandsReadCoherentCache == Spec => [](StoppedIsStopped /\ CacheCoherent)
BY CommandInvariant, PTL DEF CommandInv, CacheInv

(* An error changed nothing in the VM, for every command and every way the *)
(* VM can refuse, but for a sreg of several registers                      *)
(* (db-client-impl-vmside.cc:70-77).                                       *)
THEOREM CommandErrorsChangeNothing == Spec => ErrorChangesNothing
<1> DEFINE NothingChanged == out'.cmd = "error" =>
                                /\ UNCHANGED <<mem, bkps, running>>
                                /\ Len(out'.at) <= 1 => UNCHANGED vmReg
<1>1. ASSUME CommandInv, [Next]_cmdVars
      PROVE  NothingChanged \/ UNCHANGED cmdVars
    <2>1. CASE Prompt /\ FailsEarly
        BY <2>1 DEF FailsEarly
    <2>2. CASE Shows \/ out' = Quiet
        BY <2>2, Shown DEF Shows
    <2>3. CASE Between
        <3>1. CASE out # Quiet
            BY <1>1, <2>3, <3>1
            DEF CommandInv, StoppedIsStopped, Between, ProgramRuns, connect, check_stopped
        <3>2. CASE out = Quiet
            BY <2>3, <3>2, Shown DEF Between
        <3> QED
            BY <3>1, <3>2
    <2>4. ASSUME NEW ty \in TypeArgs, NEW args \in RegArgs, PregReads(ty, args)
          PROVE  NothingChanged
        BY <2>4 DEF PregReads
    <2>5. ASSUME NEW ty \in TypeArgs, NEW st \in StoreArgs, SregWrites(ty, st[1], st[2])
          PROVE  NothingChanged
        <3> SUFFICES ASSUME Len(out'.at) <= 1, out'.cmd = "error"
                     PROVE  UNCHANGED vmReg
            BY <2>5 DEF SregWrites
        <3>1. PICK bufs, junk : StoreRegs(ty, st[1], st[2], bufs, junk)
            BY <2>5 DEF SregWrites
        <3>2. PICK n \in 0 .. Len(st[1]) :
                 /\ vmReg' = Merge(vmReg, Assigned(st[1], bufs, ty, junk, n))
                 /\ out' = CASE n < Len(st[1]) -> [Error EXCEPT !.at = st[1]]
                             [] aborted' -> Quiet
                             [] OTHER -> [cmd |-> "sreg", ty |-> ty, at |-> st[1],
                                          vals |-> st[2]]
                 /\ aborted' = (n = Len(st[1]) /\ ~(n = Len(st[1])
                                                   /\ type_desc_size(ty) = RegSize))
            BY <3>1, Zenon DEF StoreRegs
        <3>3. /\ n = Len(st[1]) => out'.cmd # "error"
              /\ n < Len(st[1]) => out' = [Error EXCEPT !.at = st[1]]
            <4>1. n = Len(st[1]) => ~(n < Len(st[1]))
                BY CommandsAssumption
            <4> QED
                BY <3>2, <4>1, Shown
        <3>4. Len(st[1]) \in Nat
            BY CommandsAssumption
        <3>5. n < Len(st[1])
            BY <3>3, <3>4
        <3>6. out'.at = st[1]
            BY <3>3, <3>5 DEF Error, Quiet
        <3>7. n = 0
            BY <3>4, <3>5, <3>6
        <3>8. DOMAIN Assigned(st[1], bufs, ty, junk, n) = {}
            BY <3>7 DEF Assigned
        <3> QED
            BY <1>1, <3>2, <3>8 DEF Merge, CommandInv
    <2>6. ASSUME NEW ty \in TypeArgs, NEW at \in AddrArgs, NEW items \in 1 .. 2,
                 cmd_pmem(ty, at, items), ~Throws
          PROVE  NothingChanged
        BY <2>6 DEF cmd_pmem
    <2>7. ASSUME NEW ty \in TypeArgs, NEW at \in AddrArgs, NEW st \in StoreArgs,
                 cmd_smem(ty, at, st[2]), ~Throws
          PROVE  NothingChanged
        BY <2>7, SmemStores DEF serverVars
    <2> QED
        BY <1>1, <2>1, <2>2, <2>3, <2>4, <2>5, <2>6, <2>7, CommandSteps
<1>2. CommandInv /\ [Next]_cmdVars => [NothingChanged]_cmdVars
    BY <1>1
<1> QED
    BY <1>2, CommandInvariant, PTL DEF Spec, ErrorChangesNothing

-----------------------------------------------------------------------------
(* What preg prints is made of the bytes that the VM's registers hold:     *)
(* PregTruth up to the meaning of print_val, the part that depends on the  *)
(* cache.                                                                  *)
PrintsVMBytes ==
    LET size == type_desc_size(out.ty) IN
    out.cmd = "preg" /\ lapses = {} /\ size <= RegSize =>
        \A i \in DOMAIN out.at :
           out.vals[i] = print_val([b \in 1 .. size |-> vmReg[out.at[i].reg][b]], out.ty)

(* The sizes of the types are those of db-client.hh.                       *)
LEMMA TypeSizes ==
    ASSUME NEW ty \in TypeArgs
    PROVE  type_desc_size(ty) \in {1, 2, 4, 8}
BY CommandsAssumption DEF TypeDesc, type_desc_size

(* preg prints the values it fetched, which are the VM's.                  *)
LEMMA PregPrints ==
    ASSUME CommandInv, NEW ty \in TypeArgs, NEW args \in RegArgs, PregReads(ty, args)
    PROVE  PrintsVMBytes'
<1> DEFINE size == type_desc_size(ty)
<1>1. PICK junk :
        out' = [cmd |-> "preg", ty |-> ty, at |-> args,
                vals |-> [i \in DOMAIN args |->
                   print_val(Copied(regVal'[args[i].reg], junk, size), ty)]]
    BY DEF PregReads
<1>2. /\ out'.cmd = "preg" /\ out'.ty = ty /\ out'.at = args
      /\ \A i \in DOMAIN args :
            out'.vals[i] = print_val(Copied(regVal'[args[i].reg], junk, size), ty)
    BY <1>1
<1> SUFFICES ASSUME lapses' = {}, size <= RegSize, NEW i \in DOMAIN args
             PROVE  out'.vals[i] =
                    print_val([b \in 1 .. size |-> vmReg'[args[i].reg][b]], ty)
    BY <1>2 DEF PrintsVMBytes
<1>3. args[i].reg \in Reg /\ args[i].reg \in Ids(args)
    BY DEF PregReads, Ids
<1>4. regVal'[args[i].reg] = vmReg'[args[i].reg]
    BY <1>3 DEF PregReads, Prompt, fetch_reg_vals, CommandInv, CacheInv, CacheCoherent,
                Coherent
<1>5. \A b \in 1 .. size : b <= RegSize
    BY TypeSizes, CommandsAssumption
<1>6. \A val : Copied(val, junk, size) = [b \in 1 .. size |-> val[b]]
    BY <1>5 DEF Copied
<1>7. Copied(regVal'[args[i].reg], junk, size)
      = [b \in 1 .. size |-> vmReg'[args[i].reg][b]]
    BY <1>4, <1>6
<1> QED
    BY <1>2, <1>7, Zenon

(* While something is shown, it and what it is about stay as they are:     *)
(* steps that show something new, and all the others.                      *)
LEMMA ShownSteps ==
    ASSUME CommandInv, [Next]_cmdVars
    PROVE  \/ out'.cmd \in {"none", "error"}
           \/ UNCHANGED <<out, vmReg, mem, lapses>>
           \/ \E ty \in TypeArgs, args \in RegArgs : PregReads(ty, args)
           \/ \E ty \in TypeArgs, st \in StoreArgs : SregWrites(ty, st[1], st[2])
           \/ \E ty \in TypeArgs, at \in AddrArgs, items \in 1 .. 2 :
                 cmd_pmem(ty, at, items) /\ ~Throws
           \/ \E ty \in TypeArgs, at \in AddrArgs, st \in StoreArgs :
                 cmd_smem(ty, at, st[2]) /\ ~Throws
<1>1. CASE Prompt /\ FailsEarly
    BY <1>1, Shown DEF FailsEarly
<1>2. CASE Shows \/ out' = Quiet
    BY <1>2, Shown DEF Shows
<1>3. CASE Between
    <2>1. UNCHANGED out
        BY <1>3 DEF Between
    <2>2. CASE out = Quiet
        BY <2>1, <2>2, Shown
    <2>3. CASE out # Quiet
        BY <1>3, <2>3
        DEF CommandInv, StoppedIsStopped, Between, ProgramRuns, connect, check_stopped
    <2> QED
        BY <2>2, <2>3
<1>4. CASE UNCHANGED cmdVars
    BY <1>4 DEF cmdVars, dbcVars, serverVars
<1> QED
    BY <1>1, <1>2, <1>3, <1>4, CommandSteps

(* What the steps that reach the VM show.                                  *)
LEMMA ShowsCommand ==
    /\ \A ty, args : PregReads(ty, args) => out'.cmd = "preg"
    /\ \A ty, args, words : SregWrites(ty, args, words) =>
          out'.cmd \in {"none", "error", "sreg"}
    /\ \A ty, at, items : cmd_pmem(ty, at, items) /\ ~Throws => out'.cmd = "pmem"
    /\ \A ty, at, words : cmd_smem(ty, at, words) /\ ~Throws => out'.cmd = "smem"
<1>1. ASSUME NEW ty, NEW args, PregReads(ty, args)
      PROVE  out'.cmd = "preg"
    BY <1>1 DEF PregReads
<1>2. ASSUME NEW ty, NEW args, NEW words, SregWrites(ty, args, words)
      PROVE  out'.cmd \in {"none", "error", "sreg"}
    <2>1. PICK bufs, junk : StoreRegs(ty, args, words, bufs, junk)
        BY <1>2 DEF SregWrites
    <2>2. \/ out' = [Error EXCEPT !.at = args] \/ out' = Quiet
          \/ out' = [cmd |-> "sreg", ty |-> ty, at |-> args, vals |-> words]
        BY <2>1, Zenon DEF StoreRegs
    <2>3. [Error EXCEPT !.at = args].cmd = "error"
        BY DEF Error, Quiet
    <2>4. CASE out' = [Error EXCEPT !.at = args]
        BY <2>3, <2>4
    <2>5. CASE out' = Quiet
        BY <2>5, Shown
    <2>6. CASE out' = [cmd |-> "sreg", ty |-> ty, at |-> args, vals |-> words]
        BY <2>6
    <2> QED
        BY <2>2, <2>4, <2>5, <2>6
<1>3. ASSUME NEW ty, NEW at, NEW items, cmd_pmem(ty, at, items), ~Throws
      PROVE  out'.cmd = "pmem"
    BY <1>3 DEF cmd_pmem
<1>4. ASSUME NEW ty, NEW at, NEW words, cmd_smem(ty, at, words), ~Throws
      PROVE  out'.cmd = "smem"
    BY <1>4, SmemStores
<1> QED
    BY <1>1, <1>2, <1>3, <1>4

-----------------------------------------------------------------------------
(* Numbers and their digits, for every base and every number of digits.    *)

(* A multiple leaves nothing over.                                         *)
LEMMA Multiple ==
    ASSUME NEW m \in Nat \ {0}, NEW k \in Int
    PROVE  (k * m) % m = 0
<1> DEFINE q == (k * m) \div m
           r == (k * m) % m
<1>1. q \in Int /\ r \in 0 .. m - 1 /\ k * m = m * q + r
    OBVIOUS
<1> HIDE DEF q, r
<1>2. m * (k - q) = r
    BY <1>1
<1>3. ~(k - q >= 1)
    <2> SUFFICES ASSUME k - q >= 1
                 PROVE  FALSE
        OBVIOUS
    <2>1. m * (k - q) >= m
        BY <1>1
    <2> QED
        BY <1>1, <1>2, <2>1
<1>4. ~(k - q <= -1)
    <2> SUFFICES ASSUME k - q <= -1
                 PROVE  FALSE
        OBVIOUS
    <2>1. m * (k - q) <= -m
        BY <1>1
    <2> QED
        BY <1>1, <1>2, <2>1
<1>5. k - q = 0
    BY <1>1, <1>3, <1>4
<1>6. r = 0
    BY <1>1, <1>2, <1>5
<1> QED
    BY <1>6 DEF r

(* To divide by a product is to divide by one factor after the other.      *)
LEMMA DivTwice ==
    ASSUME NEW n \in Nat, NEW p \in Nat \ {0}, NEW b \in Nat \ {0}
    PROVE  n \div (b * p) = (n \div p) \div b
<1> DEFINE x == n \div p
           r == n % p
           y == x \div b
           d == x % b
<1>1. x \in Nat /\ r \in 0 .. p - 1 /\ n = p * x + r
    BY DivMod
<1>2. y \in Nat /\ d \in 0 .. b - 1 /\ x = b * y + d
    <2> HIDE DEF x
    <2> QED
        BY <1>1, DivMod
<1> DEFINE m == b * p
           s == p * d + r
<1> HIDE DEF x, r, y, d
<1>3. m \in Nat \ {0}
    OBVIOUS
<1>4. n = m * y + s
    <2>1. p * x = p * (b * y) + p * d
        BY <1>2
    <2>2. p * (b * y) = (b * p) * y
        BY <1>2
    <2> QED
        BY <1>1, <1>2, <2>1, <2>2
<1>5. s \in 0 .. m - 1
    <2>1. p * d <= p * (b - 1)
        BY <1>2
    <2>2. p * (b - 1) = b * p - p
        OBVIOUS
    <2>3. p * d \in Nat
        BY <1>2
    <2> QED
        BY <1>1, <2>1, <2>2, <2>3
<1>6. n \div m = y
    <2> HIDE DEF m, s
    <2> QED
        BY <1>2, <1>3, <1>4, <1>5, DivModUnique
<1> QED
    BY <1>6 DEF m, y, x

-----------------------------------------------------------------------------
(* Powers, digits read from the highest one on, and places added up from   *)
(* the lowest one on: the recursions are well defined.                     *)

(* The powers of a base.                                                   *)
IsPowers(base, n, f) ==
    f = [i \in 0 .. n |-> IF i = 0 THEN 1 ELSE base * f[i - 1]]

LawOfPowers(base, n) ==
    /\ Powers(base, n)[0] = 1
    /\ \A i \in 0 .. n : Powers(base, n)[i] \in Nat \ {0}
    /\ \A i \in 1 .. n : Powers(base, n)[i] = base * Powers(base, n)[i - 1]

(* Powers is well defined.                                                 *)
LEMMA PowersLaw ==
    ASSUME NEW base \in Nat \ {0}, NEW n \in Nat
    PROVE  LawOfPowers(base, n)
<1> DEFINE N == n
           V == Nat \ {0}
           F == [x \in (1 .. N) \X V |-> base * x[2]]
<1>0. N \in Nat
    OBVIOUS
<1>1. \A i \in 1 .. N, a \in V : base * a \in V
    OBVIOUS
<1>2. IsStep(F, N, V)
    <2>1. \A x \in (1 .. N) \X V : x[1] \in 1 .. N /\ x[2] \in V
        OBVIOUS
    <2> HIDE DEF V, N
    <2>2. \A x \in (1 .. N) \X V : base * x[2] \in V
        BY <1>1, <2>1, Zenon
    <2> QED
        BY <2>2, Zenon DEF IsStep
<1>3. \A i \in 1 .. N, a \in V : F[<<i, a>>] = base * a
    OBVIOUS
<1>4. 1 \in V
    OBVIOUS
<1> HIDE DEF F, N, V
<1>5. PICK f \in [0 .. N -> V] : Iterates(F, 1, N, f)
    BY <1>0, <1>2, <1>4, RecursionExists
<1>6. IsPowers(base, n, f)
    <2> DEFINE g == [i \in 0 .. N |-> IF i = 0 THEN 1 ELSE base * f[i - 1]]
    <2>1. ASSUME NEW i \in 0 .. N
          PROVE  f[i] = g[i]
        <3>1. CASE i = 0
            BY <1>5, <3>1 DEF Iterates
        <3>2. CASE i # 0
            <4>1. i \in 1 .. N /\ i - 1 \in 0 .. N
                BY <1>0, <3>2
            <4>2. f[i] = F[<<i, f[i - 1]>>] /\ f[i - 1] \in V
                BY <1>5, <4>1 DEF Iterates
            <4>3. f[i] = base * f[i - 1]
                BY <1>3, <4>1, <4>2
            <4> QED
                BY <3>2, <4>3
        <3> QED
            BY <3>1, <3>2
    <2>2. g = [i \in 0 .. N |-> g[i]]
        OBVIOUS
    <2>3. f = g
        <3> HIDE DEF g
        <3> QED
            BY <2>1, <2>2
    <2> QED
        BY <2>3, Zenon DEF IsPowers, N
<1> DEFINE s == CHOOSE h : IsPowers(base, n, h)
<1>7. IsPowers(base, n, s)
    BY <1>6
<1>8. Powers(base, n) = s
    BY DEF Powers, IsPowers
<1> HIDE DEF s
<1>9. s[0] = 1 /\ \A i \in 1 .. N : s[i] = base * s[i - 1]
    <2>1. \A i \in 0 .. N : s[i] = IF i = 0 THEN 1 ELSE base * s[i - 1]
        BY <1>7 DEF IsPowers, N
    <2> QED
        BY <1>0, <2>1
<1>10. \A i \in 0 .. N : s[i] \in V
    <2>1. Obeys(F, 1, N, V, s)
        BY <1>3, <1>9 DEF Obeys
    <2>2. Typed(N, V, s)
        BY <1>0, <1>2, <1>4, <2>1, RecursionTyped
    <2> QED
        BY <2>2 DEF Typed
<1> QED
    BY <1>8, <1>9, <1>10 DEF LawOfPowers, N, V

(* The numbers of the first digit, of the first two, ...                   *)
IsReading(base, digits, f) ==
    f = [i \in 0 .. Len(digits) |-> IF i = 0 THEN 0 ELSE base * f[i - 1] + digits[i]]

Reads(base, digits, h) ==
    /\ h[0] = 0
    /\ \A i \in 0 .. Len(digits) : h[i] \in Nat
    /\ \A i \in 1 .. Len(digits) : h[i] = base * h[i - 1] + digits[i]

(* Number is well defined.                                                 *)
LEMMA NumberLaw ==
    ASSUME NEW base \in Nat \ {0}, NEW digits \in Seq(Nat)
    PROVE  \E h : Reads(base, digits, h) /\ Number(base, digits) = h[Len(digits)]
<1> DEFINE N == Len(digits)
           V == Nat
           F == [x \in (1 .. N) \X V |-> base * x[2] + digits[x[1]]]
<1>0. N \in Nat
    OBVIOUS
<1>1. \A i \in 1 .. N, a \in V : base * a + digits[i] \in V
    <2> TAKE i \in 1 .. N, a \in V
    <2>1. digits[i] \in Nat /\ base * a \in Nat
        OBVIOUS
    <2> QED
        BY <2>1
<1>2. IsStep(F, N, V)
    <2>1. \A x \in (1 .. N) \X V : x[1] \in 1 .. N /\ x[2] \in V
        OBVIOUS
    <2> HIDE DEF V, N
    <2>2. \A x \in (1 .. N) \X V : base * x[2] + digits[x[1]] \in V
        BY <1>1, <2>1, Zenon
    <2> QED
        BY <2>2, Zenon DEF IsStep
<1>3. \A i \in 1 .. N, a \in V : F[<<i, a>>] = base * a + digits[i]
    OBVIOUS
<1>4. 0 \in V
    OBVIOUS
<1> HIDE DEF F, N, V
<1>5. PICK f \in [0 .. N -> V] : Iterates(F, 0, N, f)
    BY <1>0, <1>2, <1>4, RecursionExists
<1>6. IsReading(base, digits, f)
    <2> DEFINE g == [i \in 0 .. N |-> IF i = 0 THEN 0 ELSE base * f[i - 1] + digits[i]]
    <2>1. ASSUME NEW i \in 0 .. N
          PROVE  f[i] = g[i]
        <3>1. CASE i = 0
            BY <1>5, <3>1 DEF Iterates
        <3>2. CASE i # 0
            <4>1. i \in 1 .. N /\ i - 1 \in 0 .. N
                BY <1>0, <3>2
            <4>2. f[i] = F[<<i, f[i - 1]>>] /\ f[i - 1] \in V
                BY <1>5, <4>1 DEF Iterates
            <4>3. f[i] = base * f[i - 1] + digits[i]
                BY <1>3, <4>1, <4>2
            <4> QED
                BY <3>2, <4>3
        <3> QED
            BY <3>1, <3>2
    <2>2. g = [i \in 0 .. N |-> g[i]]
        OBVIOUS
    <2>3. f = g
        <3> HIDE DEF g
        <3> QED
            BY <2>1, <2>2
    <2> QED
        BY <2>3, Zenon DEF IsReading, N
<1> DEFINE s == CHOOSE h : IsReading(base, digits, h)
<1>7. IsReading(base, digits, s)
    BY <1>6
<1>8. Number(base, digits) = s[Len(digits)]
    BY DEF Number, IsReading
<1> HIDE DEF s
<1>9. s[0] = 0 /\ \A i \in 1 .. N : s[i] = base * s[i - 1] + digits[i]
    <2>1. \A i \in 0 .. N : s[i] = IF i = 0 THEN 0 ELSE base * s[i - 1] + digits[i]
        BY <1>7 DEF IsReading, N
    <2> QED
        BY <1>0, <2>1
<1>10. \A i \in 0 .. N : s[i] \in V
    <2>1. Obeys(F, 0, N, V, s)
        BY <1>3, <1>9 DEF Obeys
    <2>2. Typed(N, V, s)
        BY <1>0, <1>2, <1>4, <2>1, RecursionTyped
    <2> QED
        BY <2>2 DEF Typed
<1>11. Reads(base, digits, s)
    BY <1>9, <1>10 DEF Reads, N, V
<1> QED
    BY <1>8, <1>11

(* The sums of the lowest place, of the two lowest ones, ...               *)
IsSum(base, digits, f) ==
    f = [i \in 0 .. Len(digits) |-> IF i = 0 THEN 0 ELSE f[i - 1] + Place(base, digits, i)]

Adds(base, digits, w) ==
    /\ w[0] = 0
    /\ \A i \in 0 .. Len(digits) : w[i] \in Nat
    /\ \A i \in 1 .. Len(digits) : w[i] = w[i - 1] + Place(base, digits, i)

(* Places is well defined.                                                 *)
LEMMA PlacesLaw ==
    ASSUME NEW base \in Nat \ {0}, NEW digits \in Seq(Nat)
    PROVE  \E w : Adds(base, digits, w) /\ Places(base, digits) = w[Len(digits)]
<1> DEFINE N == Len(digits)
           V == Nat
           F == [x \in (1 .. N) \X V |-> x[2] + Place(base, digits, x[1])]
<1>0. N \in Nat
    OBVIOUS
<1>1. \A i \in 1 .. N, a \in V : a + Place(base, digits, i) \in V
    <2> TAKE i \in 1 .. N, a \in V
    <2>1. digits[i] \in Nat /\ i - 1 \in 0 .. N
        OBVIOUS
    <2> DEFINE p == Powers(base, Len(digits))[i - 1]
    <2>2. p \in Nat
        BY <1>0, <2>1, PowersLaw DEF LawOfPowers
    <2> HIDE DEF p
    <2>3. digits[i] * p \in Nat
        BY <2>1, <2>2
    <2>4. Place(base, digits, i) \in Nat
        BY <2>3 DEF Place, p
    <2> QED
        BY <2>4
<1>2. IsStep(F, N, V)
    <2>1. \A x \in (1 .. N) \X V : x[1] \in 1 .. N /\ x[2] \in V
        OBVIOUS
    <2> HIDE DEF V, N
    <2>2. \A x \in (1 .. N) \X V : x[2] + Place(base, digits, x[1]) \in V
        BY <1>1, <2>1, Zenon
    <2> QED
        BY <2>2, Zenon DEF IsStep
<1>3. \A i \in 1 .. N, a \in V : F[<<i, a>>] = a + Place(base, digits, i)
    OBVIOUS
<1>4. 0 \in V
    OBVIOUS
<1> HIDE DEF F, N, V
<1>5. PICK f \in [0 .. N -> V] : Iterates(F, 0, N, f)
    BY <1>0, <1>2, <1>4, RecursionExists
<1>6. IsSum(base, digits, f)
    <2> DEFINE g == [i \in 0 .. N |-> IF i = 0 THEN 0 ELSE f[i - 1] + Place(base, digits, i)]
    <2>1. ASSUME NEW i \in 0 .. N
          PROVE  f[i] = g[i]
        <3>1. CASE i = 0
            BY <1>5, <3>1 DEF Iterates
        <3>2. CASE i # 0
            <4>1. i \in 1 .. N /\ i - 1 \in 0 .. N
                BY <1>0, <3>2
            <4>2. f[i] = F[<<i, f[i - 1]>>] /\ f[i - 1] \in V
                BY <1>5, <4>1 DEF Iterates
            <4>3. f[i] = f[i - 1] + Place(base, digits, i)
                BY <1>3, <4>1, <4>2
            <4> QED
                BY <3>2, <4>3
        <3> QED
            BY <3>1, <3>2
    <2>2. g = [i \in 0 .. N |-> g[i]]
        OBVIOUS
    <2>3. f = g
        <3> HIDE DEF g
        <3> QED
            BY <2>1, <2>2
    <2> QED
        BY <2>3, Zenon DEF IsSum, N
<1> DEFINE s == CHOOSE h : IsSum(base, digits, h)
<1>7. IsSum(base, digits, s)
    BY <1>6
<1>8. Places(base, digits) = s[Len(digits)]
    BY DEF Places, IsSum
<1> HIDE DEF s
<1>9. s[0] = 0 /\ \A i \in 1 .. N : s[i] = s[i - 1] + Place(base, digits, i)
    <2>1. \A i \in 0 .. N : s[i] = IF i = 0 THEN 0 ELSE s[i - 1] + Place(base, digits, i)
        BY <1>7 DEF IsSum, N
    <2> QED
        BY <1>0, <2>1
<1>10. \A i \in 0 .. N : s[i] \in V
    <2>1. Obeys(F, 0, N, V, s)
        BY <1>3, <1>9 DEF Obeys
    <2>2. Typed(N, V, s)
        BY <1>0, <1>2, <1>4, <2>1, RecursionTyped
    <2> QED
        BY <2>2 DEF Typed
<1>11. Adds(base, digits, s)
    BY <1>9, <1>10 DEF Adds, N, V
<1> QED
    BY <1>8, <1>11

-----------------------------------------------------------------------------
(* What the digits come to.                                                *)

IsReverse(d, r) == Len(r) = Len(d) /\ \A i \in 1 .. Len(d) : r[i] = d[Len(d) + 1 - i]

(* Reading digits from the highest one on adds up their places, whatever   *)
(* the base and however many there are.                                    *)
LEMMA ReadingAddsPlaces ==
    ASSUME NEW base \in Nat \ {0}, NEW d \in Seq(Nat), NEW r \in Seq(Nat), IsReverse(d, r)
    PROVE  Number(base, r) = Places(base, d)
<1> DEFINE N == Len(d)
           p == Powers(base, N)
<1>0. N \in Nat /\ Len(r) = N
    BY DEF IsReverse
<1>1. PICK h : Reads(base, r, h) /\ Number(base, r) = h[Len(r)]
    BY NumberLaw
<1>2. PICK w : Adds(base, d, w) /\ Places(base, d) = w[Len(d)]
    BY PlacesLaw
<1>3. LawOfPowers(base, N)
    BY <1>0, PowersLaw
<1> DEFINE P(i) == w[N - i] + p[N - i] * h[i] = w[N]
           Bad == {i \in 0 .. N : ~P(i)}
<1>4. P(0)
    <2>1. h[0] = 0 /\ N - 0 = N /\ N \in 0 .. N
        BY <1>0, <1>1 DEF Reads
    <2>2. w[N] \in Nat /\ p[N] \in Nat
        BY <1>2, <1>3, <2>1 DEF Adds, LawOfPowers
    <2> HIDE DEF N, p
    <2>3. p[N] * 0 = 0
        BY <2>2
    <2> QED
        BY <2>1, <2>2, <2>3
<1>5. ASSUME NEW i \in 0 .. N - 1, P(i)
      PROVE  P(i + 1)
    <2> DEFINE k == N - i
               a == w[k - 1]
               x == d[k]
               q == p[k - 1]
               y == h[i]
    <2>1. k \in 1 .. N /\ k - 1 \in 0 .. N /\ i + 1 \in 1 .. N /\ i \in 0 .. N
        BY <1>0
    <2>2. N - (i + 1) = k - 1 /\ (i + 1) - 1 = i /\ N + 1 - (i + 1) = k
        BY <1>0
    <2>3. a \in Nat /\ w[k] = a + Place(base, d, k)
        BY <1>2, <2>1 DEF Adds
    <2>4. q \in Nat /\ p[k] = base * q
        BY <1>3, <2>1 DEF LawOfPowers
    <2>5. y \in Nat /\ h[i + 1] = base * y + r[i + 1]
        BY <1>0, <1>1, <2>1, <2>2 DEF Reads
    <2>6. x \in Nat /\ r[i + 1] = x
        BY <2>1, <2>2 DEF IsReverse
    <2>7. Place(base, d, k) = x * q
        BY DEF Place
    <2>8. w[N] = (a + x * q) + (base * q) * y
        BY <1>5, <2>3, <2>4, <2>7
    <2> HIDE DEF a, x, q, y
    <2>9. (a + x * q) + (base * q) * y = a + q * (base * y + x)
        BY <2>3, <2>4, <2>5, <2>6
    <2>10. w[k - 1] + p[k - 1] * h[i + 1] = w[N]
        BY <2>5, <2>6, <2>8, <2>9 DEF a, q
    <2> HIDE DEF N, p, k
    <2> QED
        BY <2>2, <2>10
<1>6. Bad = {}
    <2> SUFFICES ASSUME Bad # {}
                 PROVE  FALSE
        OBVIOUS
    <2>1. Bad \in SUBSET Nat
        BY <1>0
    <2>2. PICK i \in Bad : \A j \in Bad : i <= j
        <3> HIDE DEF Bad
        <3> QED
            BY <2>1, LeastNumber
    <2> HIDE DEF P
    <2>3. i \in 0 .. N /\ ~P(i)
        BY <2>2
    <2>4. i # 0
        BY <1>4, <2>3
    <2>5. i - 1 \in 0 .. N - 1 /\ i - 1 \in 0 .. N /\ ~(i <= i - 1) /\ (i - 1) + 1 = i
        BY <1>0, <2>3, <2>4
    <2>6. P(i - 1)
        BY <2>2, <2>5
    <2> QED
        BY <1>5, <2>3, <2>5, <2>6
<1>7. P(N)
    <2> HIDE DEF P
    <2>1. N \in 0 .. N
        BY <1>0
    <2> QED
        BY <1>6, <2>1
<1>8. w[0] = 0 /\ p[0] = 1 /\ h[N] \in Nat /\ N - N = 0
    BY <1>0, <1>1, <1>2, <1>3 DEF Adds, LawOfPowers, Reads
<1>9. w[0] + p[0] * h[N] = w[N]
    <2> HIDE DEF N, p
    <2> QED
        BY <1>7, <1>8
<1>10. h[N] = w[N]
    <2> HIDE DEF N, p
    <2> QED
        BY <1>8, <1>9
<1> QED
    BY <1>0, <1>1, <1>2, <1>10

(* Digits below the base come to less than the power after them.           *)
LEMMA PlacesBound ==
    ASSUME NEW base \in Nat \ {0}, NEW d \in Seq(0 .. base - 1)
    PROVE  Places(base, d) \in 0 .. Powers(base, Len(d))[Len(d)] - 1
<1> DEFINE N == Len(d)
           p == Powers(base, N)
<1>0. N \in Nat /\ d \in Seq(Nat) /\ \A i \in 1 .. N : d[i] \in 0 .. base - 1
    OBVIOUS
<1>1. PICK w : Adds(base, d, w) /\ Places(base, d) = w[Len(d)]
    BY <1>0, PlacesLaw
<1>2. LawOfPowers(base, N)
    BY <1>0, PowersLaw
<1> DEFINE Bad == {i \in 0 .. N : ~(w[i] < p[i])}
<1>3. Bad = {}
    <2> SUFFICES ASSUME Bad # {}
                 PROVE  FALSE
        OBVIOUS
    <2>1. Bad \in SUBSET Nat
        BY <1>0
    <2>2. PICK i \in Bad : \A j \in Bad : i <= j
        <3> HIDE DEF Bad
        <3> QED
            BY <2>1, LeastNumber
    <2>3. i # 0
        BY <1>1, <1>2, <2>2 DEF Adds, LawOfPowers
    <2>4. i \in 1 .. N /\ i - 1 \in 0 .. N /\ ~(i <= i - 1)
        BY <1>0, <2>2, <2>3
    <2> DEFINE a == w[i - 1]
               x == d[i]
               q == p[i - 1]
    <2>5. a < q
        BY <2>2, <2>4
    <2>6. a \in Nat /\ w[i] = a + Place(base, d, i)
        BY <1>1, <2>4 DEF Adds
    <2>7. q \in Nat /\ p[i] = base * q
        BY <1>2, <2>4 DEF LawOfPowers
    <2>8. x \in 0 .. base - 1 /\ Place(base, d, i) = x * q
        BY <1>0, <2>4 DEF Place
    <2>9. ~(w[i] < p[i])
        BY <2>2
    <2> HIDE DEF a, x, q, N, p, Bad
    <2>10. x * q <= (base - 1) * q /\ (base - 1) * q = base * q - q
        BY <2>7, <2>8
    <2>11. x * q \in Nat /\ base * q \in Nat
        BY <2>7, <2>8
    <2>12. a + x * q < base * q
        BY <2>5, <2>6, <2>7, <2>10, <2>11
    <2> QED
        BY <2>6, <2>7, <2>8, <2>9, <2>12
<1>4. N \in 0 .. N
    BY <1>0
<1>5. w[N] < p[N] /\ w[N] \in Nat /\ p[N] \in Nat
    BY <1>1, <1>2, <1>3, <1>4 DEF Adds, LawOfPowers
<1> QED
    BY <1>1, <1>5

(* d are the lowest digits of a number.                                    *)
LowDigits(base, val, d) ==
    \A i \in 1 .. Len(d) : d[i] = (val \div Powers(base, Len(d))[i - 1]) % base

(* The lowest digits of a number come to it, but for a multiple of the     *)
(* power after them.                                                       *)
LEMMA LowDigitsPlaces ==
    ASSUME NEW base \in Nat \ {0}, NEW val \in Nat, NEW d \in Seq(Nat),
           LowDigits(base, val, d)
    PROVE  (Places(base, d) - val) % Powers(base, Len(d))[Len(d)] = 0
<1> DEFINE N == Len(d)
           p == Powers(base, N)
<1>0. N \in Nat
    OBVIOUS
<1>1. PICK w : Adds(base, d, w) /\ Places(base, d) = w[Len(d)]
    BY PlacesLaw
<1>2. LawOfPowers(base, N)
    BY <1>0, PowersLaw
<1> DEFINE Bad == {i \in 0 .. N : ~(val = w[i] + p[i] * (val \div p[i]))}
<1>3. Bad = {}
    <2> SUFFICES ASSUME Bad # {}
                 PROVE  FALSE
        OBVIOUS
    <2>1. Bad \in SUBSET Nat
        BY <1>0
    <2>2. PICK i \in Bad : \A j \in Bad : i <= j
        <3> HIDE DEF Bad
        <3> QED
            BY <2>1, LeastNumber
    <2>3. i # 0
        <3>1. w[0] = 0 /\ p[0] = 1
            BY <1>1, <1>2 DEF Adds, LawOfPowers
        <3>2. val = 0 + 1 * (val \div 1)
            OBVIOUS
        <3> HIDE DEF p, N
        <3>3. val = w[0] + p[0] * (val \div p[0])
            BY <3>1, <3>2
        <3> QED
            BY <2>2, <3>3
    <2>4. i \in 1 .. N /\ i - 1 \in 0 .. N /\ ~(i <= i - 1)
        BY <1>0, <2>2, <2>3
    <2> DEFINE a == w[i - 1]
               q == p[i - 1]
               m == val \div q
               e == m \div base
               x == m % base
    <2>5. val = a + q * m
        <3> HIDE DEF p, N
        <3> QED
            BY <2>2, <2>4
    <2>6. a \in Nat /\ w[i] = a + Place(base, d, i)
        BY <1>1, <2>4 DEF Adds
    <2>7. q \in Nat \ {0} /\ p[i] = base * q
        BY <1>2, <2>4 DEF LawOfPowers
    <2>8. d[i] = x
        BY <2>4 DEF LowDigits
    <2>9. Place(base, d, i) = x * q
        BY <2>8 DEF Place
    <2>10. ~(val = w[i] + p[i] * (val \div p[i]))
        BY <2>2
    <2> HIDE DEF a, q, N, p, Bad
    <2>11. m \in Nat /\ val \div (base * q) = e
        BY <2>7, DivMod, DivTwice
    <2> HIDE DEF m
    <2>12. e \in Nat /\ x \in Nat /\ m = base * e + x
        <3>1. m \in Nat
            BY <2>11
        <3>2. e \in Nat /\ x \in 0 .. base - 1 /\ m = base * e + x
            BY <3>1, DivMod
        <3> HIDE DEF e, x
        <3> QED
            BY <3>2
    <2> HIDE DEF e, x
    <2>13. q * (base * e + x) = x * q + (base * q) * e
        BY <2>7, <2>12
    <2>14. val = a + (x * q + (base * q) * e)
        BY <2>5, <2>12, <2>13
    <2>15. x * q \in Nat /\ (base * q) * e \in Nat
        BY <2>7, <2>12
    <2>16. val = (a + x * q) + (base * q) * e
        BY <2>6, <2>14, <2>15
    <2> QED
        BY <2>6, <2>7, <2>9, <2>10, <2>11, <2>16
<1>4. N \in 0 .. N
    BY <1>0
<1> DEFINE s == p[N]
           m == val \div s
<1>5. val = w[N] + s * m /\ w[N] \in Nat /\ s \in Nat \ {0}
    <2>1. w[N] \in Nat /\ s \in Nat \ {0}
        BY <1>1, <1>2, <1>4 DEF Adds, LawOfPowers
    <2>2. N \notin Bad
        BY <1>3
    <2> HIDE DEF p, N
    <2> QED
        BY <1>4, <2>1, <2>2
<1> HIDE DEF s
<1>6. m \in Nat
    BY <1>5, DivMod
<1> HIDE DEF m
<1>7. w[N] - val = (-m) * s
    <2> HIDE DEF N
    <2> QED
        BY <1>5, <1>6
<1>8. ((-m) * s) % s = 0
    <2>1. -m \in Int
        BY <1>6
    <2> QED
        BY <1>5, <2>1, Multiple
<1> QED
    BY <1>1, <1>7, <1>8 DEF s

-----------------------------------------------------------------------------
(* Values and words.                                                       *)

(* A type has at least one value, and its bytes are as many as its size.   *)
LEMMA SpanType ==
    ASSUME NEW ty \in TypeArgs
    PROVE  Span(ty) \in Nat \ {0}
<1> DEFINE size == type_desc_size(ty)
<1>1. size \in Nat /\ size \in 0 .. size
    BY TypeSizes
<1>2. ByteMod \in Nat \ {0}
    BY ByteModAssumption
<1> HIDE DEF size
<1>3. LawOfPowers(ByteMod, size)
    BY <1>1, <1>2, PowersLaw
<1>4. Powers(ByteMod, size)[size] \in Nat \ {0}
    BY <1>1, <1>3 DEF LawOfPowers
<1> QED
    BY <1>4 DEF Span, size

(* A function on the first numbers is a sequence.                          *)
LEMMA FunctionIsSeq ==
    ASSUME NEW n \in Nat, NEW S, NEW f \in [1 .. n -> S]
    PROVE  f \in Seq(S) /\ Len(f) = n
OBVIOUS

(* What print_val prints is the number of the type that the bytes encode.  *)
LEMMA PrintDenotes ==
    ASSUME NEW ty \in TypeArgs, NEW bytes \in [1 .. type_desc_size(ty) -> Byte]
    PROVE  Denotes(print_val(bytes, ty), bytes, ty)
<1> DEFINE size == type_desc_size(ty)
           u == Number(ByteMod, Reverse(bytes))
           s == Span(ty)
           n == print_val(bytes, ty)
<1>0. size \in Nat /\ ByteMod \in Nat \ {0}
    BY TypeSizes, ByteModAssumption
<1>1. bytes \in Seq(0 .. ByteMod - 1) /\ Len(bytes) = size
    BY <1>0, FunctionIsSeq DEF Byte
<1>2. bytes \in Seq(Nat) /\ Reverse(bytes) \in Seq(Nat) /\ IsReverse(bytes, Reverse(bytes))
    <2>1. bytes \in Seq(Nat)
        BY <1>0, <1>1
    <2>2. Reverse(bytes) = [i \in 1 .. size |-> bytes[(size - i) + 1]]
        BY <1>1 DEF Reverse
    <2>3. ASSUME NEW i \in 1 .. size
          PROVE  (size - i) + 1 \in 1 .. size /\ (size - i) + 1 = size + 1 - i
                 /\ bytes[(size - i) + 1] \in Nat
        <3>1. (size - i) + 1 \in 1 .. size /\ (size - i) + 1 = size + 1 - i
            BY <1>0
        <3> QED
            BY <1>1, <2>1, <3>1
    <2>4. Reverse(bytes) \in [1 .. size -> Nat]
        BY <2>2, <2>3
    <2>5. Reverse(bytes) \in Seq(Nat) /\ Len(Reverse(bytes)) = size
        BY <1>0, <2>4, FunctionIsSeq
    <2>6. \A i \in 1 .. size : Reverse(bytes)[i] = bytes[size + 1 - i]
        BY <2>2, <2>3
    <2> QED
        BY <1>1, <2>1, <2>5, <2>6 DEF IsReverse
<1>3. u = Unsigned(bytes)
    BY <1>0, <1>2, ReadingAddsPlaces DEF Unsigned
<1>4. Unsigned(bytes) \in 0 .. s - 1
    BY <1>0, <1>1, PlacesBound DEF Unsigned, Span
<1>5. s \in Nat \ {0}
    BY SpanType
<1>6. n = IF Signed(ty) /\ 2 * u >= s THEN u - s ELSE u
    BY DEF print_val
<1> HIDE DEF u, s, n
<1>7. /\ n \in Int
      /\ IF Signed(ty) THEN -s <= 2 * n /\ 2 * n < s ELSE 0 <= n /\ n < s
      /\ Unsigned(bytes) - n = 1 * s \/ Unsigned(bytes) - n = 0 * s
    BY <1>3, <1>4, <1>5, <1>6
<1>8. (Unsigned(bytes) - n) % s = 0
    <2>1. (1 * s) % s = 0 /\ (0 * s) % s = 0
        BY <1>5, Multiple
    <2> QED
        BY <1>7, <2>1
<1> QED
    BY <1>7, <1>8 DEF Denotes, Fits, n, s

(* What load_val stores are bytes.                                         *)
LEMMA LoadType ==
    ASSUME NEW v, NEW ty, NEW b \in load_val(v, ty)
    PROVE  b \in [1 .. type_desc_size(ty) -> Byte]
BY DEF load_val

(* The bytes that load_val stores encode the double that a value became,   *)
(* if it is one of the type.                                               *)
LEMMA LoadDenotes ==
    ASSUME NEW ty \in TypeArgs, NEW v, AsDouble(v) \in Nat, Fits(AsDouble(v), ty),
           NEW d \in load_val(v, ty)
    PROVE  Denotes(AsDouble(v), d, ty)
<1> DEFINE size == type_desc_size(ty)
           val == AsDouble(v)
<1>0. size \in Nat /\ ByteMod \in Nat \ {0}
    BY TypeSizes, ByteModAssumption
<1>1. d \in [1 .. size -> Byte]
    BY LoadType
<1>2. \A i \in DOMAIN d : d[i] = (val \div Powers(ByteMod, size)[i - 1]) % ByteMod
    BY DEF load_val
<1>3. val \in Nat /\ Fits(val, ty)
    OBVIOUS
<1> HIDE DEF size, val
<1>4. d \in [1 .. size -> Nat]
    BY <1>0, <1>1 DEF Byte
<1>5. d \in Seq(Nat) /\ Len(d) = size
    BY <1>0, <1>4, FunctionIsSeq
<1>6. LowDigits(ByteMod, val, d)
    BY <1>2, <1>4, <1>5 DEF LowDigits
<1>7. (Places(ByteMod, d) - val) % Powers(ByteMod, Len(d))[Len(d)] = 0
    BY <1>0, <1>3, <1>5, <1>6, LowDigitsPlaces
<1>8. (Unsigned(d) - val) % Span(ty) = 0
    BY <1>5, <1>7 DEF Unsigned, Span, size
<1> QED
    BY <1>3, <1>8 DEF Denotes, val

(* The digits of a word, read in a base, add up to what they are there for.*)
LEMMA WordReads ==
    ASSUME NEW base \in Nat \ {0}, NEW digits \in Seq(Nat)
    PROVE  /\ Number(base, digits) \in Nat
           /\ Number(base, digits) = Places(base, Reverse(digits))
<1> DEFINE N == Len(digits)
           d == Reverse(digits)
<1>0. N \in Nat
    OBVIOUS
<1>1. d = [i \in 1 .. N |-> digits[(N - i) + 1]]
    BY DEF Reverse
<1>2. \A i \in 1 .. N : (N - i) + 1 \in 1 .. N /\ digits[(N - i) + 1] \in Nat
    OBVIOUS
<1>3. d \in [1 .. N -> Nat]
    BY <1>1, <1>2
<1> HIDE DEF d
<1>4. d \in Seq(Nat) /\ Len(d) = N
    BY <1>0, <1>3, FunctionIsSeq
<1>5. ASSUME NEW i \in 1 .. N
      PROVE  digits[i] = d[N + 1 - i]
    <2>1. N + 1 - i \in 1 .. N /\ (N - (N + 1 - i)) + 1 = i
        BY <1>0
    <2> QED
        BY <1>1, <2>1
<1>6. IsReverse(d, digits)
    BY <1>4, <1>5 DEF IsReverse
<1>7. Number(base, digits) = Places(base, d)
    BY <1>4, <1>6, ReadingAddsPlaces
<1>8. PICK h : Reads(base, digits, h) /\ Number(base, digits) = h[Len(digits)]
    BY NumberLaw
<1>9. Number(base, digits) \in Nat
    BY <1>0, <1>8 DEF Reads
<1> QED
    BY <1>7, <1>9 DEF d

(* What a word that is not refused resolves to: an integer is a number,    *)
(* and what load_val makes a plain word into is what it means.             *)
WordMeans(word) ==
    /\ resolve_val(word).type = "IVAL" => resolve_val(word).val \in Int
    /\ Plain(word) => Meant(word) \in Nat /\ AsDouble(resolve_val(word)) = Meant(word)

(* Small numbers are doubles.                                              *)
LEMMA SmallIsDouble ==
    ASSUME NEW n \in Nat, n <= DoubleExact
    PROVE  Nearest(n) = n /\ ToDouble(n) = n
<1>1. ~(n < 0)
    OBVIOUS
<1>2. Nearest(n) = n
    BY DEF Nearest
<1> QED
    BY <1>1, <1>2 DEF ToDouble

(* Whatever word is not refused has such a meaning.                        *)
LEMMA ResolvedMeans ==
    ASSUME NEW word, IsWord(word), resolve_val(word).type # "ERR"
    PROVE  WordMeans(word)
<1> DEFINE v == r_value(word)
           w == resolve_val(word)
<1>0. DoubleExact \in Nat /\ LongMax \in Nat /\ DoubleExact <= LongMax
    BY NumbersAssumption
<1>1. w = CASE v.type # "SYM" -> v
            [] v.type = "SYM" /\ v.val \in DOMAIN SymAddr ->
                   [type |-> "IVAL", val |-> ToLong(SymAddr[v.val])]
            [] OTHER -> [type |-> "ERR", val |-> 0]
    BY DEF resolve_val
<1>2. v = CASE word.k = "sym" -> [type |-> "SYM", val |-> word.sym]
            [] parse_int(word).ok -> [type |-> "IVAL", val |-> parse_int(word).val]
            [] ~parse_int(word).ok /\ parse_double(word).ok ->
                   [type |-> "DVAL", val |-> parse_double(word).val]
            [] OTHER -> [type |-> "ERR", val |-> 0]
    BY DEF r_value
<1>3. NoParse.ok = FALSE
    BY DEF NoParse
<1>4. CASE word.k = "sym"
    <2>1. ~parse_int(word).ok /\ ~parse_double(word).ok
        BY <1>3, <1>4 DEF parse_int, parse_double
    <2>2. v = [type |-> "SYM", val |-> word.sym]
        BY <1>2, <1>4, <2>1
    <2>3. v.type = "SYM" /\ v.val = word.sym
        BY <2>2
    <2> HIDE DEF v
    <2>4. word.sym \in DOMAIN SymAddr
        <3>1. CASE word.sym \notin DOMAIN SymAddr
            <4>1. w = [type |-> "ERR", val |-> 0]
                BY <1>1, <2>3, <3>1
            <4>2. w.type = "ERR"
                BY <4>1
            <4> QED
                BY <4>2
        <3> QED
            BY <3>1
    <2> DEFINE addr == SymAddr[word.sym]
    <2>5. w = [type |-> "IVAL", val |-> ToLong(addr)]
        BY <1>1, <2>3, <2>4
    <2>6. w.type = "IVAL" /\ w.val = ToLong(addr)
        BY <2>5
    <2>7. addr \in Nat
        BY <1>0, <2>4, CommandsAssumption
    <2>8. Meant(word) = addr
        BY <1>4 DEF Meant
    <2> HIDE DEF w, addr
    <2>9. w.val \in Int
        BY <1>0, <2>6, <2>7 DEF ToLong
    <2>10. ASSUME Plain(word)
           PROVE  AsDouble(w) = addr
        <3>1. addr <= DoubleExact
            BY <2>8, <2>10 DEF Plain, Exact
        <3>2. ToLong(addr) = addr
            BY <1>0, <2>7, <3>1 DEF ToLong
        <3>3. ToDouble(addr) = addr
            BY <2>7, <3>1, SmallIsDouble
        <3> QED
            BY <2>6, <3>2, <3>3 DEF AsDouble
    <2> QED
        BY <2>7, <2>8, <2>9, <2>10 DEF WordMeans, w
<1>5. CASE word.k # "sym" /\ parse_int(word).ok
    <2>1. word.k = "int" /\ IsDigits(word.base, word.digits)
        BY <1>3, <1>5 DEF parse_int
    <2>2. parse_int(word).val = Number(word.base, word.digits)
        <3>1. parse_int(word) # NoParse
            BY <1>3, <1>5
        <3>2. parse_int(word) = [ok |-> TRUE, val |-> Number(word.base, word.digits)]
            BY <3>1 DEF parse_int
        <3> QED
            BY <3>2
    <2>3. v = [type |-> "IVAL", val |-> parse_int(word).val]
        BY <1>2, <1>5
    <2>4. v.type = "IVAL" /\ v.val = Number(word.base, word.digits)
        BY <2>2, <2>3
    <2> HIDE DEF v
    <2>5. w = v
        BY <1>1, <2>4
    <2> DEFINE base == word.base
               digits == word.digits
    <2>6. base \in Nat \ {0} /\ digits \in Seq(Nat)
        BY <2>1 DEF IsWord
    <2> HIDE DEF base, digits
    <2>7. Number(base, digits) \in Nat /\ Number(base, digits) = Places(base, Reverse(digits))
        BY <2>6, WordReads
    <2>8. ~word.neg => Meant(word) = Places(base, Reverse(digits))
        BY <1>5, <2>1 DEF Meant, TypedValue, base, digits
    <2>9. w.type = "IVAL" /\ w.val = Number(base, digits)
        BY <2>4, <2>5 DEF base, digits
    <2> HIDE DEF w
    <2>10. ASSUME Plain(word)
           PROVE  Meant(word) \in Nat /\ AsDouble(w) = Meant(word)
        <3>1. Meant(word) = w.val /\ w.val \in Nat
            BY <1>5, <2>7, <2>8, <2>9, <2>10 DEF Plain, NoMinus
        <3>2. ToDouble(w.val) = w.val
            BY <2>10, <3>1, SmallIsDouble DEF Plain, Exact
        <3> QED
            BY <2>9, <3>1, <3>2 DEF AsDouble
    <2> QED
        BY <2>7, <2>9, <2>10 DEF WordMeans, w
<1>6. CASE word.k # "sym" /\ ~parse_int(word).ok /\ parse_double(word).ok
    <2> DEFINE base == IF word.base = 16 THEN 16 ELSE 10
               digits == word.digits
               size == Nearest(Number(base, digits))
    <2>1. parse_double(word) # NoParse
        BY <1>3, <1>6
    <2>2. /\ word.k = "int" /\ IsDigits(base, digits)
          /\ parse_double(word) = [ok |-> TRUE, val |-> IF word.neg THEN -size ELSE size]
        BY <2>1, Zenon DEF parse_double
    <2>3. parse_double(word).val = IF word.neg THEN -size ELSE size
        BY <2>2
    <2>4. v = [type |-> "DVAL", val |-> parse_double(word).val]
        BY <1>2, <1>6
    <2>5. v.type = "DVAL" /\ v.val = parse_double(word).val
        BY <2>4
    <2> HIDE DEF v
    <2>6. w = v
        BY <1>1, <2>5
    <2>7. w.type = "DVAL" /\ (~word.neg => w.val = size)
        BY <2>3, <2>5, <2>6
    <2> HIDE DEF w, size
    <2>8. digits \in Seq(Nat) /\ word.base \in Nat \ {0} /\ base \in Nat \ {0}
        BY <2>2 DEF IsWord
    <2>9. ASSUME Plain(word)
          PROVE  Meant(word) \in Nat /\ AsDouble(w) = Meant(word)
        <3>1. ~word.neg /\ Meant(word) <= DoubleExact
            BY <1>6, <2>9 DEF Plain, NoMinus, Exact
        <3>2. ~IsDigits(word.base, digits)
            <4> SUFFICES ASSUME IsDigits(word.base, digits)
                         PROVE  FALSE
                OBVIOUS
            <4> DEFINE n == Number(word.base, digits)
            <4>1. n \in Nat /\ n = Places(word.base, Reverse(digits))
                <5> HIDE DEF digits
                <5> QED
                    BY <2>8, WordReads
            <4>2. Meant(word) = n
                BY <1>6, <3>1, <4>1 DEF Meant, TypedValue
            <4>3. ~(n <= LongMax)
                <5> SUFFICES ASSUME n <= LongMax
                             PROVE  FALSE
                    OBVIOUS
                <5>1. parse_int(word) = [ok |-> TRUE, val |-> n]
                    BY <2>2 DEF parse_int
                <5> QED
                    BY <1>6, <5>1
            <4> HIDE DEF n
            <4> QED
                BY <1>0, <3>1, <4>1, <4>2, <4>3
        <3>3. word.base # 16 /\ base = 10
            BY <2>2, <3>2
        <3> HIDE DEF digits
        <3>4. Number(10, digits) \in Nat /\ Number(10, digits) = Places(10, Reverse(digits))
            BY <2>8, WordReads
        <3>5. Meant(word) = Places(10, Reverse(digits))
            BY <1>6, <3>1, <3>2 DEF Meant, TypedValue, digits
        <3>6. size = Number(10, digits)
            BY <3>1, <3>3, <3>4, <3>5, SmallIsDouble DEF size
        <3> QED
            BY <2>7, <3>1, <3>4, <3>5, <3>6 DEF AsDouble
    <2> QED
        BY <2>7, <2>9 DEF WordMeans, w
<1>7. CASE word.k # "sym" /\ ~parse_int(word).ok /\ ~parse_double(word).ok
    <2>1. v = [type |-> "ERR", val |-> 0]
        BY <1>2, <1>7
    <2>2. v.type = "ERR"
        BY <2>1
    <2> HIDE DEF v
    <2>3. w = v
        BY <1>1, <2>2
    <2> QED
        BY <2>2, <2>3
<1> QED
    BY <1>4, <1>5, <1>6, <1>7

-----------------------------------------------------------------------------
(* Registers and memory hold bytes.                                        *)
HoldBytes == vmReg \in [Reg -> Val] /\ mem \in [Addr -> Byte]

(* The buffers of a command are what load_val makes of its words.          *)
LEMMA BuffersLoad ==
    ASSUME NEW words, NEW ty, NEW bufs \in Buffers(words, ty), NEW i \in DOMAIN words
    PROVE  /\ bufs[i] \in load_val(resolve_val(words[i]), ty)
           /\ bufs[i] \in [1 .. type_desc_size(ty) -> Byte]
<1>1. bufs[i] \in load_val(resolve_val(words[i]), ty)
    BY DEF Buffers
<1> QED
    BY <1>1, LoadType

(* What a register holds after an assignment of sreg.                      *)
AssignedBytes(buf, ty, junk) ==
    [b \in 1 .. RegSize |-> IF b <= type_desc_size(ty) THEN buf[b] ELSE junk[b]]

(* These are bytes.                                                        *)
LEMMA AssignedType ==
    ASSUME NEW ty \in TypeArgs, NEW buf \in [1 .. type_desc_size(ty) -> Byte],
           NEW junk \in [type_desc_size(ty) + 1 .. RegSize -> Byte]
    PROVE  AssignedBytes(buf, ty, junk) \in Val
<1> DEFINE size == type_desc_size(ty)
<1>0. size \in Nat /\ RegSize \in Nat
    BY TypeSizes, CommandsAssumption
<1>1. buf \in [1 .. size -> Byte]
    OBVIOUS
<1> HIDE DEF size
<1>2. ASSUME NEW b \in 1 .. RegSize
      PROVE  (IF b <= size THEN buf[b] ELSE junk[b]) \in Byte
    <2>1. CASE b <= size
        <3>1. b \in 1 .. size
            BY <1>0, <2>1
        <3>2. buf[b] \in Byte
            BY <1>1, <3>1, Zenon
        <3> QED
            BY <2>1, <3>2
    <2>2. CASE ~(b <= size)
        <3>1. b \in size + 1 .. RegSize
            BY <1>0, <2>2
        <3> QED
            BY <2>2, <3>1 DEF size
    <2> QED
        BY <2>1, <2>2
<1>3. AssignedBytes(buf, ty, junk)
      = [b \in 1 .. RegSize |-> IF b <= size THEN buf[b] ELSE junk[b]]
    BY DEF AssignedBytes, size
<1> QED
    BY <1>2, <1>3, CommandsAssumption

(* Word i is the last one for register r, which has its value.             *)
EndsWith(args, bufs, ty, junk, n, r, i) ==
    /\ LastOf(args, n, r, i)
    /\ Assigned(args, bufs, ty, junk, n)[r] = AssignedBytes(bufs[i], ty, junk)

(* A register has the value of the last word that was assigned to it.      *)
LEMMA AssignedLast ==
    ASSUME NEW args, NEW bufs, NEW ty, NEW junk, NEW n \in Nat,
           NEW r \in {args[i].reg : i \in 1 .. n}
    PROVE  \E i \in 1 .. n : EndsWith(args, bufs, ty, junk, n, r, i)
<1> DEFINE T == {i \in 1 .. n : args[i].reg = r}
           last == CHOOSE i \in 1 .. n : LastOf(args, n, r, i)
<1>1. T \in SUBSET Nat /\ T # {} /\ \A i \in T : i <= n
    OBVIOUS
<1>2. PICK k \in T : \A i \in T : k >= i
    <2> HIDE DEF T
    <2> QED
        BY <1>1, GreatestNumber
<1>3. \A j \in k + 1 .. n : j \in 1 .. n /\ ~(k >= j)
    BY <1>2
<1>4. LastOf(args, n, r, k)
    BY <1>2, <1>3 DEF LastOf
<1>5. last \in 1 .. n /\ LastOf(args, n, r, last)
    BY <1>2, <1>4
<1>6. Assigned(args, bufs, ty, junk, n)[r] = AssignedBytes(bufs[last], ty, junk)
    BY DEF Assigned, AssignedBytes
<1> HIDE DEF last
<1> QED
    BY <1>5, <1>6 DEF EndsWith

(* What sreg writes are bytes.                                             *)
LEMMA SregWritesBytes ==
    ASSUME HoldBytes, NEW ty \in TypeArgs, NEW st \in StoreArgs,
           SregWrites(ty, st[1], st[2])
    PROVE  HoldBytes'
<1> DEFINE args == st[1]
           words == st[2]
<1>1. PICK bufs \in Buffers(words, ty),
           junk \in [type_desc_size(ty) + 1 .. RegSize -> Byte] :
         StoreRegs(ty, args, words, bufs, junk)
    BY DEF SregWrites
<1>2. PICK n \in 0 .. Len(args) :
         vmReg' = Merge(vmReg, Assigned(args, bufs, ty, junk, n))
    BY <1>1, Zenon DEF StoreRegs
<1>3. Len(args) \in Nat /\ Len(words) = Len(args) /\ DOMAIN words = 1 .. Len(words)
    BY CommandsAssumption
<1>4. n \in Nat /\ \A i \in 1 .. n : i \in DOMAIN words
    BY <1>2, <1>3
<1> DEFINE vals == Assigned(args, bufs, ty, junk, n)
<1>5. DOMAIN vals = {args[i].reg : i \in 1 .. n}
    BY DEF Assigned
<1>6. ASSUME NEW r \in DOMAIN vals
      PROVE  vals[r] \in Val
    <2>1. PICK i \in 1 .. n : vals[r] = AssignedBytes(bufs[i], ty, junk)
        <3> HIDE DEF args, words
        <3> QED
            BY <1>4, <1>5, <1>6, AssignedLast DEF EndsWith
    <2>2. bufs[i] \in [1 .. type_desc_size(ty) -> Byte]
        <3> HIDE DEF words
        <3> QED
            BY <1>4, BuffersLoad
    <2> HIDE DEF vals, words
    <2> QED
        BY <2>1, <2>2, AssignedType
<1> HIDE DEF vals
<1>7. vmReg' = [r \in Reg |-> IF r \in DOMAIN vals THEN vals[r] ELSE vmReg[r]]
    BY <1>2 DEF Merge, vals
<1>8. vmReg' \in [Reg -> Val]
    BY <1>6, <1>7 DEF HoldBytes
<1> QED
    BY <1>8 DEF HoldBytes, SregWrites

(* Address a is byte b of item i; and how smem finds the item and the byte *)
(* of an address.                                                          *)
IsByteOf(a, addr, len, i, b) == a = addr + (i - 1) * len + b - 1

FindsByte(a, addr, len, n, i, b) ==
    /\ a \in addr .. addr + n * len - 1
    /\ (a - addr) \div len + 1 = i /\ ((a - addr) % len) + 1 = b

(* It finds them.                                                          *)
LEMMA ItemIndex ==
    ASSUME NEW len \in Nat \ {0}, NEW addr \in Nat, NEW n \in Nat,
           NEW i \in 1 .. n, NEW b \in 1 .. len, NEW a, IsByteOf(a, addr, len, i, b)
    PROVE  FindsByte(a, addr, len, n, i, b)
<1>0. a = addr + (i - 1) * len + b - 1
    BY DEF IsByteOf
<1> DEFINE k == i - 1
           c == b - 1
<1>1. k \in Nat /\ c \in 0 .. len - 1 /\ k <= n - 1
    OBVIOUS
<1>2. a - addr = len * k + c
    BY <1>0
<1> DEFINE d == a - addr
<1>3. d = len * k + c
    BY <1>2
<1> HIDE DEF d
<1>4. d \div len = k /\ d % len = c
    <2> HIDE DEF k, c
    <2> QED
        BY <1>1, <1>3, DivModUnique
<1>5. len * k <= len * (n - 1) /\ len * (n - 1) = n * len - len /\ len * k \in Nat
    <2> HIDE DEF k
    <2> QED
        BY <1>1
<1>6. a \in Int /\ d = a - addr
    BY <1>0 DEF d
<1>7. d \in 0 .. n * len - 1
    <2> HIDE DEF k, c
    <2> QED
        BY <1>1, <1>3, <1>5
<1>8. a \in addr .. addr + n * len - 1
    <2>1. n * len \in Nat
        OBVIOUS
    <2> QED
        BY <1>6, <1>7, <2>1
<1> QED
    BY <1>4, <1>8 DEF d, k, c, FindsByte

(* Inside a range of items every address is a byte of one of them.         *)
LEMMA AddressIndex ==
    ASSUME NEW len \in Nat \ {0}, NEW addr \in Nat, NEW n \in Nat,
           NEW a \in addr .. addr + n * len - 1
    PROVE  (a - addr) \div len + 1 \in 1 .. n /\ ((a - addr) % len) + 1 \in 1 .. len
<1> DEFINE d == a - addr
<1>1. d \in Nat /\ d < n * len
    <2>1. n * len \in Nat
        OBVIOUS
    <2> QED
        BY <2>1
<1> HIDE DEF d
<1> DEFINE q == d \div len
           c == d % len
<1>2. q \in Nat /\ c \in 0 .. len - 1 /\ d = len * q + c
    BY <1>1, DivMod
<1> HIDE DEF q, c
<1>3. ~(q >= n)
    <2> SUFFICES ASSUME q >= n
                 PROVE  FALSE
        OBVIOUS
    <2>1. len * q >= len * n /\ len * n = n * len
        BY <1>2
    <2> QED
        BY <1>1, <1>2, <2>1
<1>4. q + 1 \in 1 .. n /\ c + 1 \in 1 .. len
    BY <1>2, <1>3
<1> QED
    BY <1>4 DEF q, c, d

(* The address of a command is a number.                                   *)
LEMMA AddressType ==
    ASSUME NEW at \in AddrArgs, AddressOK(at)
    PROVE  resolve_val(at).val \in Nat
<1>1. IsWord(at)
    BY CommandsAssumption
<1>2. resolve_val(at).type = "IVAL"
    BY DEF AddressOK
<1>3. WordMeans(at)
    BY <1>1, <1>2, ResolvedMeans
<1>4. resolve_val(at).val \in Int /\ resolve_val(at).val >= 0
    BY <1>2, <1>3 DEF WordMeans, AddressOK
<1> QED
    BY <1>4

(* A smem puts in place, item by item, the bytes of its words, and leaves  *)
(* the rest of the memory as it was.                                       *)
LEMMA SmemItems ==
    ASSUME HoldBytes, NEW ty \in TypeArgs, NEW at \in AddrArgs, NEW st \in StoreArgs,
           cmd_smem(ty, at, st[2]), ~Throws
    PROVE  /\ HoldBytes'
           /\ out'.ty = ty /\ out'.vals = st[2] /\ DOMAIN st[2] = 1 .. Len(st[2])
           /\ \A i \in DOMAIN st[2] :
                 /\ IsWord(st[2][i]) /\ resolve_val(st[2][i]).type # "ERR"
                 /\ Item(out.at[1], i, out.ty)' \in load_val(resolve_val(st[2][i]), ty)
<1> DEFINE words == st[2]
           len == type_desc_size(ty)
           addr == resolve_val(at).val
           n == Len(words)
<1>1. /\ AddressOK(at) /\ SymbolsKnown(words)
      /\ addr + n * len <= MemSize
      /\ \E bufs \in Buffers(words, ty) :
            mem' = [a \in Addr |->
                       IF a \in addr .. addr + n * len - 1
                       THEN bufs[(a - addr) \div len + 1][((a - addr) % len) + 1]
                       ELSE mem[a]]
      /\ out' = [cmd |-> "smem", ty |-> ty, at |-> <<addr>>, vals |-> words]
    BY Zenon DEF cmd_smem
<1>0. PICK bufs \in Buffers(words, ty) :
         mem' = [a \in Addr |->
                    IF a \in addr .. addr + n * len - 1
                    THEN bufs[(a - addr) \div len + 1][((a - addr) % len) + 1]
                    ELSE mem[a]]
    BY <1>1, Zenon
<1> DEFINE buf(i) == bufs[i]
<1>2. out'.ty = ty /\ out'.vals = words /\ out'.at[1] = addr
    BY <1>1
<1>3. n \in Nat /\ DOMAIN words = 1 .. n /\ \A i \in 1 .. n : IsWord(words[i])
    BY CommandsAssumption
<1>4. addr \in Nat
    BY <1>1, AddressType
<1>5. len \in Nat \ {0} /\ MemSize \in Nat
    BY TypeSizes, CommandsAssumption
<1>6. \A i \in 1 .. n : resolve_val(words[i]).type # "ERR"
    BY <1>1, <1>3 DEF SymbolsKnown
<1>7. ASSUME NEW i \in 1 .. n
      PROVE  buf(i) \in [1 .. len -> Byte]
    <2> HIDE DEF words
    <2> QED
        BY <1>3, BuffersLoad
<1>8. UNCHANGED vmReg
    BY SmemStores DEF serverVars
<1> HIDE DEF buf, words, len, addr, n
<1>9. ASSUME NEW a \in Addr, a \in addr .. addr + n * len - 1
      PROVE  buf((a - addr) \div len + 1)[((a - addr) % len) + 1] \in Byte
    <2> DEFINE i == (a - addr) \div len + 1
               b == ((a - addr) % len) + 1
    <2>1. i \in 1 .. n /\ b \in 1 .. len
        BY <1>3, <1>4, <1>5, <1>9, AddressIndex
    <2> HIDE DEF i, b
    <2>2. buf(i)[b] \in Byte
        BY <1>7, <2>1
    <2> QED
        BY <2>2 DEF i, b
<1>10. mem' \in [Addr -> Byte]
    BY <1>0, <1>9, Zenon DEF HoldBytes, buf
<1>11. HoldBytes'
    BY <1>8, <1>10 DEF HoldBytes
<1>12. ASSUME NEW i \in 1 .. n
       PROVE  Item(out.at[1], i, out.ty)' = buf(i)
    <2>1. ASSUME NEW b \in 1 .. len
          PROVE  mem'[addr + (i - 1) * len + b - 1] = buf(i)[b]
        <3> DEFINE a == addr + (i - 1) * len + b - 1
        <3>0. IsByteOf(a, addr, len, i, b)
            BY DEF IsByteOf
        <3> HIDE DEF a
        <3>1. /\ a \in addr .. addr + n * len - 1
              /\ (a - addr) \div len + 1 = i /\ ((a - addr) % len) + 1 = b
            <4>1. FindsByte(a, addr, len, n, i, b)
                BY <1>3, <1>4, <1>5, <3>0, ItemIndex
            <4> QED
                BY <4>1, Zenon DEF FindsByte
        <3>2. a \in Addr
            <4>1. n * len \in Nat
                BY <1>3, <1>5
            <4> QED
                BY <1>1, <1>4, <1>5, <3>1, <4>1 DEF Addr
        <3>3. mem'[a] = buf((a - addr) \div len + 1)[((a - addr) % len) + 1]
            BY <1>0, <3>1, <3>2 DEF buf
        <3>4. mem'[a] = buf(i)[b]
            BY <3>1, <3>3
        <3> QED
            BY <3>4 DEF a
    <2>2. Item(out.at[1], i, out.ty)'
          = [b \in 1 .. len |-> mem'[addr + (i - 1) * len + b - 1]]
        BY <1>2 DEF Item, len
    <2>3. buf(i) = [b \in 1 .. len |-> buf(i)[b]]
        BY <1>7
    <2> QED
        BY <2>1, <2>2, <2>3
<1>13. \A i \in 1 .. n : buf(i) \in load_val(resolve_val(words[i]), ty)
    BY <1>3, BuffersLoad DEF buf
<1> QED
    BY <1>2, <1>3, <1>6, <1>11, <1>12, <1>13 DEF words, n

(* Registers and memory hold bytes for ever.                               *)
LEMMA BytesHeld == Spec => []HoldBytes
<1>1. Init => HoldBytes
    BY DEF Init, DBClientInit, HoldBytes
<1>2. ASSUME HoldBytes, [Next]_cmdVars
      PROVE  HoldBytes'
    <2>1. CASE UNCHANGED <<vmReg, mem>>
        BY <1>2, <2>1 DEF HoldBytes
    <2>2. CASE Prompt /\ FailsEarly
        BY <2>1, <2>2 DEF FailsEarly
    <2>3. CASE Shows \/ UNCHANGED cmdVars
        BY <2>1, <2>3 DEF Shows, serverUnchanged, serverVars, cmdVars, dbcVars
    <2>4. CASE Between
        <3>1. CASE ProgramRuns /\ mem' \in [Addr -> Byte]
            BY <3>1 DEF ProgramRuns, HoldBytes
        <3>2. CASE (connect \/ check_stopped) /\ UNCHANGED mem
            BY <2>1, <3>2 DEF connect, check_stopped, serverVars
        <3> QED
            BY <2>4, <3>1, <3>2 DEF Between
    <2>5. CASE Prompt /\ resumeProgram /\ out' = Quiet /\ UNCHANGED <<mem, bkps>>
        BY <2>1, <2>5 DEF resumeProgram
    <2>6. ASSUME NEW ty \in TypeArgs, NEW args \in RegArgs, PregReads(ty, args)
          PROVE  HoldBytes'
        BY <2>1, <2>6 DEF PregReads
    <2>7. ASSUME NEW ty \in TypeArgs, NEW st \in StoreArgs, SregWrites(ty, st[1], st[2])
          PROVE  HoldBytes'
        BY <1>2, <2>7, SregWritesBytes
    <2>8. ASSUME NEW ty \in TypeArgs, NEW at \in AddrArgs, NEW items \in 1 .. 2,
                 cmd_pmem(ty, at, items), ~Throws
          PROVE  HoldBytes'
        BY <2>1, <2>8 DEF cmd_pmem, serverUnchanged, serverVars
    <2>9. ASSUME NEW ty \in TypeArgs, NEW at \in AddrArgs, NEW st \in StoreArgs,
                 cmd_smem(ty, at, st[2]), ~Throws
          PROVE  HoldBytes'
        BY <1>2, <2>9, SmemItems
    <2>10. CASE Prompt /\ out' = Quiet /\ UNCHANGED <<clientVars, serverVars, lapses, mem>>
        BY <2>1, <2>10 DEF serverVars
    <2> QED
        BY <1>2, <2>2, <2>3, <2>4, <2>5, <2>6, <2>7, <2>8, <2>9, <2>10, CommandSteps
<1> QED
    BY <1>1, <1>2, PTL DEF Spec

-----------------------------------------------------------------------------
(* What is printed is the truth.                                           *)

(* The first bytes of a register.                                          *)
LEMMA FirstBytes ==
    ASSUME NEW v \in Val, NEW size \in Nat, size <= RegSize
    PROVE  /\ SubSeq(v, 1, size) = [b \in 1 .. size |-> v[b]]
           /\ SubSeq(v, 1, size) \in [1 .. size -> Byte]
<1>1. RegSize \in Nat /\ v \in [1 .. RegSize -> Byte]
    BY CommandsAssumption
<1>2. v \in Seq(Byte) /\ Len(v) = RegSize
    BY <1>1, FunctionIsSeq
<1>3. \A b \in 1 .. size : b \in 1 .. RegSize
    BY <1>1
<1>4. SubSeq(v, 1, size) = [b \in 1 .. size |-> v[b]]
    BY <1>1, <1>2, <1>3
<1>5. \A b \in 1 .. size : v[b] \in Byte
    BY <1>1, <1>3
<1> QED
    BY <1>4, <1>5

(* A preg prints the numbers that its registers hold.                      *)
LEMMA PregDenotes ==
    ASSUME CommandInv, HoldBytes', NEW ty \in TypeArgs, NEW args \in RegArgs,
           PregReads(ty, args)
    PROVE  PregTruth'
<1> DEFINE size == type_desc_size(ty)
<1>1. out'.cmd = "preg" /\ out'.ty = ty /\ out'.at = args
    BY DEF PregReads
<1> SUFFICES ASSUME lapses' = {}, size <= RegSize, NEW i \in DOMAIN args
             PROVE  Denotes(out'.vals[i], SubSeq(vmReg'[args[i].reg], 1, size), ty)
    BY <1>1 DEF PregTruth
<1> DEFINE v == vmReg'[args[i].reg]
<1>2. v \in Val
    BY DEF HoldBytes, PregReads, Ids
<1>3. out'.vals[i] = print_val([b \in 1 .. size |-> v[b]], ty)
    <2>1. PrintsVMBytes'
        BY PregPrints
    <2> QED
        BY <1>1, <2>1 DEF PrintsVMBytes
<1>4. size \in Nat
    BY TypeSizes
<1> HIDE DEF v
<1>5. /\ SubSeq(v, 1, size) = [b \in 1 .. size |-> v[b]]
      /\ SubSeq(v, 1, size) \in [1 .. size -> Byte]
    <2> HIDE DEF size
    <2> QED
        BY <1>2, <1>4, FirstBytes DEF size
<1> DEFINE bytes == SubSeq(v, 1, size)
<1>6. bytes \in [1 .. type_desc_size(ty) -> Byte] /\ out'.vals[i] = print_val(bytes, ty)
    BY <1>3, <1>5
<1> HIDE DEF bytes
<1>7. Denotes(print_val(bytes, ty), bytes, ty)
    BY <1>6, PrintDenotes
<1> QED
    BY <1>6, <1>7 DEF bytes, v

(* A pmem prints the numbers that the memory holds.                        *)
LEMMA PmemDenotes ==
    ASSUME HoldBytes, NEW ty \in TypeArgs, NEW at \in AddrArgs, NEW items \in 1 .. 2,
           cmd_pmem(ty, at, items), ~Throws
    PROVE  PmemTruth'
<1> DEFINE len == type_desc_size(ty)
           addr == resolve_val(at).val
           cells == [a \in 1 .. MemSize |-> mem[a - 1]]
           part(i) == SubSeq(cells, addr + (i - 1) * len + 1, addr + i * len)
<1>1. /\ AddressOK(at) /\ addr + items * len <= MemSize
      /\ out' = [cmd |-> "pmem", ty |-> ty, at |-> <<addr>>,
                 vals |-> [i \in 1 .. items |-> print_val(part(i), ty)]]
      /\ UNCHANGED mem
    BY DEF cmd_pmem, serverUnchanged
<1>2. /\ out'.ty = ty /\ out'.at[1] = addr
      /\ out'.vals = [i \in 1 .. items |-> print_val(part(i), ty)]
    BY <1>1
<1>3. addr \in Nat
    BY <1>1, AddressType
<1>4. len \in Nat \ {0} /\ MemSize \in Nat /\ items \in Nat
    BY TypeSizes, CommandsAssumption
<1>5. cells \in [1 .. MemSize -> Byte]
    BY <1>4 DEF HoldBytes, Addr
<1>6. cells \in Seq(Byte) /\ Len(cells) = MemSize
    <2> HIDE DEF cells
    <2> QED
        BY <1>4, <1>5, FunctionIsSeq
<1>7. ASSUME NEW i \in 1 .. items
      PROVE  part(i) \in [1 .. len -> Byte] /\ part(i) = Item(out.at[1], i, out.ty)'
    <2> DEFINE low == addr + (i - 1) * len
    <2>1. low \in Nat /\ addr + i * len = low + len /\ low + len <= MemSize
        <3> HIDE DEF len, addr
        <3>1. (i - 1) * len \in Nat /\ i * len = (i - 1) * len + len
            BY <1>4
        <3>2. i * len <= items * len
            BY <1>4
        <3> QED
            BY <1>1, <1>3, <1>4, <3>1, <3>2
    <2>2. Item(out.at[1], i, out.ty)' = [b \in 1 .. len |-> mem[low + b - 1]]
        BY <1>1, <1>2 DEF Item
    <2>3. part(i) = SubSeq(cells, low + 1, low + len)
        BY <2>1
    <2> HIDE DEF low, len, part
    <2>4. \A b \in 1 .. len : low + b \in 1 .. MemSize /\ cells[low + b] = mem[low + b - 1]
        BY <1>4, <2>1
    <2> HIDE DEF cells
    <2>5. SubSeq(cells, low + 1, low + len) = [b \in 1 .. len |-> cells[low + b]]
        <3>1. /\ low + 1 \in 1 .. MemSize + 1 /\ low + len \in low .. MemSize
              /\ (low + len) - (low + 1) + 1 = len
            BY <1>4, <2>1
        <3> QED
            BY <1>4, <1>6, <2>1, <3>1
    <2>6. part(i) = [b \in 1 .. len |-> mem[low + b - 1]]
        BY <2>3, <2>4, <2>5
    <2>7. \A b \in 1 .. len : mem[low + b - 1] \in Byte
        BY <1>5, <2>4
    <2> QED
        BY <2>2, <2>6, <2>7
<1>8. ASSUME NEW i \in 1 .. items
      PROVE  Denotes(print_val(part(i), ty), part(i), ty)
    <2>1. part(i) \in [1 .. type_desc_size(ty) -> Byte]
        BY <1>7
    <2> HIDE DEF part
    <2> QED
        BY <2>1, PrintDenotes
<1> HIDE DEF part, addr, len, cells
<1>9. DOMAIN out'.vals = 1 .. items /\ \A i \in 1 .. items : out'.vals[i] = print_val(part(i), ty)
    BY <1>2
<1>10. ASSUME NEW i \in 1 .. items
       PROVE  Denotes(out'.vals[i], Item(out.at[1], i, out.ty)', out'.ty)
    BY <1>2, <1>7, <1>8, <1>9
<1> QED
    BY <1>9, <1>10 DEF PmemTruth

(* For any registers, memory, size of a byte and types that fit, what preg *)
(* and pmem print are the numbers that the VM holds while the user reads   *)
(* them (simple-cli-client.cc:130-163, 380-413, 490-517).                  *)
THEOREM CommandsPrintTruth == Spec => []PrintsTruth
<1>1. Init => PrintsTruth
    BY Shown DEF Init, PrintsTruth, PregTruth, PmemTruth
<1>2. ASSUME CommandInv, HoldBytes, HoldBytes', PrintsTruth, [Next]_cmdVars
      PROVE  PrintsTruth'
    <2>1. CASE out'.cmd \notin {"preg", "pmem"}
        BY <2>1 DEF PrintsTruth, PregTruth, PmemTruth
    <2>2. CASE UNCHANGED <<out, vmReg, mem, lapses>>
        BY <1>2, <2>2 DEF PrintsTruth, PregTruth, PmemTruth, Item
    <2>3. CASE \E ty \in TypeArgs, args \in RegArgs : PregReads(ty, args)
        <3>1. PregTruth'
            BY <1>2, <2>3, PregDenotes
        <3>2. PmemTruth'
            BY <2>3, ShowsCommand DEF PmemTruth
        <3> QED
            BY <3>1, <3>2 DEF PrintsTruth
    <2>4. CASE \E ty \in TypeArgs, at \in AddrArgs, items \in 1 .. 2 :
                  cmd_pmem(ty, at, items) /\ ~Throws
        <3>1. PmemTruth'
            BY <1>2, <2>4, PmemDenotes
        <3>2. PregTruth'
            BY <2>4, ShowsCommand DEF PregTruth
        <3> QED
            BY <3>1, <3>2 DEF PrintsTruth
    <2> QED
        BY <1>2, <2>1, <2>2, <2>3, <2>4, ShownSteps, ShowsCommand
<1> QED
    BY <1>1, <1>2, CommandInvariant, BytesHeld, PTL DEF Spec

-----------------------------------------------------------------------------
(* What is stored is what was typed.                                       *)

(* The bytes of a plain word are those of what it means.                   *)
LEMMA LoadHolds ==
    ASSUME NEW ty \in TypeArgs, NEW word, IsWord(word), resolve_val(word).type # "ERR",
           Plain(word), Fits(Meant(word), ty), NEW d \in load_val(resolve_val(word), ty)
    PROVE  Denotes(Meant(word), d, ty)
<1>1. Meant(word) \in Nat /\ AsDouble(resolve_val(word)) = Meant(word)
    BY ResolvedMeans DEF WordMeans
<1> QED
    BY <1>1, LoadDenotes

(* A sreg that shows no error left every register with its last value.     *)
LEMMA SregHolding ==
    ASSUME NEW ty \in TypeArgs, NEW st \in StoreArgs, SregWrites(ty, st[1], st[2]),
           out'.cmd = "sreg"
    PROVE  SregHolds(Plain)'
<1> DEFINE args == st[1]
           words == st[2]
           N == Len(args)
<1>1. PICK bufs, junk :
         bufs \in Buffers(words, ty) /\ StoreRegs(ty, args, words, bufs, junk)
    BY DEF SregWrites
<1>2. PICK n \in 0 .. N :
         /\ vmReg' = Merge(vmReg, Assigned(args, bufs, ty, junk, n))
         /\ aborted' = (n = N /\ ~(n = N /\ type_desc_size(ty) = RegSize))
         /\ out' = CASE n < N -> [Error EXCEPT !.at = args]
                     [] aborted' -> Quiet
                     [] OTHER -> [cmd |-> "sreg", ty |-> ty, at |-> args, vals |-> words]
    BY <1>1, Zenon DEF StoreRegs
<1>3. N \in Nat /\ Len(words) = N /\ DOMAIN words = 1 .. N /\ DOMAIN args = 1 .. N
    BY CommandsAssumption
<1>4. n = N
    <2>1. CASE n < N
        <3>1. out' = [Error EXCEPT !.at = args]
            <4>1. n # N
                BY <1>3, <2>1
            <4> QED
                BY <1>2, <2>1, <4>1
        <3>2. [Error EXCEPT !.at = args].cmd = "error"
            BY DEF Error, Quiet
        <3> QED
            BY <3>1, <3>2
    <2> QED
        BY <1>3, <2>1
<1>5. type_desc_size(ty) = RegSize
    <2>1. CASE type_desc_size(ty) # RegSize
        <3>1. ~(n < N)
            BY <1>3, <1>4
        <3>2. aborted'
            BY <1>2, <1>4, <2>1, Zenon
        <3>3. out' = Quiet
            BY <1>2, <3>1, <3>2, Zenon
        <3> QED
            BY <3>3, Shown
    <2> QED
        BY <2>1
<1>6. out' = [cmd |-> "sreg", ty |-> ty, at |-> args, vals |-> words]
    <2>1. ~(n < N)
        BY <1>3, <1>4
    <2>2. ~aborted'
        BY <1>2, <1>4, <1>5, Zenon
    <2> QED
        BY <1>2, <2>1, <2>2, Zenon
<1>7. out'.ty = ty /\ out'.at = args /\ out'.vals = words
    BY <1>6
<1>8. ASSUME NEW r \in Ids(args)
      PROVE  \E i \in DOMAIN args :
                /\ LastOf(args, N, r, i)
                /\ Plain(words[i]) /\ Fits(Meant(words[i]), ty) =>
                      Denotes(Meant(words[i]), vmReg'[r], ty)
    <2> DEFINE vals == Assigned(args, bufs, ty, junk, N)
    <2>1. r \in {args[i].reg : i \in 1 .. N} /\ r \in Reg
        BY <1>3 DEF Ids, SregWrites
    <2>2. PICK i \in 1 .. N : LastOf(args, N, r, i)
                             /\ vals[r] = AssignedBytes(bufs[i], ty, junk)
        <3> HIDE DEF args, words, N
        <3>1. \E i \in 1 .. N : EndsWith(args, bufs, ty, junk, N, r, i)
            BY <1>3, <2>1, AssignedLast
        <3> QED
            BY <3>1, Zenon DEF EndsWith
    <2>3. vmReg'[r] = vals[r]
        <3>1. DOMAIN vals = {args[j].reg : j \in 1 .. N}
            BY DEF Assigned
        <3>2. vmReg' = Merge(vmReg, vals)
            BY <1>2, <1>4
        <3> HIDE DEF vals
        <3> QED
            BY <2>1, <3>1, <3>2 DEF Merge
    <2> DEFINE word == words[i]
               buf == bufs[i]
    <2>4. IsWord(word) /\ resolve_val(word).type # "ERR"
        BY <1>3, CommandsAssumption DEF SregWrites, SymbolsKnown
    <2>5. buf \in [1 .. RegSize -> Byte] /\ buf \in load_val(resolve_val(word), ty)
        <3> HIDE DEF words, args, N
        <3> QED
            BY <1>1, <1>3, <1>5, BuffersLoad
    <2> HIDE DEF vals, word
    <2>6. AssignedBytes(buf, ty, junk) = buf
        <3> HIDE DEF buf
        <3>1. AssignedBytes(buf, ty, junk)
              = [b \in 1 .. RegSize |-> IF b <= RegSize THEN buf[b] ELSE junk[b]]
            BY <1>5 DEF AssignedBytes
        <3>2. \A b \in 1 .. RegSize : b <= RegSize
            BY CommandsAssumption
        <3>3. [b \in 1 .. RegSize |-> IF b <= RegSize THEN buf[b] ELSE junk[b]]
              = [b \in 1 .. RegSize |-> buf[b]]
            BY <3>2
        <3> QED
            BY <2>5, <3>1, <3>3
    <2>7. Plain(word) /\ Fits(Meant(word), ty) => Denotes(Meant(word), buf, ty)
        <3> HIDE DEF buf
        <3> QED
            BY <2>4, <2>5, LoadHolds
    <2>8. vmReg'[r] = buf
        BY <2>2, <2>3, <2>6
    <2> HIDE DEF buf
    <2> QED
        BY <1>3, <2>2, <2>7, <2>8 DEF word
<1> HIDE DEF args, words
<1> QED
    BY <1>7, <1>8, Zenon DEF SregHolds

(* A smem that shows no error left every item with its value.              *)
LEMMA SmemHolding ==
    ASSUME HoldBytes, NEW ty \in TypeArgs, NEW at \in AddrArgs, NEW st \in StoreArgs,
           cmd_smem(ty, at, st[2]), ~Throws
    PROVE  SmemHolds(Plain)'
<1> DEFINE words == st[2]
<1>1. /\ out'.ty = ty /\ out'.vals = words
      /\ \A i \in DOMAIN words :
            /\ IsWord(words[i]) /\ resolve_val(words[i]).type # "ERR"
            /\ Item(out.at[1], i, out.ty)' \in load_val(resolve_val(words[i]), ty)
    BY SmemItems
<1> HIDE DEF words
<1>2. ASSUME NEW i \in DOMAIN words, Plain(words[i]), Fits(Meant(words[i]), ty)
      PROVE  Denotes(Meant(words[i]), Item(out.at[1], i, out.ty)', ty)
    BY <1>1, <1>2, LoadHolds
<1> QED
    BY <1>1, <1>2, Zenon DEF SmemHolds

(* For any registers, memory, size of a byte, precision of a double, base  *)
(* and number of digits, a sreg or smem that shows no error stored every   *)
(* plain word that is a value of the type as what it means, the last one   *)
(* of a register named twice: the detour over doubles loses nothing there, *)
(* and no word so small takes the detour over parse_double for its size    *)
(* (simple-cli-client.cc:70-128, 165-208, 415-446, 519-547).               *)
THEOREM CommandsStoreWhatWasTyped == Spec => []StoresWhatWasTyped
<1> DEFINE RegsHold == SregHolds(Plain)
           MemHolds == SmemHolds(Plain)
<1>1. Init => RegsHold /\ MemHolds
    BY Shown DEF Init, SregHolds, SmemHolds
<1>2. ASSUME CommandInv, HoldBytes, RegsHold, MemHolds, [Next]_cmdVars
      PROVE  RegsHold' /\ MemHolds'
    <2>1. out'.cmd # "sreg" => RegsHold'
        BY DEF SregHolds
    <2>2. out'.cmd # "smem" => MemHolds'
        BY DEF SmemHolds
    <2>3. CASE UNCHANGED <<out, vmReg, mem, lapses>>
        BY <1>2, <2>3 DEF SregHolds, SmemHolds, Item
    <2> HIDE DEF RegsHold, MemHolds
    <2>4. CASE out'.cmd \notin {"sreg", "smem"}
        BY <2>1, <2>2, <2>4
    <2>5. CASE \E ty \in TypeArgs, st \in StoreArgs : SregWrites(ty, st[1], st[2])
        <3>1. out'.cmd = "sreg" => RegsHold'
            BY <2>5, SregHolding DEF RegsHold
        <3>2. out'.cmd # "smem"
            BY <2>5, ShowsCommand
        <3> QED
            BY <2>1, <2>2, <3>1, <3>2
    <2>6. CASE \E ty \in TypeArgs, at \in AddrArgs, st \in StoreArgs :
                  cmd_smem(ty, at, st[2]) /\ ~Throws
        <3>1. MemHolds'
            BY <1>2, <2>6, SmemHolding DEF MemHolds
        <3>2. out'.cmd # "sreg"
            BY <2>6, ShowsCommand
        <3> QED
            BY <2>1, <3>1, <3>2
    <2> QED
        BY <1>2, <2>3, <2>4, <2>5, <2>6, ShownSteps, ShowsCommand
<1>3. RegsHold /\ MemHolds => StoresWhatWasTyped
    BY DEF StoresWhatWasTyped
<1> QED
    BY <1>1, <1>2, <1>3, CommandInvariant, BytesHeld, PTL DEF Spec

=============================================================================
